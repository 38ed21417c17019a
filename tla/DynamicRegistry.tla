-------------------------- MODULE DynamicRegistry --------------------------
(***************************************************************************)
(* The operator's registry of launched agents: a table in memory, the      *)
(* source of truth, and registry.json, from which it is loaded when the    *)
(* operator starts (apps/operator/src/store/dynamic-registry.ts).          *)
(*                                                                         *)
(* writeFile opens the file, which truncates it, and fills it; handlers    *)
(* that flush at the same time do both in any order.  Of an agent's record *)
(* only its registration and its finance are kept; disk errors are left    *)
(* out.                                                                    *)
(***************************************************************************)
EXTENDS Naturals, FiniteSets

CONSTANTS Token   \* the agents' token ids

VARIABLES cache,    \* cache: a record for each token
          disk,     \* registry.json: [ok, content]; not ok when it does not parse
          flushes,  \* the flushes that are awaited
          torn      \* history: flushes overlapped, or a crash hit one

registryVars == <<cache, disk, flushes, torn>>

\* reg numbers the registrations (0: no record), finance the stacks (0: no finance).
NoRecord == [reg |-> 0, finance |-> 0]
Record == {NoRecord} \cup [reg : Nat \ {0}, finance : Nat]
Table == [Token -> Record]
EmptyTable == [t \in Token |-> NoRecord]

Broken == [ok |-> FALSE, content |-> EmptyTable]
File(table) == [ok |-> TRUE, content |-> table]

\* dirty: another flush has filled the file since this one opened it.
Flush == [id : Nat, by : {"register", "delete", "attach", "name"}, token : Token,
          content : Table, opened : BOOLEAN, dirty : BOOLEAN]

RegistryTypeOK ==
  /\ cache \in Table
  /\ disk \in {Broken} \cup [ok : {TRUE}, content : Table]
  /\ flushes \subseteq Flush
  /\ torn \in BOOLEAN

RegistryInit == cache = EmptyTable /\ disk = File(EmptyTable) /\ flushes = {} /\ torn = FALSE

Known(t) == cache[t] # NoRecord

---------------------------------------------------------------------------
FreshId == CHOOSE n \in 1 .. Cardinality(flushes) + 1 : \A f \in flushes : f.id # n

\* A plausible slip: the attached finance stays in memory.
PutWithoutFlush(table, by, t) ==
  /\ cache' = table
  /\ flushes' = IF by = "attach" THEN flushes
                ELSE flushes \cup {[id |-> FreshId, by |-> by, token |-> t, content |-> table,
                                    opened |-> FALSE, dirty |-> FALSE]}
  /\ torn' = (torn \/ flushes # {})
  /\ UNCHANGED disk

\* registerDynamicAgent, attachFinance, attachEnsName and deleteDynamicAgent up to their await:
\* the cache is changed, and what it then holds is what the flush will write.
Put(table, by, t) ==
  /\ cache' = table
  /\ flushes' = flushes \cup {[id |-> FreshId, by |-> by, token |-> t, content |-> table,
                               opened |-> FALSE, dirty |-> FALSE]}
  /\ torn' = (torn \/ flushes # {})
  /\ UNCHANGED disk

OpenFile(f) ==
  /\ ~f.opened
  /\ flushes' = (flushes \ {f}) \cup {[f EXCEPT !.opened = TRUE]}
  /\ disk' = Broken
  /\ UNCHANGED <<cache, torn>>

\* The content goes over what another flush has put there; the rest of a longer one stays.
FillFile(f) ==
  /\ f.opened
  /\ flushes' = {IF g.opened THEN [g EXCEPT !.dirty = TRUE] ELSE g : g \in flushes \ {f}}
  /\ disk' = File(f.content) \/ (f.dirty /\ disk' = Broken)
  /\ UNCHANGED <<cache, torn>>

\* The operator dies and starts again: ensureLoaded takes a file that does not parse for an
\* empty registry.
Reload ==
  /\ cache' = disk.content
  /\ flushes' = {}
  /\ torn' = (torn \/ flushes # {})
  /\ UNCHANGED disk

---------------------------------------------------------------------------
(* The file says what the cache says whenever no flush is under way, so a restart changes     *)
(* nothing - as long as no two flushes ever overlapped and no crash ever hit one (each writer *)
(* of the cache awaits its flush).                                                            *)
FileIsCurrent == (flushes = {} /\ ~torn) => disk = File(cache)
===========================================================================
