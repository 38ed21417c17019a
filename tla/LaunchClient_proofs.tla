------------------------ MODULE LaunchClient_proofs ------------------------
(***************************************************************************)
(* Proofs about Launchpad, the registry under it and the page above it,    *)
(* for any number of agents, registrations, deletions, failed deployments, *)
(* restarts, attempts of the page and launches of others.                  *)
(***************************************************************************)
EXTENDS LaunchClient, FunctionTheorems, FiniteSetTheorems, TLAPS

\* The registry.

\* The one flush under way, if none ever overlapped, carries what is in the cache.
FlushIsCurrent ==
  ~torn => \/ flushes = {} /\ disk = File(cache)
           \/ \E f \in flushes : flushes = {f} /\ f.content = cache /\ ~f.dirty

RegistryInv == RegistryTypeOK /\ IsFiniteSet(flushes) /\ FlushIsCurrent

\* No table, in memory, on disk or on its way, has a registration that is yet to come.
NumberedTo(n, table) == \A t \in Token : table[t].reg <= n
Numbered ==
  /\ NumberedTo(registrations, cache) /\ NumberedTo(registrations, disk.content)
  /\ \A f \in flushes : NumberedTo(registrations, f.content)

\* Among more ids than flushes one is free.
LEMMA FreshIdExists ==
  ASSUME IsFiniteSet(flushes)
  PROVE  FreshId \in Nat
<1> DEFINE n == Cardinality(flushes)
           Ids == 1 .. n + 1
<1>1. n \in Nat
  BY FS_CardinalityType
<1>2. IsFiniteSet(Ids) /\ Cardinality(Ids) = n + 1
  BY <1>1, FS_Interval
<1>3. \E i \in Ids : \A f \in flushes : f.id # i
  <2> SUFFICES ASSUME \A i \in Ids : \E f \in flushes : f.id = i PROVE FALSE OBVIOUS
  <2> DEFINE g == [i \in Ids |-> CHOOSE f \in flushes : f.id = i]
  <2>1. \A i \in Ids : g[i] \in flushes /\ g[i].id = i
    OBVIOUS
  <2>2. g \in [Ids -> flushes]
    BY <2>1
  <2>3. Cardinality(flushes) < Cardinality(Ids)
    BY <1>1, <1>2
  <2> HIDE DEF g, Ids, n
  <2>4. \E i, j \in Ids : i # j /\ g[i] = g[j]
    BY <1>2, <2>2, <2>3, FS_PigeonHole
  <2> QED BY <2>1, <2>4
<1>4. FreshId \in Ids
  BY <1>3 DEF FreshId
<1> QED BY <1>1, <1>4

LEMMA PutRegistry ==
  ASSUME RegistryInv, NEW table \in Table, NEW t \in Token,
         NEW by \in {"register", "delete", "attach", "name"}, Put(table, by, t)
  PROVE  /\ RegistryInv'
         /\ disk' = disk /\ cache' = table
         /\ \A f \in flushes' : f \in flushes \/ f.content = table
<1> DEFINE new == [id |-> FreshId, by |-> by, token |-> t, content |-> table,
                   opened |-> FALSE, dirty |-> FALSE]
<1>1. cache' = table /\ flushes' = flushes \cup {new} /\ torn' = (torn \/ flushes # {})
      /\ disk' = disk
  BY DEF Put
<1>2. new \in Flush
  BY FreshIdExists DEF Flush, RegistryInv
<1>3. RegistryTypeOK'
  BY <1>1, <1>2 DEF RegistryInv, RegistryTypeOK
<1>4. IsFiniteSet(flushes')
  BY <1>1, FS_AddElement DEF RegistryInv
<1>5. FlushIsCurrent'
  <2> SUFFICES ASSUME ~torn' PROVE \E f \in flushes' : flushes' = {f} /\ f.content = cache' /\ ~f.dirty
    BY DEF FlushIsCurrent
  <2>1. flushes' = {new} /\ new.content = cache' /\ ~new.dirty
    BY <1>1
  <2> QED BY <2>1
<1>6. \A f \in flushes' : f \in flushes \/ f.content = table
  BY <1>1
<1> QED BY <1>1, <1>3, <1>4, <1>5, <1>6 DEF RegistryInv

LEMMA OpenRegistry ==
  ASSUME RegistryInv, NEW f \in flushes, OpenFile(f)
  PROVE  /\ RegistryInv'
         /\ cache' = cache /\ disk' = Broken
         /\ \A g \in flushes' : \E h \in flushes : g.content = h.content
<1> DEFINE new == [f EXCEPT !.opened = TRUE]
<1>1. /\ flushes' = (flushes \ {f}) \cup {new} /\ disk' = Broken
      /\ UNCHANGED <<cache, torn>>
  BY DEF OpenFile
<1>2. new \in Flush /\ new.content = f.content /\ new.dirty = f.dirty /\ f \in Flush
  BY DEF RegistryInv, RegistryTypeOK, Flush
<1> HIDE DEF new
<1>3. RegistryTypeOK'
  BY <1>1, <1>2 DEF RegistryInv, RegistryTypeOK
<1>4. IsFiniteSet(flushes')
  BY <1>1, FS_AddElement, FS_RemoveElement DEF RegistryInv
<1>5. FlushIsCurrent'
  <2> SUFFICES ASSUME ~torn' PROVE \E g \in flushes' : flushes' = {g} /\ g.content = cache' /\ ~g.dirty
    BY DEF FlushIsCurrent
  <2>1. flushes = {f} /\ f.content = cache /\ ~f.dirty
    BY <1>1 DEF RegistryInv, FlushIsCurrent
  <2>2. flushes' = {new}
    BY <1>1, <2>1
  <2> QED BY <1>1, <1>2, <2>1, <2>2
<1>6. \A g \in flushes' : \E h \in flushes : g.content = h.content
  BY <1>1, <1>2
<1> QED BY <1>1, <1>3, <1>4, <1>5, <1>6 DEF RegistryInv

LEMMA FillRegistry ==
  ASSUME RegistryInv, NEW f \in flushes, FillFile(f)
  PROVE  /\ RegistryInv'
         /\ cache' = cache /\ (disk' = File(f.content) \/ disk' = Broken)
         /\ \A g \in flushes' : \E h \in flushes : g.content = h.content
<1> DEFINE rest == flushes \ {f}
           Seen(g) == IF g.opened THEN [g EXCEPT !.dirty = TRUE] ELSE g
           seen == [g \in rest |-> Seen(g)]
<1>1. /\ flushes' = {Seen(g) : g \in rest}
      /\ disk' = File(f.content) \/ (f.dirty /\ disk' = Broken)
      /\ UNCHANGED <<cache, torn>>
  BY DEF FillFile
<1>2. f \in Flush /\ \A g \in rest : Seen(g) \in Flush /\ Seen(g).content = g.content
  BY DEF RegistryInv, RegistryTypeOK, Flush
<1>3. IsFiniteSet(rest)
  BY FS_RemoveElement DEF RegistryInv
<1>4. seen \in Surjection(rest, flushes')
  <2>1. \A g \in rest : seen[g] = Seen(g)
    OBVIOUS
  <2> HIDE DEF Seen, rest
  <2>2. seen \in [rest -> flushes']
    BY <1>1
  <2>3. \A x \in flushes' : \E g \in rest : seen[g] = x
    BY <1>1, <2>1
  <2> HIDE DEF seen
  <2> QED BY <2>2, <2>3, Fun_IsSurj
<1>5. IsFiniteSet(flushes')
  BY <1>3, <1>4, FS_Surjection
<1> HIDE DEF Seen, seen
<1>6. \A g \in flushes' : g \in Flush /\ \E h \in flushes : g.content = h.content
  BY <1>1, <1>2
<1>7. RegistryTypeOK'
  <2>0. f.content \in Table
    BY <1>2 DEF Flush
  <2>1. disk' \in {Broken} \cup [ok : {TRUE}, content : Table]
    <3>1. File(f.content) \in [ok : {TRUE}, content : Table]
      BY ONLY <2>0 DEF File
    <3> QED BY <1>1, <3>1
  <2> QED BY <1>1, <1>6, <2>1 DEF RegistryInv, RegistryTypeOK
<1>8. FlushIsCurrent'
  <2> SUFFICES ASSUME ~torn' PROVE flushes' = {} /\ disk' = File(cache')
    BY DEF FlushIsCurrent
  <2>1. flushes = {f} /\ f.content = cache /\ ~f.dirty
    BY <1>1 DEF RegistryInv, FlushIsCurrent
  <2>2. rest = {}
    BY <2>1
  <2> QED BY <1>1, <2>1, <2>2
<1> QED BY <1>1, <1>5, <1>6, <1>7, <1>8 DEF RegistryInv

LEMMA ReloadRegistry ==
  ASSUME RegistryInv, Reload
  PROVE  RegistryInv' /\ cache' = disk.content /\ disk' = disk /\ flushes' = {}
<1>1. cache' = disk.content /\ flushes' = {} /\ torn' = (torn \/ flushes # {}) /\ disk' = disk
  BY DEF Reload
<1>2. EmptyTable \in Table
  BY DEF EmptyTable, Table, Record
<1>3. disk.content \in Table
  <2>1. CASE disk = Broken
    BY <1>2, <2>1 DEF Broken
  <2>2. CASE disk \in [ok : {TRUE}, content : Table]
    BY <2>2
  <2> QED BY <2>1, <2>2 DEF RegistryInv, RegistryTypeOK
<1>4. RegistryTypeOK'
  BY <1>1, <1>3 DEF RegistryInv, RegistryTypeOK
<1>5. FlushIsCurrent'
  <2> SUFFICES ASSUME ~torn' PROVE disk' = File(cache')
    BY <1>1 DEF FlushIsCurrent
  <2>1. disk = File(cache)
    BY <1>1 DEF RegistryInv, FlushIsCurrent
  <2>2. disk.content = cache
    BY ONLY <2>1 DEF File
  <2> QED BY <1>1, <2>1, <2>2
<1> QED BY <1>1, <1>4, <1>5, FS_EmptySet DEF RegistryInv

LEMMA KeepsRegistry ==
  ASSUME RegistryInv, UNCHANGED registryVars
  PROVE  RegistryInv'
BY DEF RegistryInv, RegistryTypeOK, FlushIsCurrent, registryVars

LEMMA RecordFields ==
  ASSUME NEW table \in Table, NEW t \in Token
  PROVE  /\ table[t] \in Record /\ table[t].reg \in Nat /\ table[t].finance \in Nat
         /\ table[t] # NoRecord => table[t] \in [reg : Nat \ {0}, finance : Nat]
         /\ table[t].finance # 0 => table[t] # NoRecord /\ table[t].reg # 0
BY DEF Table, Record, NoRecord

LEMMA ContentIsTable ==
  ASSUME RegistryTypeOK
  PROVE  /\ disk.content \in Table
         /\ \A f \in flushes : f.content \in Table
         /\ EmptyTable \in Table
<1>1. EmptyTable \in Table
  BY DEF EmptyTable, Table, Record
<1>2. CASE disk = Broken
  BY <1>1, <1>2 DEF Broken, RegistryTypeOK, Flush
<1>3. CASE disk \in [ok : {TRUE}, content : Table]
  BY <1>1, <1>3 DEF RegistryTypeOK, Flush
<1> QED BY <1>2, <1>3 DEF RegistryTypeOK

---------------------------------------------------------------------------
\* The jobs.

Before == {"share", "vault", "sale"}

\* There is one job at most for an agent, and its entry says so; it has not deployed a stack for
\* a registration that has one.
JobsFit ==
  /\ \A j \in jobs :
       /\ status[j.token] = "deploying"
       /\ j.reg <= registrations
       /\ j.at \in Before /\ j.reg = cache[j.token].reg => cache[j.token].finance = 0
  /\ \A i, j \in jobs : i.token = j.token => i = j

\* An agent has one job more than there are excuses only while that job deploys, or when its
\* stack is in the record.
Settled(t) == deploys[t] <= excuses[t]
Provided(t) ==
  /\ Known(t)
  /\ \/ cache[t].finance # 0
     \/ status[t] = "deploying" /\ \A j \in jobs : j.token = t => j.at \in Before
Explained ==
  \A t \in Token : deploys[t] <= excuses[t] + 1 /\ (Settled(t) \/ Provided(t))

PadInv == TypeOK /\ RegistryInv /\ Numbered /\ JobsFit /\ Explained

LEMMA InitPad == Init => PadInv
<1> SUFFICES ASSUME Init PROVE PadInv OBVIOUS
<1>1. cache = EmptyTable /\ disk = File(EmptyTable) /\ flushes = {} /\ torn = FALSE
  BY DEF Init, RegistryInit
<1>2. EmptyTable \in Table
  BY DEF EmptyTable, Table, Record
<1>3. File(EmptyTable) \in [ok : {TRUE}, content : Table] /\ File(EmptyTable).content = EmptyTable
  BY ONLY <1>2 DEF File
<1>4. RegistryTypeOK
  BY <1>1, <1>2, <1>3 DEF RegistryTypeOK
<1>5. TypeOK
  BY <1>4 DEF Init, TypeOK
<1>6. RegistryInv
  BY <1>1, <1>4, FS_EmptySet DEF RegistryInv, FlushIsCurrent
<1>7. Numbered
  BY <1>1, <1>3 DEF Init, Numbered, NumberedTo, EmptyTable, NoRecord
<1>8. JobsFit /\ Explained
  BY DEF Init, JobsFit, Explained, Settled
<1> QED BY <1>5, <1>6, <1>7, <1>8 DEF PadInv

\* Every table comes from an older one, or is numbered itself.
LEMMA NumberedStep ==
  ASSUME RegistryTypeOK, RegistryTypeOK', Numbered, registrations \in Nat,
         registrations' \in Nat, registrations <= registrations',
         NumberedTo(registrations', cache'),
         \/ disk'.content = disk.content \/ disk' = Broken
         \/ \E f \in flushes : disk' = File(f.content),
         \A f \in flushes' : f.content = cache' \/ \E g \in flushes : f.content = g.content
  PROVE  Numbered'
<1>1. ASSUME NEW table \in Table, NumberedTo(registrations, table)
      PROVE  NumberedTo(registrations', table)
  BY <1>1, RecordFields DEF NumberedTo
<1>2. \A f \in flushes : NumberedTo(registrations', f.content)
  BY <1>1, ContentIsTable DEF Numbered
<1>3. NumberedTo(registrations', disk'.content)
  <2>1. CASE disk'.content = disk.content
    BY <1>1, <2>1, ContentIsTable DEF Numbered
  <2>2. CASE disk' = Broken
    BY <2>2 DEF Broken, NumberedTo, EmptyTable, NoRecord
  <2>3. ASSUME NEW f \in flushes, disk' = File(f.content)
        PROVE  NumberedTo(registrations', disk'.content)
    BY <1>2, <2>3 DEF File
  <2> QED BY <2>1, <2>2, <2>3
<1>4. \A f \in flushes' : NumberedTo(registrations', f.content)
  BY <1>2
<1> QED BY <1>3, <1>4 DEF Numbered, NumberedTo

LEMMA StartFits ==
  ASSUME PadInv, NEW t \in Token, StartDeploy(t), UNCHANGED <<cache, registrations, excuses>>
  PROVE  /\ status' \in [Token -> {"absent", "deploying", "complete", "error"}]
         /\ reported' \in [Token -> Nat] /\ jobs' \subseteq Job /\ deploys' \in [Token -> Nat]
         /\ JobsFit' /\ Explained'
<1> USE DEF PadInv
<1>1. CASE status[t] = "deploying"
  <2>1. UNCHANGED <<status, reported, jobs, deploys>>
    BY <1>1 DEF StartDeploy
  <2> QED BY <2>1 DEF TypeOK, JobsFit, Explained, Settled, Provided, Known
<1>2. CASE status[t] # "deploying"
  <2> DEFINE new == NewJob(t)
  <2>1. /\ status' = [status EXCEPT ![t] = IF ~Known(t) THEN "error"
                                           ELSE IF cache[t].finance # 0 THEN "complete"
                                           ELSE "deploying"]
        /\ reported' = [reported EXCEPT ![t] = cache[t].finance]
        /\ IF status'[t] = "deploying"
           THEN jobs' = jobs \cup {new} /\ deploys' = [deploys EXCEPT ![t] = @ + 1]
           ELSE UNCHANGED <<jobs, deploys>>
    BY <1>2 DEF StartDeploy
  <2>2. cache \in Table /\ cache[t].reg \in Nat /\ cache[t].finance \in Nat
    BY RecordFields DEF TypeOK, RegistryTypeOK
  <2>3. new \in Job /\ new.token = t /\ new.reg = cache[t].reg /\ new.at = "share"
    BY <2>2 DEF NewJob, Job
  <2>4. \A j \in jobs : j.token # t
    BY <1>2 DEF JobsFit
  <2>5. \A s \in Token : status'[s] = IF s # t THEN status[s]
                                      ELSE IF ~Known(t) THEN "error"
                                      ELSE IF cache[t].finance # 0 THEN "complete"
                                      ELSE "deploying"
    BY <2>1 DEF TypeOK
  <2>6. reported' \in [Token -> Nat]
    BY <2>1, <2>2 DEF TypeOK
  <2>7. status' \in [Token -> {"absent", "deploying", "complete", "error"}]
    BY <2>1 DEF TypeOK
  <2>8. jobs \subseteq Job /\ \A j \in jobs : j.token \in Token
    BY DEF TypeOK, Job
  <2> HIDE DEF new
  <2>9. CASE Known(t) /\ cache[t].finance = 0
    <3>1. jobs' = jobs \cup {new} /\ deploys' = [deploys EXCEPT ![t] = @ + 1]
          /\ status'[t] = "deploying"
      BY <2>1, <2>5, <2>9
    <3>2. jobs' \subseteq Job /\ deploys' \in [Token -> Nat]
      BY <2>3, <3>1 DEF TypeOK
    <3>3. JobsFit'
      <4>1. cache[t].reg <= registrations
        BY DEF Numbered, NumberedTo
      <4> QED BY <2>3, <2>4, <2>5, <2>8, <2>9, <3>1, <4>1 DEF JobsFit
    <3>4. Explained'
      <4>1. Settled(t)
        BY <1>2, <2>9 DEF Explained, Provided
      <4>2. deploys'[t] = deploys[t] + 1 /\ \A s \in Token \ {t} : deploys'[s] = deploys[s]
        BY <3>1 DEF TypeOK
      <4>3. deploys'[t] <= excuses'[t] + 1 /\ Provided(t)'
        BY <2>3, <2>4, <2>9, <3>1, <4>1, <4>2 DEF TypeOK, Settled, Provided, Known, Before
      <4>4. \A s \in Token \ {t} : Provided(s) => Provided(s)'
        BY <2>3, <2>5, <3>1 DEF Provided, Known
      <4> QED BY <4>2, <4>3, <4>4 DEF Explained, Settled
    <3> QED BY <2>6, <2>7, <3>2, <3>3, <3>4
  <2>10. CASE ~Known(t) \/ cache[t].finance # 0
    <3>1. UNCHANGED <<jobs, deploys>> /\ status'[t] # "deploying"
      BY <2>1, <2>5, <2>10
    <3>2. JobsFit'
      BY <2>4, <2>5, <2>8, <3>1 DEF JobsFit
    <3>3. Explained'
      <4>1. \A s \in Token : Provided(s) => Provided(s)'
        BY <1>2, <2>5, <3>1 DEF Provided, Known
      <4> QED BY <3>1, <4>1 DEF Explained, Settled
    <3> QED BY <2>6, <2>7, <3>1, <3>2, <3>3 DEF TypeOK
  <2> QED BY <2>9, <2>10
<1> QED BY <1>1, <1>2

\* A job goes on, and may put its stack into the record.
LEMMA AdvanceFits ==
  ASSUME PadInv, NEW j \in jobs, NEW at \in {"share", "vault", "sale", "attach", "ens", "name"},
         NEW stack \in Nat, Advance(j, at, stack),
         UNCHANGED <<status, registrations, deploys, excuses>>,
         \A t \in Token : \/ cache'[t] = cache[t]
                          \/ /\ t = j.token /\ at \notin Before
                             /\ cache'[t].finance # 0 /\ cache'[t] # NoRecord,
         at \in Before => j.at \in Before,
         at \notin Before /\ j.at \in Before =>
           \/ ~Known(j.token)
           \/ cache'[j.token].finance # 0 /\ cache'[j.token] # NoRecord
  PROVE  jobs' \subseteq Job /\ JobsFit' /\ Explained'
<1> USE DEF PadInv
<1> DEFINE new == [j EXCEPT !.at = at, !.stack = stack]
<1>1. jobs' = (jobs \ {j}) \cup {new}
  BY DEF Advance
<1>2. j \in Job /\ new \in Job /\ new.token = j.token /\ new.reg = j.reg /\ new.at = at
  BY DEF TypeOK, Job
<1> HIDE DEF new
<1>3. jobs' \subseteq Job
  BY <1>1, <1>2 DEF TypeOK
<1>4. \A i \in jobs : i.token \in Token
  BY DEF TypeOK, Job
<1>5. JobsFit'
  <2>1. \A i \in jobs' : /\ status'[i.token] = "deploying" /\ i.reg <= registrations'
                         /\ i.token = j.token => i = new
    BY <1>1, <1>2 DEF JobsFit
  <2>2. \A i, k \in jobs' : i.token = k.token => i = k
    BY <1>1, <1>2 DEF JobsFit
  <2>3. ASSUME NEW i \in jobs', i.at \in Before, i.reg = cache'[i.token].reg
        PROVE  cache'[i.token].finance = 0
    <3>1. CASE i = new
      BY <1>2, <1>4, <2>3, <3>1 DEF JobsFit
    <3>2. CASE i \in jobs \ {j}
      <4>1. i.token # j.token
        BY <3>2 DEF JobsFit
      <4> QED BY <1>4, <2>3, <3>2, <4>1 DEF JobsFit
    <3> QED BY <1>1, <3>1, <3>2
  <2> QED BY <2>1, <2>2, <2>3 DEF JobsFit
<1>6. Explained'
  <2>1. \A t \in Token \ {j.token} : Provided(t) => Provided(t)'
    BY <1>1, <1>2 DEF Provided, Known
  <2>2. Settled(j.token) \/ Provided(j.token)'
    <3>1. CASE at \in Before
      BY <1>1, <1>2, <1>4, <3>1 DEF Explained, Provided, Known
    <3>2. CASE at \notin Before /\ j.at \in Before
      BY <1>4, <3>2 DEF Explained, Provided, Known
    <3>3. CASE at \notin Before /\ j.at \notin Before
      BY <1>4, <3>3 DEF Explained, Provided, Known
    <3> QED BY <3>1, <3>2, <3>3
  <2> QED BY <1>4, <2>1, <2>2 DEF Explained, Settled
<1> QED BY <1>3, <1>5, <1>6

\* A job ends: with its stack in the record, or with an excuse.
LEMMA EndFits ==
  ASSUME PadInv, NEW j \in jobs, NEW outcome \in {"complete", "error"}, EndJob(j, outcome),
         UNCHANGED <<cache, registrations, deploys>>,
         \/ j.at \notin Before /\ excuses' = excuses
         \/ excuses' = [excuses EXCEPT ![j.token] = @ + 1]
  PROVE  /\ status' \in [Token -> {"absent", "deploying", "complete", "error"}]
         /\ reported' \in [Token -> Nat] /\ jobs' \subseteq Job /\ excuses' \in [Token -> Nat]
         /\ JobsFit' /\ Explained'
<1> USE DEF PadInv
<1>1. /\ jobs' = jobs \ {j}
      /\ status' = [status EXCEPT ![j.token] = outcome]
      /\ reported' = [reported EXCEPT ![j.token] = IF outcome = "complete" THEN j.stack ELSE 0]
  BY DEF EndJob
<1>2. j.token \in Token /\ j.stack \in Nat /\ \A i \in jobs : i.token \in Token
  BY DEF TypeOK, Job
<1>3. /\ status' \in [Token -> {"absent", "deploying", "complete", "error"}]
      /\ reported' \in [Token -> Nat] /\ jobs' \subseteq Job /\ excuses' \in [Token -> Nat]
  BY <1>1, <1>2 DEF TypeOK
<1>4. \A t \in Token \ {j.token} : status'[t] = status[t]
  BY <1>1 DEF TypeOK
<1>5. JobsFit'
  <2>1. \A i \in jobs' : i \in jobs /\ i.token # j.token
    BY <1>1 DEF JobsFit
  <2> QED BY <1>2, <1>4, <2>1 DEF JobsFit
<1>6. Explained'
  <2>1. \A t \in Token \ {j.token} : Provided(t) => Provided(t)'
    BY <1>1, <1>4 DEF Provided, Known
  <2>2. \A t \in Token : excuses'[t] >= excuses[t]
    BY DEF TypeOK
  <2>3. CASE j.at \notin Before /\ excuses' = excuses
    <3>1. Provided(j.token) => Provided(j.token)'
      BY <2>3 DEF Provided, Known
    <3> QED BY <2>1, <2>3, <3>1 DEF Explained, Settled
  <2>4. CASE excuses' = [excuses EXCEPT ![j.token] = @ + 1]
    <3>1. Settled(j.token)'
      BY <1>2, <2>4 DEF Explained, Settled, TypeOK
    <3>2. \A t \in Token \ {j.token} : excuses'[t] = excuses[t]
      BY <2>4 DEF TypeOK
    <3>3. deploys'[j.token] <= excuses'[j.token] + 1
      BY <1>2, <1>3, <3>1 DEF Settled, TypeOK
    <3> QED BY <2>1, <3>1, <3>2, <3>3 DEF Explained, Settled
  <2> QED BY <2>3, <2>4
<1> QED BY <1>3, <1>5, <1>6

\* A registration or a deletion: what it replaces is an excuse.
LEMMA ReplaceFits ==
  ASSUME PadInv, NEW t \in Token, UNCHANGED <<jobs, status, deploys>>,
         registrations' \in Nat, registrations <= registrations',
         \A s \in Token \ {t} : cache'[s] = cache[s],
         cache'[t].reg > registrations \/ cache'[t].finance = 0,
         excuses' = IF Known(t) THEN [excuses EXCEPT ![t] = @ + 1] ELSE excuses
  PROVE  excuses' \in [Token -> Nat] /\ JobsFit' /\ Explained'
<1> USE DEF PadInv
<1>1. excuses' \in [Token -> Nat]
  BY DEF TypeOK
<1>2. \A j \in jobs : j.token \in Token /\ j.reg \in Nat
  BY DEF TypeOK, Job
<1>3. \A s \in Token : excuses'[s] = IF s = t /\ Known(t) THEN excuses[s] + 1 ELSE excuses[s]
  BY DEF TypeOK
<1>4. JobsFit'
  BY <1>2 DEF JobsFit, TypeOK
<1>5. Explained'
  <2>1. deploys[t] <= excuses'[t]
    BY <1>3 DEF Explained, Settled, Provided
  <2>2. \A s \in Token \ {t} : Provided(s) => Provided(s)'
    BY DEF Provided, Known
  <2> QED BY <1>1, <1>3, <2>1, <2>2 DEF Explained, Settled, TypeOK
<1> QED BY <1>1, <1>4, <1>5

\* What else an entry can do: nothing to jobs that are under way.
LEMMA KeepsJobs ==
  ASSUME PadInv, UNCHANGED <<cache, registrations, jobs, deploys, excuses>>,
         \A t \in Token : \/ status'[t] = status[t]
                          \/ status[t] # "deploying" /\ status'[t] # "deploying"
  PROVE  JobsFit' /\ Explained'
<1>1. \A j \in jobs : j.token \in Token
  BY DEF PadInv, TypeOK, Job
<1>2. \A t \in Token : Provided(t) => Provided(t)'
  BY DEF Provided, Known
<1> QED BY <1>1, <1>2 DEF PadInv, JobsFit, Explained, Settled

LEMMA RegisterPad ==
  ASSUME PadInv, NEW t \in Token, NEW withFinance \in BOOLEAN, Register(t, withFinance)
  PROVE  PadInv'
<1> USE DEF PadInv
<1> DEFINE record == [reg |-> registrations + 1, finance |-> IF withFinance THEN stacks' ELSE 0]
           table == [cache EXCEPT ![t] = record]
<1>1. /\ registrations' = registrations + 1
      /\ stacks' = IF withFinance THEN stacks + 1 ELSE stacks
      /\ Put(table, "register", t)
      /\ excuses' = IF Known(t) THEN [excuses EXCEPT ![t] = @ + 1] ELSE excuses
      /\ UNCHANGED <<status, reported, jobs, mishaps, crashes, deploys, acked>>
  BY DEF Register
<1>2. registrations' \in Nat /\ stacks' \in Nat /\ record \in Record /\ record.reg = registrations'
  BY <1>1 DEF TypeOK, Record
<1>3. table \in Table /\ table[t] = record /\ \A s \in Token \ {t} : table[s] = cache[s]
  BY <1>2 DEF TypeOK, RegistryTypeOK, Table
<1> HIDE DEF table, record
<1>4. /\ RegistryInv' /\ disk' = disk /\ cache' = table
      /\ \A f \in flushes' : f \in flushes \/ f.content = table
  BY <1>1, <1>3, PutRegistry
<1>5. RegistryTypeOK'
  BY <1>4 DEF RegistryInv
<1>6. excuses' \in [Token -> Nat] /\ JobsFit' /\ Explained'
  <2>1. registrations' \in Nat /\ registrations <= registrations' /\ cache'[t].reg > registrations
    BY <1>1, <1>2, <1>3, <1>4 DEF TypeOK
  <2>2. \A s \in Token \ {t} : cache'[s] = cache[s]
    BY <1>3, <1>4
  <2> QED BY <1>1, <2>1, <2>2, ReplaceFits
<1>7. NumberedTo(registrations', cache')
  BY <1>1, <1>2, <1>3, <1>4, RecordFields DEF NumberedTo, Numbered, TypeOK, RegistryTypeOK
<1>8. Numbered'
  BY <1>1, <1>2, <1>4, <1>5, <1>7, NumberedStep DEF TypeOK
<1>9. TypeOK'
  BY <1>1, <1>2, <1>5, <1>6 DEF TypeOK
<1> QED BY <1>4, <1>6, <1>8, <1>9

LEMMA DeletePad ==
  ASSUME PadInv, NEW t \in Token, Delete(t)
  PROVE  PadInv'
<1> USE DEF PadInv
<1> DEFINE table == [cache EXCEPT ![t] = NoRecord]
<1>1. /\ Known(t) /\ mishaps' = mishaps + 1
      /\ Put(table, "delete", t)
      /\ acked' = acked \ {t}
      /\ excuses' = [excuses EXCEPT ![t] = @ + 1]
      /\ UNCHANGED <<status, reported, jobs, stacks, registrations, crashes, deploys>>
  BY DEF Delete, Mishap, financeVars
<1>2. table \in Table /\ table[t] = NoRecord /\ \A s \in Token \ {t} : table[s] = cache[s]
  BY DEF TypeOK, RegistryTypeOK, Table, Record
<1> HIDE DEF table
<1>3. /\ RegistryInv' /\ disk' = disk /\ cache' = table
      /\ \A f \in flushes' : f \in flushes \/ f.content = table
  BY <1>1, <1>2, PutRegistry
<1>4. RegistryTypeOK'
  BY <1>3 DEF RegistryInv
<1>5. cache'[t].finance = 0 /\ cache'[t].reg = 0
  BY <1>2, <1>3 DEF NoRecord
<1>6. excuses' \in [Token -> Nat] /\ JobsFit' /\ Explained'
  <2>1. registrations' \in Nat /\ registrations <= registrations'
    BY <1>1 DEF TypeOK
  <2>2. \A s \in Token \ {t} : cache'[s] = cache[s]
    BY <1>2, <1>3
  <2>3. excuses' = IF Known(t) THEN [excuses EXCEPT ![t] = @ + 1] ELSE excuses
    BY <1>1
  <2> QED BY <1>1, <1>5, <2>1, <2>2, <2>3, ReplaceFits
<1>7. NumberedTo(registrations', cache')
  BY <1>1, <1>2, <1>3, <1>5 DEF NumberedTo, Numbered, TypeOK
<1>8. Numbered'
  BY <1>1, <1>3, <1>4, <1>7, NumberedStep DEF TypeOK
<1>9. TypeOK'
  BY <1>1, <1>4, <1>6 DEF TypeOK
<1> QED BY <1>3, <1>6, <1>8, <1>9

LEMMA DeployFinancePad ==
  ASSUME PadInv, NEW t \in Token, DeployFinance(t)
  PROVE  PadInv'
<1> USE DEF PadInv
<1>1. StartDeploy(t) /\ UNCHANGED <<registryVars, stacks, registrations, mishaps, crashes, excuses, acked>>
  BY DEF DeployFinance, counters
<1>2. UNCHANGED <<cache, disk, flushes, torn>>
  BY <1>1 DEF registryVars
<1>3. RegistryInv' /\ RegistryTypeOK'
  BY <1>1, KeepsRegistry DEF RegistryInv
<1>4. Numbered'
  BY <1>1, <1>2 DEF Numbered, NumberedTo
<1>5. TypeOK'
  BY <1>1, <1>2, <1>3, StartFits DEF TypeOK
<1> QED BY <1>1, <1>2, <1>3, <1>4, <1>5, StartFits

LEMMA PollFinancePad ==
  ASSUME PadInv, NEW t \in Token, PollFinance(t)
  PROVE  PadInv'
<1> USE DEF PadInv
<1>1. /\ status[t] \in {"complete", "error"}
      /\ status' = [status EXCEPT ![t] = "absent"]
      /\ reported' = [reported EXCEPT ![t] = 0]
      /\ UNCHANGED <<registryVars, jobs, stacks, registrations, mishaps, crashes, deploys, excuses, acked>>
  BY DEF PollFinance, counters, history
<1>2. UNCHANGED <<cache, disk, flushes, torn>>
  BY <1>1 DEF registryVars
<1>3. RegistryInv' /\ RegistryTypeOK'
  BY <1>1, KeepsRegistry DEF RegistryInv
<1>4. Numbered'
  BY <1>1, <1>2 DEF Numbered, NumberedTo
<1>5. \A s \in Token : \/ status'[s] = status[s]
                       \/ status[s] # "deploying" /\ status'[s] # "deploying"
  BY <1>1 DEF TypeOK
<1>6. TypeOK'
  BY <1>1, <1>2, <1>3 DEF TypeOK
<1> QED BY <1>1, <1>2, <1>3, <1>4, <1>5, <1>6, KeepsJobs

LEMMA DeployContractPad ==
  ASSUME PadInv, NEW j \in jobs, DeployContract(j)
  PROVE  PadInv'
<1> USE DEF PadInv
<1>1. /\ j.at \in {"share", "vault"}
      /\ Advance(j, IF j.at = "share" THEN "vault" ELSE "sale", 0)
      /\ UNCHANGED <<registryVars, status, reported, stacks, registrations, mishaps, crashes,
                     deploys, excuses, acked>>
  BY DEF DeployContract, counters, history
<1>2. UNCHANGED <<cache, disk, flushes, torn>>
  BY <1>1 DEF registryVars
<1>3. RegistryInv' /\ RegistryTypeOK'
  BY <1>1, KeepsRegistry DEF RegistryInv
<1>4. Numbered'
  BY <1>1, <1>2 DEF Numbered, NumberedTo
<1>5. PICK at \in {"vault", "sale"} : Advance(j, at, 0)
  BY <1>1
<1>6. jobs' \subseteq Job /\ JobsFit' /\ Explained'
  BY <1>1, <1>2, <1>5, AdvanceFits DEF Before
<1>7. TypeOK'
  BY <1>1, <1>2, <1>3, <1>6 DEF TypeOK
<1> QED BY <1>3, <1>4, <1>6, <1>7

LEMMA AttachFinancePad ==
  ASSUME PadInv, NEW j \in jobs, AttachFinance(j)
  PROVE  PadInv'
<1> USE DEF PadInv
<1> DEFINE t == j.token
           table == [cache EXCEPT ![t].finance = stacks']
<1>1. /\ j.at = "sale" /\ stacks' = stacks + 1
      /\ UNCHANGED <<status, reported, registrations, mishaps, crashes, deploys, excuses, acked>>
  BY DEF AttachFinance, counters, history
<1>2. t \in Token /\ stacks' \in Nat /\ stacks' # 0
  BY <1>1 DEF TypeOK, Job
<1>3. cache \in Table
  BY DEF TypeOK, RegistryTypeOK
<1>4. CASE Known(t)
  <2>1. Put(table, "attach", t) /\ Advance(j, "attach", stacks')
    BY <1>1, <1>4 DEF AttachFinance
  <2>2. cache[t] \in [reg : Nat \ {0}, finance : Nat]
    BY <1>2, <1>3, <1>4, RecordFields DEF Known
  <2>3. /\ table[t] = [cache[t] EXCEPT !.finance = stacks']
        /\ \A s \in Token \ {t} : table[s] = cache[s]
    BY <1>2, <1>3 DEF Table
  <2>4. table[t].finance = stacks' /\ table[t].reg = cache[t].reg /\ table[t] \in Record
    BY <1>2, <2>2, <2>3 DEF Record
  <2>5. table \in Table
    BY <1>2, <1>3, <2>3, <2>4 DEF Table
  <2> HIDE DEF table
  <2>6. /\ RegistryInv' /\ disk' = disk /\ cache' = table
        /\ \A f \in flushes' : f \in flushes \/ f.content = table
    BY <1>2, <2>1, <2>5, PutRegistry
  <2>7. RegistryTypeOK'
    BY <2>6 DEF RegistryInv
  <2>8. cache'[t].finance # 0 /\ cache'[t] # NoRecord
    BY <1>2, <2>4, <2>6 DEF NoRecord
  <2>9. \A s \in Token : \/ cache'[s] = cache[s]
                         \/ /\ s = j.token /\ "attach" \notin Before
                            /\ cache'[s].finance # 0 /\ cache'[s] # NoRecord
    BY <2>3, <2>6, <2>8 DEF Before
  <2> HIDE DEF t
  <2>10. jobs' \subseteq Job /\ JobsFit' /\ Explained'
    <3>1. cache'[j.token].finance # 0 /\ cache'[j.token] # NoRecord
      BY <2>8 DEF t
    <3> QED BY <1>1, <1>2, <2>1, <2>9, <3>1, AdvanceFits DEF Before
  <2>11. NumberedTo(registrations', cache')
    BY <1>1, <2>3, <2>4, <2>6 DEF NumberedTo, Numbered
  <2>12. Numbered'
    BY <1>1, <2>6, <2>7, <2>11, NumberedStep DEF TypeOK
  <2>13. TypeOK'
    BY <1>1, <1>2, <2>7, <2>10 DEF TypeOK
  <2> QED BY <2>6, <2>10, <2>12, <2>13
<1>5. CASE ~Known(t)
  <2>1. Advance(j, "ens", stacks') /\ UNCHANGED registryVars
    BY <1>1, <1>5 DEF AttachFinance
  <2>2. UNCHANGED <<cache, disk, flushes, torn>>
    BY <2>1 DEF registryVars
  <2>3. RegistryInv' /\ RegistryTypeOK'
    BY <2>1, KeepsRegistry DEF RegistryInv
  <2>4. Numbered'
    BY <1>1, <2>2 DEF Numbered, NumberedTo
  <2>5. jobs' \subseteq Job /\ JobsFit' /\ Explained'
    BY <1>1, <1>2, <1>5, <2>1, <2>2, AdvanceFits DEF Before
  <2>6. TypeOK'
    BY <1>1, <1>2, <2>2, <2>3, <2>5 DEF TypeOK
  <2> QED BY <2>3, <2>4, <2>5, <2>6
<1> QED BY <1>4, <1>5

LEMMA FailDeployPad ==
  ASSUME PadInv, NEW j \in jobs, FailDeploy(j)
  PROVE  PadInv'
<1> USE DEF PadInv
<1>1. /\ mishaps' = mishaps + 1 /\ EndJob(j, "error")
      /\ excuses' = [excuses EXCEPT ![j.token] = @ + 1]
      /\ UNCHANGED <<registryVars, stacks, registrations, crashes, deploys, acked>>
  BY DEF FailDeploy, Mishap
<1>2. UNCHANGED <<cache, disk, flushes, torn>>
  BY <1>1 DEF registryVars
<1>3. RegistryInv' /\ RegistryTypeOK'
  BY <1>1, KeepsRegistry DEF RegistryInv
<1>4. Numbered'
  BY <1>1, <1>2 DEF Numbered, NumberedTo
<1>5. /\ status' \in [Token -> {"absent", "deploying", "complete", "error"}]
      /\ reported' \in [Token -> Nat] /\ jobs' \subseteq Job /\ excuses' \in [Token -> Nat]
      /\ JobsFit' /\ Explained'
  BY <1>1, <1>2, EndFits
<1>6. TypeOK'
  BY <1>1, <1>2, <1>3, <1>5 DEF TypeOK
<1> QED BY <1>3, <1>4, <1>5, <1>6

LEMMA RegisterNamePad ==
  ASSUME PadInv, NEW j \in jobs, RegisterName(j)
  PROVE  PadInv'
<1> USE DEF PadInv
<1>1. /\ j.at = "ens"
      /\ UNCHANGED <<stacks, registrations, mishaps, crashes, deploys, excuses, acked>>
  BY DEF RegisterName, counters, history
<1>2. j.token \in Token /\ j.stack \in Nat /\ cache \in Table
  BY DEF TypeOK, Job, RegistryTypeOK
<1>3. CASE Put(cache, "name", j.token) /\ Advance(j, "name", j.stack) /\ UNCHANGED <<status, reported>>
  <2>1. /\ RegistryInv' /\ disk' = disk /\ cache' = cache
        /\ \A f \in flushes' : f \in flushes \/ f.content = cache
    BY <1>2, <1>3, PutRegistry
  <2>2. RegistryTypeOK'
    BY <2>1 DEF RegistryInv
  <2>3. jobs' \subseteq Job /\ JobsFit' /\ Explained'
    BY <1>1, <1>2, <1>3, <2>1, AdvanceFits DEF Before
  <2>4. Numbered'
    BY <1>1, <2>1, <2>2, NumberedStep DEF TypeOK, Numbered
  <2>5. TypeOK'
    BY <1>1, <1>3, <2>2, <2>3 DEF TypeOK
  <2> QED BY <2>1, <2>3, <2>4, <2>5
<1>4. CASE EndJob(j, "complete") /\ UNCHANGED registryVars
  <2>1. UNCHANGED <<cache, disk, flushes, torn>>
    BY <1>4 DEF registryVars
  <2>2. RegistryInv' /\ RegistryTypeOK'
    BY <1>4, KeepsRegistry DEF RegistryInv
  <2>3. Numbered'
    BY <1>1, <2>1 DEF Numbered, NumberedTo
  <2>4. /\ status' \in [Token -> {"absent", "deploying", "complete", "error"}]
        /\ reported' \in [Token -> Nat] /\ jobs' \subseteq Job
        /\ JobsFit' /\ Explained'
    BY <1>1, <1>4, <2>1, EndFits DEF Before
  <2>5. TypeOK'
    BY <1>1, <2>1, <2>2, <2>4 DEF TypeOK
  <2> QED BY <2>2, <2>3, <2>4, <2>5
<1> QED BY <1>3, <1>4 DEF RegisterName

LEMMA OpenPad ==
  ASSUME PadInv, NEW f \in flushes, Open(f)
  PROVE  PadInv'
<1> USE DEF PadInv
<1>1. /\ OpenFile(f)
      /\ UNCHANGED <<status, reported, jobs, stacks, registrations, mishaps, crashes, deploys,
                     excuses, acked>>
  BY DEF Open, financeVars, counters, history
<1>2. /\ RegistryInv' /\ RegistryTypeOK' /\ cache' = cache /\ disk' = Broken
      /\ \A g \in flushes' : \E h \in flushes : g.content = h.content
  BY <1>1, OpenRegistry DEF RegistryInv
<1>3. Numbered'
  BY <1>1, <1>2, NumberedStep DEF TypeOK, Numbered
<1>4. JobsFit' /\ Explained'
  BY <1>1, <1>2, KeepsJobs
<1>5. TypeOK'
  BY <1>1, <1>2 DEF TypeOK
<1> QED BY <1>2, <1>3, <1>4, <1>5

LEMMA LandPad ==
  ASSUME PadInv, NEW f \in flushes, Land(f)
  PROVE  PadInv'
<1> USE DEF PadInv
<1>1. FillFile(f) /\ Continue(f) /\ UNCHANGED <<stacks, registrations, mishaps, crashes, excuses>>
  BY DEF Land, counters
<1>2. /\ RegistryInv' /\ RegistryTypeOK' /\ cache' = cache
      /\ disk' = File(f.content) \/ disk' = Broken
      /\ \A g \in flushes' : \E h \in flushes : g.content = h.content
  BY <1>1, FillRegistry DEF RegistryInv
<1>3. Numbered'
  BY <1>1, <1>2, NumberedStep DEF TypeOK, Numbered
<1>4. f.token \in Token /\ f.by \in {"register", "delete", "attach", "name"}
  BY DEF TypeOK, RegistryTypeOK, Flush
<1>5. ASSUME /\ status' \in [Token -> {"absent", "deploying", "complete", "error"}]
             /\ reported' \in [Token -> Nat] /\ jobs' \subseteq Job /\ deploys' \in [Token -> Nat]
             /\ acked' \subseteq Token
      PROVE  TypeOK'
  BY <1>1, <1>2, <1>5 DEF TypeOK
<1>6. CASE f.by = "register"
  <2>1. StartDeploy(f.token) /\ acked' = IF Known(f.token) THEN acked \cup {f.token} ELSE acked
    BY <1>1, <1>6 DEF Continue
  <2>2. acked' \subseteq Token
    BY <1>4, <2>1 DEF TypeOK
  <2> QED BY <1>1, <1>2, <1>3, <1>4, <1>5, <2>1, <2>2, StartFits
<1>7. CASE f.by = "delete"
  <2>1. UNCHANGED <<status, reported, jobs, deploys, acked>>
    BY <1>1, <1>7 DEF Continue
  <2>2. JobsFit' /\ Explained'
    BY <1>1, <1>2, <2>1, KeepsJobs
  <2>3. TypeOK'
    BY <1>5, <2>1 DEF TypeOK
  <2> QED BY <1>2, <1>3, <2>2, <2>3
<1>8. CASE f.by = "attach"
  <2>1. PICK j \in jobs : j.token = f.token /\ j.at = "attach" /\ Advance(j, "ens", j.stack)
    BY <1>1, <1>8 DEF Continue
  <2>2. UNCHANGED <<status, reported, deploys, acked>>
    BY <1>1, <1>8 DEF Continue
  <2>3. j.stack \in Nat
    BY DEF TypeOK, Job
  <2>4. jobs' \subseteq Job /\ JobsFit' /\ Explained'
    BY <1>1, <1>2, <2>1, <2>2, <2>3, AdvanceFits DEF Before
  <2>5. TypeOK'
    BY <1>5, <2>2, <2>4 DEF TypeOK
  <2> QED BY <1>2, <1>3, <2>4, <2>5
<1>9. CASE f.by = "name"
  <2>1. PICK j \in jobs : j.token = f.token /\ j.at = "name" /\ EndJob(j, "complete")
    BY <1>1, <1>9 DEF Continue
  <2>2. UNCHANGED <<deploys, acked>>
    BY <1>1, <1>9 DEF Continue
  <2>3. /\ status' \in [Token -> {"absent", "deploying", "complete", "error"}]
        /\ reported' \in [Token -> Nat] /\ jobs' \subseteq Job
        /\ JobsFit' /\ Explained'
    BY <1>1, <1>2, <2>1, <2>2, EndFits DEF Before
  <2>4. TypeOK'
    BY <1>5, <2>2, <2>3 DEF TypeOK
  <2> QED BY <1>2, <1>3, <2>3, <2>4
<1> QED BY <1>4, <1>6, <1>7, <1>8, <1>9

LEMMA CrashPad ==
  ASSUME PadInv, Crash
  PROVE  PadInv'
<1> USE DEF PadInv
<1>1. /\ mishaps' = mishaps + 1 /\ crashes' = crashes + 1 /\ Reload
      /\ status' = [t \in Token |-> "absent"] /\ reported' = [t \in Token |-> 0] /\ jobs' = {}
      /\ excuses' = [t \in Token |-> excuses[t] + 1]
      /\ UNCHANGED <<stacks, registrations, deploys, acked>>
  BY DEF Crash, Mishap
<1>2. /\ RegistryInv' /\ RegistryTypeOK' /\ cache' = disk.content /\ disk' = disk /\ flushes' = {}
  BY <1>1, ReloadRegistry DEF RegistryInv
<1>3. Numbered'
  BY <1>1, <1>2 DEF Numbered, NumberedTo
<1>4. \A t \in Token : excuses'[t] = excuses[t] + 1
  BY <1>1
<1>5. JobsFit' /\ Explained'
  BY <1>1, <1>4 DEF JobsFit, Explained, Settled, TypeOK
<1>6. TypeOK'
  BY <1>1, <1>2 DEF TypeOK
<1> QED BY <1>2, <1>3, <1>5, <1>6

LEMMA StutterPad == PadInv /\ UNCHANGED vars => PadInv'
<1> SUFFICES ASSUME PadInv, UNCHANGED vars PROVE PadInv' OBVIOUS
<1>1. UNCHANGED <<status, reported, jobs, stacks, registrations, mishaps, crashes, deploys, excuses,
                  acked, cache, disk, flushes, torn>>
  BY DEF vars, registryVars, financeVars, counters, history
<1>2. RegistryInv' /\ RegistryTypeOK'
  BY <1>1, KeepsRegistry DEF PadInv, RegistryInv, registryVars
<1>3. Numbered'
  BY <1>1 DEF PadInv, Numbered, NumberedTo
<1>4. JobsFit' /\ Explained'
  BY <1>1, KeepsJobs
<1>5. TypeOK'
  BY <1>1, <1>2 DEF PadInv, TypeOK
<1> QED BY <1>2, <1>3, <1>4, <1>5 DEF PadInv

LEMMA StepPad == PadInv /\ [Next]_vars => PadInv'
BY RegisterPad, DeletePad, DeployFinancePad, PollFinancePad, DeployContractPad, AttachFinancePad,
   FailDeployPad, RegisterNamePad, OpenPad, LandPad, CrashPad, StutterPad DEF Next

\* A step changes the finance of an agent only with its registration, by a restart, or by a job
\* of an earlier registration.
LEMMA FinanceStep ==
  ASSUME PadInv, [Next]_vars, NEW t \in Token,
         cache[t].finance # 0, cache'[t].finance # cache[t].finance
  PROVE  \/ cache'[t].reg # cache[t].reg
         \/ crashes' # crashes
         \/ \E j \in jobs : j.token = t /\ j.reg # cache[t].reg
<1> USE DEF PadInv
<1>0. /\ cache \in Table /\ cache[t].reg \in Nat /\ cache[t].reg # 0 /\ cache[t].reg <= registrations
      /\ registrations \in Nat /\ crashes \in Nat
  BY RecordFields DEF TypeOK, RegistryTypeOK, Numbered, NumberedTo
<1>1. ASSUME NEW s \in Token, NEW withFinance \in BOOLEAN, Register(s, withFinance)
      PROVE  cache'[t].reg # cache[t].reg
  <2> DEFINE record == [reg |-> registrations + 1, finance |-> IF withFinance THEN stacks' ELSE 0]
  <2>1. cache' = [cache EXCEPT ![s] = record] /\ record.reg = registrations + 1
    BY <1>1 DEF Register, Put
  <2> HIDE DEF record
  <2>2. s = t
    BY <1>0, <2>1 DEF Table
  <2> QED BY <1>0, <2>1, <2>2 DEF Table
<1>2. ASSUME NEW s \in Token, Delete(s) PROVE cache'[t].reg # cache[t].reg
  <2>1. cache' = [cache EXCEPT ![s] = NoRecord]
    BY <1>2 DEF Delete, Put
  <2>2. s = t
    BY <1>0, <2>1 DEF Table
  <2> QED BY <1>0, <2>1, <2>2 DEF Table, NoRecord
<1>3. ASSUME NEW j \in jobs, AttachFinance(j)
      PROVE  \E i \in jobs : i.token = t /\ i.reg # cache[t].reg
  <2>1. cache' = cache \/ cache' = [cache EXCEPT ![j.token].finance = stacks']
    BY <1>3 DEF AttachFinance, Put, registryVars
  <2>2. j.token = t
    BY <1>0, <2>1 DEF Table
  <2>3. j.at = "sale"
    BY <1>3 DEF AttachFinance
  <2> QED BY <2>2, <2>3 DEF JobsFit, Before
<1>4. CASE Crash
  BY <1>0, <1>4 DEF Crash
<1>5. CASE \/ \E s \in Token : DeployFinance(s) \/ PollFinance(s)
           \/ \E j \in jobs : DeployContract(j) \/ FailDeploy(j) \/ RegisterName(j)
           \/ UNCHANGED vars
  BY <1>5 DEF DeployFinance, PollFinance, DeployContract, FailDeploy, RegisterName, Put, vars,
              registryVars
<1>6. CASE \E f \in flushes : Open(f) \/ Land(f)
  BY <1>6 DEF Open, Land, OpenFile, FillFile
<1> QED BY <1>1, <1>2, <1>3, <1>4, <1>5, <1>6 DEF Next

---------------------------------------------------------------------------
\* How deployments end: a job and the flush it waits for belong to each other alone.

Worked ==
  /\ \A t \in Token : status[t] = "deploying" => \E j \in jobs : j.token = t
  /\ \A j \in jobs : j.at \in Waiting => \E f \in flushes : Awaits(j, f)
  /\ \A f \in flushes : f.by \in Waiting => \E j \in jobs : Awaits(j, f)
  /\ \A f, g \in flushes : f.by \in Waiting /\ g.by = f.by /\ g.token = f.token => f = g

\* A flush by another name: opened, or overtaken.
Same(g, h) == g.by = h.by /\ g.token = h.token /\ (h.opened => g.opened)

LEMMA OpenKeepsFlushes ==
  ASSUME PadInv, Worked, NEW f \in flushes, OpenFile(f)
  PROVE  /\ \A g \in flushes' : \E h \in flushes : Same(g, h)
         /\ \A h \in flushes : \E g \in flushes' : Same(g, h)
         /\ \A g, h \in flushes' : g.by \in Waiting /\ h.by = g.by /\ h.token = g.token => g = h
         /\ \E g \in flushes' : Same(g, f) /\ g.opened
         /\ ~f.opened
<1> DEFINE new == [f EXCEPT !.opened = TRUE]
<1>1. flushes' = (flushes \ {f}) \cup {new} /\ ~f.opened
  BY DEF OpenFile
<1>2. new.by = f.by /\ new.token = f.token /\ new.opened
  BY DEF PadInv, TypeOK, RegistryTypeOK, Flush
<1> HIDE DEF new
<1>3. \A g, h \in flushes' : g.by \in Waiting /\ h.by = g.by /\ h.token = g.token => g = h
  BY <1>1, <1>2 DEF Worked
<1> QED BY <1>1, <1>2, <1>3 DEF Same

LEMMA FillKeepsFlushes ==
  ASSUME PadInv, Worked, NEW f \in flushes, FillFile(f)
  PROVE  /\ \A g \in flushes' : \E h \in flushes \ {f} : Same(g, h)
         /\ \A h \in flushes \ {f} : \E g \in flushes' : Same(g, h)
         /\ \A g, h \in flushes' : g.by \in Waiting /\ h.by = g.by /\ h.token = g.token => g = h
<1> DEFINE Seen(g) == IF g.opened THEN [g EXCEPT !.dirty = TRUE] ELSE g
<1>1. flushes' = {Seen(g) : g \in flushes \ {f}}
  BY DEF FillFile
<1>2. \A g \in flushes : /\ Seen(g).by = g.by /\ Seen(g).token = g.token
                         /\ Seen(g).opened = g.opened
  BY DEF PadInv, TypeOK, RegistryTypeOK, Flush
<1> HIDE DEF Seen
<1>3. ASSUME NEW g \in flushes', NEW h \in flushes',
             g.by \in Waiting, h.by = g.by, h.token = g.token
      PROVE  g = h
  <2>1. PICK a \in flushes, b \in flushes : g = Seen(a) /\ h = Seen(b)
    BY <1>1
  <2>2. a.by \in Waiting /\ b.by = a.by /\ b.token = a.token
    BY <1>2, <1>3, <2>1
  <2> QED BY <2>1, <2>2 DEF Worked
<1> QED BY <1>1, <1>2, <1>3 DEF Same

\* A new flush is not opened yet.
NewFlush(by, t) == [id |-> FreshId, by |-> by, token |-> t, content |-> cache',
                    opened |-> FALSE, dirty |-> FALSE]

\* A job is begun where there is none.
LEMMA Starts ==
  ASSUME PadInv, NEW t \in Token, StartDeploy(t)
  PROVE  \/ /\ jobs' = jobs
            /\ \A s \in Token : status'[s] = "deploying" => status[s] = "deploying"
         \/ \E new : /\ jobs' = jobs \cup {new} /\ new.token = t /\ new.at = "share"
                     /\ status[t] # "deploying"
                     /\ \A s \in Token \ {t} : status'[s] = status[s]
<1>1. CASE status[t] = "deploying"
  BY <1>1 DEF StartDeploy
<1>2. CASE status[t] # "deploying"
  <2> DEFINE new == NewJob(t)
  <2>1. new.token = t /\ new.at = "share"
    BY DEF NewJob
  <2>2. /\ \A s \in Token \ {t} : status'[s] = status[s]
        /\ IF status'[t] = "deploying" THEN jobs' = jobs \cup {new} ELSE jobs' = jobs
    BY <1>2 DEF StartDeploy, PadInv, TypeOK
  <2> HIDE DEF new
  <2> QED BY <1>2, <2>1, <2>2
<1> QED BY <1>1, <1>2

\* There is one job for an agent, so whoever acts for it is the job.
LEMMA OneJob ==
  ASSUME PadInv, NEW i \in jobs, NEW j \in jobs, i.token = j.token
  PROVE  i = j
BY DEF PadInv, JobsFit

LEMMA AdvanceWorked ==
  ASSUME PadInv, NEW j \in jobs, NEW at, NEW stack, Advance(j, at, stack)
  PROVE  \E new : /\ jobs' = (jobs \ {j}) \cup {new}
                  /\ new.token = j.token /\ new.at = at
<1> DEFINE new == [j EXCEPT !.at = at, !.stack = stack]
<1>1. new.token = j.token /\ new.at = at
  BY DEF PadInv, TypeOK, Job
<1> QED BY <1>1 DEF Advance

LEMMA EndWorked ==
  ASSUME PadInv, NEW j \in jobs, NEW outcome \in {"complete", "error"}, EndJob(j, outcome)
  PROVE  /\ jobs' = jobs \ {j}
         /\ \A s \in Token : status'[s] = "deploying" => status[s] = "deploying" /\ s # j.token
<1>1. j.token \in Token
  BY DEF PadInv, TypeOK, Job
<1> QED BY <1>1 DEF EndJob, PadInv, TypeOK

LEMMA InitWorked == Init => Worked
BY DEF Init, RegistryInit, Worked

LEMMA StepWorked ==
  ASSUME PadInv, Worked, [Next]_vars
  PROVE  Worked'
<1> USE DEF Worked
<1>0. /\ \A j \in jobs : j.token \in Token /\ status[j.token] = "deploying"
      /\ \A f \in flushes : f.token \in Token /\ f.by \in {"register", "delete", "attach", "name"}
  BY DEF PadInv, TypeOK, Job, RegistryTypeOK, Flush, JobsFit
<1>1. ASSUME NEW t \in Token, \/ \E withFinance \in BOOLEAN : Register(t, withFinance)
                              \/ Delete(t)
      PROVE  Worked'
  <2>1. UNCHANGED <<jobs, status>>
    BY <1>1 DEF Register, Delete, financeVars
  <2>2. \/ flushes' = flushes \cup {NewFlush("register", t)}
        \/ flushes' = flushes \cup {NewFlush("delete", t)}
    BY <1>1 DEF Register, Delete, Put, NewFlush
  <2>3. \A f \in flushes' : f.by \in Waiting => f \in flushes
    <3>1. NewFlush("register", t).by \notin Waiting /\ NewFlush("delete", t).by \notin Waiting
      BY DEF NewFlush, Waiting
    <3> QED BY <2>2, <3>1
  <2>4. flushes \subseteq flushes'
    BY <2>2
  <2> QED BY <2>1, <2>3, <2>4 DEF Awaits
<1>2. ASSUME NEW t \in Token, StartDeploy(t),
             \A g \in flushes' : g.by \in Waiting => \E h \in flushes : Same(g, h),
             \A h \in flushes : h.by \in Waiting => \E g \in flushes' : Same(g, h),
             \A g, h \in flushes' : g.by \in Waiting /\ h.by = g.by /\ h.token = g.token => g = h
      PROVE  Worked'
  <2>1. jobs \subseteq jobs'
    BY <1>2, Starts
  <2>2. \A j \in jobs' : j \in jobs \/ j.at = "share"
    BY <1>2, Starts
  <2>3. \A s \in Token : status'[s] = "deploying" => \E j \in jobs' : j.token = s
    BY <1>2, Starts
  <2>4. \A j \in jobs' : j.at \in Waiting => \E f \in flushes' : Awaits(j, f)
    BY <1>2, <2>2 DEF Awaits, Same, Waiting
  <2>5. \A f \in flushes' : f.by \in Waiting => \E j \in jobs' : Awaits(j, f)
    BY <1>2, <2>1 DEF Awaits, Same
  <2> QED BY <1>2, <2>3, <2>4, <2>5
<1>3. ASSUME NEW t \in Token, DeployFinance(t)
      PROVE  Worked'
  <2>1. StartDeploy(t) /\ flushes' = flushes
    BY <1>3 DEF DeployFinance, registryVars
  <2> QED BY <1>2, <2>1 DEF Same
<1>4. ASSUME NEW t \in Token, PollFinance(t)
      PROVE  Worked'
  <2>1. /\ jobs' = jobs /\ flushes' = flushes
        /\ \A s \in Token : status'[s] = "deploying" => status[s] = "deploying"
    BY <1>4 DEF PollFinance, registryVars, PadInv, TypeOK
  <2> QED BY <2>1 DEF Awaits
<1>5. ASSUME NEW j \in jobs, NEW at, NEW new,
             jobs' = (jobs \ {j}) \cup {new}, new.token = j.token, new.at = at, status' = status,
             j.at \notin Waiting,
             \/ at \notin Waiting /\ flushes' = flushes
             \/ \E f : flushes' = flushes \cup {f} /\ f.by = at /\ f.token = j.token
      PROVE  Worked'
  <2>1. \A f \in flushes : f.token = j.token => f.by \notin Waiting
    BY <1>5, OneJob DEF Awaits
  <2>2. \A s \in Token : status'[s] = "deploying" => \E i \in jobs' : i.token = s
    BY <1>5
  <2>3. \A i \in jobs' : i.at \in Waiting => \E f \in flushes' : Awaits(i, f)
    BY <1>5 DEF Awaits
  <2>4. \A f \in flushes' : f.by \in Waiting => \E i \in jobs' : Awaits(i, f)
    BY <1>5, <2>1 DEF Awaits
  <2>5. \A f, g \in flushes' : f.by \in Waiting /\ g.by = f.by /\ g.token = f.token => f = g
    BY <1>5, <2>1
  <2> QED BY <2>2, <2>3, <2>4, <2>5
<1>6. ASSUME NEW j \in jobs, DeployContract(j)
      PROVE  Worked'
  <2>1. PICK at \in {"vault", "sale"} : Advance(j, at, 0)
    BY <1>6 DEF DeployContract
  <2>2. j.at \notin Waiting /\ status' = status /\ flushes' = flushes /\ at \notin Waiting
    BY <1>6 DEF DeployContract, Waiting, registryVars
  <2> QED BY <1>5, <2>1, <2>2, AdvanceWorked
<1>7. ASSUME NEW j \in jobs, AttachFinance(j)
      PROVE  Worked'
  <2>1. j.at \notin Waiting /\ status' = status
    BY <1>7 DEF AttachFinance, Waiting
  <2>2. CASE Known(j.token)
    <3>1. /\ Advance(j, "attach", stacks')
          /\ Put([cache EXCEPT ![j.token].finance = stacks'], "attach", j.token)
      BY <1>7, <2>2 DEF AttachFinance
    <3>2. flushes' = flushes \cup {NewFlush("attach", j.token)}
      BY <3>1 DEF Put, NewFlush
    <3>3. \E f : flushes' = flushes \cup {f} /\ f.by = "attach" /\ f.token = j.token
      <4>1. NewFlush("attach", j.token).by = "attach" /\ NewFlush("attach", j.token).token = j.token
        BY DEF NewFlush
      <4> QED BY <3>2, <4>1
    <3> QED BY <1>5, <2>1, <3>1, <3>3, AdvanceWorked
  <2>3. CASE ~Known(j.token)
    <3>1. Advance(j, "ens", stacks') /\ flushes' = flushes /\ "ens" \notin Waiting
      BY <1>7, <2>3 DEF AttachFinance, registryVars, Waiting
    <3> QED BY <1>5, <2>1, <3>1, AdvanceWorked
  <2> QED BY <2>2, <2>3
<1>8. ASSUME NEW j \in jobs, NEW outcome \in {"complete", "error"}, EndJob(j, outcome),
             \A g \in flushes' : g.by \in Waiting =>
               \E h \in flushes : Same(g, h) /\ ~Awaits(j, h),
             \A h \in flushes : h.by \in Waiting /\ ~Awaits(j, h) => \E g \in flushes' : Same(g, h),
             \A g, h \in flushes' : g.by \in Waiting /\ h.by = g.by /\ h.token = g.token => g = h
      PROVE  Worked'
  <2>1. /\ jobs' = jobs \ {j}
        /\ \A s \in Token : status'[s] = "deploying" => status[s] = "deploying" /\ s # j.token
    BY <1>8, EndWorked
  <2>2. \A s \in Token : status'[s] = "deploying" => \E i \in jobs' : i.token = s
    BY <2>1
  <2>3. ASSUME NEW i \in jobs', i.at \in Waiting
        PROVE  \E g \in flushes' : Awaits(i, g)
    <3>1. i \in jobs /\ i.token # j.token
      BY <2>1, OneJob
    <3>2. PICK h \in flushes : Awaits(i, h)
      BY <2>3, <3>1
    <3>3. ~Awaits(j, h) /\ h.by \in Waiting
      BY <2>3, <3>1, <3>2 DEF Awaits
    <3>4. PICK g \in flushes' : Same(g, h)
      BY <1>8, <3>3
    <3> QED BY <3>2, <3>4 DEF Awaits, Same
  <2>4. ASSUME NEW g \in flushes', g.by \in Waiting
        PROVE  \E i \in jobs' : Awaits(i, g)
    <3>1. PICK h \in flushes : Same(g, h) /\ ~Awaits(j, h)
      BY <1>8, <2>4
    <3>2. PICK i \in jobs : Awaits(i, h)
      BY <2>4, <3>1 DEF Same
    <3> QED BY <2>1, <3>1, <3>2 DEF Awaits, Same
  <2> QED BY <1>8, <2>2, <2>3, <2>4
<1>9. ASSUME NEW j \in jobs, FailDeploy(j)
      PROVE  Worked'
  <2>1. EndJob(j, "error") /\ flushes' = flushes /\ j.at \notin Waiting
    BY <1>9 DEF FailDeploy, registryVars, Waiting
  <2> QED BY <1>8, <2>1 DEF Same, Awaits
<1>10. ASSUME NEW j \in jobs, RegisterName(j)
       PROVE  Worked'
  <2>1. j.at \notin Waiting
    BY <1>10 DEF RegisterName, Waiting
  <2>2. CASE Put(cache, "name", j.token) /\ Advance(j, "name", j.stack) /\ status' = status
    <3>1. flushes' = flushes \cup {NewFlush("name", j.token)}
      BY <2>2 DEF Put, NewFlush
    <3>2. \E f : flushes' = flushes \cup {f} /\ f.by = "name" /\ f.token = j.token
      <4>1. NewFlush("name", j.token).by = "name" /\ NewFlush("name", j.token).token = j.token
        BY DEF NewFlush
      <4> QED BY <3>1, <4>1
    <3> QED BY <1>5, <2>1, <2>2, <3>2, AdvanceWorked
  <2>3. CASE EndJob(j, "complete") /\ flushes' = flushes
    BY <1>8, <2>1, <2>3 DEF Same, Awaits
  <2> QED BY <1>10, <2>2, <2>3 DEF RegisterName, registryVars
<1>11. ASSUME NEW f \in flushes, Open(f)
       PROVE  Worked'
  <2>1. OpenFile(f) /\ UNCHANGED <<jobs, status>>
    BY <1>11 DEF Open, financeVars
  <2>2. \A j \in jobs' : j.at \in Waiting => \E g \in flushes' : Awaits(j, g)
    BY <2>1, OpenKeepsFlushes DEF Awaits, Same
  <2>3. \A g \in flushes' : g.by \in Waiting => \E j \in jobs' : Awaits(j, g)
    BY <2>1, OpenKeepsFlushes DEF Awaits, Same
  <2> QED BY <2>1, <2>2, <2>3, OpenKeepsFlushes
<1>12. ASSUME NEW f \in flushes, Land(f)
       PROVE  Worked'
  <2>1. FillFile(f) /\ Continue(f)
    BY <1>12 DEF Land
  <2>2. /\ \A g \in flushes' : \E h \in flushes \ {f} : Same(g, h)
        /\ \A h \in flushes \ {f} : \E g \in flushes' : Same(g, h)
        /\ \A g, h \in flushes' : g.by \in Waiting /\ h.by = g.by /\ h.token = g.token => g = h
    BY <2>1, FillKeepsFlushes
  <2>3. CASE f.by = "register"
    <3>1. StartDeploy(f.token) /\ f.by \notin Waiting /\ f.token \in Token
      BY <1>0, <2>1, <2>3 DEF Continue, Waiting
    <3>2. \A h \in flushes : h.by \in Waiting => \E g \in flushes' : Same(g, h)
      BY <2>2, <3>1
    <3> QED BY <1>2, <2>2, <3>1, <3>2
  <2>4. CASE f.by = "delete"
    <3>1. UNCHANGED <<jobs, status>> /\ f.by \notin Waiting
      BY <2>1, <2>4 DEF Continue, Waiting
    <3>2. \A j \in jobs : j.at \in Waiting => \E g \in flushes' : Awaits(j, g)
      BY <2>2, <3>1 DEF Awaits, Same
    <3>3. \A g \in flushes' : g.by \in Waiting => \E j \in jobs : Awaits(j, g)
      BY <2>2 DEF Awaits, Same
    <3> QED BY <2>2, <3>1, <3>2, <3>3
  <2>5. CASE f.by = "attach"
    <3>1. PICK j \in jobs : j.token = f.token /\ j.at = "attach" /\ Advance(j, "ens", j.stack)
      BY <2>1, <2>5 DEF Continue
    <3>2. status' = status
      BY <2>1, <2>5 DEF Continue
    <3>3. PICK new : jobs' = (jobs \ {j}) \cup {new} /\ new.token = j.token /\ new.at = "ens"
      BY <3>1, AdvanceWorked
    <3>4. \A h \in flushes \ {f} : h.by \in Waiting => h.token # j.token
      <4> SUFFICES ASSUME NEW h \in flushes, h.by \in Waiting, h.token = j.token PROVE h = f
        OBVIOUS
      <4>1. PICK i \in jobs : Awaits(i, h)
        OBVIOUS
      <4>2. i = j
        BY <3>1, <4>1, OneJob DEF Awaits
      <4> QED BY <2>5, <3>1, <4>1, <4>2 DEF Awaits
    <3>5. \A s \in Token : status'[s] = "deploying" => \E i \in jobs' : i.token = s
      BY <3>2, <3>3
    <3>6. ASSUME NEW i \in jobs', i.at \in Waiting
          PROVE  \E g \in flushes' : Awaits(i, g)
      <4>1. i \in jobs /\ i # j
        BY <3>3, <3>6 DEF Waiting
      <4>2. PICK h \in flushes : Awaits(i, h)
        BY <3>6, <4>1
      <4>3. h # f
        BY <3>1, <4>1, <4>2, OneJob DEF Awaits
      <4> QED BY <2>2, <4>2, <4>3 DEF Awaits, Same
    <3>7. ASSUME NEW g \in flushes', g.by \in Waiting
          PROVE  \E i \in jobs' : Awaits(i, g)
      <4>1. PICK h \in flushes \ {f} : Same(g, h)
        BY <2>2
      <4>2. PICK i \in jobs : Awaits(i, h)
        BY <3>7, <4>1 DEF Same
      <4>3. i # j
        BY <3>4, <3>7, <4>1, <4>2 DEF Awaits, Same
      <4> QED BY <3>3, <4>1, <4>2, <4>3 DEF Awaits, Same
    <3> QED BY <2>2, <3>5, <3>6, <3>7
  <2>6. CASE f.by = "name"
    <3>1. PICK j \in jobs : j.token = f.token /\ j.at = "name" /\ EndJob(j, "complete")
      BY <2>1, <2>6 DEF Continue
    <3>2. Awaits(j, f) /\ f.by \in Waiting
      BY <2>6, <3>1 DEF Awaits, Waiting
    <3>3. \A h \in flushes \ {f} : h.by \in Waiting => ~Awaits(j, h)
      BY <3>2 DEF Awaits
    <3>4. \A g \in flushes' : g.by \in Waiting => \E h \in flushes : Same(g, h) /\ ~Awaits(j, h)
      BY <2>2, <3>3 DEF Same
    <3>5. \A h \in flushes : h.by \in Waiting /\ ~Awaits(j, h) => \E g \in flushes' : Same(g, h)
      BY <2>2, <3>2
    <3> QED BY <1>8, <2>2, <3>1, <3>4, <3>5
  <2> QED BY <1>0, <2>3, <2>4, <2>5, <2>6
<1>13. CASE Crash
  <2>1. jobs' = {} /\ flushes' = {} /\ \A s \in Token : status'[s] = "absent"
    BY <1>13 DEF Crash, Reload
  <2> QED BY <2>1
<1>14. CASE UNCHANGED vars
  BY <1>14 DEF vars, financeVars, registryVars, Awaits
<1> QED BY <1>1, <1>3, <1>4, <1>6, <1>7, <1>9, <1>10, <1>11, <1>12, <1>13, <1>14 DEF Next

\* What a job has left.
LEMMA StepsDown ==
  ASSUME PadInv, Worked, NEW j \in jobs, StepOf(j), NEW i \in jobs', i.token = j.token
  PROVE  StepsLeft(i)' < StepsLeft(j)
<1>0. /\ j.at \in {"share", "vault", "sale", "attach", "ens", "name"} /\ j.token \in Token
      /\ \A f \in flushes : f.by \in {"register", "delete", "attach", "name"}
  BY DEF PadInv, TypeOK, Job, RegistryTypeOK, Flush
<1>1. /\ OfStage[j.at] - 1 <= StepsLeft(j) /\ StepsLeft(j) \in Int
      /\ j.at \notin Waiting => StepsLeft(j) = OfStage[j.at]
  BY <1>0 DEF StepsLeft, OfStage, Awaits, Waiting
<1>2. i.at \in {"share", "vault", "sale", "attach", "ens", "name"} =>
        StepsLeft(i)' <= OfStage[i.at] /\ StepsLeft(i)' \in Int
  BY DEF StepsLeft, OfStage
<1>stages. /\ OfStage["share"] = 8 /\ OfStage["vault"] = 7 /\ OfStage["sale"] = 6
           /\ OfStage["attach"] = 5 /\ OfStage["ens"] = 3 /\ OfStage["name"] = 2
  BY DEF OfStage
<1>3. ASSUME NEW at \in {"vault", "sale", "attach", "ens", "name"},
             \E new : jobs' = (jobs \ {j}) \cup {new} /\ new.token = j.token /\ new.at = at
      PROVE  i.at = at
  BY <1>3, OneJob
<1>4. ASSUME NEW outcome \in {"complete", "error"}, EndJob(j, outcome)
      PROVE  FALSE
  BY <1>4, EndWorked, OneJob
<1>5. CASE DeployContract(j)
  <2>1. PICK at \in {"vault", "sale"} :
          Advance(j, at, 0) /\ j.at = IF at = "vault" THEN "share" ELSE "vault"
    BY <1>5 DEF DeployContract
  <2>2. i.at = at
    BY <1>3, <2>1, AdvanceWorked
  <2> QED BY <1>1, <1>2, <2>1, <2>2, <1>stages DEF Waiting
<1>6. CASE AttachFinance(j)
  <2>1. j.at = "sale" /\ (Advance(j, "attach", stacks') \/ Advance(j, "ens", stacks'))
    BY <1>6 DEF AttachFinance
  <2>2. j.at = "sale" /\ i.at \in {"attach", "ens"}
    BY <1>3, <2>1, AdvanceWorked
  <2> QED BY <1>1, <1>2, <2>2, <1>stages DEF Waiting
<1>7. CASE FailDeploy(j)
  BY <1>4, <1>7 DEF FailDeploy
<1>8. CASE RegisterName(j)
  <2>1. j.at = "ens" /\ Advance(j, "name", j.stack)
    BY <1>4, <1>8 DEF RegisterName
  <2>2. i.at = "name"
    BY <1>3, <2>1, AdvanceWorked
  <2> QED BY <1>1, <1>2, <2>1, <2>2, <1>stages DEF Waiting
<1>9. ASSUME NEW f \in flushes, Awaits(j, f), Open(f)
      PROVE  StepsLeft(i)' < StepsLeft(j)
  <2>1. OpenFile(f) /\ jobs' = jobs /\ i = j
    BY <1>9, OneJob DEF Open, financeVars
  <2>2. ~f.opened /\ \E g \in flushes' : Same(g, f) /\ g.opened
    BY <2>1, OpenKeepsFlushes
  <2>3. j.at \in {"attach", "name"} /\ f.by \in Waiting
    BY <1>0, <1>9 DEF Awaits, Waiting
  <2>4. ~\E g \in flushes : Awaits(j, g) /\ g.opened
    BY <1>9, <2>2, <2>3 DEF Awaits, Worked
  <2>5. \E g \in flushes' : Awaits(j, g) /\ g.opened
    BY <1>9, <2>2 DEF Awaits, Same
  <2> QED BY <2>1, <2>3, <2>4, <2>5 DEF StepsLeft, OfStage
<1>10. ASSUME NEW f \in flushes, Awaits(j, f), Land(f)
       PROVE  StepsLeft(i)' < StepsLeft(j)
  <2>1. Continue(f) /\ f.token = j.token /\ f.by = j.at /\ j.at \in {"attach", "name"}
    BY <1>0, <1>10 DEF Land, Awaits
  <2>2. CASE j.at = "attach"
    <3>1. PICK k \in jobs : k.token = f.token /\ Advance(k, "ens", k.stack)
      BY <2>1, <2>2 DEF Continue
    <3>2. i.at = "ens"
      BY <1>3, <2>1, <3>1, AdvanceWorked, OneJob
    <3> QED BY <1>1, <1>2, <2>2, <3>2, <1>stages
  <2>3. CASE j.at = "name"
    <3>1. PICK k \in jobs : k.token = f.token /\ EndJob(k, "complete")
      BY <2>1, <2>3 DEF Continue
    <3> QED BY <1>4, <2>1, <3>1, OneJob
  <2> QED BY <2>1, <2>2, <2>3
<1> QED BY <1>5, <1>6, <1>7, <1>8, <1>9, <1>10 DEF StepOf, JobStep, FlushStep

\* A job that does not move has what it had left, if the flush it waits for stays as opened as
\* it was.
LEMMA StepsSame ==
  ASSUME PadInv, NEW j \in jobs,
         \A h \in flushes : Awaits(j, h) /\ h.opened => \E g \in flushes' : Same(g, h)
  PROVE  StepsLeft(j)' <= StepsLeft(j)
<1>1. j.at \in {"share", "vault", "sale", "attach", "ens", "name"}
  BY DEF PadInv, TypeOK, Job
<1>2. (\E h \in flushes : Awaits(j, h) /\ h.opened) => \E g \in flushes' : Awaits(j, g) /\ g.opened
  BY DEF Awaits, Same
<1> QED BY <1>1, <1>2 DEF StepsLeft, OfStage

LEMMA StepsKept ==
  ASSUME PadInv, Worked, [Next]_vars, NEW j \in jobs, NEW i \in jobs', i.token = j.token
  PROVE  StepsLeft(i)' <= StepsLeft(j)
<1>0. /\ j.token \in Token /\ status[j.token] = "deploying"
      /\ \A f \in flushes : f.token \in Token
      /\ StepsLeft(j) \in Int
      /\ i.at \in {"share", "vault", "sale", "attach", "ens", "name"} => StepsLeft(i)' \in Int
  BY DEF PadInv, TypeOK, Job, JobsFit, RegistryTypeOK, Flush, StepsLeft, OfStage
<1>1. CASE StepOf(j)
  <2>1. StepsLeft(i)' < StepsLeft(j)
    BY <1>1, StepsDown
  <2>2. PadInv'
    BY StepPad
  <2>3. StepsLeft(i)' \in Int
    BY <1>0, <2>2 DEF PadInv, TypeOK, Job
  <2> QED BY <1>0, <2>1, <2>3
<1>2. ASSUME jobs' \subseteq jobs, flushes \subseteq flushes'
      PROVE  StepsLeft(i)' <= StepsLeft(j)
  BY <1>2, OneJob, StepsSame DEF Same
<1>3. ASSUME NEW t \in Token, \/ \E withFinance \in BOOLEAN : Register(t, withFinance)
                              \/ Delete(t) \/ PollFinance(t)
      PROVE  StepsLeft(i)' <= StepsLeft(j)
  BY <1>2, <1>3 DEF Register, Delete, PollFinance, Put, financeVars, registryVars
<1>4. ASSUME NEW t \in Token, StartDeploy(t)
      PROVE  i = j
  <2>1. i \in jobs
    BY <1>0, <1>4, Starts
  <2> QED BY <2>1, OneJob
<1>5. ASSUME NEW t \in Token, DeployFinance(t)
      PROVE  StepsLeft(i)' <= StepsLeft(j)
  <2>1. i = j /\ flushes' = flushes
    BY <1>4, <1>5 DEF DeployFinance, registryVars
  <2> QED BY <2>1, StepsSame DEF Same
<1>6. ASSUME NEW k \in jobs, JobStep(k), k # j
      PROVE  StepsLeft(i)' <= StepsLeft(j)
  <2>1. k.token # j.token
    BY <1>6, OneJob
  <2>2. \/ \E at \in {"vault", "sale", "attach", "ens", "name"}, stack \in {0, k.stack, stacks'} :
             Advance(k, at, stack)
        \/ \E outcome \in {"complete", "error"} : EndJob(k, outcome)
    BY <1>6 DEF JobStep, DeployContract, AttachFinance, FailDeploy, RegisterName
  <2>3. i \in jobs
    BY <2>1, <2>2, AdvanceWorked, EndWorked
  <2>4. flushes \subseteq flushes'
    BY <1>6 DEF JobStep, DeployContract, AttachFinance, FailDeploy, RegisterName, Put, registryVars
  <2> QED BY <2>3, <2>4, OneJob, StepsSame DEF Same
<1>7. ASSUME NEW f \in flushes, Open(f)
      PROVE  StepsLeft(i)' <= StepsLeft(j)
  <2>1. OpenFile(f) /\ i = j
    BY <1>7, OneJob DEF Open, financeVars
  <2> QED BY <2>1, OpenKeepsFlushes, StepsSame
<1>8. ASSUME NEW f \in flushes, Land(f), ~Awaits(j, f)
      PROVE  StepsLeft(i)' <= StepsLeft(j)
  <2>1. FillFile(f) /\ Continue(f) /\ f.by \in {"register", "delete", "attach", "name"}
    BY <1>8 DEF Land, PadInv, TypeOK, RegistryTypeOK, Flush
  <2>2. i = j
    <3>1. CASE f.by = "register"
      BY <1>0, <1>4, <2>1, <3>1 DEF Continue
    <3>2. CASE f.by = "delete"
      BY <2>1, <3>2, OneJob DEF Continue
    <3>3. CASE f.by = "attach"
      <4>1. PICK k \in jobs : k.token = f.token /\ k.at = "attach" /\ Advance(k, "ens", k.stack)
        BY <2>1, <3>3 DEF Continue
      <4>2. k.token # j.token
        BY <1>8, <3>3, <4>1, OneJob DEF Awaits
      <4>3. i \in jobs
        BY <4>1, <4>2, AdvanceWorked
      <4> QED BY <4>3, OneJob
    <3>4. CASE f.by = "name"
      <4>1. PICK k \in jobs : k.token = f.token /\ k.at = "name" /\ EndJob(k, "complete")
        BY <2>1, <3>4 DEF Continue
      <4>2. i \in jobs
        BY <4>1, EndWorked
      <4> QED BY <4>2, OneJob
    <3> QED BY <2>1, <3>1, <3>2, <3>3, <3>4
  <2>3. \A h \in flushes : Awaits(j, h) => \E g \in flushes' : Same(g, h)
    BY <1>8, <2>1, FillKeepsFlushes
  <2> QED BY <2>2, <2>3, StepsSame
<1>9. CASE Crash
  BY <1>9 DEF Crash
<1>10. CASE UNCHANGED vars
  BY <1>2, <1>10 DEF vars, financeVars, registryVars
<1> QED
  <2>1. CASE \E k \in jobs : JobStep(k)
    BY <1>1, <1>6, <2>1 DEF StepOf
  <2>2. CASE \E f \in flushes : FlushStep(f)
    BY <1>1, <1>7, <1>8, <2>2 DEF StepOf, FlushStep
  <2> QED BY <1>3, <1>5, <1>9, <1>10, <2>1, <2>2 DEF Next, JobStep, FlushStep

---------------------------------------------------------------------------
(* PadInv is an invariant of registry and jobs: one job at most for an agent, the only flush  *)
(* under way carries the table, and every deployment has its excuse.                          *)
THEOREM PadInvariant == Spec => []PadInv
BY InitPad, StepPad, PTL DEF Spec

(* The file says what the registry says while no flush is under way, as long as flushes never *)
(* overlapped and no restart hit one.                                                         *)
THEOREM FileFollows == Spec => []FileIsCurrent
<1>1. PadInv => FileIsCurrent
  BY DEF PadInv, RegistryInv, FlushIsCurrent, FileIsCurrent
<1> QED BY <1>1, PadInvariant, PTL

(* No agent is deployed for twice without a reason. *)
THEOREM DeploysExplained == Spec => []DeploysAreExplained
<1>1. PadInv => DeploysAreExplained
  BY DEF PadInv, Explained, DeploysAreExplained, TypeOK
<1> QED BY <1>1, PadInvariant, PTL

(* A job never replaces the finance of the registration it was started for. *)
THEOREM FinanceKept == Spec => FinanceStays
<1>1. PadInv /\ [Next]_vars =>
        [\A t \in Token :
           (cache[t].finance # 0 /\ cache'[t].finance # cache[t].finance) =>
             \/ cache'[t].reg # cache[t].reg
             \/ crashes' # crashes
             \/ \E j \in jobs : j.token = t /\ j.reg # cache[t].reg]_vars
  BY FinanceStep
<1> QED BY <1>1, PadInvariant, PTL DEF Spec, FinanceStays

(* An entry that says "deploying" has its job, and a job that waits for the file has a flush  *)
(* of its own under way.                                                                      *)
THEOREM DeploysWorkedOn == Spec => []DeploysAreWorkedOn
<1>1. PadInv /\ Worked => DeploysAreWorkedOn
  BY DEF Worked, DeploysAreWorkedOn
<1>2. PadInv /\ Worked /\ [Next]_vars => Worked'
  BY StepWorked
<1> QED BY <1>1, <1>2, InitWorked, PadInvariant, PTL DEF Spec

(* A deployment has only so many steps, and uses one up whenever it goes on.                  *)
THEOREM DeploysEndByCount == Spec => DeploysRunDown
<1>1. PadInv /\ Worked /\ [Next]_vars =>
        [\A j \in jobs : \A i \in jobs' : i.token = j.token =>
           /\ StepsLeft(i)' <= StepsLeft(j)
           /\ StepOf(j) => StepsLeft(i)' < StepsLeft(j)]_vars
  BY StepsDown, StepsKept
<1>2. PadInv /\ Worked /\ [Next]_vars => Worked'
  BY StepWorked
<1> QED BY <1>1, <1>2, InitWorked, PadInvariant, PTL DEF Spec, DeploysRunDown

---------------------------------------------------------------------------
\* The page takes only steps that Launchpad allows, so what is proved of that holds here; and
\* it shows what the record has.

\* The page's steps are Launchpad's, or leave it alone.
LEMMA RefinesLaunchpad ==
  ASSUME page \in Page, LaunchNext \/ UNCHANGED launchVars
  PROVE  [Next]_vars
<1>1. page.token \in Token
  BY DEF Page
<1>2. CASE Mint \/ MintFails \/ MintConfirmed \/ RetryRegister \/ GiveUpRegister \/ KickFails
           \/ ShowFinance \/ PollFails \/ ApproveShares \/ UNCHANGED launchVars
  BY <1>2 DEF Mint, MintFails, MintConfirmed, RetryRegister, GiveUpRegister, KickFails,
              ShowFinance, PollFails, ApproveShares, launchVars
<1>3. CASE \E a \in posts : PostArrives(a)
  BY <1>1, <1>3 DEF PostArrives, Next
<1>4. CASE KickDeploy
  BY <1>1, <1>4 DEF KickDeploy, Next
<1>5. CASE \E t \in Token :
             \/ \E withFinance \in BOOLEAN : OthersRegister(t, withFinance)
             \/ Delete(t) /\ lapse' = TRUE /\ UNCHANGED <<page, posts>>
             \/ (DeployFinance(t) \/ PollFinance(t)) /\ UNCHANGED clientVars
  BY <1>5 DEF OthersRegister, Next
<1>6. CASE \E j \in jobs : LaunchJobStep(j)
  BY <1>6 DEF LaunchJobStep, JobStep, Next
<1>7. CASE \E f \in flushes : LaunchFlushStep(f)
  BY <1>7 DEF LaunchFlushStep, LandAndAnswer, Next
<1>8. CASE Crash /\ lapse' = TRUE /\ UNCHANGED <<page, posts>>
  BY <1>8 DEF Next
<1> QED BY <1>2, <1>3, <1>4, <1>5, <1>6, <1>7, <1>8 DEF LaunchNext

---------------------------------------------------------------------------
\* As long as no registration dropped a finance: what a job has attached is in the record, an
\* entry that is complete reports what the record has, and the page shows it.
Attached(j) == j.at \in Before \/ (j.stack # 0 /\ cache[j.token].finance = j.stack)
Reported(t) == status[t] = "complete" =>
                 reported[t] # 0 /\ reported[t] = cache[t].finance
Shown == FinanceOnPage =>
           /\ page.shown # 0 /\ page.shown = cache[page.token].finance
           /\ status[page.token] # "deploying"

NothingLost ==
  ~lapse => /\ \A j \in jobs : Known(j.token) /\ Attached(j)
            /\ \A t \in Token : Reported(t)
            /\ Shown

LaunchInv == PadInv /\ LaunchTypeOK /\ NothingLost

LEMMA InitLaunch == LaunchInit => LaunchInv
<1> SUFFICES ASSUME LaunchInit PROVE LaunchInv OBVIOUS
<1>1. PadInv
  BY InitPad DEF LaunchInit
<1>2. page \in Page
  <2>1. PICK t \in Token :
          page = [pc |-> "ready", token |-> t, attempt |-> 0, reg |-> 0, shown |-> 0]
    BY DEF LaunchInit
  <2>2. 0 \in 0 .. MaxAttempts
    BY LaunchClientAssumption
  <2> QED BY <2>1, <2>2 DEF Page
<1>4. posts \subseteq 1 .. MaxAttempts /\ lapse \in BOOLEAN
  BY DEF LaunchInit
<1>3. NothingLost
  BY DEF LaunchInit, Init, NothingLost, Reported, Shown, FinanceOnPage
<1> QED BY <1>1, <1>2, <1>3, <1>4 DEF LaunchInv, LaunchTypeOK, PadInv

\* The page, when nothing that it shows changes.
LEMMA KeepsShown ==
  ASSUME NothingLost, UNCHANGED <<cache, jobs, status, reported, lapse>>,
         page'.token = page.token,
         FinanceOnPage' => \/ FinanceOnPage /\ page'.shown = page.shown
                           \/ /\ page'.shown # 0 /\ page'.shown = cache[page.token].finance
                              /\ status[page.token] # "deploying"
  PROVE  NothingLost'
BY DEF NothingLost, Known, Attached, Reported, Shown

LEMMA Answers ==
  ASSUME PadInv, NothingLost, ~lapse, page \in Page, status[page.token] # "deploying", Answer # 0
  PROVE  Answer = cache[page.token].finance
<1>1. page.token \in Token
  BY DEF Page
<1>2. CASE status[page.token] = "complete"
  BY <1>1, <1>2 DEF Answer, NothingLost, Reported
<1>3. CASE status[page.token] = "error"
  BY <1>3 DEF Answer
<1>4. CASE status[page.token] \notin {"complete", "error"}
  BY <1>4 DEF Answer
<1> QED BY <1>2, <1>3, <1>4

LEMMA AnswerType ==
  ASSUME TypeOK, page \in Page
  PROVE  Answer \in Nat
<1>1. page.token \in Token
  BY DEF Page
<1>2. cache[page.token].finance \in Nat /\ reported[page.token] \in Nat
  BY <1>1, RecordFields DEF TypeOK, RegistryTypeOK
<1>3. CASE status[page.token] = "complete"
  BY <1>2, <1>3 DEF Answer
<1>4. CASE status[page.token] = "error"
  BY <1>4 DEF Answer
<1>5. CASE status[page.token] \notin {"complete", "error"}
  BY <1>2, <1>5 DEF Answer
<1> QED BY <1>3, <1>4, <1>5

\* The types of the page's own variables.
LEMMA ClientTypes ==
  ASSUME LaunchInv, LaunchNext \/ UNCHANGED launchVars
  PROVE  page' \in Page /\ page'.token = page.token /\ posts' \subseteq 1 .. MaxAttempts
         /\ lapse' \in BOOLEAN
<1> USE LaunchClientAssumption
<1>0. /\ page \in Page /\ posts \subseteq 1 .. MaxAttempts /\ lapse \in BOOLEAN /\ TypeOK
      /\ registrations \in Nat
  BY DEF LaunchInv, LaunchTypeOK, PadInv, TypeOK
<1>1. CASE Mint \/ MintFails \/ GiveUpRegister \/ KickFails \/ PollFails \/ ApproveShares \/ KickDeploy
  BY <1>0, <1>1 DEF Mint, MintFails, GiveUpRegister, KickFails, PollFails, ApproveShares,
                    KickDeploy, Goto, Page
<1>2. CASE MintConfirmed
  <2>1. 1 \in 0 .. MaxAttempts /\ 1 \in 1 .. MaxAttempts
    OBVIOUS
  <2>2. page' = [page EXCEPT !.pc = "registering", !.attempt = 1]
    BY <1>2 DEF MintConfirmed
  <2>3. page' \in Page /\ page'.token = page.token
    BY <1>0, <2>1, <2>2 DEF Page
  <2>4. posts' = {1} /\ lapse' = lapse
    BY <1>2 DEF MintConfirmed
  <2> QED BY <1>0, <2>1, <2>3, <2>4
<1>3. CASE RetryRegister
  <2>1. page.attempt \in 0 .. MaxAttempts /\ page.attempt < MaxAttempts
    BY <1>0, <1>3 DEF RetryRegister, Page
  <2>2. page.attempt + 1 \in 0 .. MaxAttempts /\ page.attempt + 1 \in 1 .. MaxAttempts
    BY <2>1
  <2>3. page' = [page EXCEPT !.attempt = @ + 1, !.reg = 0]
    BY <1>3 DEF RetryRegister
  <2>4. page' \in Page /\ page'.token = page.token
    BY <1>0, <2>2, <2>3 DEF Page
  <2>5. posts' = posts \cup {page.attempt + 1} /\ lapse' = lapse
    BY <1>3 DEF RetryRegister
  <2> QED BY <1>0, <2>2, <2>4, <2>5
<1>4. ASSUME NEW a \in posts, PostArrives(a)
      PROVE  page' \in Page /\ page'.token = page.token /\ posts' \subseteq 1 .. MaxAttempts
             /\ lapse' \in BOOLEAN
  <2>1. registrations' = registrations + 1
    BY <1>4 DEF PostArrives, Register
  <2>2. page' = page \/ page' = [page EXCEPT !.reg = registrations']
    BY <1>4 DEF PostArrives
  <2> QED BY <1>0, <1>4, <2>1, <2>2 DEF PostArrives, Lapsing, Page
<1>5. CASE ShowFinance
  BY <1>0, <1>5, AnswerType DEF ShowFinance, Page
<1>6. ASSUME NEW t \in Token, NEW withFinance \in BOOLEAN, OthersRegister(t, withFinance)
      PROVE  page' \in Page /\ page'.token = page.token /\ posts' \subseteq 1 .. MaxAttempts
             /\ lapse' \in BOOLEAN
  BY <1>0, <1>6 DEF OthersRegister, Lapsing
<1>7. ASSUME NEW f \in flushes, LandAndAnswer(f)
      PROVE  page' \in Page /\ page'.token = page.token /\ posts' \subseteq 1 .. MaxAttempts
             /\ lapse' \in BOOLEAN
  BY <1>0, <1>7 DEF LandAndAnswer, Goto, Page
<1>8. CASE UNCHANGED <<page, posts>> /\ lapse' \in {lapse, TRUE}
  BY <1>0, <1>8
<1> QED BY <1>1, <1>2, <1>3, <1>4, <1>5, <1>6, <1>7, <1>8
        DEF LaunchNext, LaunchJobStep, LaunchFlushStep, clientVars, launchVars

---------------------------------------------------------------------------
\* What the operator's steps leave of NothingLost, with a page that stays as it is or waits.

LEMMA RegisterLoses ==
  ASSUME LaunchInv, NEW t \in Token, NEW withFinance \in BOOLEAN, Register(t, withFinance),
         Lapsing(t), page'.token = page.token, page'.shown = page.shown,
         FinanceOnPage' => FinanceOnPage
  PROVE  NothingLost'
<1> SUFFICES ASSUME ~lapse' PROVE NothingLost' BY DEF NothingLost
<1> USE DEF LaunchInv, LaunchTypeOK, PadInv
<1>1. ~lapse /\ cache[t].finance = 0
  BY DEF Lapsing
<1>2. cache \in Table /\ registrations \in Nat /\ page.token \in Token
      /\ \A j \in jobs : j.token \in Token
  BY DEF TypeOK, RegistryTypeOK, Page, Job
<1> DEFINE record == [reg |-> registrations + 1, finance |-> IF withFinance THEN stacks' ELSE 0]
<1>3. cache' = [cache EXCEPT ![t] = record] /\ record.reg # 0
  BY <1>2 DEF Register, Put
<1>4. UNCHANGED <<jobs, status, reported>>
  BY DEF Register
<1> HIDE DEF record
<1>5. \A s \in Token : cache'[s] = IF s = t THEN record ELSE cache[s]
  BY <1>2, <1>3 DEF Table
<1>6. \A j \in jobs' : Known(j.token)' /\ Attached(j)'
  BY <1>1, <1>2, <1>3, <1>4, <1>5 DEF NothingLost, Known, Attached, NoRecord
<1>7. \A s \in Token : Reported(s)'
  BY <1>1, <1>4, <1>5 DEF NothingLost, Reported
<1>8. Shown'
  BY <1>1, <1>2, <1>4, <1>5 DEF NothingLost, Shown
<1> QED BY <1>6, <1>7, <1>8 DEF NothingLost

LEMMA StartLoses ==
  ASSUME LaunchInv, NEW t \in Token, StartDeploy(t), UNCHANGED <<cache, lapse>>,
         page'.token = page.token, page'.shown = page.shown, FinanceOnPage' => FinanceOnPage
  PROVE  NothingLost'
<1> SUFFICES ASSUME ~lapse' PROVE NothingLost' BY DEF NothingLost
<1> USE DEF LaunchInv, LaunchTypeOK, PadInv
<1>1. page.token \in Token /\ \A j \in jobs : j.token \in Token
  BY DEF TypeOK, Page, Job
<1>2. CASE status[t] = "deploying"
  BY <1>2 DEF StartDeploy, NothingLost, Known, Attached, Reported, Shown
<1>3. CASE status[t] # "deploying"
  <2> DEFINE new == NewJob(t)
  <2>1. /\ status' = [status EXCEPT ![t] = IF ~Known(t) THEN "error"
                                           ELSE IF cache[t].finance # 0 THEN "complete"
                                           ELSE "deploying"]
        /\ reported' = [reported EXCEPT ![t] = cache[t].finance]
        /\ jobs' = jobs \/ (status'[t] = "deploying" /\ jobs' = jobs \cup {new})
    BY <1>3 DEF StartDeploy
  <2>2. \A s \in Token : /\ reported'[s] = IF s = t THEN cache[t].finance ELSE reported[s]
                         /\ status'[s] = IF s # t THEN status[s]
                                         ELSE IF ~Known(t) THEN "error"
                                         ELSE IF cache[t].finance # 0 THEN "complete"
                                         ELSE "deploying"
    BY <2>1 DEF TypeOK
  <2>3. new.token = t /\ new.at = "share"
    BY DEF NewJob
  <2> HIDE DEF new
  <2>4. \A j \in jobs' : Known(j.token)' /\ Attached(j)'
    BY <2>1, <2>2, <2>3 DEF NothingLost, Known, Attached, Before
  <2>5. \A s \in Token : Reported(s)'
    BY <2>2 DEF NothingLost, Reported
  <2>6. Shown'
    BY <1>1, <2>2 DEF NothingLost, Shown
  <2> QED BY <2>4, <2>5, <2>6 DEF NothingLost
<1> QED BY <1>2, <1>3

LEMMA EndLoses ==
  ASSUME LaunchInv, NEW j \in jobs, NEW outcome \in {"complete", "error"}, EndJob(j, outcome),
         outcome = "complete" => j.at \notin Before,
         UNCHANGED <<cache, lapse>>,
         page'.token = page.token, page'.shown = page.shown, FinanceOnPage' => FinanceOnPage
  PROVE  NothingLost'
<1> SUFFICES ASSUME ~lapse' PROVE NothingLost' BY DEF NothingLost
<1> USE DEF LaunchInv, LaunchTypeOK, PadInv
<1>1. page.token \in Token /\ j.token \in Token
  BY DEF TypeOK, Page, Job
<1>2. \A s \in Token :
        /\ status'[s] = IF s = j.token THEN outcome ELSE status[s]
        /\ reported'[s] = IF s # j.token THEN reported[s]
                          ELSE IF outcome = "complete" THEN j.stack ELSE 0
  BY DEF EndJob, TypeOK
<1>3. jobs' = jobs \ {j}
  BY DEF EndJob
<1>4. \A i \in jobs' : Known(i.token)' /\ Attached(i)'
  BY <1>3 DEF NothingLost, Known, Attached
<1>5. \A s \in Token : Reported(s)'
  BY <1>2 DEF NothingLost, Reported, Attached
<1>6. Shown'
  BY <1>1, <1>2 DEF NothingLost, Shown
<1> QED BY <1>4, <1>5, <1>6 DEF NothingLost

LEMMA AdvanceLoses ==
  ASSUME LaunchInv, NEW j \in jobs, NEW at, NEW stack \in Nat, Advance(j, at, stack),
         UNCHANGED <<cache, status, reported, lapse>>,
         at \in Before \/ (j.at \notin Before /\ stack = j.stack),
         page'.token = page.token, page'.shown = page.shown, FinanceOnPage' => FinanceOnPage
  PROVE  NothingLost'
<1> SUFFICES ASSUME ~lapse' PROVE NothingLost' BY DEF NothingLost
<1> USE DEF LaunchInv, LaunchTypeOK, PadInv
<1> DEFINE new == [j EXCEPT !.at = at, !.stack = stack]
<1>1. new.token = j.token /\ new.at = at /\ new.stack = stack
  BY DEF TypeOK, Job
<1>2. jobs' = (jobs \ {j}) \cup {new}
  BY DEF Advance
<1> HIDE DEF new
<1>3. \A i \in jobs' : Known(i.token)' /\ Attached(i)'
  BY <1>1, <1>2 DEF NothingLost, Known, Attached
<1> QED BY <1>3 DEF NothingLost, Reported, Shown

LEMMA AttachLoses ==
  ASSUME LaunchInv, NEW j \in jobs, AttachFinance(j), UNCHANGED <<page, lapse>>
  PROVE  NothingLost'
<1> SUFFICES ASSUME ~lapse' PROVE NothingLost' BY DEF NothingLost
<1> USE DEF LaunchInv, LaunchTypeOK, PadInv
<1>1. /\ page.token \in Token /\ j.token \in Token /\ \A i \in jobs : i.token \in Token
      /\ cache \in Table /\ stacks \in Nat
  BY DEF TypeOK, RegistryTypeOK, Page, Job
<1>2. Known(j.token) /\ status[j.token] = "deploying"
  BY DEF NothingLost, JobsFit
<1> DEFINE new == [j EXCEPT !.at = "attach", !.stack = stacks']
           record == [cache[j.token] EXCEPT !.finance = stacks']
<1>3. /\ cache' = [cache EXCEPT ![j.token] = record] /\ stacks' = stacks + 1
      /\ jobs' = (jobs \ {j}) \cup {new} /\ UNCHANGED <<status, reported>>
  BY <1>2 DEF AttachFinance, Put, Advance
<1>4. new.token = j.token /\ new.at = "attach" /\ new.stack = stacks'
  BY DEF TypeOK, Job
<1>5. cache[j.token] \in [reg : Nat \ {0}, finance : Nat]
  BY <1>1, <1>2, RecordFields DEF Known
<1>6. record.finance = stacks' /\ record.reg # 0
  BY <1>5
<1> HIDE DEF new, record
<1>7. \A s \in Token : cache'[s] = IF s = j.token THEN record ELSE cache[s]
  BY <1>1, <1>3 DEF Table
<1>8. \A i \in jobs \ {j} : i.token # j.token
  BY DEF JobsFit
<1>9. \A i \in jobs' : Known(i.token)' /\ Attached(i)'
  BY <1>1, <1>3, <1>4, <1>6, <1>7, <1>8 DEF NothingLost, Known, Attached, NoRecord
<1>10. \A s \in Token : Reported(s)'
  BY <1>2, <1>3, <1>7 DEF NothingLost, Reported
<1>11. Shown'
  BY <1>1, <1>2, <1>3, <1>7 DEF NothingLost, Shown, FinanceOnPage
<1> QED BY <1>9, <1>10, <1>11 DEF NothingLost

LEMMA StepLaunch == LaunchInv /\ [LaunchNext]_launchVars => LaunchInv'
<1> SUFFICES ASSUME LaunchInv, LaunchNext \/ UNCHANGED launchVars PROVE LaunchInv' OBVIOUS
<1>1. PadInv'
  BY RefinesLaunchpad, StepPad DEF LaunchInv, LaunchTypeOK
<1>2. LaunchTypeOK' /\ page'.token = page.token
  BY <1>1, ClientTypes DEF LaunchTypeOK, PadInv
<1>0. page \in Page /\ TypeOK /\ NothingLost /\ page.token \in Token /\ PadInv
      /\ \A j \in jobs : j.token \in Token /\ j.stack \in Nat
  BY DEF LaunchInv, LaunchTypeOK, Page, TypeOK, Job
<1>3. CASE Mint \/ MintFails \/ GiveUpRegister \/ KickFails \/ PollFails \/ MintConfirmed
           \/ RetryRegister
  <2>1. UNCHANGED <<cache, jobs, status, reported, lapse>>
    BY <1>3 DEF Mint, MintFails, GiveUpRegister, KickFails, PollFails, MintConfirmed,
                RetryRegister, vars, registryVars, financeVars
  <2>2. ~FinanceOnPage'
    BY <1>0, <1>3 DEF Mint, MintFails, GiveUpRegister, KickFails, PollFails, MintConfirmed,
                      RetryRegister, Goto, At, FinanceOnPage, Page
  <2> QED BY <1>0, <1>1, <1>2, <2>1, <2>2, KeepsShown DEF LaunchInv
<1>4. CASE ApproveShares
  <2>1. UNCHANGED <<cache, jobs, status, reported, lapse>>
    BY <1>4 DEF ApproveShares, vars, registryVars, financeVars
  <2>2. FinanceOnPage /\ page'.shown = page.shown
    BY <1>0, <1>4 DEF ApproveShares, Goto, At, FinanceOnPage, Page
  <2> QED BY <1>0, <1>1, <1>2, <2>1, <2>2, KeepsShown DEF LaunchInv
<1>5. CASE ShowFinance
  <2>1. UNCHANGED <<cache, jobs, status, reported, lapse>>
    BY <1>5 DEF ShowFinance, vars, registryVars, financeVars
  <2>2. page'.shown = Answer /\ Answer # 0 /\ status[page.token] # "deploying"
    BY <1>0, <1>5 DEF ShowFinance, Page
  <2>3. CASE lapse
    BY <1>1, <1>2, <2>1, <2>3 DEF LaunchInv, NothingLost
  <2>4. CASE ~lapse
    BY <1>0, <1>1, <1>2, <2>1, <2>2, <2>4, Answers, KeepsShown DEF LaunchInv
  <2> QED BY <2>3, <2>4
<1>6. ASSUME NEW a \in posts, PostArrives(a) PROVE LaunchInv'
  <2>1. Register(page.token, FALSE) /\ Lapsing(page.token)
    BY <1>6 DEF PostArrives
  <2>2. page'.shown = page.shown /\ page'.pc = page.pc
    BY <1>0, <1>6 DEF PostArrives, Page
  <2> QED BY <1>0, <1>1, <1>2, <2>1, <2>2, RegisterLoses DEF LaunchInv, FinanceOnPage
<1>7. ASSUME NEW t \in Token, NEW withFinance \in BOOLEAN, OthersRegister(t, withFinance)
      PROVE  LaunchInv'
  <2>1. Register(t, withFinance) /\ Lapsing(t) /\ page' = page
    BY <1>7 DEF OthersRegister
  <2> QED BY <1>0, <1>1, <1>2, <2>1, RegisterLoses DEF LaunchInv, FinanceOnPage
<1>8. CASE KickDeploy
  <2>1. ~FinanceOnPage' /\ page'.shown = page.shown /\ lapse' = lapse
    BY <1>0, <1>8 DEF KickDeploy, Goto, FinanceOnPage, Page
  <2>2. CASE DeployFinance(page.token)
    <3>1. StartDeploy(page.token) /\ cache' = cache
      BY <2>2 DEF DeployFinance, registryVars
    <3> QED BY <1>0, <1>1, <1>2, <2>1, <3>1, StartLoses DEF LaunchInv
  <2>3. CASE UNCHANGED vars
    <3>1. UNCHANGED <<cache, jobs, status, reported>>
      BY <2>3 DEF vars, registryVars, financeVars
    <3> QED BY <1>0, <1>1, <1>2, <2>1, <3>1, KeepsShown DEF LaunchInv
  <2> QED BY <1>8, <2>2, <2>3 DEF KickDeploy
<1>9. ASSUME NEW t \in Token, DeployFinance(t), UNCHANGED clientVars PROVE LaunchInv'
  <2>1. StartDeploy(t) /\ cache' = cache /\ lapse' = lapse /\ page' = page
    BY <1>9 DEF DeployFinance, registryVars, clientVars
  <2> QED BY <1>0, <1>1, <1>2, <2>1, StartLoses DEF LaunchInv, FinanceOnPage
<1>10. ASSUME NEW t \in Token, PollFinance(t), UNCHANGED clientVars PROVE LaunchInv'
  <2>1. /\ UNCHANGED <<cache, jobs, lapse, page>>
        /\ \A s \in Token : \/ status'[s] = status[s] /\ reported'[s] = reported[s]
                            \/ status'[s] = "absent"
    BY <1>0, <1>10 DEF PollFinance, registryVars, clientVars, TypeOK
  <2>2. NothingLost'
    BY <1>0, <2>1 DEF NothingLost, Known, Attached, Reported, Shown, FinanceOnPage
  <2> QED BY <1>1, <1>2, <2>2 DEF LaunchInv
<1>11. CASE lapse'
  BY <1>1, <1>2, <1>11 DEF LaunchInv, NothingLost
<1>12. ASSUME NEW j \in jobs, LaunchJobStep(j) PROVE LaunchInv'
  <2>0. page' = page /\ lapse' = lapse
    BY <1>12 DEF LaunchJobStep, clientVars
  <2>1. CASE DeployContract(j)
    <3>1. UNCHANGED <<cache, status, reported>>
      BY <2>1 DEF DeployContract, registryVars
    <3>2. PICK at \in {"vault", "sale"} : Advance(j, at, 0)
      BY <2>1 DEF DeployContract
    <3> QED BY <1>1, <1>2, <2>0, <3>1, <3>2, AdvanceLoses DEF LaunchInv, Before, FinanceOnPage
  <2>2. CASE AttachFinance(j)
    BY <1>1, <1>2, <2>0, <2>2, AttachLoses DEF LaunchInv
  <2>3. CASE FailDeploy(j)
    <3>1. EndJob(j, "error") /\ cache' = cache
      BY <2>3 DEF FailDeploy, registryVars
    <3> QED BY <1>1, <1>2, <2>0, <3>1, EndLoses DEF LaunchInv, FinanceOnPage
  <2>4. CASE RegisterName(j)
    <3>1. j.at \notin Before /\ cache' = cache
      BY <2>4 DEF RegisterName, Put, registryVars, Before
    <3>2. CASE Advance(j, "name", j.stack) /\ UNCHANGED <<status, reported>>
      BY <1>0, <1>1, <1>2, <2>0, <3>1, <3>2, AdvanceLoses DEF LaunchInv, FinanceOnPage
    <3>3. CASE EndJob(j, "complete")
      BY <1>1, <1>2, <2>0, <3>1, <3>3, EndLoses DEF LaunchInv, FinanceOnPage
    <3> QED BY <2>4, <3>2, <3>3 DEF RegisterName
  <2> QED BY <1>12, <2>1, <2>2, <2>3, <2>4 DEF LaunchJobStep, JobStep
<1>13. ASSUME NEW f \in flushes, Open(f), UNCHANGED clientVars PROVE LaunchInv'
  <2>1. UNCHANGED <<cache, jobs, status, reported, lapse, page>>
    BY <1>13 DEF Open, OpenFile, financeVars, clientVars
  <2> QED BY <1>0, <1>1, <1>2, <2>1, KeepsShown DEF LaunchInv, FinanceOnPage
<1>14. ASSUME NEW f \in flushes, LandAndAnswer(f) PROVE LaunchInv'
  <2>1. /\ Land(f) /\ lapse' = lapse
        /\ page' = page \/ (At("registering") /\ Goto("registered"))
    BY <1>14 DEF LandAndAnswer, Awaited
  <2>2. page'.shown = page.shown /\ (FinanceOnPage' => FinanceOnPage)
    BY <1>0, <2>1 DEF Goto, FinanceOnPage, Page
  <2>3. Continue(f) /\ cache' = cache
    BY <2>1 DEF Land, FillFile
  <2>4. f.token \in Token /\ f.by \in {"register", "delete", "attach", "name"}
    BY <1>0 DEF TypeOK, RegistryTypeOK, Flush
  <2>5. CASE f.by = "register"
    <3>1. StartDeploy(f.token)
      BY <2>3, <2>5 DEF Continue
    <3> QED BY <1>1, <1>2, <2>1, <2>2, <2>3, <2>4, <3>1, StartLoses DEF LaunchInv
  <2>6. CASE f.by = "delete"
    <3>1. UNCHANGED <<status, reported, jobs>>
      BY <2>3, <2>6 DEF Continue
    <3> QED BY <1>0, <1>1, <1>2, <2>1, <2>2, <2>3, <3>1, KeepsShown DEF LaunchInv
  <2>7. CASE f.by = "attach"
    <3>1. PICK j \in jobs : j.at = "attach" /\ Advance(j, "ens", j.stack)
      BY <2>3, <2>7 DEF Continue
    <3>2. UNCHANGED <<status, reported>>
      BY <2>3, <2>7 DEF Continue
    <3>3. j.at \notin Before /\ j.stack \in Nat
      BY <1>0, <3>1 DEF Before
    <3> QED BY <1>1, <1>2, <2>1, <2>2, <2>3, <3>1, <3>2, <3>3, AdvanceLoses DEF LaunchInv
  <2>8. CASE f.by = "name"
    <3>1. PICK j \in jobs : j.at = "name" /\ EndJob(j, "complete")
      BY <2>3, <2>8 DEF Continue
    <3>2. j.at \notin Before
      BY <3>1 DEF Before
    <3> QED BY <1>1, <1>2, <2>1, <2>2, <2>3, <3>1, <3>2, EndLoses DEF LaunchInv
  <2> QED BY <2>4, <2>5, <2>6, <2>7, <2>8
<1>15. CASE UNCHANGED launchVars
  <2>1. UNCHANGED <<cache, jobs, status, reported, lapse, page>>
    BY <1>15 DEF launchVars, vars, registryVars, financeVars, clientVars
  <2> QED BY <1>0, <1>1, <1>2, <2>1, KeepsShown DEF LaunchInv, FinanceOnPage
<1> QED BY <1>3, <1>4, <1>5, <1>6, <1>7, <1>8, <1>9, <1>10, <1>11, <1>12, <1>13, <1>14, <1>15
        DEF LaunchNext, LaunchFlushStep

---------------------------------------------------------------------------
(* LaunchInv is an invariant of page and operator together: as long as no registration        *)
(* dropped a finance, record, entry and page agree on it.                                     *)
THEOREM LaunchInvariant == LaunchSpec => []LaunchInv
BY InitLaunch, StepLaunch, PTL DEF LaunchSpec

(* Every variable of the page and of the operator keeps its type. *)
THEOREM LaunchTypes == LaunchSpec => []LaunchTypeOK
<1>1. LaunchInv => LaunchTypeOK
  BY DEF LaunchInv
<1> QED BY <1>1, LaunchInvariant, PTL

(* The sale that the creator approves is the one in the agent's record. *)
THEOREM ShownAttached == LaunchSpec => []ShownIsAttached
<1>1. LaunchInv => ShownIsAttached
  BY DEF LaunchInv, NothingLost, Shown, ShownIsAttached
<1> QED BY <1>1, LaunchInvariant, PTL

(* With the page, too, the file follows the registry. *)
THEOREM LaunchFileFollows == LaunchSpec => []FileIsCurrent
<1>1. LaunchInv => FileIsCurrent
  BY DEF LaunchInv, PadInv, RegistryInv, FlushIsCurrent, FileIsCurrent
<1> QED BY <1>1, LaunchInvariant, PTL

(* With the page's retries, too, no agent is deployed for twice without a reason. *)
THEOREM LaunchDeploysExplained == LaunchSpec => []DeploysAreExplained
<1>1. LaunchInv => DeploysAreExplained
  BY DEF LaunchInv, PadInv, Explained, DeploysAreExplained, TypeOK
<1> QED BY <1>1, LaunchInvariant, PTL

(* With the page, too, a job never replaces the finance of its own registration. *)
THEOREM LaunchFinanceKept == LaunchSpec => FinanceStays
<1>1. LaunchInv /\ [LaunchNext]_launchVars =>
        [\A t \in Token :
           (cache[t].finance # 0 /\ cache'[t].finance # cache[t].finance) =>
             \/ cache'[t].reg # cache[t].reg
             \/ crashes' # crashes
             \/ \E j \in jobs : j.token = t /\ j.reg # cache[t].reg]_vars
  BY FinanceStep, RefinesLaunchpad DEF LaunchInv, LaunchTypeOK
<1> QED BY <1>1, LaunchInvariant, PTL DEF LaunchSpec, FinanceStays

(* Under the page, too, an entry that says "deploying" is worked on.                          *)
THEOREM LaunchDeploysWorkedOn == LaunchSpec => []DeploysAreWorkedOn
<1>1. LaunchInit => Worked
  BY InitWorked DEF LaunchInit
<1>2. LaunchInv /\ Worked /\ [LaunchNext]_launchVars => Worked'
  BY RefinesLaunchpad, StepWorked DEF LaunchInv, LaunchTypeOK
<1>3. LaunchInv /\ Worked => DeploysAreWorkedOn
  BY DEF Worked, DeploysAreWorkedOn
<1> QED BY <1>1, <1>2, <1>3, LaunchInvariant, PTL DEF LaunchSpec

(* Under the page, too, a deployment has only so many steps.                                  *)
THEOREM LaunchDeploysEndByCount == LaunchSpec => DeploysRunDown
<1>1. LaunchInv /\ Worked /\ [LaunchNext]_launchVars =>
        [\A j \in jobs : \A i \in jobs' : i.token = j.token =>
           /\ StepsLeft(i)' <= StepsLeft(j)
           /\ StepOf(j) => StepsLeft(i)' < StepsLeft(j)]_vars
  BY RefinesLaunchpad, StepsDown, StepsKept DEF LaunchInv, LaunchTypeOK
<1>2. LaunchInit => Worked
  BY InitWorked DEF LaunchInit
<1>3. LaunchInv /\ Worked /\ [LaunchNext]_launchVars => Worked'
  BY RefinesLaunchpad, StepWorked DEF LaunchInv, LaunchTypeOK
<1> QED BY <1>1, <1>2, <1>3, LaunchInvariant, PTL DEF LaunchSpec, DeploysRunDown
===========================================================================
