-------------------------- MODULE AgentLoop_proofs --------------------------
(***************************************************************************)
(* Proofs about AgentLoop, for any number of agents and calls, any turn    *)
(* limit, any size of MEMORY.md, any wallets and any ENS records: a query  *)
(* is charged twice only after a lost answer, notes and versions are lost  *)
(* only to overlapping writes, and every step runs its task down.          *)
(***************************************************************************)
EXTENDS AgentLoop, SequenceTheorems, TLAPS

Files == {"note", "skill", "upsert"}
Querying == {"resolve", "verify", "payEns", "listed", "poll"}

\* What a call's own state can be: a turn is counted when its tool returns.
CallState ==
  [agent : Agent \cup {Nobody},
   at : {"idle", "model", "synthesize", "ended", "hung"} \cup Files \cup Querying,
   turn : Nat, tools : Nat,
   trouble : {"none", "error", "recovered"},
   answer : {"none", "complete", "error"}]

WellFormed(s) ==
  /\ s \in CallState
  /\ s.turn <= MaxTurns /\ s.tools <= MaxTurns
  /\ s.at # "hung" => (s.answer # "none" <=> s.at \in {"synthesize", "upsert", "ended"})
  /\ s.at = "idle" <=> s = Idle
  /\ s.at # "idle" => s.agent \in Agent
  /\ s.at = "model" => s.tools <= s.turn
  /\ s.at \in {"note", "skill"} \cup Querying => s.turn < MaxTurns /\ s.tools <= s.turn + 1

Draft == [lines : Seq(Call), version : Nat, overlapped : BOOLEAN]

LoopTypes ==
  /\ ens \in EnsRecords
  /\ wallet \in [Agent -> Nat] /\ \A a \in Agent : wallet[a] <= Funds[a]
  /\ DOMAIN call = Call /\ \A c \in Call : WellFormed(call[c])
  /\ query \in [Call -> Query]
  /\ memory \in [Agent -> Seq(Call)] /\ \A a \in Agent : Len(memory[a]) <= MemoryCap
  /\ skill \in [Agent -> Nat]
  /\ draft \in [Call -> Draft]
  /\ charges \in [Call -> Seq(Charge)]

UnansweredEns == [route |-> "ens", answered |-> FALSE]

\* Money that a query has cost, by how far it has got.
QueryFine(at, target, paid) ==
  /\ at \in Querying => target \in Agent
  /\ at \in {"resolve", "verify", "payEns"} => paid = <<>>
  /\ at = "listed" => paid = <<>> \/ paid = <<UnansweredEns>>
  /\ Len(paid) <= 1 \/ (Len(paid) = 2 /\ paid[1] = UnansweredEns)

QueriesPay ==
  \A c \in Call : QueryFine(call[c].at, query[c].target, charges[c])

\* Whom a call polls works for the agent it asked.
PeersAnswer ==
  \A c \in Call :
    call[c].at = "poll" => query[c].peer \in Call /\ call[query[c].peer].agent = query[c].target

\* Two calls of an agent that write the same file are overlapped, and one that is not
\* overlapped has read what is there.
SameFile(at) == IF at = "note" THEN {"note"} ELSE {"skill", "upsert"}
WritersKnow ==
  \A c \in Call :
    /\ call[c].at \in Files => \A d \in Call \ {c} :
         call[d].at \in SameFile(call[c].at) /\ call[d].agent = call[c].agent => draft[c].overlapped
    /\ call[c].at = "note" /\ ~draft[c].overlapped => draft[c].lines = memory[call[c].agent]
    /\ call[c].at \in {"skill", "upsert"} /\ ~draft[c].overlapped =>
         draft[c].version = skill[call[c].agent]

LoopInv == LoopTypes /\ QueriesPay /\ PeersAnswer /\ WritersKnow

---------------------------------------------------------------------------
\* What the operators on the state of a call do to its fields.

LEMMA TurnFields ==
  ASSUME NEW s \in CallState
  PROVE  /\ Turn(s) \in CallState
         /\ Turn(s).agent = s.agent /\ Turn(s).at = "model" /\ Turn(s).turn = s.turn + 1
         /\ Turn(s).tools = s.tools /\ Turn(s).answer = s.answer
<1> DEFINE u == [s EXCEPT !.at = "model"]
<1>1. /\ u \in CallState
      /\ u.agent = s.agent /\ u.at = "model" /\ u.turn = s.turn /\ u.tools = s.tools
      /\ u.answer = s.answer
  BY DEF CallState
<1>2. Turn(s) = [u EXCEPT !.turn = u.turn + 1]
  BY Zenon DEF Turn
<1> HIDE DEF u
<1> QED BY <1>1, <1>2 DEF CallState

LEMMA ToolFields ==
  ASSUME NEW s \in CallState
  PROVE  /\ ToolCalled(s) \in CallState
         /\ ToolCalled(s).agent = s.agent /\ ToolCalled(s).at = s.at
         /\ ToolCalled(s).turn = s.turn /\ ToolCalled(s).tools = s.tools + 1
         /\ ToolCalled(s).answer = s.answer
BY DEF ToolCalled, CallState

LEMMA AtFields ==
  ASSUME NEW s \in CallState,
         NEW at \in {"idle", "model", "synthesize", "ended", "hung"} \cup Files \cup Querying
  PROVE  LET e == [s EXCEPT !.at = at]
         IN  /\ e \in CallState
             /\ e.agent = s.agent /\ e.at = at /\ e.turn = s.turn /\ e.tools = s.tools
             /\ e.answer = s.answer
BY DEF CallState

LEMMA ResultFields ==
  ASSUME NEW s \in CallState, NEW error \in BOOLEAN
  PROVE  LET r == Result(s, error)
         IN  /\ r \in CallState
             /\ r.agent = s.agent /\ r.at = "model" /\ r.turn = s.turn + 1
             /\ r.tools = s.tools /\ r.answer = s.answer
<1> DEFINE u == [s EXCEPT !.trouble = Seen(s.trouble, error)]
<1>1. Seen(s.trouble, error) \in {"none", "error", "recovered"}
  BY DEF Seen, CallState
<1>2. /\ u \in CallState
      /\ u.agent = s.agent /\ u.turn = s.turn /\ u.tools = s.tools /\ u.answer = s.answer
  BY <1>1 DEF CallState
<1>3. Result(s, error) = Turn(u)
  BY Zenon DEF Result
<1> HIDE DEF u
<1> QED BY <1>2, <1>3, TurnFields

LEMMA StartedFields ==
  ASSUME NEW a \in Agent \cup {Nobody}
  PROVE  /\ Started(a) \in CallState
         /\ Started(a).agent = a /\ Started(a).at = "model" /\ Started(a).turn = 0
         /\ Started(a).tools = 0 /\ Started(a).answer = "none"
<1> DEFINE u == [Idle EXCEPT !.agent = a]
<1>1. /\ u \in CallState
      /\ u.agent = a /\ u.turn = 0 /\ u.tools = 0 /\ u.answer = "none"
  BY DEF CallState, Idle
<1>2. Started(a) = [u EXCEPT !.at = "model"]
  BY Zenon DEF Started
<1> HIDE DEF u
<1> QED BY <1>1, <1>2 DEF CallState

LEMMA DoneFields ==
  ASSUME NEW s \in CallState, NEW at \in {"synthesize", "ended"},
         NEW answer \in {"complete", "error"}
  PROVE  LET d == Done(s, at, answer)
         IN  /\ d \in CallState
             /\ d.agent = s.agent /\ d.at = at /\ d.turn = 0 /\ d.tools = 0 /\ d.answer = answer
<1> DEFINE u == Started(s.agent)
           v == [u EXCEPT !.at = at]
<1>1. u \in CallState /\ u.agent = s.agent /\ u.turn = 0 /\ u.tools = 0
  <2>1. s.agent \in Agent \cup {Nobody}
    BY DEF CallState
  <2> QED BY <2>1, StartedFields
<1> HIDE DEF u
<1>2. v \in CallState /\ v.agent = s.agent /\ v.at = at /\ v.turn = 0 /\ v.tools = 0
  BY <1>1 DEF CallState
<1>3. Done(s, at, answer) = [v EXCEPT !.answer = answer]
  BY Zenon DEF Done, u, v
<1> HIDE DEF v
<1> QED BY <1>2, <1>3 DEF CallState

---------------------------------------------------------------------------
\* The states of one call.

LEMMA StartedWell ==
  ASSUME NEW a \in Agent
  PROVE  /\ WellFormed(Started(a))
         /\ Started(a).at = "model" /\ Started(a).agent = a
<1>1. Started(a) # Idle
  BY StartedFields DEF Idle
<1> QED BY <1>1, StartedFields, LoopAssumption DEF WellFormed, Files, Querying

LEMMA TurnWell ==
  ASSUME NEW s, WellFormed(s), s.at = "model", s.turn < MaxTurns
  PROVE  WellFormed(Turn(s)) /\ Turn(s).at = "model" /\ Turn(s).agent = s.agent
<1>1. s \in CallState BY DEF WellFormed
<1>2. Turn(s) # Idle
  BY <1>1, TurnFields DEF Idle
<1> QED BY <1>1, <1>2, TurnFields, LoopAssumption DEF WellFormed, CallState, Files, Querying

LEMMA ResultWell ==
  ASSUME NEW s, WellFormed(s), s.at \in {"note", "skill"} \cup Querying,
         NEW error \in BOOLEAN
  PROVE  /\ WellFormed(Result(s, error))
         /\ Result(s, error).at = "model" /\ Result(s, error).agent = s.agent
<1>1. s \in CallState BY DEF WellFormed
<1>2. Result(s, error) # Idle
  BY <1>1, ResultFields DEF Idle
<1> QED BY <1>1, <1>2, ResultFields, LoopAssumption DEF WellFormed, CallState, Files, Querying

LEMMA ToolWell ==
  ASSUME NEW s, WellFormed(s), s.at = "model", s.turn < MaxTurns,
         NEW error \in BOOLEAN
  PROVE  LET r == Result(ToolCalled(s), error)
         IN  WellFormed(r) /\ r.at = "model" /\ r.agent = s.agent
<1> DEFINE r == Result(ToolCalled(s), error)
<1>1. s \in CallState BY DEF WellFormed
<1>2. /\ r \in CallState
      /\ r.agent = s.agent /\ r.at = "model" /\ r.turn = s.turn + 1
      /\ r.tools = s.tools + 1 /\ r.answer = s.answer
  BY <1>1, ToolFields, ResultFields
<1>3. r # Idle
  BY <1>2 DEF Idle
<1> HIDE DEF r
<1>4. WellFormed(r)
  BY <1>1, <1>2, <1>3, LoopAssumption DEF WellFormed, CallState, Files, Querying
<1> QED BY <1>2, <1>4 DEF r

LEMMA EnterWell ==
  ASSUME NEW s, WellFormed(s), s.at = "model", s.turn < MaxTurns,
         NEW at \in {"note", "skill"} \cup Querying
  PROVE  LET e == [ToolCalled(s) EXCEPT !.at = at]
         IN  WellFormed(e) /\ e.at = at /\ e.agent = s.agent
<1> DEFINE e == [ToolCalled(s) EXCEPT !.at = at]
<1>1. s \in CallState BY DEF WellFormed
<1>2. /\ e \in CallState
      /\ e.agent = s.agent /\ e.at = at /\ e.turn = s.turn
      /\ e.tools = s.tools + 1 /\ e.answer = s.answer
  BY <1>1, ToolFields, AtFields DEF Files
<1>3. e # Idle
  BY <1>2 DEF Idle, Querying
<1> HIDE DEF e
<1>4. WellFormed(e)
  BY <1>1, <1>2, <1>3, LoopAssumption DEF WellFormed, CallState, Files, Querying
<1> QED BY <1>2, <1>4 DEF e

LEMMA ProceedWell ==
  ASSUME NEW s, WellFormed(s), NEW at,
         \/ s.at \in Querying /\ at \in Querying
         \/ s.at = "synthesize" /\ at \in {"upsert", "ended"}
         \/ s.at = "upsert" /\ at = "ended"
         \/ s.at \in {"model", "synthesize"} \cup Querying /\ at = "hung"
  PROVE  LET e == [s EXCEPT !.at = at]
         IN  WellFormed(e) /\ e.at = at /\ e.agent = s.agent
<1> DEFINE e == [s EXCEPT !.at = at]
<1>1. s \in CallState BY DEF WellFormed
<1>2. /\ e \in CallState
      /\ e.agent = s.agent /\ e.at = at /\ e.turn = s.turn /\ e.tools = s.tools
      /\ e.answer = s.answer
  BY <1>1, AtFields DEF Files
<1>3. e # Idle
  BY <1>2 DEF Idle, Querying
<1> HIDE DEF e
<1>4. WellFormed(e)
  BY <1>1, <1>2, <1>3, LoopAssumption DEF WellFormed, CallState, Files, Querying
<1> QED BY <1>2, <1>4 DEF e

LEMMA DoneWell ==
  ASSUME NEW s, WellFormed(s), s.at = "model",
         NEW at \in {"synthesize", "ended"}, NEW answer \in {"complete", "error"}
  PROVE  /\ WellFormed(Done(s, at, answer))
         /\ Done(s, at, answer).at = at /\ Done(s, at, answer).agent = s.agent
<1>1. s \in CallState BY DEF WellFormed
<1>2. Done(s, at, answer) # Idle
  BY <1>1, DoneFields DEF Idle
<1> QED BY <1>1, <1>2, DoneFields, LoopAssumption DEF WellFormed, CallState, Files, Querying

\* The newest lines that fit are a tail of what there is.
LEMMA NewestLines ==
  ASSUME NEW lines \in Seq(Call)
  PROVE  /\ Newest(lines) \in Seq(Call)
         /\ Len(Newest(lines)) <= MemoryCap
<1>1. CASE Len(lines) > MemoryCap
  <2> DEFINE first == 1 + (Len(lines) - MemoryCap)
  <2>1. Newest(lines) = SubSeq(lines, first, Len(lines))
    BY <1>1 DEF Newest
  <2>2. first \in 1 .. Len(lines) + 1 /\ first \in Int /\ Len(lines) \in Nat
    BY <1>1, LoopAssumption
  <2>3. Len(SubSeq(lines, first, Len(lines))) = Len(lines) - first + 1
        /\ SubSeq(lines, first, Len(lines)) \in Seq(Call)
    BY <2>2, SubSeqProperties
  <2> QED BY <2>1, <2>2, <2>3, LoopAssumption
<1>2. CASE ~(Len(lines) > MemoryCap)
  <2>1. Newest(lines) = SubSeq(lines, 1, Len(lines))
    BY <1>2 DEF Newest
  <2>2. SubSeq(lines, 1, Len(lines)) = lines
    BY SubSeqFull
  <2> QED BY <1>2, <2>1, <2>2, LoopAssumption
<1> QED BY <1>1, <1>2

---------------------------------------------------------------------------
\* The steps of one call.

\* c becomes s, and nothing else happens to calls than that some are started.
Moves(c, s) ==
  /\ DOMAIN call' = Call /\ call'[c] = s
  /\ \A d \in Call \ {c} :
       call'[d] = call[d] \/ (call[d] = Idle /\ \E a \in Agent : call'[d] = Started(a))

LEMMA BecomesMoves ==
  ASSUME LoopInv, NEW c \in Call, NEW s, Becomes(c, s)
  PROVE  Moves(c, s)
BY DEF LoopInv, LoopTypes, Becomes, Moves

LEMMA SpawnMoves ==
  ASSUME LoopInv, NEW c \in Call, NEW s, NEW d \in Call, Spawn(c, s, d),
         call[c].at # "idle", Target(c) \in Agent
  PROVE  Moves(c, s) /\ d # c /\ call'[d] = Started(Target(c))
<1>1. d # c
  BY DEF Spawn, Idle
<1>2. call' = [call EXCEPT ![c] = s, ![d] = Started(Target(c))] /\ call[d] = Idle
  BY DEF Spawn
<1>3. \A e \in Call : call'[e] = IF e = d THEN Started(Target(c)) ELSE IF e = c THEN s ELSE call[e]
  BY <1>1, <1>2 DEF LoopInv, LoopTypes
<1>4. DOMAIN call' = Call
  BY <1>2 DEF LoopInv, LoopTypes
<1> QED BY <1>1, <1>2, <1>3, <1>4 DEF Moves

LEMMA Moved ==
  ASSUME LoopInv, NEW c \in Call, NEW s, WellFormed(s), s.at # "idle",
         call[c].at = "idle" \/ s.agent = call[c].agent, Moves(c, s)
  PROVE  /\ DOMAIN call' = Call /\ \A d \in Call : WellFormed(call'[d])
         /\ \A d \in Call : call[d].at # "idle" => call'[d].agent = call[d].agent
         /\ \A d \in Call \ {c} :
              call'[d] = call[d] \/ (call[d].at = "idle" /\ call'[d].at = "model")
<1>1. Idle.at = "idle" /\ \A d \in Call : WellFormed(call[d])
  BY DEF Idle, LoopInv, LoopTypes
<1>2. ASSUME NEW d \in Call \ {c}
      PROVE  /\ WellFormed(call'[d])
             /\ call[d].at # "idle" => call'[d].agent = call[d].agent
             /\ call'[d] = call[d] \/ (call[d].at = "idle" /\ call'[d].at = "model")
  <2>1. CASE call'[d] = call[d]
    BY <1>1, <2>1
  <2>2. CASE call[d] = Idle /\ \E a \in Agent : call'[d] = Started(a)
    BY <1>1, <2>2, StartedWell
  <2> QED BY <2>1, <2>2 DEF Moves
<1>3. call'[c] = s /\ DOMAIN call' = Call
  BY DEF Moves
<1> QED BY <1>2, <1>3

LEMMA KeepsQueries ==
  ASSUME LoopInv, NEW c \in Call, NEW s, WellFormed(s), s.at # "idle",
         call[c].at = "idle" \/ s.agent = call[c].agent, Moves(c, s),
         \A d \in Call \ {c} : /\ charges'[d] = charges[d] /\ query'[d] = query[d],
         QueryFine(s.at, query'[c].target, charges'[c]),
         s.at = "poll" => /\ query'[c].peer \in Call
                          /\ call'[query'[c].peer].agent = query'[c].target
  PROVE  QueriesPay' /\ PeersAnswer'
<1>1. QueriesPay'
  <2> SUFFICES ASSUME NEW d \in Call
               PROVE  QueryFine(call'[d].at, query'[d].target, charges'[d])
    BY DEF QueriesPay
  <2>1. CASE d = c
    BY <2>1 DEF Moves
  <2>2. CASE d # c
    <3>1. QueryFine(call[d].at, query[d].target, charges[d])
      BY DEF LoopInv, QueriesPay
    <3>2. call'[d] = call[d] \/ call'[d].at = "model"
      BY <2>2, Moved
    <3> QED BY <2>2, <3>1, <3>2 DEF QueryFine, Querying
  <2> QED BY <2>1, <2>2
<1>2. PeersAnswer'
  <2> SUFFICES ASSUME NEW d \in Call, call'[d].at = "poll"
               PROVE  query'[d].peer \in Call /\ call'[query'[d].peer].agent = query'[d].target
    BY DEF PeersAnswer
  <2>1. CASE d = c
    BY <2>1 DEF Moves
  <2>2. CASE d # c
    <3>1. call'[d] = call[d] /\ query'[d] = query[d]
      BY <2>2, Moved
    <3>2. query[d].peer \in Call /\ call[query[d].peer].agent = query[d].target
      BY <3>1 DEF LoopInv, PeersAnswer
    <3>3. query[d].target \in Agent
      BY <3>1 DEF LoopInv, QueriesPay, QueryFine, Querying
    <3>4. call[query[d].peer].at # "idle"
      BY <3>2, <3>3, LoopAssumption DEF LoopInv, LoopTypes, WellFormed, Idle
    <3> QED BY <3>1, <3>2, <3>4, Moved
  <2> QED BY <2>1, <2>2
<1> QED BY <1>1, <1>2

LEMMA KeepsWriters ==
  ASSUME LoopInv, NEW c \in Call, NEW s, WellFormed(s), s.at # "idle",
         call[c].at = "idle" \/ s.agent = call[c].agent, Moves(c, s),
         s.at \notin Files, UNCHANGED files
  PROVE  WritersKnow'
<1>1. \A d \in Call : call'[d].at \in Files => call'[d] = call[d]
  BY Moved DEF Moves, Files
<1> QED BY <1>1 DEF LoopInv, WritersKnow, SameFile, Files, files

\* A step that neither queries nor writes.
LEMMA PlainStep ==
  ASSUME LoopInv, NEW c \in Call, NEW s, WellFormed(s), s.at # "idle",
         call[c].at = "idle" \/ s.agent = call[c].agent, Becomes(c, s),
         s.at \notin Files \cup Querying, call[c].at \notin Querying,
         UNCHANGED <<query, files, ens, charges>>,
         wallet' \in [Agent -> Nat] /\ \A a \in Agent : wallet'[a] <= Funds[a]
  PROVE  LoopInv'
<1>1. Moves(c, s)
  BY BecomesMoves
<1>2. LoopTypes'
  BY <1>1, Moved DEF LoopInv, LoopTypes, files
<1>3. QueriesPay' /\ PeersAnswer'
  <2>1. QueryFine(s.at, query'[c].target, charges'[c])
    BY DEF LoopInv, QueriesPay, QueryFine, Querying
  <2> QED BY <1>1, <2>1, KeepsQueries DEF Querying
<1>4. WritersKnow'
  BY <1>1, KeepsWriters
<1> QED BY <1>2, <1>3, <1>4 DEF LoopInv

LEMMA Spending ==
  ASSUME LoopInv, NEW a \in Agent, Spend(a)
  PROVE  wallet' \in [Agent -> Nat] /\ \A b \in Agent : wallet'[b] <= Funds[b]
<1>1. wallet \in [Agent -> Nat] /\ wallet[a] > 0 /\ wallet' = [wallet EXCEPT ![a] = wallet[a] - 1]
  BY DEF LoopInv, LoopTypes, Spend
<1>2. \A b \in Agent : wallet[b] <= Funds[b] /\ Funds[b] \in Nat
  BY LoopAssumption DEF LoopInv, LoopTypes
<1>3. wallet[a] - 1 \in Nat /\ wallet[a] - 1 <= wallet[a]
  BY <1>1
<1>4. wallet' \in [Agent -> Nat] /\ \A b \in Agent : wallet'[b] <= wallet[b]
  BY <1>1, <1>3
<1> QED BY <1>1, <1>2, <1>4

LEMMA PlainSteps ==
  ASSUME LoopInv, NEW c \in Call,
         \/ ModelFails(c) \/ Unparseable(c) \/ UnknownTool(c) \/ ReadLibrary(c) \/ Fetch(c)
         \/ ImageGen(c) \/ WebSearch(c) \/ Final(c) \/ OutOfTurns(c)
  PROVE  LoopInv'
<1>1. /\ WellFormed(call[c]) /\ call[c].at = "model"
      /\ wallet \in [Agent -> Nat] /\ \A a \in Agent : wallet[a] <= Funds[a]
  BY DEF LoopInv, LoopTypes, ModelFails, Unparseable, UnknownTool, ReadLibrary, Fetch, ImageGen,
         WebSearch, Final, OutOfTurns, CanReply
<1>2. call[c].agent \in Agent
  BY <1>1 DEF WellFormed
<1>3. CASE ModelFails(c)
  <2>1. Becomes(c, Done(call[c], "ended", "error"))
    BY <1>3 DEF ModelFails
  <2> QED BY <1>1, <1>3, <2>1, DoneWell, PlainStep DEF ModelFails, money, Files, Querying
<1>4. CASE Unparseable(c)
  <2>1. Becomes(c, Turn(call[c])) /\ call[c].turn < MaxTurns
    BY <1>4 DEF Unparseable, CanReply
  <2> QED BY <1>1, <1>4, <2>1, TurnWell, PlainStep DEF Unparseable, money, Files, Querying
<1>5. CASE UnknownTool(c) \/ ReadLibrary(c) \/ Fetch(c) \/ ImageGen(c) \/ WebSearch(c)
  <2>1. PICK error \in BOOLEAN : Becomes(c, Result(ToolCalled(call[c]), error))
    BY <1>5 DEF UnknownTool, ReadLibrary, Fetch, ImageGen, WebSearch
  <2>2. call[c].turn < MaxTurns
    BY <1>5 DEF UnknownTool, ReadLibrary, Fetch, ImageGen, WebSearch, CanReply
  <2>3. UNCHANGED <<query, files, ens, charges>>
    BY <1>5 DEF UnknownTool, ReadLibrary, Fetch, ImageGen, WebSearch, money
  <2>4. Spend(call[c].agent) \/ UNCHANGED wallet
    BY <1>5 DEF UnknownTool, ReadLibrary, Fetch, ImageGen, WebSearch, money
  <2>5. wallet' \in [Agent -> Nat] /\ \A a \in Agent : wallet'[a] <= Funds[a]
    BY <1>1, <1>2, <2>4, Spending
  <2> DEFINE r == Result(ToolCalled(call[c]), error)
  <2>6. WellFormed(r) /\ r.at = "model" /\ r.agent = call[c].agent
    BY <1>1, <2>2, ToolWell
  <2> HIDE DEF r
  <2>7. Becomes(c, r)
    BY <2>1 DEF r
  <2> QED BY <1>1, <2>3, <2>5, <2>6, <2>7, PlainStep DEF Files, Querying
<1>6. CASE Final(c)
  <2>1. Becomes(c, Turn(call[c])) \/ Becomes(c, Answer(call[c]))
    BY <1>6 DEF Final
  <2>2. call[c].turn < MaxTurns
    BY <1>6 DEF Final, CanReply
  <2>3. CASE Becomes(c, Turn(call[c]))
    BY <1>1, <1>6, <2>2, <2>3, TurnWell, PlainStep DEF Final, money, Files, Querying
  <2>4. CASE Becomes(c, Answer(call[c]))
    BY <1>1, <1>6, <2>4, DoneWell, PlainStep DEF Final, Answer, money, Files, Querying
  <2> QED BY <2>1, <2>3, <2>4
<1>7. CASE OutOfTurns(c)
  BY <1>1, <1>7, DoneWell, PlainStep DEF OutOfTurns, Answer, money, Files, Querying
<1> QED BY <1>3, <1>4, <1>5, <1>6, <1>7

---------------------------------------------------------------------------
\* The steps of query_agent.

LEMMA QueryStep ==
  ASSUME LoopInv, NEW c \in Call, NEW s, WellFormed(s), s.at # "idle",
         s.agent = call[c].agent, Moves(c, s),
         s.at \notin Files, call[c].at \notin Files, UNCHANGED <<files, ens>>,
         wallet' \in [Agent -> Nat] /\ \A a \in Agent : wallet'[a] <= Funds[a],
         NEW q \in Query,
         query' = [query EXCEPT ![c] = q],
         NEW paid \in Seq(Charge), charges' = [charges EXCEPT ![c] = paid],
         QueryFine(s.at, q.target, paid),
         s.at = "poll" => q.peer \in Call /\ call'[q.peer].agent = q.target
  PROVE  LoopInv'
<1>1. LoopTypes'
  BY Moved DEF LoopInv, LoopTypes, files
<1>2. /\ query'[c] = q /\ charges'[c] = paid
      /\ \A d \in Call \ {c} : charges'[d] = charges[d] /\ query'[d] = query[d]
  BY DEF LoopInv, LoopTypes
<1>3. QueriesPay' /\ PeersAnswer'
  BY <1>2, KeepsQueries
<1>4. WritersKnow'
  BY KeepsWriters
<1> QED BY <1>1, <1>3, <1>4 DEF LoopInv

\* A query that goes on, or returns, without a payment.
LEMMA UnpaidStep ==
  ASSUME LoopInv, NEW c \in Call, NEW s, WellFormed(s), Becomes(c, s),
         s.agent = call[c].agent, call[c].at \in Querying,
         NEW q \in Query, query' = [query EXCEPT ![c] = q],
         \/ s.at \in {"payEns", "verify"} /\ call[c].at \in {"resolve", "verify"}
            /\ q.target = query[c].target
         \/ s.at = "listed" /\ call[c].at \in {"resolve", "payEns"} /\ q.target = query[c].target
         \/ s.at = "model",
         UNCHANGED <<files, ens, wallet, charges>>
  PROVE  LoopInv'
<1>1. /\ charges \in [Call -> Seq(Charge)]
      /\ wallet \in [Agent -> Nat] /\ \A a \in Agent : wallet[a] <= Funds[a]
      /\ QueryFine(call[c].at, query[c].target, charges[c])
  BY DEF LoopInv, LoopTypes, QueriesPay
<1>2. charges' = [charges EXCEPT ![c] = charges[c]] /\ charges[c] \in Seq(Charge)
  BY <1>1
<1>3. QueryFine(s.at, q.target, charges[c])
  BY <1>1 DEF QueryFine, Querying
<1>4. s.at \notin Files /\ s.at # "idle" /\ s.at # "poll" /\ call[c].at \notin Files
  BY DEF Files, Querying
<1>5. Moves(c, s)
  BY BecomesMoves
<1>6. wallet' \in [Agent -> Nat] /\ \A a \in Agent : wallet'[a] <= Funds[a]
  BY <1>1
<1> QED BY <1>2, <1>3, <1>4, <1>5, <1>6, QueryStep

LEMMA QueryBegins ==
  ASSUME LoopInv, NEW c \in Call, QueryAgent(c)
  PROVE  LoopInv'
<1>1. PICK target \in Agent, at \in {"resolve", "listed"} :
        /\ Enter(c, at)
        /\ query' = [query EXCEPT ![c] =
                       [NoQuery EXCEPT !.target = target,
                                       !.trust = IF at = "resolve" THEN "name" ELSE "none"]]
  BY DEF QueryAgent
<1>2. /\ WellFormed(call[c]) /\ call[c].at = "model" /\ call[c].turn < MaxTurns
      /\ query \in [Call -> Query]
      /\ charges \in [Call -> Seq(Charge)]
      /\ wallet \in [Agent -> Nat] /\ \A a \in Agent : wallet[a] <= Funds[a]
  BY DEF LoopInv, LoopTypes, QueryAgent, CanReply
<1> DEFINE s == [ToolCalled(call[c]) EXCEPT !.at = at]
           q == [NoQuery EXCEPT !.target = target,
                                !.trust = IF at = "resolve" THEN "name" ELSE "none"]
<1>3. WellFormed(s) /\ s.at = at /\ s.agent = call[c].agent
  BY <1>2, EnterWell DEF Querying
<1>4. /\ q \in Query
      /\ q.target = target
  BY DEF Query, NoQuery
<1>5. query' = [query EXCEPT ![c] = q]
  BY <1>1
<1>6. Moves(c, s)
  BY <1>1, BecomesMoves DEF Enter
<1> HIDE DEF s, q
<1>7. charges' = [charges EXCEPT ![c] = <<>>] /\ <<>> \in Seq(Charge)
  BY DEF QueryAgent
<1>8. UNCHANGED <<files, ens>> /\ wallet' \in [Agent -> Nat]
      /\ \A a \in Agent : wallet'[a] <= Funds[a]
  BY <1>2 DEF QueryAgent
<1>9. QueryFine(s.at, q.target, <<>>)
  BY <1>3, <1>4 DEF QueryFine, Querying
<1>10. s.at \notin Files /\ call[c].at \notin Files /\ s.at # "idle" /\ s.at # "poll"
  BY <1>2, <1>3 DEF Files
<1> QED BY <1>3, <1>4, <1>5, <1>6, <1>7, <1>8, <1>9, <1>10, QueryStep

LEMMA UnpaidSteps ==
  ASSUME LoopInv, NEW c \in Call,
         \/ Resolve(c) \/ Verified(c) \/ Refuse(c) \/ EnsFails(c) \/ NotPaid(c) \/ Poll(c)
  PROVE  LoopInv'
<1>1. /\ WellFormed(call[c]) /\ call[c].at \in Querying
      /\ query \in [Call -> Query]
  BY DEF LoopInv, LoopTypes, Resolve, Verified, Refuse, EnsFails, NotPaid, Poll, Querying
<1>2. CASE Resolve(c)
  <2>1. PICK at \in {"listed", "verify", "payEns"} : Proceed(c, at)
    BY <1>2 DEF Resolve
  <2> DEFINE s == [call[c] EXCEPT !.at = at]
  <2>2. WellFormed(s) /\ s.at = at /\ s.agent = call[c].agent /\ Becomes(c, s)
    BY <1>1, <2>1, ProceedWell DEF Proceed, Querying
  <2> HIDE DEF s
  <2>3. call[c].at = "resolve" /\ UNCHANGED <<files, money>>
    BY <1>2 DEF Resolve
  <2>4. query' = [query EXCEPT ![c] = query[c]] /\ query[c] \in Query
    BY <1>1, <1>2 DEF Resolve
  <2> QED BY <1>1, <2>2, <2>3, <2>4, UnpaidStep DEF money
<1>3. CASE Verified(c) \/ EnsFails(c)
  <2> DEFINE at == IF call[c].at = "verify" THEN "payEns" ELSE "listed"
             s == [call[c] EXCEPT !.at = at]
             q == IF call[c].at = "verify" THEN [query[c] EXCEPT !.trust = "verified"] ELSE query[c]
  <2>1. /\ call[c].at = "verify" \/ call[c].at = "payEns"
        /\ Proceed(c, at) /\ UNCHANGED <<files, money>>
    BY <1>3 DEF Verified, EnsFails
  <2>2. WellFormed(s) /\ s.at = at /\ s.agent = call[c].agent /\ Becomes(c, s)
    BY <1>1, <2>1, ProceedWell DEF Proceed, Querying
  <2>3. q \in Query /\ q.target = query[c].target
    BY <1>1 DEF Query
  <2>4. query' = [query EXCEPT ![c] = q]
    BY <1>1, <1>3 DEF Verified, EnsFails
  <2> HIDE DEF s, q
  <2>5. \/ s.at = "payEns" /\ call[c].at = "verify"
        \/ s.at = "listed" /\ call[c].at = "payEns"
    BY <2>1, <2>2
  <2> QED BY <1>1, <2>1, <2>2, <2>3, <2>4, <2>5, UnpaidStep DEF money
<1>4. CASE Refuse(c) \/ NotPaid(c) \/ Poll(c)
  <2>1. PICK error \in BOOLEAN : Return(c, error)
    BY <1>4 DEF Refuse, NotPaid, Poll
  <2> DEFINE s == Result(call[c], error)
  <2>2. WellFormed(s) /\ s.at = "model" /\ s.agent = call[c].agent
    BY <1>1, ResultWell
  <2>3. Becomes(c, s) /\ query' = [query EXCEPT ![c] = NoQuery]
    BY <2>1 DEF Return
  <2> HIDE DEF s
  <2>4. UNCHANGED <<files, ens, wallet, charges>>
    BY <1>4 DEF Refuse, NotPaid, Poll, money
  <2>5. NoQuery \in Query
    BY DEF NoQuery, Query
  <2> QED BY <1>1, <2>2, <2>3, <2>4, <2>5, UnpaidStep
<1> QED BY <1>2, <1>3, <1>4

\* A payment is one more charge of the query.
LEMMA Payment ==
  ASSUME LoopInv, NEW c \in Call, call[c].at \in {"payEns", "listed"},
         NEW route \in {"ens", "listed"}, NEW answered \in BOOLEAN, Pay(c, route, answered),
         route = "ens" <=> call[c].at = "payEns"
  PROVE  /\ wallet' \in [Agent -> Nat] /\ \A a \in Agent : wallet'[a] <= Funds[a]
         /\ UNCHANGED ens
         /\ \E paid \in Seq(Charge) :
              /\ charges' = [charges EXCEPT ![c] = paid]
              /\ call[c].at = "payEns" => paid = <<[route |-> route, answered |-> answered]>>
              /\ Len(paid) <= 1 \/ (Len(paid) = 2 /\ paid[1] = UnansweredEns)
<1> DEFINE x == [route |-> route, answered |-> answered]
<1>1. /\ WellFormed(call[c]) /\ charges \in [Call -> Seq(Charge)]
      /\ QueryFine(call[c].at, query[c].target, charges[c])
  BY DEF LoopInv, LoopTypes, QueriesPay
<1>2. call[c].agent \in Agent /\ Spend(call[c].agent)
  BY <1>1 DEF WellFormed, Pay
<1>3. x \in Charge
  BY DEF Charge
<1>4. charges' = [charges EXCEPT ![c] = Append(charges[c], x)] /\ UNCHANGED ens
  BY DEF Pay
<1>5. charges[c] = <<>> \/ (charges[c] = <<UnansweredEns>> /\ call[c].at = "listed")
  BY <1>1 DEF QueryFine
<1> HIDE DEF x
<1>6. Append(charges[c], x) \in Seq(Charge)
  BY <1>1, <1>3
<1>7. charges[c] = <<>> => Append(charges[c], x) = <<x>> /\ Len(Append(charges[c], x)) = 1
  BY <1>3
<1>8. charges[c] = <<UnansweredEns>> =>
        Len(Append(charges[c], x)) = 2 /\ Append(charges[c], x)[1] = UnansweredEns
  BY <1>3
<1>9. /\ call[c].at = "payEns" => Append(charges[c], x) = <<x>>
      /\ \/ Len(Append(charges[c], x)) <= 1
         \/ (Len(Append(charges[c], x)) = 2 /\ Append(charges[c], x)[1] = UnansweredEns)
  BY <1>5, <1>7, <1>8
<1>10. wallet' \in [Agent -> Nat] /\ \A a \in Agent : wallet'[a] <= Funds[a]
  BY <1>2, Spending
<1> QED BY <1>4, <1>6, <1>9, <1>10 DEF x

LEMMA PaidEns ==
  ASSUME LoopInv, NEW c \in Call, PayEns(c)
  PROVE  LoopInv'
<1>1. PICK answered \in BOOLEAN :
        /\ Pay(c, "ens", answered)
        /\ SpawnHereOrThere(c, IF answered THEN Result(call[c], FALSE)
                                           ELSE [call[c] EXCEPT !.at = "listed"])
        /\ IF answered THEN query' = [query EXCEPT ![c] = NoQuery] ELSE UNCHANGED query
  BY DEF PayEns
<1> DEFINE s == IF answered THEN Result(call[c], FALSE) ELSE [call[c] EXCEPT !.at = "listed"]
           q == IF answered THEN NoQuery ELSE query[c]
<1>2. /\ WellFormed(call[c]) /\ call[c].at = "payEns" /\ call[c].at \in Querying
      /\ query \in [Call -> Query]
      /\ UNCHANGED files
      /\ QueryFine(call[c].at, query[c].target, charges[c])
  BY DEF LoopInv, LoopTypes, QueriesPay, PayEns, Querying
<1>3. WellFormed(s) /\ s.at = (IF answered THEN "model" ELSE "listed") /\ s.agent = call[c].agent
  <2>1. CASE answered
    BY <1>2, <2>1, ResultWell DEF Querying
  <2>2. CASE ~answered
    BY <1>2, <2>2, ProceedWell DEF Querying
  <2> QED BY <2>1, <2>2
<1>4. /\ q \in Query
      /\ query' = [query EXCEPT ![c] = q]
      /\ ~answered => q.target = query[c].target
  BY <1>1, <1>2 DEF NoQuery, Query
<1>5. SpawnHereOrThere(c, s)
  BY <1>1
<1> HIDE DEF s, q
<1>6. Target(c) \in Agent
  BY <1>2 DEF Target, QueryFine
<1>7. Moves(c, s)
  BY <1>2, <1>5, <1>6, BecomesMoves, SpawnMoves DEF SpawnHereOrThere
<1>8. /\ wallet' \in [Agent -> Nat] /\ \A a \in Agent : wallet'[a] <= Funds[a]
      /\ UNCHANGED ens
  BY <1>1, <1>2, Payment
<1>9. PICK paid \in Seq(Charge) :
        /\ charges' = [charges EXCEPT ![c] = paid]
        /\ paid = <<[route |-> "ens", answered |-> answered]>>
        /\ Len(paid) <= 1 \/ (Len(paid) = 2 /\ paid[1] = UnansweredEns)
  BY <1>1, <1>2, Payment
<1>10. QueryFine(s.at, q.target, paid)
  BY <1>2, <1>3, <1>4, <1>8, <1>9 DEF QueryFine, Querying, UnansweredEns
<1>11. s.at \notin Files /\ call[c].at \notin Files /\ s.at # "idle" /\ s.at # "poll"
  BY <1>2, <1>3 DEF Files
<1> QED BY <1>2, <1>3, <1>4, <1>7, <1>8, <1>9, <1>10, <1>11, QueryStep

\* The peer is paid, and polled.
LEMMA PaidPeer ==
  ASSUME LoopInv, NEW c \in Call, PayListed(c),
         NEW d \in Call, Pay(c, "listed", TRUE), Spawn(c, [call[c] EXCEPT !.at = "poll"], d),
         query' = [query EXCEPT ![c].peer = d]
  PROVE  LoopInv'
<1> DEFINE s == [call[c] EXCEPT !.at = "poll"]
           q == [query[c] EXCEPT !.peer = d]
<1>1. /\ WellFormed(call[c]) /\ call[c].at = "listed" /\ call[c].at \in Querying
      /\ query \in [Call -> Query] /\ UNCHANGED files
      /\ QueryFine(call[c].at, query[c].target, charges[c])
  BY DEF LoopInv, LoopTypes, QueriesPay, PayListed, Querying
<1>2. WellFormed(s) /\ s.at = "poll" /\ s.agent = call[c].agent
  BY <1>1, ProceedWell DEF Querying
<1>3. /\ q \in Query /\ q.target = query[c].target /\ q.peer = d
      /\ query' = [query EXCEPT ![c] = q]
  BY <1>1 DEF Query
<1> HIDE DEF s, q
<1>4. Target(c) \in Agent /\ Target(c) = query[c].target
  BY <1>1 DEF Target, QueryFine
<1>5. Moves(c, s) /\ call'[d] = Started(Target(c))
  BY <1>1, <1>4, SpawnMoves DEF s
<1>6. /\ wallet' \in [Agent -> Nat] /\ \A a \in Agent : wallet'[a] <= Funds[a]
      /\ UNCHANGED ens
  BY <1>1, Payment
<1>7. PICK paid \in Seq(Charge) :
        /\ charges' = [charges EXCEPT ![c] = paid]
        /\ Len(paid) <= 1 \/ (Len(paid) = 2 /\ paid[1] = UnansweredEns)
  BY <1>1, Payment
<1>8. QueryFine(s.at, q.target, paid)
  BY <1>2, <1>3, <1>4, <1>7 DEF QueryFine, Querying
<1>9. s.at \notin Files /\ call[c].at \notin Files /\ s.at # "idle"
  BY <1>1, <1>2 DEF Files
<1>10. q.peer \in Call /\ call'[q.peer].agent = q.target
  BY <1>3, <1>4, <1>5, StartedWell
<1> QED BY <1>1, <1>2, <1>3, <1>5, <1>6, <1>7, <1>8, <1>9, <1>10, QueryStep

\* An endpoint is paid whose answer is lost or never comes.
LEMMA PaidForNothing ==
  ASSUME LoopInv, NEW c \in Call, call[c].at \in {"payEns", "listed"}, UNCHANGED files,
         NEW route \in {"ens", "listed"}, route = "ens" <=> call[c].at = "payEns",
         NEW answered \in BOOLEAN, Pay(c, route, answered),
         NEW s, WellFormed(s), s.at \in {"model", "hung"}, s.agent = call[c].agent,
         SpawnHereOrThere(c, s),
         NEW q \in Query, query' = [query EXCEPT ![c] = q]
  PROVE  LoopInv'
<1>1. QueryFine(call[c].at, query[c].target, charges[c]) /\ call[c].at \in Querying
  BY DEF LoopInv, QueriesPay, Querying
<1>2. Target(c) \in Agent
  BY <1>1 DEF Target, QueryFine
<1>3. Moves(c, s)
  BY <1>2, BecomesMoves, SpawnMoves DEF SpawnHereOrThere
<1>4. /\ wallet' \in [Agent -> Nat] /\ \A a \in Agent : wallet'[a] <= Funds[a]
      /\ UNCHANGED ens
  BY Payment
<1>5. PICK paid \in Seq(Charge) :
        /\ charges' = [charges EXCEPT ![c] = paid]
        /\ Len(paid) <= 1 \/ (Len(paid) = 2 /\ paid[1] = UnansweredEns)
  BY Payment
<1>6. QueryFine(s.at, q.target, paid)
  BY <1>5 DEF QueryFine, Querying
<1>7. s.at \notin Files /\ call[c].at \notin Files /\ s.at # "idle" /\ s.at # "poll"
  BY DEF Files
<1> QED BY <1>3, <1>4, <1>5, <1>6, <1>7, QueryStep

LEMMA PaidListed ==
  ASSUME LoopInv, NEW c \in Call, PayListed(c)
  PROVE  LoopInv'
<1>1. CASE \E d \in Call : /\ Pay(c, "listed", TRUE)
                            /\ Spawn(c, [call[c] EXCEPT !.at = "poll"], d)
                            /\ query' = [query EXCEPT ![c].peer = d]
  BY <1>1, PaidPeer
<1>2. CASE /\ Pay(c, "listed", FALSE)
           /\ SpawnHereOrThere(c, Result(call[c], TRUE))
           /\ query' = [query EXCEPT ![c] = NoQuery]
  <2>1. /\ WellFormed(call[c]) /\ call[c].at = "listed" /\ call[c].at \in Querying
        /\ UNCHANGED files /\ NoQuery \in Query
    BY DEF LoopInv, LoopTypes, PayListed, Querying, NoQuery, Query
  <2> DEFINE s == Result(call[c], TRUE)
  <2>2. WellFormed(s) /\ s.at = "model" /\ s.agent = call[c].agent
    BY <2>1, ResultWell
  <2> HIDE DEF s
  <2> QED BY <1>2, <2>1, <2>2, PaidForNothing DEF s
<1> QED BY <1>1, <1>2 DEF PayListed

\* A request is never answered, whether it was charged or not.
LEMMA Hangs ==
  ASSUME LoopInv, NEW c \in Call, Hang(c) \/ HangPaid(c)
  PROVE  LoopInv'
<1> DEFINE s == [call[c] EXCEPT !.at = "hung"]
<1>1. /\ WellFormed(call[c]) /\ call[c].at \in {"model", "synthesize"} \cup Querying
      /\ query \in [Call -> Query] /\ charges \in [Call -> Seq(Charge)]
      /\ wallet \in [Agent -> Nat] /\ \A a \in Agent : wallet[a] <= Funds[a]
      /\ QueryFine(call[c].at, query[c].target, charges[c])
      /\ UNCHANGED <<query, files>>
  BY DEF LoopInv, LoopTypes, QueriesPay, Hang, HangPaid, CanReply, Querying
<1>2. WellFormed(s) /\ s.at = "hung" /\ s.agent = call[c].agent
  BY <1>1, ProceedWell
<1>3. query' = [query EXCEPT ![c] = query[c]] /\ query[c] \in Query
  BY <1>1
<1>4. CASE Becomes(c, s) /\ UNCHANGED <<ens, charges>>
           /\ (UNCHANGED wallet \/ Spend(call[c].agent))
  <2>1. Moves(c, s)
    BY <1>4, BecomesMoves
  <2>2. charges' = [charges EXCEPT ![c] = charges[c]] /\ charges[c] \in Seq(Charge)
    BY <1>1, <1>4
  <2>3. wallet' \in [Agent -> Nat] /\ \A a \in Agent : wallet'[a] <= Funds[a]
    <3>1. call[c].agent \in Agent
      BY <1>1 DEF WellFormed, Querying
    <3> QED BY <1>1, <1>4, <3>1, Spending
  <2> HIDE DEF s
  <2>4. QueryFine(s.at, query[c].target, charges[c])
    BY <1>1, <1>2 DEF QueryFine, Querying
  <2>5. s.at \notin Files /\ call[c].at \notin Files /\ s.at # "idle" /\ s.at # "poll"
    BY <1>1, <1>2 DEF Files, Querying
  <2> QED BY <1>1, <1>2, <1>3, <1>4, <2>1, <2>2, <2>3, <2>4, <2>5, QueryStep
<1>5. CASE \E route \in {"ens", "listed"} :
             /\ call[c].at \in {"payEns", "listed"} /\ (route = "ens" <=> call[c].at = "payEns")
             /\ Pay(c, route, FALSE) /\ SpawnHereOrThere(c, s)
  <2> HIDE DEF s
  <2> QED BY <1>1, <1>2, <1>3, <1>5, PaidForNothing
<1> QED BY <1>4, <1>5 DEF Hang, HangPaid, Proceed, money
---------------------------------------------------------------------------
\* The steps on files.

LEMMA OverlappedFields ==
  ASSUME LoopInv, NEW cs
  PROVE  /\ Overlapped(cs) \in [Call -> Draft]
         /\ \A d \in cs \cap Call : Overlapped(cs)[d].overlapped
         /\ \A d \in Call \ cs : Overlapped(cs)[d] = draft[d]
<1>1. draft \in [Call -> Draft]
  BY DEF LoopInv, LoopTypes
<1>2. \A d \in Call : /\ [draft[d] EXCEPT !.overlapped = TRUE] \in Draft
                      /\ [draft[d] EXCEPT !.overlapped = TRUE].overlapped
  BY <1>1 DEF Draft
<1> QED BY <1>1, <1>2 DEF Overlapped

\* A step of a call that does not query keeps what is known of the queries.
LEMMA QueriesKept ==
  ASSUME LoopInv, NEW c \in Call, NEW s, WellFormed(s), s.at # "idle",
         s.agent = call[c].agent, Moves(c, s),
         s.at \notin Querying, call[c].at \notin Querying, UNCHANGED <<query, charges>>
  PROVE  QueriesPay' /\ PeersAnswer'
<1>1. QueryFine(s.at, query'[c].target, charges'[c])
  BY DEF LoopInv, QueriesPay, QueryFine, Querying
<1> QED BY <1>1, KeepsQueries DEF Querying

\* A call reads a file it is going to write.
LEMMA Opening ==
  ASSUME LoopInv, NEW c \in Call, NEW s, WellFormed(s), s.at \in Files,
         s.agent = call[c].agent, Becomes(c, s), call[c].at \in {"model", "synthesize"},
         NEW others, others = Writing(call[c].agent, SameFile(s.at)),
         NEW mine \in Draft, mine.overlapped <=> others # {},
         ~mine.overlapped => IF s.at = "note" THEN mine.lines = memory[call[c].agent]
                                              ELSE mine.version = skill[call[c].agent],
         draft' = [Overlapped(others) EXCEPT ![c] = mine],
         UNCHANGED <<query, memory, skill, money>>
  PROVE  LoopInv'
<1>1. Moves(c, s) /\ s.at # "idle" /\ s.at \notin Querying /\ call[c].at \notin Querying
  BY BecomesMoves DEF Files, Querying
<1>2. /\ draft' \in [Call -> Draft] /\ draft'[c] = mine
      /\ \A d \in Call \ {c} : /\ d \in others => draft'[d].overlapped
                               /\ d \notin others => draft'[d] = draft[d]
  BY OverlappedFields
<1>3. LoopTypes'
  BY <1>1, <1>2, Moved DEF LoopInv, LoopTypes, money
<1>4. QueriesPay' /\ PeersAnswer'
  BY <1>1, QueriesKept DEF money
<1>5. call'[c] = s /\ \A d \in Call \ {c} : call'[d] = call[d]
  BY DEF LoopInv, LoopTypes, Becomes
<1>6. ASSUME NEW e \in Call, call'[e].at \in Files, NEW d \in Call \ {e},
             call'[d].at \in SameFile(call'[e].at), call'[d].agent = call'[e].agent
      PROVE  draft'[e].overlapped
  <2>1. CASE e = c
    <3>1. d \in others
      BY <1>5, <1>6, <2>1 DEF Writing
    <3> QED BY <1>2, <2>1, <3>1
  <2>2. CASE e # c /\ d = c
    <3>1. e \in others
      BY <1>5, <1>6, <2>2 DEF Writing, SameFile, Files
    <3> QED BY <1>2, <2>2, <3>1
  <2>3. CASE e # c /\ d # c
    <3>1. draft[e].overlapped
      BY <1>5, <1>6, <2>3 DEF LoopInv, WritersKnow
    <3> QED BY <1>2, <2>3, <3>1
  <2> QED BY <2>1, <2>2, <2>3
<1>7. ASSUME NEW e \in Call, ~draft'[e].overlapped
      PROVE  /\ call'[e].at = "note" => draft'[e].lines = memory'[call'[e].agent]
             /\ call'[e].at \in {"skill", "upsert"} =>
                  draft'[e].version = skill'[call'[e].agent]
  <2>1. CASE e = c
    BY <1>2, <1>5, <1>7, <2>1
  <2>2. CASE e # c
    <3>1. draft'[e] = draft[e] /\ call'[e] = call[e]
      BY <1>2, <1>5, <1>7, <2>2
    <3> QED BY <1>7, <3>1 DEF LoopInv, WritersKnow
  <2> QED BY <2>1, <2>2
<1>8. WritersKnow'
  BY <1>6, <1>7 DEF WritersKnow
<1> QED BY <1>3, <1>4, <1>8 DEF LoopInv

\* A call has written its file.
LEMMA Closing ==
  ASSUME LoopInv, NEW c \in Call, NEW s, WellFormed(s), s.at \notin Files \cup Querying,
         s.at # "idle", s.agent = call[c].agent, Becomes(c, s), call[c].at \in Files,
         draft' = [draft EXCEPT ![c] = NoDraft],
         memory' \in [Agent -> Seq(Call)], \A a \in Agent : Len(memory'[a]) <= MemoryCap,
         skill' \in [Agent -> Nat],
         \A a \in Agent : memory'[a] # memory[a] => a = call[c].agent /\ call[c].at = "note",
         \A a \in Agent : skill'[a] # skill[a] => a = call[c].agent /\ call[c].at # "note",
         UNCHANGED <<query, money>>
  PROVE  LoopInv'
<1>1. Moves(c, s) /\ call[c].at \notin Querying
  BY BecomesMoves DEF Files, Querying
<1>2. NoDraft \in Draft
  BY DEF NoDraft, Draft
<1>3. draft' \in [Call -> Draft] /\ \A d \in Call \ {c} : draft'[d] = draft[d]
  BY <1>2 DEF LoopInv, LoopTypes
<1>4. LoopTypes'
  BY <1>1, <1>3, Moved DEF LoopInv, LoopTypes, money
<1>5. QueriesPay' /\ PeersAnswer'
  BY <1>1, QueriesKept DEF money
<1>6. call'[c] = s /\ \A d \in Call \ {c} : call'[d] = call[d]
  BY DEF LoopInv, LoopTypes, Becomes
<1>7. ASSUME NEW e \in Call, call'[e].at \in Files, NEW d \in Call \ {e},
             call'[d].at \in SameFile(call'[e].at), call'[d].agent = call'[e].agent
      PROVE  draft'[e].overlapped
  <2>1. e # c /\ d # c
    BY <1>6, <1>7 DEF SameFile, Files
  <2> QED BY <1>3, <1>6, <1>7, <2>1 DEF LoopInv, WritersKnow
<1>8. ASSUME NEW e \in Call, ~draft'[e].overlapped
      PROVE  /\ call'[e].at = "note" => draft'[e].lines = memory'[call'[e].agent]
             /\ call'[e].at \in {"skill", "upsert"} =>
                  draft'[e].version = skill'[call'[e].agent]
  <2> SUFFICES ASSUME call'[e].at \in Files
               PROVE  /\ call'[e].at = "note" => draft'[e].lines = memory'[call'[e].agent]
                      /\ call'[e].at \in {"skill", "upsert"} =>
                           draft'[e].version = skill'[call'[e].agent]
    BY DEF Files
  <2>1. e # c /\ call'[e] = call[e] /\ draft'[e] = draft[e]
    BY <1>3, <1>6
  <2>2. call[e].agent \in Agent
    BY <2>1 DEF LoopInv, LoopTypes, WellFormed, Files
  <2>3. /\ call[e].at = "note" => draft[e].lines = memory[call[e].agent]
        /\ call[e].at \in {"skill", "upsert"} => draft[e].version = skill[call[e].agent]
    BY <1>8, <2>1 DEF LoopInv, WritersKnow
  <2>4. call[e].agent = call[c].agent => call[c].at \notin SameFile(call[e].at)
    BY <1>8, <2>1 DEF LoopInv, WritersKnow
  <2>5. /\ call[e].at = "note" => memory'[call[e].agent] = memory[call[e].agent]
        /\ call[e].at \in {"skill", "upsert"} => skill'[call[e].agent] = skill[call[e].agent]
    BY <2>2, <2>4 DEF SameFile, Files
  <2> QED BY <2>1, <2>3, <2>5
<1>9. WritersKnow'
  BY <1>7, <1>8 DEF WritersKnow
<1> QED BY <1>4, <1>5, <1>9 DEF LoopInv

LEMMA NoteBegins ==
  ASSUME LoopInv, NEW c \in Call, Note(c)
  PROVE  LoopInv'
<1> DEFINE a == call[c].agent
           others == Writing(a, {"note"})
           s == [ToolCalled(call[c]) EXCEPT !.at = "note"]
<1>1. PICK lines \in {memory[a]} \cup {<<>> : d \in others} :
        draft' = [Overlapped(others) EXCEPT ![c] =
                    [NoDraft EXCEPT !.lines = lines, !.overlapped = others # {}]]
  BY DEF Note
<1> DEFINE mine == [NoDraft EXCEPT !.lines = lines, !.overlapped = others # {}]
<1>2. /\ WellFormed(call[c]) /\ call[c].at = "model" /\ call[c].turn < MaxTurns
      /\ Becomes(c, s) /\ UNCHANGED <<query, memory, skill, money>>
      /\ memory \in [Agent -> Seq(Call)]
  BY DEF LoopInv, LoopTypes, Note, CanReply, Enter
<1>3. a \in Agent
  BY <1>2 DEF WellFormed
<1>4. WellFormed(s) /\ s.at = "note" /\ s.agent = a
  BY <1>2, EnterWell
<1>5. lines \in Seq(Call) /\ (others = {} => lines = memory[a])
  <2>1. lines = memory[a] \/ (others # {} /\ lines = <<>>)
    <3> HIDE DEF a, s, mine, others
    <3>1. lines \in {memory[a]} \/ lines \in {<<>> : d \in others}
      OBVIOUS
    <3>2. lines \in {<<>> : d \in others} => \E d \in others : lines = <<>>
      BY Zenon
    <3> QED BY <3>1, <3>2
  <2>2. memory[a] \in Seq(Call) /\ <<>> \in Seq(Call)
    BY <1>2, <1>3
  <2> HIDE DEF a, s, mine, others
  <2> QED BY <2>1, <2>2
<1>6. mine \in Draft /\ mine.lines = lines /\ (mine.overlapped <=> others # {})
  BY <1>5 DEF NoDraft, Draft
<1>7. others = Writing(call[c].agent, SameFile(s.at))
  BY <1>4 DEF SameFile
<1>8. draft' = [Overlapped(others) EXCEPT ![c] = mine]
  BY <1>1
<1> HIDE DEF s, mine, others
<1>9. ~mine.overlapped => mine.lines = memory[call[c].agent]
  BY <1>5, <1>6
<1>10. s.at \in Files /\ call[c].at \in {"model", "synthesize"}
  BY <1>2, <1>4 DEF Files
<1> QED BY <1>2, <1>4, <1>6, <1>7, <1>8, <1>9, <1>10, Opening

\* upsertSkill begins, in a tool call or after the task.
LEMMA VersionRead ==
  ASSUME LoopInv, NEW c \in Call, NEW s, WellFormed(s), s.at \in {"skill", "upsert"},
         s.agent = call[c].agent, Becomes(c, s), call[c].at \in {"model", "synthesize"},
         ReadVersion(c), UNCHANGED <<query, memory, skill, money>>
  PROVE  LoopInv'
<1> DEFINE a == call[c].agent
           others == SkillWriters(a)
<1>1. PICK version \in {skill[a]} \cup {1 : d \in others} :
        draft' = [Overlapped(others) EXCEPT ![c] =
                    [NoDraft EXCEPT !.version = version, !.overlapped = others # {}]]
  BY DEF ReadVersion
<1> DEFINE mine == [NoDraft EXCEPT !.version = version, !.overlapped = others # {}]
<1>2. skill \in [Agent -> Nat] /\ WellFormed(call[c])
  BY DEF LoopInv, LoopTypes
<1>3. a \in Agent
  BY <1>2 DEF WellFormed
<1>4. version \in Nat /\ (others = {} => version = skill[a])
  BY <1>2, <1>3
<1>5. mine \in Draft /\ mine.version = version /\ (mine.overlapped <=> others # {})
  <2> HIDE DEF others
  <2>1. <<>> \in Seq(Call)
    OBVIOUS
  <2> QED BY <1>4, <2>1 DEF NoDraft, Draft
<1>6. others = Writing(call[c].agent, SameFile(s.at))
  BY DEF SkillWriters, SameFile
<1>7. draft' = [Overlapped(others) EXCEPT ![c] = mine]
  BY <1>1
<1> HIDE DEF mine, others
<1>8. ~mine.overlapped => mine.version = skill[call[c].agent]
  BY <1>4, <1>5
<1>9. s.at \in Files /\ s.at # "note"
  BY DEF Files
<1> QED BY <1>5, <1>6, <1>7, <1>8, <1>9, Opening

LEMMA FilesRead ==
  ASSUME LoopInv, NEW c \in Call, Note(c) \/ ManageSkill(c) \/ Synthesize(c)
  PROVE  LoopInv'
<1>1. CASE Note(c)
  BY <1>1, NoteBegins
<1>2. CASE ManageSkill(c)
  <2> DEFINE s == [ToolCalled(call[c]) EXCEPT !.at = "skill"]
  <2>1. /\ WellFormed(call[c]) /\ call[c].at = "model" /\ call[c].turn < MaxTurns
        /\ Becomes(c, s) /\ ReadVersion(c) /\ UNCHANGED <<query, memory, skill, money>>
    BY <1>2 DEF LoopInv, LoopTypes, ManageSkill, CanReply, Enter
  <2>2. WellFormed(s) /\ s.at = "skill" /\ s.agent = call[c].agent
    BY <2>1, EnterWell
  <2> HIDE DEF s
  <2> QED BY <2>1, <2>2, VersionRead
<1>3. CASE Synthesize(c)
  <2>1. /\ WellFormed(call[c]) /\ call[c].at = "synthesize"
        /\ UNCHANGED <<query, memory, skill, money>>
        /\ wallet \in [Agent -> Nat] /\ \A a \in Agent : wallet[a] <= Funds[a]
    BY <1>3 DEF LoopInv, LoopTypes, Synthesize
  <2>2. CASE Proceed(c, "upsert") /\ ReadVersion(c)
    <3> DEFINE s == [call[c] EXCEPT !.at = "upsert"]
    <3>1. WellFormed(s) /\ s.at = "upsert" /\ s.agent = call[c].agent
      BY <2>1, ProceedWell
    <3>2. Becomes(c, s)
      BY <2>2 DEF Proceed
    <3> HIDE DEF s
    <3> QED BY <2>1, <2>2, <3>1, <3>2, VersionRead
  <2>3. CASE Proceed(c, "ended") /\ UNCHANGED draft
    <3> DEFINE s == [call[c] EXCEPT !.at = "ended"]
    <3>1. WellFormed(s) /\ s.at = "ended" /\ s.agent = call[c].agent
      BY <2>1, ProceedWell
    <3>2. Becomes(c, s)
      BY <2>3 DEF Proceed
    <3> HIDE DEF s
    <3>3. UNCHANGED <<query, files, ens, charges, wallet>>
      BY <2>1, <2>3 DEF files, money
    <3> QED BY <2>1, <3>1, <3>2, <3>3, PlainStep DEF Files, Querying
  <2> QED BY <1>3, <2>2, <2>3 DEF Synthesize
<1> QED BY <1>1, <1>2, <1>3

LEMMA FilesWritten ==
  ASSUME LoopInv, NEW c \in Call, NoteWrite(c) \/ NoteFails(c) \/ SkillWrite(c) \/ Upsert(c)
  PROVE  LoopInv'
<1>1. /\ WellFormed(call[c]) /\ draft \in [Call -> Draft]
      /\ memory \in [Agent -> Seq(Call)] /\ \A a \in Agent : Len(memory[a]) <= MemoryCap
      /\ skill \in [Agent -> Nat]
  BY DEF LoopInv, LoopTypes
<1>2. draft[c].lines \in Seq(Call) /\ draft[c].version \in Nat
  BY <1>1 DEF Draft
<1>3. CASE NoteWrite(c) \/ NoteFails(c)
  <2> DEFINE newest == Newest(Append(draft[c].lines, c))
             s == Result(call[c], FALSE)
  <2>1. PICK lines \in {newest, memory[call[c].agent], <<>>} : WriteMemory(c, lines)
    BY <1>3 DEF NoteWrite, NoteFails
  <2>2. /\ call[c].at = "note" /\ memory' = [memory EXCEPT ![call[c].agent] = lines]
        /\ draft' = [draft EXCEPT ![c] = NoDraft] /\ Becomes(c, s)
        /\ UNCHANGED <<query, skill, money>>
    BY <2>1 DEF WriteMemory
  <2>3. WellFormed(s) /\ s.at = "model" /\ s.agent = call[c].agent
    BY <1>1, <2>2, ResultWell
  <2>4. lines \in Seq(Call) /\ Len(lines) <= MemoryCap
    <3>1. Append(draft[c].lines, c) \in Seq(Call)
      BY <1>2
    <3>2. newest \in Seq(Call) /\ Len(newest) <= MemoryCap
      BY <3>1, NewestLines
    <3>3. call[c].agent \in Agent
      BY <1>1, <2>2 DEF WellFormed
    <3>4. <<>> \in Seq(Call) /\ Len(<<>>) <= MemoryCap
      BY LoopAssumption
    <3> HIDE DEF newest
    <3> QED BY <1>1, <3>2, <3>3, <3>4
  <2> HIDE DEF newest, s
  <2>5. /\ memory' \in [Agent -> Seq(Call)] /\ \A a \in Agent : Len(memory'[a]) <= MemoryCap
        /\ \A a \in Agent : memory'[a] # memory[a] => a = call[c].agent
    BY <1>1, <2>2, <2>4
  <2>6. s.at \notin Files \cup Querying /\ s.at # "idle" /\ call[c].at \in Files
    BY <2>2, <2>3 DEF Files, Querying
  <2> QED BY <1>1, <2>2, <2>3, <2>5, <2>6, Closing
<1>4. CASE SkillWrite(c) \/ Upsert(c)
  <2> DEFINE s == IF call[c].at = "skill" THEN Result(call[c], FALSE)
                                          ELSE [call[c] EXCEPT !.at = "ended"]
  <2>1. /\ call[c].at \in {"skill", "upsert"} /\ WriteSkill(c, draft[c].version + 1)
        /\ Becomes(c, s) /\ UNCHANGED <<query, memory, money>>
    BY <1>4 DEF SkillWrite, Upsert, Proceed
  <2>2. WellFormed(s) /\ s.at \in {"model", "ended"} /\ s.agent = call[c].agent
    <3>1. CASE call[c].at = "skill"
      BY <1>1, <3>1, ResultWell
    <3>2. CASE call[c].at = "upsert"
      <4> DEFINE e == [call[c] EXCEPT !.at = "ended"]
      <4>1. WellFormed(e) /\ e.at = "ended" /\ e.agent = call[c].agent
        BY <1>1, <3>2, ProceedWell
      <4>2. s = e
        BY <3>2
      <4> HIDE DEF e, s
      <4> QED BY <4>1, <4>2
    <3> QED BY <2>1, <3>1, <3>2
  <2> HIDE DEF s
  <2>3. /\ skill' = [skill EXCEPT ![call[c].agent] = draft[c].version + 1]
        /\ draft' = [draft EXCEPT ![c] = NoDraft]
    BY <2>1 DEF WriteSkill
  <2>4. /\ skill' \in [Agent -> Nat]
        /\ \A a \in Agent : skill'[a] # skill[a] => a = call[c].agent
    <3>1. draft[c].version + 1 \in Nat
      BY <1>2
    <3> QED BY <1>1, <2>3, <3>1
  <2>5. s.at \notin Files \cup Querying /\ s.at # "idle" /\ call[c].at \in Files
        /\ call[c].at # "note"
    BY <2>1, <2>2 DEF Files, Querying
  <2> QED BY <1>1, <2>1, <2>2, <2>3, <2>4, <2>5, Closing
<1> QED BY <1>3, <1>4

\* A delete overlaps every write in progress.
LEMMA SkillDeleted ==
  ASSUME LoopInv, NEW c \in Call, DeleteSkill(c)
  PROVE  LoopInv'
<1> DEFINE a == call[c].agent
           cs == SkillWriters(a)
           s == Result(ToolCalled(call[c]), skill[a] = 0)
<1>1. /\ WellFormed(call[c]) /\ call[c].at = "model" /\ call[c].turn < MaxTurns
      /\ skill' = [skill EXCEPT ![a] = 0] /\ draft' = Overlapped(cs) /\ Becomes(c, s)
      /\ UNCHANGED <<query, memory, money>> /\ skill \in [Agent -> Nat]
  BY DEF LoopInv, LoopTypes, DeleteSkill, CanReply
<1>2. WellFormed(s) /\ s.at = "model" /\ s.agent = a
  <2> DEFINE error == skill[a] = 0
  <2>1. error \in BOOLEAN
    OBVIOUS
  <2> HIDE DEF error
  <2> QED BY <1>1, <2>1, ToolWell DEF error
<1> HIDE DEF s
<1>3. /\ Moves(c, s) /\ s.at # "idle" /\ s.at \notin Querying \cup Files
      /\ call[c].at \notin Querying
  BY <1>1, <1>2, BecomesMoves DEF Files, Querying
<1>4. /\ draft' \in [Call -> Draft]
      /\ \A d \in cs \cap Call : draft'[d].overlapped
      /\ \A d \in Call \ cs : draft'[d] = draft[d]
  BY <1>1, OverlappedFields
<1>5. skill' \in [Agent -> Nat] /\ \A b \in Agent \ {a} : skill'[b] = skill[b]
  BY <1>1
<1>6. LoopTypes'
  BY <1>1, <1>2, <1>3, <1>4, <1>5, Moved DEF LoopInv, LoopTypes, money
<1>7. QueriesPay' /\ PeersAnswer'
  BY <1>1, <1>2, <1>3, QueriesKept DEF money
<1>8. call'[c] = s /\ \A d \in Call \ {c} : call'[d] = call[d]
  BY <1>1 DEF LoopInv, LoopTypes, Becomes
<1>9. ASSUME NEW e \in Call, call'[e].at \in Files, NEW d \in Call \ {e},
             call'[d].at \in SameFile(call'[e].at), call'[d].agent = call'[e].agent
      PROVE  draft'[e].overlapped
  <2>1. e # c /\ d # c
    BY <1>3, <1>8, <1>9 DEF SameFile, Files
  <2>2. draft[e].overlapped
    BY <1>8, <1>9, <2>1 DEF LoopInv, WritersKnow
  <2> QED BY <1>4, <2>2
<1>10. ASSUME NEW e \in Call, ~draft'[e].overlapped, call'[e].at \in Files
       PROVE  /\ call'[e].at = "note" => draft'[e].lines = memory'[call'[e].agent]
              /\ call'[e].at \in {"skill", "upsert"} =>
                   draft'[e].version = skill'[call'[e].agent]
  <2>1. e # c /\ call'[e] = call[e] /\ draft'[e] = draft[e] /\ e \notin cs
    BY <1>3, <1>4, <1>8, <1>10
  <2>2. call[e].agent \in Agent
    BY <1>10, <2>1 DEF LoopInv, LoopTypes, WellFormed, Files
  <2>3. call[e].at \in {"skill", "upsert"} => call[e].agent # a
    BY <2>1 DEF SkillWriters, Writing
  <2>4. /\ call[e].at = "note" => draft[e].lines = memory[call[e].agent]
        /\ call[e].at \in {"skill", "upsert"} => draft[e].version = skill[call[e].agent]
    BY <1>10, <2>1 DEF LoopInv, WritersKnow
  <2> QED BY <1>1, <1>5, <2>1, <2>2, <2>3, <2>4
<1>11. WritersKnow'
  BY <1>9, <1>10 DEF WritersKnow, Files
<1> QED BY <1>6, <1>7, <1>11 DEF LoopInv

---------------------------------------------------------------------------
\* The inductive invariant.

LEMMA InitLoop ==
  ASSUME Init
  PROVE  LoopInv
<1>1. WellFormed(Idle)
  BY LoopAssumption DEF WellFormed, CallState, Idle, Files, Querying
<1>2. NoDraft \in Draft /\ NoQuery \in Query
  BY DEF NoDraft, NoQuery, Query, Draft
<1>3. LoopTypes
  BY <1>1, <1>2, LoopAssumption DEF Init, LoopTypes
<1>4. QueriesPay /\ PeersAnswer /\ WritersKnow
  BY DEF Init, Idle, QueriesPay, QueryFine, PeersAnswer, WritersKnow, Files, Querying
<1> QED BY <1>3, <1>4 DEF LoopInv

LEMMA Received ==
  ASSUME LoopInv, NEW a \in Agent, Receive(a)
  PROVE  LoopInv'
<1>1. PICK c \in Call : call[c] = Idle /\ Becomes(c, Started(a))
  BY DEF Receive
<1>2. /\ call[c].at = "idle" /\ UNCHANGED <<query, files, ens, charges, wallet>>
      /\ wallet \in [Agent -> Nat] /\ \A b \in Agent : wallet[b] <= Funds[b]
  BY <1>1 DEF Receive, Idle, money, LoopInv, LoopTypes
<1>3. /\ WellFormed(Started(a)) /\ Started(a).at # "idle"
      /\ Started(a).at \notin Files \cup Querying /\ call[c].at \notin Querying
  BY <1>2, StartedWell DEF Files, Querying
<1> QED BY <1>1, <1>2, <1>3, PlainStep

LEMMA StepLoop ==
  ASSUME LoopInv, [Next]_vars
  PROVE  LoopInv'
<1>1. CASE UNCHANGED vars
  <2>1. UNCHANGED <<ens, wallet, call, query, memory, skill, draft, charges>>
    BY <1>1 DEF vars, files, money
  <2> QED BY <2>1 DEF LoopInv, LoopTypes, QueriesPay, PeersAnswer, WritersKnow
<1>2. CASE \E a \in Agent : Receive(a)
  BY <1>2, Received
<1>3. ASSUME NEW c \in Call, Step(c)
      PROVE  LoopInv'
  <2>1. CASE ModelFails(c) \/ Unparseable(c)
    BY <2>1, PlainSteps
  <2>2. CASE Tool(c)
    BY <2>2, PlainSteps, FilesRead, SkillDeleted, QueryBegins DEF Tool
  <2>3. CASE Waiting(c)
    BY <2>3, FilesWritten, UnpaidSteps, PaidEns, PaidListed DEF Waiting
  <2>4. CASE Ending(c)
    BY <2>4, PlainSteps, FilesRead, FilesWritten DEF Ending
  <2>5. CASE Hang(c) \/ HangPaid(c)
    BY <2>5, Hangs
  <2> QED BY <1>3, <2>1, <2>2, <2>3, <2>4, <2>5 DEF Step, GoesOn
<1> QED BY <1>1, <1>2, <1>3 DEF Next

\* Every query pays as its route does, peers answer as they were asked, and each writer knows the
\* file it read (query_agent, appendMemoryLine, upsertSkill).
THEOREM LoopInvariant == Spec => []LoopInv
<1>1. Init => LoopInv
  BY InitLoop
<1>2. LoopInv /\ [Next]_vars => LoopInv'
  BY StepLoop
<1> QED BY <1>1, <1>2, PTL DEF Spec

\* The declared types.
THEOREM TypeCorrect == Spec => []TypeOK
<1>1. LoopInv => TypeOK
  <2> SUFFICES ASSUME LoopInv
               PROVE  TypeOK
    OBVIOUS
  <2>1. /\ ens \in EnsRecords
        /\ \A a \in Agent : Len(memory[a]) =< MemoryCap /\ skill[a] \in Nat
    BY DEF LoopInv, LoopTypes
  <2>2. \A a \in Agent : wallet[a] \in 0 .. Funds[a]
    BY LoopAssumption DEF LoopInv, LoopTypes
  <2>3. ASSUME NEW c \in Call
        PROVE  /\ query[c] \in Query
               /\ charges[c] \in Seq(Charge)
               /\ call[c].at = "poll" =>
                    query[c].peer # Nobody /\ call[query[c].peer].agent = query[c].target
               /\ call[c].at # "hung" =>
                    (call[c].answer # "none" <=> call[c].at \in {"synthesize", "upsert", "ended"})
    BY LoopAssumption DEF LoopInv, LoopTypes, PeersAnswer, WellFormed
  <2>4. ASSUME NEW c \in Call
        PROVE  call[c] \in [agent : Agent \cup {Nobody},
                            at : {"idle", "model", "note", "skill", "resolve", "verify", "payEns",
                                  "listed", "poll", "synthesize", "upsert", "ended", "hung"},
                            turn : 0 .. MaxTurns, tools : 0 .. MaxTurns,
                            trouble : {"none", "error", "recovered"},
                            answer : {"none", "complete", "error"}]
    <3>1. WellFormed(call[c])
      BY DEF LoopInv, LoopTypes
    <3>2. call[c].turn \in 0 .. MaxTurns /\ call[c].tools \in 0 .. MaxTurns
      BY <3>1, LoopAssumption DEF WellFormed, CallState
    <3> QED BY <3>1, <3>2 DEF WellFormed, CallState, Files, Querying
  <2> QED BY <2>1, <2>2, <2>3, <2>4 DEF TypeOK
<1> QED BY <1>1, LoopInvariant, PTL

\* query_agent: a second charge of a query is the static route's, after the answer of the
\* published endpoint was lost, and there is no third.
THEOREM SecondChargeExplained == Spec => []SecondChargeFollowsLoss
<1>1. LoopInv => SecondChargeFollowsLoss
  <2> SUFFICES ASSUME LoopInv, NEW c \in Call, NEW i \in 1 .. Len(charges[c]) - 1
               PROVE  i = 1 /\ charges[c][i] = [route |-> "ens", answered |-> FALSE]
    BY DEF SecondChargeFollowsLoss
  <2>1. charges[c] \in Seq(Charge) /\ Len(charges[c]) \in Nat
    BY DEF LoopInv, LoopTypes
  <2>2. Len(charges[c]) <= 1 \/ (Len(charges[c]) = 2 /\ charges[c][1] = UnansweredEns)
    BY DEF LoopInv, QueriesPay, QueryFine
  <2>3. Len(charges[c]) = 2 /\ i = 1
    <3> DEFINE n == Len(charges[c])
    <3>1. n \in Nat /\ (n <= 1 \/ n = 2) /\ i \in 1 .. n - 1
      BY <2>1, <2>2
    <3> HIDE DEF n
    <3>2. n = 2 /\ i = 1
      BY <3>1
    <3> QED BY <3>2 DEF n
  <2> QED BY <2>2, <2>3 DEF UnansweredEns
<1> QED BY <1>1, LoopInvariant, PTL

\* The lines of a file from the k-th on.
LEMMA LastLines ==
  ASSUME NEW lines \in Seq(Call), NEW k \in 1 .. Len(lines) + 1
  PROVE  LET last == SubSeq(lines, k, Len(lines))
         IN  /\ last \in Seq(Call) /\ Len(last) = Len(lines) + 1 - k
             /\ \A i \in 1 .. Len(lines) + 1 - k : last[i] = lines[k + i - 1]
<1>1. Len(lines) \in Nat /\ Len(lines) \in Int /\ k \in Int
  OBVIOUS
<1>2. \A i \in k .. Len(lines) : lines[i] \in Call
  BY <1>1, ElementOfSeq
<1>3. Len(lines) - k + 1 = Len(lines) + 1 - k
  BY <1>1
<1>4. LET last == SubSeq(lines, k, Len(lines))
      IN  /\ last \in Seq(Call)
          /\ Len(last) = IF k <= Len(lines) THEN Len(lines) - k + 1 ELSE 0
          /\ \A i \in 1 .. Len(lines) - k + 1 : last[i] = lines[k + i - 1]
  BY ONLY <1>1, <1>2, SubSeqProperties
<1>5. ~(k <= Len(lines)) => Len(lines) + 1 - k = 0
  BY <1>1
<1> QED BY <1>3, <1>4, <1>5

\* The newest lines of a file with one more line: the line, and the tail of the rest that fits.
LEMMA NewestKept ==
  ASSUME NEW lines \in Seq(Call), Len(lines) <= MemoryCap, NEW c \in Call
  PROVE  \E n \in 0 .. Len(lines) :
           LET kept == SubSeq(lines, 1 + n, Len(lines))
           IN  /\ Newest(Append(lines, c)) = Append(kept, c)
               /\ n > 0 => Len(kept) + 1 = MemoryCap
<1> DEFINE all == Append(lines, c)
           n == IF Len(lines) = MemoryCap THEN 1 ELSE 0
           kept == SubSeq(lines, 1 + n, Len(lines))
           new == SubSeq(all, 1 + n, Len(all))
<1>1. MemoryCap \in Nat /\ MemoryCap > 0 /\ Len(lines) \in Nat
  BY LoopAssumption
<1>2. /\ all \in Seq(Call) /\ Len(all) = Len(lines) + 1
      /\ \A i \in 1 .. Len(lines) : all[i] = lines[i]
      /\ all[Len(lines) + 1] = c
  BY AppendProperties
<1>3. n \in 0 .. Len(lines) /\ n \in {0, 1} /\ (n = 1 <=> Len(lines) = MemoryCap)
  BY <1>1
<1> HIDE DEF n
<1>4. 1 + n \in 1 .. Len(lines) + 1
  BY <1>1, <1>3
<1>5. /\ kept \in Seq(Call) /\ Len(kept) = Len(lines) + 1 - (1 + n)
      /\ \A i \in 1 .. Len(lines) + 1 - (1 + n) : kept[i] = lines[1 + n + i - 1]
  BY <1>4, LastLines
<1>6. Newest(all) = new
  <2>1. 1 + (IF Len(all) > MemoryCap THEN Len(all) - MemoryCap ELSE 0) = 1 + n
    <3> HIDE DEF all
    <3> QED BY <1>1, <1>2, <1>3
  <2> HIDE DEF all
  <2> QED BY <2>1 DEF Newest
<1>7. /\ new \in Seq(Call) /\ Len(new) = Len(all) + 1 - (1 + n)
      /\ \A i \in 1 .. Len(all) + 1 - (1 + n) : new[i] = all[1 + n + i - 1]
  <2>1. 1 + n \in 1 .. Len(all) + 1
    <3> HIDE DEF all
    <3> QED BY <1>1, <1>2, <1>4
  <2> HIDE DEF all
  <2> QED BY <1>2, <2>1, LastLines
<1>8. /\ Append(kept, c) \in Seq(Call) /\ Len(Append(kept, c)) = Len(kept) + 1
      /\ \A i \in 1 .. Len(kept) : Append(kept, c)[i] = kept[i]
      /\ Append(kept, c)[Len(kept) + 1] = c
  <2> HIDE DEF kept
  <2> QED BY <1>5, AppendProperties
<1> DEFINE noted == Append(kept, c)
<1> HIDE DEF all, kept, new, noted
<1>9. noted \in Seq(Call) /\ Len(noted) = Len(kept) + 1 /\ noted[Len(kept) + 1] = c
      /\ \A i \in 1 .. Len(kept) : noted[i] = kept[i]
  BY <1>8 DEF noted
<1>10. Len(new) = Len(lines) + 1 - n /\ Len(noted) = Len(lines) + 1 - n
       /\ Len(kept) = Len(lines) - n /\ n \in Nat
  BY <1>1, <1>2, <1>3, <1>5, <1>7, <1>9
<1>11. ASSUME NEW i \in 1 .. Len(new)
       PROVE  new[i] = noted[i]
  <2>1. i \in 1 .. Len(lines) + 1 - n /\ i \in Nat
    BY <1>1, <1>10
  <2>2. new[i] = all[n + i]
    <3>1. i \in 1 .. Len(all) + 1 - (1 + n) /\ 1 + n + i - 1 = n + i
      BY <1>1, <1>2, <1>10, <2>1
    <3> QED BY <1>7, <3>1
  <2>3. CASE i = Len(lines) + 1 - n
    <3>1. n + i = Len(lines) + 1 /\ i = Len(kept) + 1
      BY <1>1, <1>10, <2>3
    <3> QED BY <1>2, <1>9, <2>2, <3>1
  <2>4. CASE i # Len(lines) + 1 - n
    <3>1. n + i \in 1 .. Len(lines) /\ i \in 1 .. Len(kept)
      BY <1>1, <1>10, <2>1, <2>4
    <3>2. kept[i] = lines[n + i]
      <4>1. i \in 1 .. Len(lines) + 1 - (1 + n) /\ 1 + n + i - 1 = n + i
        BY <1>1, <1>10, <3>1
      <4> QED BY <1>5, <4>1
    <3> QED BY <1>2, <1>9, <2>2, <3>1, <3>2
  <2> QED BY <2>3, <2>4
<1>12. new = noted
  BY <1>7, <1>9, <1>10, <1>11, SeqEqual
<1>13. n > 0 => Len(kept) + 1 = MemoryCap
  BY <1>1, <1>3, <1>10
<1> QED BY <1>3, <1>6, <1>12, <1>13 DEF all, kept, noted

\* appendMemoryLine: a note that no other write overlapped loses no line but the oldest of a
\* full file.
THEOREM NotesKept == Spec => NotesAreKept
<1> DEFINE Kept == \A c \in Call : NoteWrite(c) /\ ~draft[c].overlapped =>
       \E n \in 0 .. Len(memory[call[c].agent]) :
         LET kept == SubSeq(memory[call[c].agent], 1 + n, Len(memory[call[c].agent]))
         IN /\ memory'[call[c].agent] = Append(kept, c)
            /\ n > 0 => Len(kept) + 1 = MemoryCap
<1>1. LoopInv /\ [Next]_vars => [Kept]_vars
  <2> SUFFICES ASSUME LoopInv, NEW c \in Call, NoteWrite(c), ~draft[c].overlapped
               PROVE  \E n \in 0 .. Len(memory[call[c].agent]) :
                        LET kept == SubSeq(memory[call[c].agent], 1 + n,
                                           Len(memory[call[c].agent]))
                        IN /\ memory'[call[c].agent] = Append(kept, c)
                           /\ n > 0 => Len(kept) + 1 = MemoryCap
    OBVIOUS
  <2> DEFINE a == call[c].agent
  <2>1. /\ call[c].at = "note"
        /\ memory' = [memory EXCEPT ![a] = Newest(Append(draft[c].lines, c))]
    BY DEF NoteWrite, WriteMemory
  <2>2. /\ a \in Agent /\ memory \in [Agent -> Seq(Call)]
        /\ Len(memory[a]) <= MemoryCap
    BY <2>1 DEF LoopInv, LoopTypes, WellFormed
  <2>3. draft[c].lines = memory[a]
    BY <2>1 DEF LoopInv, WritersKnow
  <2> HIDE DEF a
  <2>4. memory'[a] = Newest(Append(memory[a], c))
    BY <2>1, <2>2, <2>3
  <2> QED BY <2>2, <2>4, NewestKept DEF a
<1> QED BY <1>1, LoopInvariant, PTL DEF Spec, NotesAreKept

\* upsertSkill: a write that no other overlapped continues the version there is.
THEOREM VersionsCounted == Spec => VersionsCountWrites
<1> DEFINE Counted == \A c \in Call : (SkillWrite(c) \/ Upsert(c)) /\ ~draft[c].overlapped =>
       skill'[call[c].agent] = skill[call[c].agent] + 1
<1>1. LoopInv /\ [Next]_vars => [Counted]_vars
  <2> SUFFICES ASSUME LoopInv, NEW c \in Call, SkillWrite(c) \/ Upsert(c), ~draft[c].overlapped
               PROVE  skill'[call[c].agent] = skill[call[c].agent] + 1
    OBVIOUS
  <2>1. /\ call[c].at \in {"skill", "upsert"}
        /\ skill' = [skill EXCEPT ![call[c].agent] = draft[c].version + 1]
    BY DEF SkillWrite, Upsert, WriteSkill
  <2>2. call[c].agent \in Agent /\ skill \in [Agent -> Nat]
    BY <2>1 DEF LoopInv, LoopTypes, WellFormed
  <2>3. draft[c].version = skill[call[c].agent]
    BY <2>1 DEF LoopInv, WritersKnow
  <2> QED BY <2>1, <2>2, <2>3
<1> QED BY <1>1, LoopInvariant, PTL DEF Spec, VersionsCountWrites

---------------------------------------------------------------------------
\* What a call has left.

LEMMA LeftIs ==
  ASSUME NEW s, WellFormed(s), s.at # "idle"
  PROVE  /\ s.at \notin {"synthesize", "upsert", "ended", "hung"} =>
              /\ s.at \in {"model", "note", "skill"} \cup Querying /\ s.turn \in 0 .. MaxTurns
              /\ OfTurn[s.at] \in 0 .. 5
              /\ Left(s) = 3 + 6 * (MaxTurns - s.turn) + OfTurn[s.at]
         /\ s.at \in {"synthesize", "upsert", "ended", "hung"} =>
              Left(s) = OfEnd[s.at] /\ OfEnd[s.at] \in 0 .. 2
         /\ Left(s) \in Nat
<1>0. DOMAIN OfEnd = {"synthesize", "upsert", "ended", "hung"}
  BY DEF OfEnd
<1>1. CASE s.at \notin {"synthesize", "upsert", "ended", "hung"}
  <2>1. s.at \in {"model", "note", "skill"} \cup Querying /\ s.turn \in 0 .. MaxTurns
    BY <1>1, LoopAssumption DEF WellFormed, CallState, Files, Querying
  <2>2. OfTurn[s.at] \in 0 .. 5
    BY <2>1 DEF OfTurn, Querying
  <2>3. Left(s) = 3 + 6 * (MaxTurns - s.turn) + OfTurn[s.at]
    BY <1>0, <1>1 DEF Left
  <2> QED BY <1>1, <2>1, <2>2, <2>3, LoopAssumption
<1>2. CASE s.at \in {"synthesize", "upsert", "ended", "hung"}
  <2>1. OfEnd[s.at] \in 0 .. 2
    BY <1>2 DEF OfEnd
  <2>2. Left(s) = OfEnd[s.at]
    BY <1>0, <1>2 DEF Left
  <2> QED BY <1>2, <2>1, <2>2
<1> QED BY <1>1, <1>2

\* The next turn, whatever was done in this one.
LEMMA TurnFalls ==
  ASSUME NEW s, WellFormed(s), s.at \in {"model", "note", "skill"} \cup Querying,
         NEW r, WellFormed(r), r.at = "model", r.turn = s.turn + 1
  PROVE  Left(r) < Left(s)
<1>1. s.at # "idle" /\ s.at \notin {"synthesize", "upsert", "ended", "hung"}
  BY DEF Querying
<1>2. OfTurn[r.at] = 5
  BY DEF OfTurn
<1>3. Left(r) = 3 + 6 * (MaxTurns - (s.turn + 1)) + 5
  BY <1>2, LeftIs
<1>4. /\ Left(s) = 3 + 6 * (MaxTurns - s.turn) + OfTurn[s.at]
      /\ s.turn \in 0 .. MaxTurns /\ OfTurn[s.at] \in 0 .. 5
  BY <1>1, LeftIs
<1> QED BY <1>3, <1>4, LoopAssumption

\* A call goes on within its turn, or after its loop.
LEMMA PlaceFalls ==
  ASSUME NEW s, WellFormed(s), s.at # "idle",
         NEW r, WellFormed(r), r.turn = s.turn,
         \/ s.at = "model" /\ r.at \in {"note", "skill", "resolve", "listed"}
         \/ s.at = "resolve" /\ r.at \in {"verify", "payEns", "listed"}
         \/ s.at = "verify" /\ r.at = "payEns"
         \/ s.at = "payEns" /\ r.at = "listed"
         \/ s.at = "listed" /\ r.at = "poll"
         \/ s.at = "synthesize" /\ r.at \in {"upsert", "ended"}
         \/ s.at = "upsert" /\ r.at = "ended"
  PROVE  Left(r) < Left(s)
<1>1. r.at # "idle"
  OBVIOUS
<1>2. CASE s.at \notin {"synthesize", "upsert"}
  <2>1. /\ OfTurn[r.at] < OfTurn[s.at]
        /\ s.at \notin {"synthesize", "upsert", "ended", "hung"}
        /\ r.at \notin {"synthesize", "upsert", "ended", "hung"}
    BY <1>2 DEF OfTurn
  <2>2. /\ Left(s) = 3 + 6 * (MaxTurns - s.turn) + OfTurn[s.at]
        /\ Left(r) = 3 + 6 * (MaxTurns - s.turn) + OfTurn[r.at]
        /\ s.turn \in 0 .. MaxTurns /\ OfTurn[s.at] \in 0 .. 5 /\ OfTurn[r.at] \in 0 .. 5
    BY <1>1, <2>1, LeftIs
  <2> QED BY <2>1, <2>2, LoopAssumption
<1>3. CASE s.at \in {"synthesize", "upsert"}
  <2>1. OfEnd[r.at] < OfEnd[s.at]
    BY <1>3 DEF OfEnd
  <2>2. r.at \in {"upsert", "ended"}
    BY <1>3
  <2> QED BY <1>1, <1>3, <2>1, <2>2, LeftIs
<1> QED BY <1>2, <1>3

\* The loop is over.
LEMMA DoneFalls ==
  ASSUME NEW s, WellFormed(s), s.at = "model",
         NEW r, WellFormed(r), r.at \in {"synthesize", "ended"}
  PROVE  Left(r) < Left(s)
<1>1. r.at # "idle" /\ s.at \notin {"idle", "synthesize", "upsert", "ended", "hung"}
  OBVIOUS
<1>2. OfTurn[s.at] = 5
  BY DEF OfTurn
<1>3. Left(r) <= 2 /\ Left(r) \in Nat
  BY <1>1, LeftIs
<1>4. Left(s) = 3 + 6 * (MaxTurns - s.turn) + 5 /\ s.turn \in 0 .. MaxTurns
  BY <1>1, <1>2, LeftIs
<1> QED BY <1>3, <1>4, LoopAssumption

\* A call that waits for ever has nothing left.
LEMMA HungFalls ==
  ASSUME NEW s, WellFormed(s), s.at \in {"model", "synthesize"} \cup Querying
  PROVE  /\ Left([s EXCEPT !.at = "hung"]) < Left(s)
         /\ [s EXCEPT !.at = "hung"].at # "idle"
<1> DEFINE e == [s EXCEPT !.at = "hung"]
<1>1. WellFormed(e) /\ e.at = "hung"
  BY ProceedWell
<1> HIDE DEF e
<1>2. Left(e) = 0
  BY <1>1, LeftIs DEF OfEnd
<1>3. CASE s.at = "synthesize"
  <2>1. Left(s) = 2
    BY <1>3, LeftIs DEF OfEnd
  <2> QED BY <1>1, <1>2, <2>1 DEF e
<1>4. CASE s.at \in {"model"} \cup Querying
  <2>1. s.at # "idle" /\ s.at \notin {"synthesize", "upsert", "ended", "hung"}
    BY <1>4 DEF Querying
  <2>2. /\ Left(s) = 3 + 6 * (MaxTurns - s.turn) + OfTurn[s.at]
        /\ s.turn \in 0 .. MaxTurns /\ OfTurn[s.at] \in 0 .. 5
    BY <2>1, LeftIs
  <2>3. Left(s) > 0
    BY <2>2, LoopAssumption
  <2> QED BY <1>1, <1>2, <2>3 DEF e
<1> QED BY <1>3, <1>4

\* What the model's reply does to the call.
LEMMA ReplyFalls ==
  ASSUME LoopInv, NEW c \in Call,
         \/ ModelFails(c) \/ Unparseable(c) \/ Tool(c) \/ Final(c) \/ OutOfTurns(c)
  PROVE  \E r : Becomes(c, r) /\ Left(r) < Left(call[c]) /\ r.at # "idle"
<1> DEFINE s == call[c]
<1>1. WellFormed(s) /\ s.at = "model" /\ s \in CallState
  BY DEF LoopInv, LoopTypes, WellFormed, ModelFails, Unparseable, Tool, UnknownTool, ReadLibrary,
         Fetch, ImageGen, WebSearch, Note, ManageSkill, DeleteSkill, QueryAgent, Final,
         OutOfTurns, CanReply
<1> HIDE DEF s
<1>2. ASSUME NEW at \in {"synthesize", "ended"}, NEW answer \in {"complete", "error"}
      PROVE  Left(Done(s, at, answer)) < Left(s) /\ Done(s, at, answer).at # "idle"
  BY <1>1, DoneWell, DoneFalls
<1>3. ASSUME s.turn < MaxTurns
      PROVE  Left(Turn(s)) < Left(s) /\ Turn(s).at # "idle"
  BY <1>1, <1>3, TurnWell, TurnFields, TurnFalls
<1>4. ASSUME s.turn < MaxTurns, NEW error \in BOOLEAN
      PROVE  /\ Left(Result(ToolCalled(s), error)) < Left(s)
             /\ Result(ToolCalled(s), error).at # "idle"
  <2>1. /\ WellFormed(Result(ToolCalled(s), error))
        /\ Result(ToolCalled(s), error).at = "model"
    BY <1>1, <1>4, ToolWell
  <2>2. Result(ToolCalled(s), error).turn = s.turn + 1
    BY <1>1, ToolFields, ResultFields
  <2> QED BY <1>1, <2>1, <2>2, TurnFalls
<1>5. ASSUME s.turn < MaxTurns, NEW at \in {"note", "skill", "resolve", "listed"}
      PROVE  /\ Left([ToolCalled(s) EXCEPT !.at = at]) < Left(s)
             /\ [ToolCalled(s) EXCEPT !.at = at].at # "idle"
  <2> DEFINE e == [ToolCalled(s) EXCEPT !.at = at]
  <2>1. WellFormed(e) /\ e.at = at
    BY <1>1, <1>5, EnterWell DEF Querying
  <2>2. e.turn = s.turn /\ e.answer = s.answer
    BY <1>1, ToolFields, AtFields DEF Files, Querying
  <2> HIDE DEF e
  <2>3. Left(e) < Left(s)
    BY <1>1, <2>1, <2>2, PlaceFalls
  <2> QED BY <2>1, <2>3 DEF e
<1>6. CASE ModelFails(c) \/ Unparseable(c) \/ Final(c) \/ OutOfTurns(c)
  <2>1. \/ \E at \in {"synthesize", "ended"}, answer \in {"complete", "error"} :
             Becomes(c, Done(s, at, answer))
        \/ s.turn < MaxTurns /\ Becomes(c, Turn(s))
    BY <1>6 DEF ModelFails, Unparseable, Final, OutOfTurns, CanReply, Answer, s
  <2> QED BY <1>2, <1>3, <2>1 DEF s
<1>7. CASE UnknownTool(c) \/ ReadLibrary(c) \/ Fetch(c) \/ ImageGen(c) \/ WebSearch(c)
           \/ DeleteSkill(c)
  <2>1. s.turn < MaxTurns /\ \E error \in BOOLEAN : Becomes(c, Result(ToolCalled(s), error))
    BY <1>7 DEF UnknownTool, ReadLibrary, Fetch, ImageGen, WebSearch, DeleteSkill, CanReply, s
  <2> QED BY <1>4, <2>1 DEF s
<1>8. CASE Note(c) \/ ManageSkill(c) \/ QueryAgent(c)
  <2>1. /\ s.turn < MaxTurns
        /\ \E at \in {"note", "skill", "resolve", "listed"} :
             Becomes(c, [ToolCalled(s) EXCEPT !.at = at])
    BY <1>8 DEF Note, ManageSkill, QueryAgent, Enter, CanReply, s
  <2> QED BY <1>5, <2>1 DEF s
<1> QED BY <1>6, <1>7, <1>8 DEF Tool, s

\* What an await returns to the call.
LEMMA AwaitFalls ==
  ASSUME LoopInv, NEW c \in Call,
         Waiting(c) \/ Synthesize(c) \/ Upsert(c) \/ Hang(c) \/ HangPaid(c)
  PROVE  \E r : /\ Becomes(c, r) \/ \E d \in Call : Spawn(c, r, d)
                /\ Left(r) < Left(call[c]) /\ r.at # "idle"
<1> DEFINE s == call[c]
<1>1. WellFormed(s) /\ s \in CallState
  BY DEF LoopInv, LoopTypes, WellFormed
<1> HIDE DEF s
<1>2. ASSUME s.at \in {"note", "skill"} \cup Querying, NEW error \in BOOLEAN
      PROVE  Left(Result(s, error)) < Left(s) /\ Result(s, error).at # "idle"
  <2>1. s.at # "idle"
    BY <1>2 DEF Querying
  <2>2. WellFormed(Result(s, error)) /\ Result(s, error).at = "model"
    BY <1>1, <1>2, ResultWell
  <2>3. Result(s, error).turn = s.turn + 1
    BY <1>1, ResultFields
  <2> QED BY <1>1, <1>2, <2>1, <2>2, <2>3, TurnFalls
<1>3. ASSUME NEW at,
             \/ s.at = "resolve" /\ at \in {"verify", "payEns", "listed"}
             \/ s.at = "verify" /\ at = "payEns"
             \/ s.at = "payEns" /\ at = "listed"
             \/ s.at = "listed" /\ at = "poll"
             \/ s.at = "synthesize" /\ at \in {"upsert", "ended"}
             \/ s.at = "upsert" /\ at = "ended"
      PROVE  Left([s EXCEPT !.at = at]) < Left(s) /\ [s EXCEPT !.at = at].at # "idle"
  <2> DEFINE e == [s EXCEPT !.at = at]
  <2>1. WellFormed(e) /\ e.at = at
    BY <1>1, <1>3, ProceedWell DEF Querying
  <2>2. e.turn = s.turn /\ e.answer = s.answer
    BY <1>1, <1>3, AtFields DEF Files, Querying
  <2> HIDE DEF e
  <2>3. Left(e) < Left(s)
    BY <1>1, <1>3, <2>1, <2>2, PlaceFalls
  <2> QED BY <1>3, <2>1, <2>3 DEF e
<1>4. CASE NoteWrite(c) \/ NoteFails(c) \/ SkillWrite(c) \/ Refuse(c) \/ NotPaid(c) \/ Poll(c)
  <2>1. /\ s.at \in {"note", "skill"} \cup Querying
        /\ \E error \in BOOLEAN : Becomes(c, Result(s, error))
    BY <1>4 DEF NoteWrite, NoteFails, WriteMemory, SkillWrite, Refuse, NotPaid, Poll, Return,
                Querying, s
  <2> QED BY <1>2, <2>1 DEF s
<1>5. CASE Resolve(c) \/ Verified(c) \/ EnsFails(c) \/ Synthesize(c) \/ Upsert(c)
  <2>1. \E at : /\ Becomes(c, [s EXCEPT !.at = at])
                /\ \/ s.at = "resolve" /\ at \in {"verify", "payEns", "listed"}
                   \/ s.at = "verify" /\ at = "payEns"
                   \/ s.at = "payEns" /\ at = "listed"
                   \/ s.at = "synthesize" /\ at \in {"upsert", "ended"}
                   \/ s.at = "upsert" /\ at = "ended"
    BY <1>5 DEF Resolve, Verified, EnsFails, Synthesize, Upsert, Proceed, s
  <2> QED BY <1>3, <2>1 DEF s
<1>6. CASE PayEns(c)
  <2>1. /\ s.at = "payEns" /\ s.at \in Querying
        /\ \/ SpawnHereOrThere(c, Result(s, FALSE))
           \/ SpawnHereOrThere(c, [s EXCEPT !.at = "listed"])
    BY <1>6 DEF PayEns, Querying, s
  <2> QED BY <1>2, <1>3, <2>1 DEF SpawnHereOrThere, s
<1>7. CASE PayListed(c)
  <2>1. /\ s.at = "listed" /\ s.at \in Querying
        /\ \/ \E d \in Call : Spawn(c, [s EXCEPT !.at = "poll"], d)
           \/ SpawnHereOrThere(c, Result(s, TRUE))
    BY <1>7 DEF PayListed, Querying, s
  <2> QED BY <1>2, <1>3, <2>1 DEF SpawnHereOrThere, s
<1>8. CASE Hang(c) \/ HangPaid(c)
  <2>1. /\ s.at \in {"model", "synthesize"} \cup Querying
        /\ \/ Becomes(c, [s EXCEPT !.at = "hung"])
           \/ SpawnHereOrThere(c, [s EXCEPT !.at = "hung"])
    BY <1>8 DEF Hang, HangPaid, Proceed, CanReply, Querying, s
  <2> QED BY <1>1, <2>1, HungFalls DEF SpawnHereOrThere, s
<1> QED BY <1>4, <1>5, <1>6, <1>7, <1>8 DEF Waiting

\* The step of one call runs it down, and starts others at most.
LEMMA StepFalls ==
  ASSUME LoopInv, NEW c \in Call, Step(c)
  PROVE  /\ Left(call'[c]) < Left(call[c]) /\ call'[c].at # "idle"
         /\ \A d \in Call \ {c} : call[d] = Idle \/ call'[d] = call[d]
<1>1. PICK r : /\ Becomes(c, r) \/ \E d \in Call : Spawn(c, r, d)
               /\ Left(r) < Left(call[c]) /\ r.at # "idle"
  BY ReplyFalls, AwaitFalls DEF Step, GoesOn, Ending
<1>2. DOMAIN call = Call
  BY DEF LoopInv, LoopTypes
<1>3. CASE Becomes(c, r)
  BY <1>1, <1>2, <1>3 DEF Becomes
<1>4. ASSUME NEW d \in Call, Spawn(c, r, d)
      PROVE  /\ Left(call'[c]) < Left(call[c]) /\ call'[c].at # "idle"
             /\ \A e \in Call \ {c} : call[e] = Idle \/ call'[e] = call[e]
  <2>1. call[d] = Idle /\ call' = [call EXCEPT ![c] = r, ![d] = Started(Target(c))]
    BY <1>4 DEF Spawn
  <2>2. call[c] # Idle
    <3>1. CASE ModelFails(c) \/ Unparseable(c) \/ Tool(c) \/ Ending(c)
      <4>1. call[c].at \in {"model", "synthesize", "upsert"}
        BY <3>1 DEF ModelFails, Unparseable, Tool, UnknownTool, ReadLibrary, Fetch, ImageGen,
                    WebSearch, Note, ManageSkill, DeleteSkill, QueryAgent, CanReply, Ending, Final,
                    OutOfTurns, Synthesize, Upsert
      <4> QED BY <4>1 DEF Idle
    <3>2. CASE Waiting(c)
      <4>1. call[c].at \in {"note", "skill", "resolve", "verify", "payEns", "listed", "poll"}
        BY <3>2 DEF Waiting, NoteWrite, NoteFails, WriteMemory, SkillWrite, Resolve, Verified, Refuse,
                    PayEns, EnsFails, NotPaid, PayListed, Poll
      <4> QED BY <4>1 DEF Idle
    <3>3. CASE Hang(c) \/ HangPaid(c)
      <4>1. call[c].at \in {"model", "synthesize", "payEns", "listed", "poll"}
        BY <3>3 DEF Hang, HangPaid, CanReply
      <4> QED BY <4>1 DEF Idle
    <3> QED BY <3>1, <3>2, <3>3 DEF Step, GoesOn
  <2> QED BY <1>1, <1>2, <2>1, <2>2
<1> QED BY <1>1, <1>3, <1>4

\* A task ends after a bounded number of steps of its own: turns, tools and fallbacks use up what
\* it has left, and no other call gives it more (runAgentLoop, query_agent).
THEOREM TasksRunOut == Spec => TasksRunDown
<1> DEFINE Falls == \A c \in Call : /\ Step(c) => Left(call'[c]) < Left(call[c])
                                    /\ call[c] # Idle => Left(call'[c]) \in 0 .. Left(call[c])
<1>1. LoopInv /\ LoopInv' /\ [Next]_vars => [Falls]_vars
  <2> SUFFICES ASSUME LoopInv, LoopInv', Next, NEW c \in Call
               PROVE  /\ Step(c) => Left(call'[c]) < Left(call[c])
                      /\ call[c] # Idle => Left(call'[c]) \in 0 .. Left(call[c])
    OBVIOUS
  <2>1. Step(c) => Left(call'[c]) < Left(call[c])
    BY StepFalls
  <2>2. ASSUME call[c] # Idle
        PROVE  Left(call'[c]) \in 0 .. Left(call[c])
    <3>1. WellFormed(call[c]) /\ call[c].at # "idle" /\ Left(call[c]) \in Nat
      BY <2>2, LeftIs DEF LoopInv, LoopTypes, WellFormed
    <3>2. CASE \E a \in Agent : Receive(a)
      <4>1. call'[c] = call[c]
        BY <2>2, <3>2 DEF Receive, Becomes, LoopInv, LoopTypes
      <4> QED BY <3>1, <4>1
    <3>3. ASSUME NEW d \in Call, Step(d), d # c
          PROVE  Left(call'[c]) \in 0 .. Left(call[c])
      BY <2>2, <3>1, <3>3, StepFalls
    <3>4. CASE Step(c)
      <4>1. WellFormed(call'[c]) /\ call'[c].at # "idle"
        BY <3>4, StepFalls DEF LoopInv, LoopTypes
      <4> QED BY <2>1, <3>1, <3>4, <4>1, LeftIs
    <3> QED BY <3>2, <3>3, <3>4 DEF Next
  <2> QED BY <2>1, <2>2
<1>2. LoopInv /\ [Next]_vars => LoopInv'
  BY StepLoop
<1> QED BY <1>1, <1>2, LoopInvariant, PTL DEF Spec, TasksRunDown
=============================================================================
