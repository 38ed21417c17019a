----------------------------- MODULE AgentLoop -----------------------------
(***************************************************************************)
(* The turns of a Hermes task and the calls its tools make: the model's    *)
(* replies, the bounded loop, notes and skills written to the agent's      *)
(* directory, and query_agent, which pays another agent and waits for its  *)
(* answer (apps/operator/src/runtime/hermes-loop.ts, hermes-tools.ts,      *)
(* memory-files.ts, skills.ts, store/ens-agent-resolver.ts).               *)
(*                                                                         *)
(* A call is a task of one agent. The operator's own gateway starts a call *)
(* for every payment that reaches it, so agents can call each other in     *)
(* circles.                                                                *)
(***************************************************************************)
EXTENDS Naturals, FiniteSets, Sequences

CONSTANTS Agent, Call, Nobody,
          Listed,       \* the agents of BASE_SEPOLIA_AGENTS
          EnsRecords,   \* the ENS records the agents may have
          MaxTurns,     \* MAX_TURNS
          MinTools,     \* MIN_TOOLS_FOR_SKILL
          MemoryCap,    \* MEMORY_MD_CAP, in lines
          Funds,        \* what the agents' wallets hold at first, in calls
          Outside       \* bound on the calls that come from outside

\* endpoint: agent-endpoint[x402]; agentId: in agent-context; registered: ENSIP-25.
Record == [endpoint : BOOLEAN, agentId : BOOLEAN, registered : BOOLEAN]

ASSUME LoopAssumption ==
  /\ Listed \subseteq Agent /\ Nobody \notin Agent \cup Call
  /\ EnsRecords \subseteq [Agent -> Record]
  /\ {MaxTurns, MinTools, MemoryCap} \subseteq Nat \ {0} /\ Outside \in Nat
  /\ Funds \in [Agent -> Nat]

VARIABLES ens,      \* ENS, as it is for the run
          wallet,   \* the agents' working wallets
          call,     \* the calls, by id
          query,    \* the query_agent a call is in
          memory,   \* MEMORY.md, by agent: the calls that noted something
          skill,    \* the version of the skill an agent keeps for its kind of task, 0 for none
          draft,    \* what an append or an upsert in progress has read
          charges   \* history: the charges of a call's last query

files == <<memory, skill, draft>>
money == <<ens, wallet, charges>>
vars == <<call, query, files, money>>

Idle == [agent |-> Nobody, at |-> "idle", turn |-> 0, tools |-> 0, trouble |-> "none",
         answer |-> "none"]
\* trust: history, whether the target is a ticker ("none"), a name, or a name that was verified.
NoQuery == [target |-> Nobody, peer |-> Nobody, trust |-> "none"]
\* overlapped: history, another call of the agent wrote the file, or began to, since the read.
NoDraft == [lines |-> <<>>, version |-> 0, overlapped |-> FALSE]

Query == [target : Agent \cup {Nobody}, peer : Call \cup {Nobody},
          trust : {"none", "name", "verified"}]
Charge == [route : {"ens", "listed"}, answered : BOOLEAN]

TypeOK ==
  /\ ens \in EnsRecords
  /\ \A a \in Agent : wallet[a] \in 0 .. Funds[a]
  /\ \A c \in Call :
       /\ call[c] \in [agent : Agent \cup {Nobody},
                       at : {"idle", "model", "note", "skill", "resolve", "verify", "payEns",
                             "listed", "poll", "synthesize", "upsert", "ended", "hung"},
                       turn : 0 .. MaxTurns, tools : 0 .. MaxTurns,
                       trouble : {"none", "error", "recovered"},
                       answer : {"none", "complete", "error"}]
       /\ query[c] \in Query
       /\ charges[c] \in Seq(Charge)
       /\ call[c].at = "poll" => query[c].peer # Nobody /\ call[query[c].peer].agent = query[c].target
       /\ call[c].at # "hung" =>
            (call[c].answer # "none" <=> call[c].at \in {"synthesize", "upsert", "ended"})
  /\ \A a \in Agent : Len(memory[a]) =< MemoryCap /\ skill[a] \in Nat

Init ==
  /\ ens \in EnsRecords
  /\ wallet = Funds
  /\ call = [c \in Call |-> Idle] /\ query = [c \in Call |-> NoQuery]
  /\ memory = [a \in Agent |-> <<>>] /\ skill = [a \in Agent |-> 0]
  /\ draft = [c \in Call |-> NoDraft]
  /\ charges = [c \in Call |-> <<>>]

---------------------------------------------------------------------------
\* What a tool's result summary says to sawErrorRecovery.
Seen(trouble, error) == IF error THEN (IF trouble = "recovered" THEN "recovered" ELSE "error")
                        ELSE IF trouble = "error" THEN "recovered" ELSE trouble

\* The next turn.
Turn(s) == [s EXCEPT !.at = "model", !.turn = @ + 1]
ToolCalled(s) == [s EXCEPT !.tools = @ + 1]
Result(s, error) == Turn([s EXCEPT !.trouble = Seen(@, error)])

CanReply(c) == call[c].at = "model" /\ call[c].turn < MaxTurns
Becomes(c, s) == call' = [call EXCEPT ![c] = s]
Enter(c, at) == Becomes(c, [ToolCalled(call[c]) EXCEPT !.at = at])

\* The gateway starts a call of an agent.
Started(a) == [Idle EXCEPT !.agent = a, !.at = "model"]

\* A call that somebody outside has paid for.
Receive(a) ==
  /\ Cardinality({c \in Call : call[c] # Idle}) < Outside
  /\ \E c \in Call : call[c] = Idle /\ Becomes(c, Started(a))
  /\ UNCHANGED <<query, files, money>>

\* The end of the loop, whose locals are gone.
Done(s, at, answer) == [Started(s.agent) EXCEPT !.at = at, !.answer = answer]

\* The backend throws: the task fails.
ModelFails(c) ==
  /\ CanReply(c)
  /\ Becomes(c, Done(call[c], "ended", "error"))
  /\ UNCHANGED <<query, files, money>>

Unparseable(c) ==
  /\ CanReply(c)
  /\ Becomes(c, Turn(call[c]))
  /\ UNCHANGED <<query, files, money>>

\* A tool that is not in the registry is counted before it is refused.
UnknownTool(c) ==
  /\ CanReply(c)
  /\ Becomes(c, Result(ToolCalled(call[c]), TRUE))
  /\ UNCHANGED <<query, files, money>>

\* parse_ast, pattern_search, recall, skills_list, skill_view: what the agent has is read; a miss
\* reads as an error.
ReadLibrary(c) ==
  /\ CanReply(c)
  /\ \E error \in BOOLEAN : Becomes(c, Result(ToolCalled(call[c]), error))
  /\ UNCHANGED <<query, files, money>>

\* fetch_url, credentialed_fetch, onchain_read: refused arguments are no error, failed requests are.
Fetch(c) ==
  /\ CanReply(c)
  /\ \E error \in BOOLEAN : Becomes(c, Result(ToolCalled(call[c]), error))
  /\ UNCHANGED <<query, files, money>>

\* image_gen: the pinning may fail, which is not an error.
ImageGen(c) ==
  /\ CanReply(c)
  /\ Becomes(c, Result(ToolCalled(call[c]), FALSE))
  /\ UNCHANGED <<query, files, money>>

Spend(a) == wallet[a] > 0 /\ wallet' = [wallet EXCEPT ![a] = @ - 1]

\* web_search pays for itself; a failed search may have been charged.
WebSearch(c) ==
  /\ CanReply(c)
  /\ \E error \in BOOLEAN :
       /\ Becomes(c, Result(ToolCalled(call[c]), error))
       /\ Spend(call[c].agent) \/ (error /\ UNCHANGED wallet)
  /\ UNCHANGED <<query, files, ens, charges>>

---------------------------------------------------------------------------
\* The calls of an agent that have read a file and will write it.
Writing(a, at) == {c \in Call : call[c].agent = a /\ call[c].at \in at}
Overlapped(cs) == [c \in Call |-> IF c \in cs THEN [draft[c] EXCEPT !.overlapped = TRUE] ELSE draft[c]]

\* appendMemoryLine reads MEMORY.md; under a write of another call it may find it empty.
Note(c) ==
  LET a == call[c].agent
      others == Writing(a, {"note"})
  IN /\ CanReply(c)
     /\ Enter(c, "note")
     /\ \E lines \in {memory[a]} \cup {<<>> : d \in others} :
          draft' = [Overlapped(others) EXCEPT ![c] =
                      [NoDraft EXCEPT !.lines = lines, !.overlapped = others # {}]]
     /\ UNCHANGED <<query, memory, skill, money>>

\* The newest lines that fit.
Newest(lines) == SubSeq(lines, 1 + (IF Len(lines) > MemoryCap THEN Len(lines) - MemoryCap ELSE 0), Len(lines))

WriteMemory(c, lines) ==
  /\ call[c].at = "note"
  /\ memory' = [memory EXCEPT ![call[c].agent] = lines]
  /\ draft' = [draft EXCEPT ![c] = NoDraft]
  /\ Becomes(c, Result(call[c], FALSE))
  /\ UNCHANGED <<query, skill, money>>

\* A plausible slip: a full file keeps its oldest lines.
NoteWriteOldest(c) ==
  WriteMemory(c, IF Len(draft[c].lines) < MemoryCap THEN Append(draft[c].lines, c) ELSE draft[c].lines)

NoteWrite(c) == WriteMemory(c, Newest(Append(draft[c].lines, c)))

\* The append fails, and the tool says that it noted: the file is as it was, or empty.
NoteFails(c) ==
  /\ call[c].at = "note"
  /\ \E lines \in {memory[call[c].agent], <<>>} : WriteMemory(c, lines)

SkillWriters(a) == Writing(a, {"skill", "upsert"})

\* upsertSkill reads the version there is; a file that is just being written counts as version 1.
ReadVersion(c) ==
  LET a == call[c].agent
      others == SkillWriters(a)
  IN \E version \in {skill[a]} \cup {1 : d \in others} :
       draft' = [Overlapped(others) EXCEPT ![c] =
                   [NoDraft EXCEPT !.version = version, !.overlapped = others # {}]]

WriteSkill(c, version) ==
  /\ skill' = [skill EXCEPT ![call[c].agent] = version]
  /\ draft' = [draft EXCEPT ![c] = NoDraft]

\* skill_manage, create or edit.
ManageSkill(c) ==
  /\ CanReply(c)
  /\ Enter(c, "skill")
  /\ ReadVersion(c)
  /\ UNCHANGED <<query, memory, skill, money>>

SkillWrite(c) ==
  /\ call[c].at = "skill"
  /\ WriteSkill(c, draft[c].version + 1)
  /\ Becomes(c, Result(call[c], FALSE))
  /\ UNCHANGED <<query, memory, money>>

\* skill_manage, delete: a delete that finds nothing reads as a miss.
DeleteSkill(c) ==
  LET a == call[c].agent
  IN /\ CanReply(c)
     /\ skill' = [skill EXCEPT ![a] = 0]
     /\ draft' = Overlapped(SkillWriters(a))
     /\ Becomes(c, Result(ToolCalled(call[c]), skill[a] = 0))
     /\ UNCHANGED <<query, memory, money>>

---------------------------------------------------------------------------
\* query_agent, by an ENS name or a ticker.
QueryAgent(c) ==
  /\ CanReply(c)
  /\ \E target \in Agent, at \in {"resolve", "listed"} :
       /\ Enter(c, at)
       /\ query' = [query EXCEPT ![c] =
                     [NoQuery EXCEPT !.target = target,
                                     !.trust = IF at = "resolve" THEN "name" ELSE "none"]]
  /\ charges' = [charges EXCEPT ![c] = <<>>]
  /\ UNCHANGED <<files, ens, wallet>>

Target(c) == query[c].target
Proceed(c, at) == Becomes(c, [call[c] EXCEPT !.at = at])
Return(c, error) ==
  /\ Becomes(c, Result(call[c], error))
  /\ query' = [query EXCEPT ![c] = NoQuery]

\* resolveAgent: each record is read on its own, and a read that fails counts as no record.
Resolve(c) ==
  /\ call[c].at = "resolve"
  /\ \E endpoint, agentId \in BOOLEAN :
       /\ endpoint => ens[Target(c)].endpoint
       /\ agentId => ens[Target(c)].agentId
       /\ Proceed(c, IF ~endpoint THEN "listed" ELSE IF agentId THEN "verify" ELSE "payEns")
  /\ UNCHANGED <<query, files, money>>

Verified(c) ==
  /\ call[c].at = "verify" /\ ens[Target(c)].registered
  /\ Proceed(c, "payEns")
  /\ query' = [query EXCEPT ![c].trust = "verified"]
  /\ UNCHANGED <<files, money>>

\* ENSIP-25 fails, a record that cannot be read included: nothing is paid.
Refuse(c) ==
  /\ call[c].at = "verify"
  /\ Return(c, TRUE)
  /\ UNCHANGED <<files, money>>

\* The wallet of the call's agent is charged.
Pay(c, route, answered) ==
  /\ Spend(call[c].agent)
  /\ charges' = [charges EXCEPT ![c] = Append(@, [route |-> route, answered |-> answered])]
  /\ UNCHANGED ens

\* c continues as s, and the gateway starts the call d that c paid for.
Spawn(c, s, d) == call[d] = Idle /\ call' = [call EXCEPT ![c] = s, ![d] = Started(Target(c))]

\* A published endpoint may be this operator's gateway or another one.
SpawnHereOrThere(c, s) == Becomes(c, s) \/ \E d \in Call : Spawn(c, s, d)

\* A plausible slip: an answer without an output, which is what an asynchronous gateway gives,
\* counts as a failure of the endpoint.
PayEnsAndFallBack(c) ==
  /\ call[c].at = "payEns"
  /\ \E answered \in BOOLEAN : Pay(c, "ens", answered)
  /\ SpawnHereOrThere(c, [call[c] EXCEPT !.at = "listed"])
  /\ UNCHANGED <<query, files>>

\* The published endpoint answers, with a call id it is not polled for, or its answer is lost and
\* the static route is tried next.
PayEns(c) ==
  /\ call[c].at = "payEns"
  /\ \/ /\ Pay(c, "ens", TRUE)
        /\ SpawnHereOrThere(c, Result(call[c], FALSE))
        /\ query' = [query EXCEPT ![c] = NoQuery]
     \/ /\ Pay(c, "ens", FALSE)
        /\ SpawnHereOrThere(c, [call[c] EXCEPT !.at = "listed"])
        /\ UNCHANGED query
  /\ UNCHANGED files

\* A plausible slip: a published endpoint that refuses is looked up once more.
EnsFailsAndRetry(c) ==
  /\ call[c].at = "payEns"
  /\ Proceed(c, "resolve")
  /\ UNCHANGED <<query, files, money>>

\* The published endpoint refuses or is not there.
EnsFails(c) ==
  /\ call[c].at = "payEns"
  /\ Proceed(c, "listed")
  /\ UNCHANGED <<query, files, money>>

\* The static map: a stranger is unknown; the agent itself is rejected, a peer may refuse for
\* lack of funds, neither of which reads as an error; or the peer cannot be reached.
NotPaid(c) ==
  /\ call[c].at = "listed"
  /\ \E error \in BOOLEAN :
       /\ error \/ Target(c) \in Listed
       /\ Return(c, error)
  /\ UNCHANGED <<files, money>>

\* The peer is paid and answers with a call id; or its answer is lost, and the call may not have
\* been started.
PayListed(c) ==
  /\ call[c].at = "listed" /\ Target(c) \in Listed \ {call[c].agent}
  /\ \/ \E d \in Call :
          /\ Pay(c, "listed", TRUE)
          /\ Spawn(c, [call[c] EXCEPT !.at = "poll"], d)
          /\ query' = [query EXCEPT ![c].peer = d]
     \/ /\ Pay(c, "listed", FALSE)
        /\ SpawnHereOrThere(c, Result(call[c], TRUE))
        /\ query' = [query EXCEPT ![c] = NoQuery]
  /\ UNCHANGED files

\* A plausible slip: only a complete answer ends the polling.
PollUntilComplete(c) ==
  /\ call[c].at = "poll"
  /\ call[query[c].peer].at = "ended"
  /\ call[query[c].peer].answer = "complete"
  /\ Return(c, FALSE)
  /\ UNCHANGED <<files, money>>

\* The peer's call has ended, or the deadline passes or the gateway does not know the call.
Poll(c) ==
  /\ call[c].at = "poll"
  /\ \/ call[query[c].peer].at = "ended" /\ Return(c, call[query[c].peer].answer = "error")
     \/ Return(c, FALSE)
  /\ UNCHANGED <<files, money>>

\* Neither the model's backend nor payFetch nor a poll sets a deadline: the answer never comes.
Hang(c) ==
  /\ CanReply(c) \/ call[c].at \in {"payEns", "listed", "poll", "synthesize"}
  /\ Proceed(c, "hung")
  /\ UNCHANGED <<query, files, money>>

\* Nor does that of an endpoint that has been paid: a search, a published one, a peer.
HangPaid(c) ==
  /\ \/ /\ CanReply(c) /\ Proceed(c, "hung")
        /\ Spend(call[c].agent) /\ UNCHANGED <<ens, charges>>
     \/ /\ call[c].at = "payEns" /\ Pay(c, "ens", FALSE)
        /\ SpawnHereOrThere(c, [call[c] EXCEPT !.at = "hung"])
     \/ /\ call[c].at = "listed" /\ Target(c) \in Listed \ {call[c].agent}
        /\ Pay(c, "listed", FALSE)
        /\ SpawnHereOrThere(c, [call[c] EXCEPT !.at = "hung"])
  /\ UNCHANGED <<query, files>>

---------------------------------------------------------------------------
\* A task that took many tools, or recovered from an error, is worth a skill.
Worthy(s) == s.tools >= MinTools \/ s.trouble = "recovered"
Answer(s) == Done(s, IF Worthy(s) THEN "synthesize" ELSE "ended", "complete")

\* A final answer before any tool call is refused.
Final(c) ==
  /\ CanReply(c)
  /\ Becomes(c, IF call[c].tools = 0 THEN Turn(call[c]) ELSE Answer(call[c]))
  /\ UNCHANGED <<query, files, money>>

OutOfTurns(c) ==
  /\ call[c].at = "model" /\ call[c].turn = MaxTurns
  /\ Becomes(c, Answer(call[c]))
  /\ UNCHANGED <<query, files, money>>

\* The skill is asked for and its version read; without one the task ends all the same.
Synthesize(c) ==
  /\ call[c].at = "synthesize"
  /\ \/ /\ Proceed(c, "upsert")
        /\ ReadVersion(c)
     \/ /\ Proceed(c, "ended")
        /\ UNCHANGED draft
  /\ UNCHANGED <<query, memory, skill, money>>

\* A plausible slip: a skill that exists is written as version 1 again.
UpsertAnew(c) ==
  /\ call[c].at = "upsert"
  /\ WriteSkill(c, 1)
  /\ Proceed(c, "ended")
  /\ UNCHANGED <<query, memory, money>>

Upsert(c) ==
  /\ call[c].at = "upsert"
  /\ WriteSkill(c, draft[c].version + 1)
  /\ Proceed(c, "ended")
  /\ UNCHANGED <<query, memory, money>>

Tool(c) == \/ UnknownTool(c) \/ ReadLibrary(c) \/ Fetch(c) \/ ImageGen(c) \/ WebSearch(c)
           \/ Note(c) \/ ManageSkill(c) \/ DeleteSkill(c) \/ QueryAgent(c)
Waiting(c) == \/ NoteWrite(c) \/ NoteFails(c) \/ SkillWrite(c) \/ Resolve(c) \/ Verified(c) \/ Refuse(c)
              \/ PayEns(c) \/ EnsFails(c) \/ NotPaid(c) \/ PayListed(c) \/ Poll(c)
Ending(c) == Final(c) \/ OutOfTurns(c) \/ Synthesize(c) \/ Upsert(c)
GoesOn(c) == ModelFails(c) \/ Unparseable(c) \/ Tool(c) \/ Waiting(c) \/ Ending(c)
Step(c) == GoesOn(c) \/ Hang(c) \/ HangPaid(c)

Next == (\E a \in Agent : Receive(a)) \/ (\E c \in Call : Step(c))

Spec == Init /\ [][Next]_vars

---------------------------------------------------------------------------
(* "run ENSIP-25 verification BEFORE paying ... we never pay an unverified agent": no published *)
(* endpoint is paid for a name that did not pass. query_agent skips the check where it reads no *)
(* agentId. (That it falls back to the static map without a check is what the comment says.)    *)
UnverifiedIsNotPaid ==
  \A c \in Call : query[c].trust = "name" =>
    \A i \in 1 .. Len(charges[c]) : charges[c][i].route # "ens"

(* One query is charged once; a second time only by the static route after the answer of the  *)
(* published endpoint was lost (query_agent's fallback).                                      *)
SecondChargeFollowsLoss ==
  \A c \in Call : \A i \in 1 .. Len(charges[c]) - 1 :
    i = 1 /\ charges[c][i] = [route |-> "ens", answered |-> FALSE]

(* A note becomes the newest line of MEMORY.md and all the lines that were there stay, as many *)
(* as fit, unless two calls of the agent wrote at once (appendMemoryLine).                    *)
NotesAreKept ==
  [][\A c \in Call : NoteWrite(c) /\ ~draft[c].overlapped =>
       \E n \in 0 .. Len(memory[call[c].agent]) :
         LET kept == SubSeq(memory[call[c].agent], 1 + n, Len(memory[call[c].agent]))
         IN /\ memory'[call[c].agent] = Append(kept, c)
            /\ n > 0 => Len(kept) + 1 = MemoryCap]_vars

(* The version of a skill goes up by one with each write, of skill_manage or the synthesis    *)
(* after a task, unless two of them overlapped (upsertSkill).                                 *)
VersionsCountWrites ==
  [][\A c \in Call : (SkillWrite(c) \/ Upsert(c)) /\ ~draft[c].overlapped =>
       skill'[call[c].agent] = skill[call[c].agent] + 1]_vars

\* A bound on the steps a call may still take: the awaits of a tool, the turns, the synthesis.
OfTurn == [model |-> 5, resolve |-> 4, verify |-> 3, payEns |-> 2, listed |-> 1, note |-> 1,
           skill |-> 1, poll |-> 0]
OfEnd == [synthesize |-> 2, upsert |-> 1, ended |-> 0, hung |-> 0]
Left(s) == IF s.at \in DOMAIN OfEnd THEN OfEnd[s.at] ELSE 3 + 6 * (MaxTurns - s.turn) + OfTurn[s.at]

(* Every step of a call uses up some of what it has left, whatever the model replies, the tools *)
(* return and the fallbacks of query_agent try, and nothing that its peers or other calls do    *)
(* gives it more: a task ends after a bounded number of steps (MAX_TURNS).                      *)
TasksRunDown ==
  [][\A c \in Call : /\ Step(c) => Left(call'[c]) < Left(call[c])
                     /\ call[c] # Idle => Left(call'[c]) \in 0 .. Left(call[c])]_vars

(* No call waits for ever, also when agents call each other in circles: wherever it is, it can *)
(* go on by itself, whatever its peers do (the deadline of query_agent), unless an answer that  *)
(* has no deadline never comes.                                                                *)
NobodyIsStuck == \A c \in Call : call[c].at \notin {"idle", "ended", "hung"} => ENABLED GoesOn(c)

===========================================================================
