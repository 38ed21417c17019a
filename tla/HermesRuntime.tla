--------------------------- MODULE HermesRuntime ---------------------------
(***************************************************************************)
(* The state of one Hermes agent on an operator: its directory, the        *)
(* snapshots it is packed into, the ENS record that names the latest one,  *)
(* and the operator's process memory, lost whenever the process stops      *)
(* (apps/operator/src/runtime/hermes.ts, index.ts, storage/snapshot.ts,    *)
(* store/receipt-export.ts).                                               *)
(*                                                                         *)
(* A task is one paid call: forToken, load, runTask, recordReceipt, and    *)
(* the snapshot chain that runTask leaves behind. What a task teaches the  *)
(* agent is a set of entries in the directory.                             *)
(***************************************************************************)
EXTENDS Naturals, FiniteSets

CONSTANTS Task, NoTask, NoBlob,
          First,       \* a task that was called before the operator was last stopped
          MaxStops,    \* bound on crashes and shutdowns
          MaxFaults    \* bound on failed tasks, restores, uploads and ENS writes

ASSUME HermesAssumption == /\ NoTask \notin Task /\ First \in Task
                           /\ {MaxStops, MaxFaults} \subseteq Nat

VARIABLES launched,       \* whether the agent is in the dynamic registry, or a seed agent
          disk,           \* AGENTS_DATA_DIR/<tokenId>
          receipts,       \* receipts.db, by the task that recorded the receipt
          pointer,        \* the ENS record agent-snapshot
          up,             \* the operator process
          pc,             \* where the call of a task is
          snap,           \* where the snapshot chain of a task is
          agent,          \* the AgentState made by a task's load
          shared,         \* whose AgentState the cached runtime of a seed agent holds
          uses,           \* whose AgentState a task runs on
          hashed,         \* the directory's content by a task's bundleHashBefore, then After
          blob,           \* the snapshot a task fetched, or packs
          flush,          \* the pointer that a shutdown is writing
          sent,           \* pointers sent to ENS whose writers no longer wait for them
          pendingPointer, \* _pendingPointers
          lastPublished,  \* _lastPublishedHash
          stops, faults,
          packs,          \* history: the number of receipt exports
          mishaps         \* history: the races and faults that have happened

memory == <<agent, shared, pendingPointer, lastPublished>>
chain == <<snap, hashed, blob, packs>>
vars == <<launched, disk, receipts, pointer, up, pc, uses, flush, sent, stops, faults, mishaps,
          memory, chain>>

\* A task leaves rows in memory.db and rewrites a skill of the seed.
Entry == Task \X {"rows", "seedSkill"}
Lessons(t) == {t} \X {"rows", "seedSkill"}
SeedSkills(brain) == {e \in brain : e[2] = "seedSkill"}

\* The lock is torn from the opening of a write to its end, mixed while several writes overlap.
\* db: whether memory.db can be opened.
Content == [brain : SUBSET Entry, tape : SUBSET Task,
            lock : {"none", "whole", "torn", "mixed"}, db : BOOLEAN]
Disk == [here : BOOLEAN, content : Content]
\* seq and answered: history, the order of the exports and the tasks that had their receipts then.
Blob == [content : Content, seq : Nat, answered : SUBSET Task]
\* stale: its database file has been replaced under it.
AgentState == [hash : SUBSET Entry, stale : BOOLEAN]
NoAgent == [hash |-> {}, stale |-> FALSE]
Empty == [brain |-> {}, tape |-> {}, lock |-> "none", db |-> TRUE]

ASSUME BlobAssumption == NoBlob \notin Blob

Mishap == {"restoreFailed", "restoreRace", "lateWrite", "overtaken", "erased", "lost", "clash",
           "halfPacked", "caughtLater", "untaped", "receiptsLost", "unrestored"}

TypeOK ==
  /\ launched \in BOOLEAN /\ disk \in Disk /\ receipts \subseteq Task
  /\ pointer \in Blob \cup {NoBlob}
  /\ up \in {"up", "flushing", "down"}
  /\ pc \in [Task -> {"idle", "restore", "untar", "prepare", "open", "lock", "run", "hash", "save",
                      "saveChanged", "reply", "done", "failed", "killed"}]
  /\ snap \in [Task -> {"none", "export", "tar", "upload", "relock", "send", "done", "lost"}]
  /\ agent \in [Task -> AgentState]
  /\ shared \in Task \cup {NoTask}
  /\ uses \in [Task -> Task \cup {NoTask}]
  /\ hashed \in [Task -> SUBSET Entry]
  /\ blob \in [Task -> Blob \cup {NoBlob}]
  /\ {flush, pendingPointer} \subseteq Blob \cup {NoBlob} /\ sent \subseteq Blob
  /\ lastPublished \subseteq Entry
  /\ stops \in 0 .. MaxStops /\ faults \in 0 .. MaxFaults /\ packs \in Nat
  /\ mishaps \subseteq Mishap
  /\ \A t \in Task : pc[t] = "untar" \/ snap[t] \in {"tar", "upload", "relock", "send"}
                       => blob[t] # NoBlob

\* The operator is stopped. An earlier task failed at once, or was answered and its snapshot
\* published, before its own receipt was recorded.
Init ==
  LET brain(answered) == IF answered THEN Lessons(First) ELSE {}
      content(answered) == [brain |-> brain(answered), tape |-> {}, lock |-> "whole", db |-> TRUE]
  IN /\ launched \in BOOLEAN
     /\ \E answered \in BOOLEAN :
          /\ disk = [here |-> TRUE, content |-> content(answered)]
          /\ receipts = IF answered THEN {First} ELSE {}
          /\ pointer = IF answered THEN [content |-> content(answered), seq |-> 1, answered |-> {}]
                                   ELSE NoBlob
          /\ pc = [t \in Task |-> IF t # First THEN "idle" ELSE IF answered THEN "done" ELSE "failed"]
          /\ snap = [t \in Task |-> IF t = First /\ answered THEN "done" ELSE "none"]
          /\ packs = IF answered THEN 1 ELSE 0
     /\ up = "down"
     /\ agent = [t \in Task |-> NoAgent] /\ shared = NoTask
     /\ uses = [t \in Task |-> NoTask] /\ hashed = [t \in Task |-> {}]
     /\ blob = [t \in Task |-> NoBlob] /\ flush = NoBlob /\ sent = {}
     /\ pendingPointer = NoBlob /\ lastPublished = {}
     /\ stops = 0 /\ faults = 0 /\ mishaps = {}

---------------------------------------------------------------------------
Goto(t, where) == pc' = [pc EXCEPT ![t] = where]
Chain(t, where) == snap' = [snap EXCEPT ![t] = where]
Fault == faults < MaxFaults /\ faults' = faults + 1
Happened(m) == mishaps' = mishaps \cup m
Brain == disk.content.brain
Running(t) == pc[t] \in {"run", "hash", "save", "saveChanged"}

\* An AgentState that some task has not released.
Live(o) == pc[o] = "lock" \/ \E t \in Task : uses[t] = o

\* load has returned: runTask takes the AgentState that it will use to its end.
Run(t, o) == Goto(t, "run") /\ uses' = [uses EXCEPT ![t] = o]

\* The tasks that are writing bundle.lock.json, and the lock when one more begins to.
Writers == {u \in Task : pc[u] \in {"lock", "save", "saveChanged"} \/ snap[u] = "relock"}
Opened == IF Writers = {} THEN "torn" ELSE "mixed"
Clash(t) == IF Writers \ {t} = {} THEN {} ELSE {"clash"}
\* The lock when t has written it: writes that overlapped may have left a mixture.
Closed(t) == CASE disk.content.lock # "mixed" -> {"whole"}
               [] disk.content.lock = "mixed" /\ Writers = {t} -> {"whole", "torn"}
               [] OTHER -> {"mixed"}
WriteLock(lock) == disk' = [disk EXCEPT !.content.lock = lock]

\* forToken and the beginning of load. For a launched agent the router writes system.md first, so
\* the directory is always there; a seed agent's runtime is cached and may be loaded already.
Begin(t) ==
  /\ up # "down" /\ pc[t] = "idle"
  /\ \/ /\ launched
        /\ disk' = [disk EXCEPT !.here = TRUE]
        /\ Goto(t, "prepare") /\ UNCHANGED uses
     \/ /\ ~launched /\ shared = NoTask
        /\ Goto(t, IF disk.here THEN "prepare" ELSE "restore")
        /\ UNCHANGED <<disk, uses>>
     \/ /\ ~launched /\ shared # NoTask
        /\ Run(t, shared)
        /\ UNCHANGED disk
  /\ UNCHANGED <<launched, receipts, pointer, up, flush, sent, stops, faults, mishaps, memory, chain>>

\* A plausible slip: the directory is made before it is looked for.
ReadNoPointer(t) ==
  /\ pc[t] = "restore"
  /\ disk' = [disk EXCEPT !.here = TRUE]
  /\ Goto(t, "prepare")
  /\ UNCHANGED <<launched, receipts, pointer, up, uses, flush, sent, stops, faults, mishaps,
                 memory, chain>>

\* The ENS record is read, the blob fetched and decrypted, the directory made.
ReadPointer(t) ==
  /\ pc[t] = "restore"
  /\ \/ /\ pointer = NoBlob
        /\ Goto(t, "prepare")
        /\ UNCHANGED <<disk, blob>>
     \/ /\ pointer # NoBlob
        /\ blob' = [blob EXCEPT ![t] = pointer]
        /\ disk' = [disk EXCEPT !.here = TRUE]
        /\ Goto(t, "untar")
  /\ UNCHANGED <<launched, receipts, pointer, up, uses, flush, sent, stops, faults, mishaps, memory,
                 snap, hashed, packs>>

\* untarDir replaces the files, memory.db under an open handle too, and the receipts are re-ingested.
UntarKeeping(t, tape) ==
  /\ pc[t] = "untar"
  /\ disk' = [here |-> TRUE, content |-> blob[t].content]
  /\ receipts' = receipts \cup tape
  /\ agent' = [o \in Task |-> IF agent[o] = NoAgent THEN NoAgent ELSE [agent[o] EXCEPT !.stale = TRUE]]
  /\ Happened(IF disk.content = Empty THEN {} ELSE {"restoreRace"})
  /\ Goto(t, "prepare")
  /\ blob' = [blob EXCEPT ![t] = NoBlob]
  /\ UNCHANGED <<launched, pointer, up, uses, flush, sent, stops, faults, shared, pendingPointer,
                 lastPublished, snap, hashed, packs>>

\* A plausible slip: the receipts of the snapshot are not read back.
UntarWithoutReceipts(t) == UntarKeeping(t, {})

Untar(t) == UntarKeeping(t, blob[t].content.tape)

\* Any failure of the restore falls back to the seed.
RestoreFails(t) ==
  /\ pc[t] \in {"restore", "untar"}
  /\ Fault /\ Happened({"restoreFailed"})
  /\ Goto(t, "prepare")
  /\ blob' = [blob EXCEPT ![t] = NoBlob]
  /\ UNCHANGED <<launched, disk, receipts, pointer, up, uses, flush, sent, stops, memory,
                 snap, hashed, packs>>

\* The seed is copied over the directory.
Prepare(t) ==
  LET brain == IF launched THEN Brain ELSE Brain \ SeedSkills(Brain)
  IN /\ pc[t] = "prepare"
     /\ disk' = [here |-> TRUE, content |-> [disk.content EXCEPT !.brain = brain]]
     /\ Goto(t, "open")
     /\ UNCHANGED <<launched, receipts, pointer, up, uses, flush, sent, stops, faults, mishaps,
                    memory, chain>>

\* The database is opened, the directory hashed, the lock parsed or made, and its write begun.
Open(t) ==
  /\ pc[t] = "open"
  /\ disk.content.db /\ (disk.content.lock \in {"none", "whole"} \/ Writers # {})
  /\ agent' = [o \in Task |-> IF o = t THEN [hash |-> Brain, stale |-> FALSE]
                             ELSE IF Live(o) THEN agent[o] ELSE NoAgent]
  /\ WriteLock(Opened)
  /\ Happened(Clash(t) \cup (IF \E o \in Task : pc[o] = "untar" THEN {"restoreRace"} ELSE {}))
  /\ Goto(t, "lock")
  /\ UNCHANGED <<launched, receipts, pointer, up, uses, flush, sent, stops, faults, shared,
                 pendingPointer, lastPublished, chain>>

\* The database cannot be opened, or JSON.parse throws on a lock half written: no task is run.
LoadFails(t) ==
  /\ pc[t] = "open"
  /\ ~disk.content.db \/ disk.content.lock \in {"torn", "mixed"}
  /\ Goto(t, "failed")
  /\ UNCHANGED <<launched, disk, receipts, pointer, up, uses, flush, sent, stops, faults, mishaps,
                 memory, chain>>

\* The lock is written and the AgentState kept, by a seed agent's runtime for its next calls too.
Loaded(t) ==
  /\ pc[t] = "lock"
  /\ \E lock \in Closed(t) : WriteLock(lock)
  /\ shared' = IF launched THEN shared ELSE t
  /\ Run(t, t)
  /\ UNCHANGED <<launched, receipts, pointer, up, flush, sent, stops, faults, mishaps, agent,
                 pendingPointer, lastPublished, chain>>

\* Rows written through a database handle whose file was replaced are lost; skills are files.
Learn(o, entries) ==
  disk' = [disk EXCEPT !.content.brain =
             @ \cup (IF agent[o].stale THEN SeedSkills(entries) ELSE entries)]

\* What the loop writes: messages, facts and its log, and a skill, a file of its own. The last row
\* is inserted in the turn in which the loop returns and bundleHashBefore is read from the
\* AgentState; then the hashing of the directory is awaited.
Work(t) ==
  /\ pc[t] = "run"
  /\ Learn(uses[t], Lessons(t))
  /\ hashed' = [hashed EXCEPT ![t] = agent[uses[t]].hash]
  /\ Goto(t, "hash")
  /\ UNCHANGED <<launched, receipts, pointer, up, uses, flush, sent, stops, faults, mishaps,
                 memory, snap, blob, packs>>

\* The backend throws, before or after the loop wrote something: nothing is hashed.
Fail(t) ==
  /\ pc[t] = "run"
  /\ Fault
  /\ \E entries \in {{}, Lessons(t)} : Learn(uses[t], entries)
  /\ Goto(t, "failed")
  /\ uses' = [uses EXCEPT ![t] = NoTask]
  /\ UNCHANGED <<launched, receipts, pointer, up, flush, sent, stops, mishaps, memory, chain>>

\* A plausible slip: the write of the lock is not awaited before the snapshot chain starts.
CompareUnawaited(t) ==
  /\ pc[t] = "hash"
  /\ agent' = [agent EXCEPT ![uses[t]].hash = Brain]
  /\ hashed' = [hashed EXCEPT ![t] = Brain]
  /\ WriteLock(Opened)
  /\ Happened(Clash(t))
  /\ Goto(t, "saveChanged") /\ Chain(t, "export")
  /\ uses' = [uses EXCEPT ![t] = NoTask]
  /\ UNCHANGED <<launched, receipts, pointer, up, flush, sent, stops, faults, shared,
                 pendingPointer, lastPublished, blob, packs>>

\* The two hashes are compared, the AgentState updated, and the write of the lock begun.
Compare(t) ==
  LET changed == hashed[t] # Brain
  IN /\ pc[t] = "hash"
     /\ agent' = [agent EXCEPT ![uses[t]].hash = Brain]
     /\ hashed' = [hashed EXCEPT ![t] = IF changed THEN Brain ELSE {}]
     /\ WriteLock(Opened)
     /\ Happened(Clash(t))
     /\ Goto(t, IF changed THEN "saveChanged" ELSE "save")
     /\ uses' = [uses EXCEPT ![t] = NoTask]
     /\ UNCHANGED <<launched, receipts, pointer, up, flush, sent, stops, faults, shared,
                    pendingPointer, lastPublished, snap, blob, packs>>

\* The lock is written; a change starts the snapshot chain.
Finish(t) ==
  /\ pc[t] \in {"save", "saveChanged"}
  /\ \E lock \in Closed(t) : WriteLock(lock)
  /\ Chain(t, IF pc[t] = "saveChanged" THEN "export" ELSE "done")
  /\ Goto(t, "reply")
  /\ UNCHANGED <<launched, receipts, pointer, up, uses, flush, sent, stops, faults, mishaps, memory,
                 hashed, blob, packs>>

\* The gateway records the receipt once runTask has returned.
Reply(t) ==
  /\ pc[t] = "reply"
  /\ receipts' = receipts \cup {t}
  /\ Goto(t, "done")
  /\ UNCHANGED <<launched, disk, pointer, up, uses, flush, sent, stops, faults, mishaps, memory, chain>>

---------------------------------------------------------------------------
\* The chain of t holds nothing any longer.
Release(t) ==
  /\ hashed' = [hashed EXCEPT ![t] = {}]
  /\ blob' = [blob EXCEPT ![t] = NoBlob]

\* receipts.ndjson is written, and tar starts on the directory.
ExportTape(t, tape) ==
  LET content == [disk.content EXCEPT !.tape = tape]
  IN /\ snap[t] = "export"
     /\ disk' = [disk EXCEPT !.content = content]
     /\ blob' = [blob EXCEPT ![t] = [content |-> content, seq |-> packs + 1,
                                     answered |-> {u \in Task : pc[u] = "done"}]]
     /\ packs' = packs + 1
     /\ Chain(t, "tar")
     /\ UNCHANGED <<launched, receipts, pointer, up, pc, uses, flush, sent, stops, memory, hashed>>

\* A plausible slip: the receipts exported are those of the snapshot before.
ExportNothing(t) == ExportTape(t, disk.content.tape) /\ UNCHANGED <<faults, mishaps>>

Export(t) == ExportTape(t, receipts) /\ UNCHANGED <<faults, mishaps>>
\* A failed export is not fatal.
ExportFails(t) == ExportTape(t, disk.content.tape) /\ Fault /\ Happened({"untaped"})

\* What tar may have read of a file that was from when it started and is now to.
Caught(from, to) == {x \in SUBSET (from \cup to) : from \cap to \subseteq x}

\* tar ends. It read the files one after another while other tasks wrote: their entries, the
\* receipts that another chain rewrites, a lock or a database in the middle of a write.
Tar(t) ==
  LET start == blob[t].content
      now == disk.content
      writing == \E u \in Task : pc[u] = "run"
      lock == IF now.lock = "whole" THEN "whole" ELSE "torn"
  IN /\ snap[t] = "tar"
     /\ \E brain \in Caught(start.brain, now.brain),
           tape \in IF now.tape = start.tape THEN {start.tape} ELSE SUBSET (start.tape \cup now.tape),
           db \in {now.db} \cup (IF writing THEN {FALSE} ELSE {}) :
          /\ blob' = [blob EXCEPT ![t].content = [brain |-> brain, tape |-> tape,
                                                  lock |-> lock, db |-> db]]
          /\ Happened((IF brain # start.brain THEN {"caughtLater"} ELSE {})
                      \cup (IF start.tape \subseteq tape THEN {} ELSE {"untaped"})
                      \cup (IF db = now.db /\ (lock = "whole" \/ Writers \ {t} = {})
                              THEN {} ELSE {"halfPacked"}))
     /\ Chain(t, "upload")
     /\ UNCHANGED <<launched, disk, receipts, pointer, up, pc, uses, flush, sent, stops, faults,
                    memory, hashed, packs>>

\* Packing or uploading fails: the chain ends.
SnapshotFails(t) ==
  /\ snap[t] \in {"export", "tar", "upload"}
  /\ Fault /\ Happened({"lost"})
  /\ Chain(t, "lost")
  /\ Release(t)
  /\ UNCHANGED <<launched, disk, receipts, pointer, up, pc, uses, flush, sent, stops, memory, packs>>

Older(b, c) == b # NoBlob /\ c # NoBlob /\ b.seq < c.seq

\* The snapshot is stored; the lock is to be written once more, with its identifier.
Upload(t) ==
  /\ snap[t] = "upload"
  /\ WriteLock(Opened)
  /\ Happened(Clash(t))
  /\ Chain(t, "relock")
  /\ UNCHANGED <<launched, receipts, pointer, up, pc, uses, flush, sent, stops, faults, memory,
                 hashed, blob, packs>>

\* The lock is written, and the pointer sent unless the directory's hash is the one published last.
Relock(t) ==
  /\ snap[t] = "relock"
  /\ \E lock \in Closed(t) : WriteLock(lock)
  /\ \/ /\ hashed[t] = lastPublished
        /\ Chain(t, "done")
        /\ Release(t)
        /\ UNCHANGED <<pendingPointer, mishaps>>
     \/ /\ hashed[t] # lastPublished
        /\ Chain(t, "send")
        /\ pendingPointer' = blob[t]
        /\ Happened(IF Older(blob[t], pendingPointer) THEN {"erased"} ELSE {})
        /\ UNCHANGED <<hashed, blob>>
  /\ UNCHANGED <<launched, receipts, pointer, up, pc, uses, flush, sent, stops, faults, agent, shared,
                 lastPublished, packs>>

\* The record is written; whatever pointer was pending is forgotten.
Publish(t) ==
  /\ snap[t] = "send"
  /\ pointer' = blob[t]
  /\ lastPublished' = hashed[t]
  /\ pendingPointer' = NoBlob
  /\ Happened((IF Older(blob[t], pointer) THEN {"overtaken"} ELSE {})
              \cup (IF pendingPointer \notin {blob[t], NoBlob} THEN {"erased"} ELSE {}))
  /\ Chain(t, "done")
  /\ Release(t)
  /\ UNCHANGED <<launched, disk, receipts, up, pc, uses, flush, sent, stops, faults, agent, shared,
                 packs>>

\* A plausible slip: the pointer is forgotten although the write failed.
PublishFailsForgetting(t) ==
  /\ snap[t] = "send"
  /\ Fault
  /\ pendingPointer' = NoBlob
  /\ Chain(t, "done")
  /\ Release(t)
  /\ UNCHANGED <<launched, disk, receipts, pointer, up, pc, uses, flush, sent, stops, mishaps, agent,
                 shared, lastPublished, packs>>

\* The write fails, or its receipt does not come in time; the pointer stays pending.
PublishFails(t) ==
  /\ snap[t] = "send"
  /\ Fault
  /\ sent' \in {sent, sent \cup {blob[t]}}
  /\ Chain(t, "done")
  /\ Release(t)
  /\ UNCHANGED <<launched, disk, receipts, pointer, up, pc, uses, flush, stops, mishaps, memory, packs>>

\* A write is mined that nobody waits for any longer.
LandLate ==
  /\ \E b \in sent : pointer' = b /\ sent' = sent \ {b}
  /\ Happened({"lateWrite"})
  /\ UNCHANGED <<launched, disk, receipts, up, pc, uses, flush, stops, faults, memory, chain>>

---------------------------------------------------------------------------
\* The process is gone with its memory and with the calls and chains it ran; unless it has just
\* been written, the pending pointer is gone too. Writes sent to ENS may be mined all the same.
Exit(written, m) ==
  LET chained == {t \in Task : snap[t] \in {"export", "tar", "upload", "relock", "send"}}
      waiting == {blob[t] : t \in {u \in Task : snap[u] = "send"}} \cup {flush}
  IN /\ up' = "down" /\ flush' = NoBlob
     /\ sent' = sent \cup (waiting \ {written, NoBlob})
     /\ pc' = [t \in Task |-> IF pc[t] \in {"idle", "done", "failed"} THEN pc[t] ELSE "killed"]
     /\ snap' = [t \in Task |-> IF t \in chained THEN "lost" ELSE snap[t]]
     /\ disk' = [disk EXCEPT !.content.lock = IF @ = "mixed" THEN "torn" ELSE @]
     /\ blob' = [t \in Task |-> NoBlob]
     /\ agent' = [t \in Task |-> NoAgent] /\ shared' = NoTask
     /\ uses' = [t \in Task |-> NoTask] /\ hashed' = [t \in Task |-> {}]
     /\ pendingPointer' = NoBlob /\ lastPublished' = {}
     /\ Happened(m \cup
          (IF \E t \in Task : pc[t] = "untar" THEN {"restoreFailed"} ELSE {}) \cup
          (IF \/ pendingPointer \notin {written, NoBlob}
              \/ \E t \in Task : pc[t] = "saveChanged" \/ snap[t] \in {"export", "tar", "upload", "relock"}
             THEN {"lost"} ELSE {}))
     /\ UNCHANGED <<launched, receipts, packs>>

Crash ==
  /\ up # "down" /\ stops < MaxStops /\ stops' = stops + 1
  /\ Exit(NoBlob, {})
  /\ UNCHANGED <<pointer, faults>>

\* SIGTERM: with nothing pending the process exits, otherwise the pending pointer is written first.
Terminate ==
  /\ up = "up" /\ stops < MaxStops /\ stops' = stops + 1
  /\ \/ /\ pendingPointer = NoBlob
        /\ Exit(NoBlob, {})
     \/ /\ pendingPointer # NoBlob
        /\ up' = "flushing" /\ flush' = pendingPointer
        /\ UNCHANGED <<launched, disk, receipts, pc, uses, sent, mishaps, memory, chain>>
  /\ UNCHANGED <<pointer, faults>>

\* flushPendingPointers, then exit. The server still runs while the write is awaited.
Flush ==
  /\ up = "flushing"
  /\ pointer' = flush
  /\ Exit(flush, IF Older(flush, pointer) THEN {"overtaken"} ELSE {})
  /\ UNCHANGED <<stops, faults>>

FlushFails ==
  /\ up = "flushing"
  /\ Fault
  /\ Exit(NoBlob, {})
  /\ UNCHANGED <<pointer, stops>>

Boot ==
  /\ up = "down" /\ up' = "up"
  /\ UNCHANGED <<launched, disk, receipts, pointer, pc, uses, flush, sent, stops, faults, mishaps,
                 memory, chain>>

\* The disk of the host is lost: the agents' directory and receipts.db.
Wipe ==
  /\ up = "down" /\ disk.here
  /\ disk' = [here |-> FALSE, content |-> Empty]
  /\ receipts' = {}
  /\ Happened((IF launched THEN {"unrestored"} ELSE {})
              \cup (IF \E t \in receipts, b \in {pointer} \cup sent : b = NoBlob \/ t \notin b.content.tape
                    THEN {"receiptsLost"} ELSE {}))
  /\ UNCHANGED <<launched, pointer, up, pc, uses, flush, sent, stops, faults, memory, chain>>

LoadStep(t) == \/ Begin(t) \/ ReadPointer(t) \/ Untar(t) \/ RestoreFails(t)
               \/ Prepare(t) \/ Open(t) \/ LoadFails(t) \/ Loaded(t)
RunStep(t) == Work(t) \/ Fail(t) \/ Compare(t) \/ Finish(t) \/ Reply(t)
ChainStep(t) == \/ Export(t) \/ ExportFails(t) \/ Tar(t) \/ SnapshotFails(t)
                \/ Upload(t) \/ Relock(t) \/ Publish(t) \/ PublishFails(t)

Next == (\E t \in Task : LoadStep(t) \/ RunStep(t) \/ ChainStep(t))
        \/ LandLate \/ Crash \/ Terminate \/ Flush \/ FlushFails \/ Boot \/ Wipe

Spec == Init /\ [][Next]_vars

---------------------------------------------------------------------------
\* What a load does not put back to the seed's version.
Kept(brain) == brain \ SeedSkills(brain)
Happening(m) == mishaps' \cap m # {}
Never(m) == mishaps \cap m = {}

(* The published snapshot is never replaced by one that knows less, unless an older write     *)
(* overtook it, a write outlived its process or its timeout, a restore failed or ran over a   *)
(* directory in use, an archive caught what was written after it was begun, or the wiped      *)
(* agent is a launched one, which load never restores (runTask, load).                        *)
PointerForgetsNothing ==
  [][pointer # NoBlob /\ ~(Kept(pointer.content.brain) \subseteq pointer'.content.brain) =>
       Happening({"restoreFailed", "restoreRace", "lateWrite", "overtaken", "caughtLater",
                  "unrestored"})]_vars

(* An agent that runs knows everything its published snapshot knows, receipts included,       *)
(* wherever it was restarted, with the exceptions of restores and late writes (load).         *)
RunningAgentRemembers ==
  pointer # NoBlob /\ (\E t \in Task : Running(t)) =>
    \/ mishaps \cap {"restoreFailed", "restoreRace", "lateWrite", "unrestored"} # {}
    \/ Kept(pointer.content.brain) \subseteq Brain /\ pointer.content.tape \subseteq receipts

(* A published snapshot can be loaded again: its lock and database are whole, unless another  *)
(* task was writing them when it was packed or two tasks wrote the lock at once. A lock that  *)
(* a crash tore fails every load, and so never gets into a snapshot (load, runTask).          *)
PublishedLoads ==
  pointer # NoBlob /\ Never({"halfPacked", "clash"}) =>
    pointer.content.lock = "whole" /\ pointer.content.db

(* A published snapshot that holds the result of a task answered before its receipts were     *)
(* exported holds that task's receipt, through wipes and restores that do not run over a      *)
(* directory in use. The task that made the snapshot is answered later, and its receipt is in *)
(* the next one (runTask's export).                                                           *)
TapeFollowsBrain ==
  pointer # NoBlob /\ Never({"untaped", "receiptsLost", "restoreRace"}) =>
    \A t \in pointer.answered : <<t, "rows">> \in pointer.content.brain => t \in pointer.content.tape

(* When the operator is asked to stop and nothing is running, the last pointer names all that *)
(* the answered tasks taught the agent, failed ENS writes notwithstanding, unless a snapshot  *)
(* was lost, an archive caught what was written after it was begun, or another write erased   *)
(* the pending pointer (maybePublishPointer, flush).                                          *)
GracefulStopKeepsWork ==
  [][up # "down" /\ up' = "down" /\ (Terminate \/ Flush)
      /\ (\A t \in Task : pc[t] \in {"idle", "done", "failed", "killed"} /\ snap[t] \in {"none", "done"}) =>
       \/ Happening({"lost", "erased", "overtaken", "lateWrite", "restoreRace", "caughtLater"})
       \/ \A t \in Task : pc[t] = "done" /\ <<t, "rows">> \in Brain =>
            pointer' # NoBlob /\ <<t, "rows">> \in pointer'.content.brain]_vars

(* "Any operator can rehydrate any agent from chain + Walrus alone": a snapshot that is       *)
(* published can be loaded. One packed while another call writes the lock cannot.             *)
AnyOperatorRehydrates == pointer # NoBlob => pointer.content.lock = "whole"

(* The receipts are folded into the directory "so the snapshot captures them": once all is    *)
(* at rest, with nothing failed or stopped, the snapshot of an answered call holds its        *)
(* receipt. The call's own receipt is recorded after the export.                              *)
SnapshotCapturesReceipts ==
  /\ pointer # NoBlob /\ faults = 0 /\ stops = 0
  /\ \A t \in Task : pc[t] \in {"idle", "done"} /\ snap[t] \in {"none", "done"}
  => \A t \in Task \ {First} : <<t, "rows">> \in pointer.content.brain => t \in pointer.content.tape
===========================================================================
