------------------------ MODULE HermesRuntime_proofs ------------------------
(***************************************************************************)
(* Proofs about HermesRuntime, for any number of tasks, stops and faults:  *)
(* the published snapshot can be loaded, it forgets nothing, whoever runs  *)
(* knows what it knows, receipts travel with results, and a graceful stop  *)
(* keeps the work; each up to the mishaps its statement names.             *)
(***************************************************************************)
EXTENDS HermesRuntime, TLAPS

Rows(t) == <<t, "rows">>
Locks == {"none", "whole", "torn", "mixed"}
Ready == disk.content.lock # "none"
Chaining(t) == snap[t] \in {"export", "tar", "upload", "relock", "send"}
Loading == {"idle", "restore", "untar", "prepare", "open"}
AtWork == {"lock", "run", "hash", "save", "saveChanged"}
Learnt == {"hash", "save", "saveChanged", "reply", "done", "failed", "killed"}
Exported == {"tar", "upload", "relock", "send"}

\* The snapshots there are; those this process made; and these with the published one.
Blobs == ({pointer, pendingPointer, flush} \cup sent \cup {blob[t] : t \in Task}) \ {NoBlob}
Packed == {blob[t] : t \in {u \in Task : snap[u] \in Exported}}
Fresh == ({pendingPointer, flush} \cup Packed) \ {NoBlob}
Current == Fresh \cup ({pointer} \ {NoBlob})
\* The snapshots that no tar is still reading.
Sealed == ({pointer, pendingPointer, flush} \cup sent
             \cup {blob[t] : t \in {u \in Task : snap[u] # "tar"}}) \ {NoBlob}

HermesTypes ==
  /\ launched \in BOOLEAN /\ disk \in Disk /\ receipts \subseteq Task
  /\ pointer \in Blob \cup {NoBlob}
  /\ up \in {"up", "flushing", "down"}
  /\ pc \in [Task -> Loading \cup AtWork \cup Learnt]
  /\ snap \in [Task -> {"none", "export", "done", "lost"} \cup Exported]
  /\ agent \in [Task -> AgentState]
  /\ shared \in Task \cup {NoTask}
  /\ uses \in [Task -> Task \cup {NoTask}]
  /\ hashed \in [Task -> SUBSET Entry]
  /\ blob \in [Task -> Blob \cup {NoBlob}]
  /\ {flush, pendingPointer} \subseteq Blob \cup {NoBlob} /\ sent \subseteq Blob
  /\ lastPublished \subseteq Entry
  /\ stops \in 0 .. MaxStops /\ faults \in 0 .. MaxFaults /\ packs \in Nat
  /\ mishaps \subseteq Mishap

\* A process that is down has no memory.
DownIsEmpty ==
  up = "down" =>
    /\ \A t \in Task : /\ pc[t] \in {"idle", "done", "failed", "killed"}
                       /\ snap[t] \in {"none", "done", "lost"}
    /\ shared = NoTask /\ pendingPointer = NoBlob /\ lastPublished = {}
FlushFits == up = "flushing" <=> flush # NoBlob

UsesFit == \A t \in Task : pc[t] \in {"run", "hash"} => uses[t] \in Task

\* What is in use was loaded into a directory that has a lock.
InUse == \/ \E t \in Task : pc[t] \in AtWork \/ Chaining(t)
         \/ shared # NoTask
         \/ Fresh # {}
LockFits ==
  /\ InUse => Ready
  /\ ~Ready => disk.content = Empty
  /\ ~disk.here => ~Ready /\ \A t \in Task : pc[t] # "open"
  /\ disk.content.tape \subseteq receipts

BlobsFit ==
  /\ \A b \in Blobs : b.content.lock # "none" /\ b.seq <= packs
  /\ \A t \in Task : blob[t] # NoBlob <=> pc[t] = "untar" \/ snap[t] \in Exported
  /\ \A t \in Task : snap[t] # "none" => pc[t] \in {"reply", "done", "killed"}

\* The rows of a task that has not worked are nowhere.
RowsFit ==
  \A t \in Task : pc[t] \notin Learnt =>
    /\ Rows(t) \notin Brain \cup lastPublished
    /\ \A b \in Blobs : Rows(t) \notin b.content.brain
    /\ \A o \in Task : Rows(t) \notin agent[o].hash \cup hashed[o]

Fits == HermesTypes /\ DownIsEmpty /\ FlushFits /\ UsesFit /\ LockFits /\ BlobsFit /\ RowsFit

---------------------------------------------------------------------------
\* What the actions do to the directory.

LEMMA DiskFields ==
  ASSUME disk \in Disk
  PROVE  /\ disk.here \in BOOLEAN /\ disk.content \in Content /\ Brain \subseteq Entry
         /\ disk.content.tape \subseteq Task
         /\ disk.content.lock \in Locks /\ disk.content.db \in BOOLEAN
BY DEF Disk, Content, Brain, Locks

LEMMA HereSet ==
  ASSUME disk \in Disk, disk' = [disk EXCEPT !.here = TRUE]
  PROVE  disk' \in Disk /\ disk'.here /\ disk'.content = disk.content
BY DEF Disk

LEMMA ContentSet ==
  ASSUME disk \in Disk, NEW c \in Content, disk' = [disk EXCEPT !.content = c]
  PROVE  disk' \in Disk /\ disk'.here = disk.here /\ disk'.content = c
BY DEF Disk

LEMMA Made ==
  ASSUME NEW here \in BOOLEAN, NEW c \in Content, disk' = [here |-> here, content |-> c]
  PROVE  disk' \in Disk /\ disk'.here = here /\ disk'.content = c
BY DEF Disk

LEMMA BrainSet ==
  ASSUME disk \in Disk, NEW brain \in SUBSET Entry
  PROVE  LET c == [disk.content EXCEPT !.brain = brain]
         IN  /\ c \in Content /\ c.brain = brain /\ c.tape = disk.content.tape
             /\ c.lock = disk.content.lock /\ c.db = disk.content.db
<1> DEFINE d == disk.content
<1>1. d \in Content
  BY DiskFields
<1> HIDE DEF d
<1>2. LET c == [d EXCEPT !.brain = brain]
      IN  c \in Content /\ c.brain = brain /\ c.tape = d.tape /\ c.lock = d.lock /\ c.db = d.db
  BY <1>1 DEF Content
<1> QED BY <1>2 DEF d

LEMMA Learned ==
  ASSUME disk \in Disk, NEW o, NEW entries \in SUBSET Entry, Learn(o, entries)
  PROVE  /\ disk' \in Disk /\ disk'.here = disk.here
         /\ Brain \subseteq Brain' /\ Brain' \subseteq Brain \cup entries
         /\ disk'.content.tape = disk.content.tape
         /\ disk'.content.lock = disk.content.lock /\ disk'.content.db = disk.content.db
<1> DEFINE new == IF agent[o].stale THEN SeedSkills(entries) ELSE entries
           c == [disk.content EXCEPT !.brain = Brain \cup new]
<1>1. new \subseteq entries
  BY DEF SeedSkills
<1>2. Brain \cup new \in SUBSET Entry
  BY <1>1, DiskFields
<1>3. disk' = [disk EXCEPT !.content = c]
  BY Zenon DEF Learn, Brain
<1> HIDE DEF new
<1>4. /\ c \in Content /\ c.brain = Brain \cup new /\ c.tape = disk.content.tape
      /\ c.lock = disk.content.lock /\ c.db = disk.content.db
  BY <1>2, BrainSet
<1> HIDE DEF c
<1>5. disk' \in Disk /\ disk'.here = disk.here /\ disk'.content = c
  BY <1>3, <1>4, ContentSet
<1> QED BY <1>1, <1>4, <1>5 DEF Brain

LEMMA Locked ==
  ASSUME disk \in Disk, NEW lock \in Locks, WriteLock(lock)
  PROVE  /\ disk' \in Disk /\ disk'.here = disk.here /\ Brain' = Brain
         /\ disk'.content.tape = disk.content.tape
         /\ disk'.content.lock = lock /\ disk'.content.db = disk.content.db
<1> DEFINE c == [disk.content EXCEPT !.lock = lock]
<1>1. disk.content \in Content
  BY DiskFields
<1>2. disk' = [disk EXCEPT !.content = c]
  BY Zenon DEF WriteLock
<1>3. /\ c \in Content /\ c.brain = disk.content.brain /\ c.tape = disk.content.tape
      /\ c.lock = lock /\ c.db = disk.content.db
  BY <1>1 DEF Content, Locks
<1> HIDE DEF c
<1>4. disk' \in Disk /\ disk'.here = disk.here /\ disk'.content = c
  BY <1>2, <1>3, ContentSet
<1> QED BY <1>3, <1>4 DEF Brain

\* A write of the lock that begins, and one that ends.
LEMMA LockOpened ==
  ASSUME disk \in Disk, WriteLock(Opened)
  PROVE  /\ disk' \in Disk /\ disk'.here = disk.here /\ Brain' = Brain
         /\ disk'.content.tape = disk.content.tape /\ disk'.content.db = disk.content.db
         /\ disk'.content.lock = IF Writers = {} THEN "torn" ELSE "mixed"
<1>1. Opened \in Locks
  BY DEF Opened, Locks
<1> QED BY <1>1, Locked DEF Opened

LEMMA LockClosed ==
  ASSUME disk \in Disk, NEW t, \E lock \in Closed(t) : WriteLock(lock)
  PROVE  /\ disk' \in Disk /\ disk'.here = disk.here /\ Brain' = Brain
         /\ disk'.content.tape = disk.content.tape /\ disk'.content.db = disk.content.db
         /\ disk'.content.lock \in {"whole", "torn", "mixed"}
         /\ disk.content.lock # "mixed" => disk'.content.lock = "whole"
<1>1. PICK lock \in Closed(t) : WriteLock(lock)
  OBVIOUS
<1>2. /\ lock \in {"whole", "torn", "mixed"}
      /\ disk.content.lock # "mixed" => lock = "whole"
  BY DEF Closed
<1>3. lock \in Locks
  BY <1>2 DEF Locks
<1> QED BY <1>1, <1>2, <1>3, Locked

LEMMA Prepared ==
  ASSUME disk \in Disk, NEW t, Prepare(t)
  PROVE  /\ disk' \in Disk /\ disk'.here
         /\ Brain' \subseteq Brain /\ \A e \in Brain : e[2] # "seedSkill" => e \in Brain'
         /\ disk'.content.tape = disk.content.tape
         /\ disk'.content.lock = disk.content.lock /\ disk'.content.db = disk.content.db
         /\ disk.content = Empty => disk'.content = Empty
<1> DEFINE brain == IF launched THEN Brain ELSE Brain \ SeedSkills(Brain)
           c == [disk.content EXCEPT !.brain = brain]
<1>1. disk' = [here |-> TRUE, content |-> c]
  BY DEF Prepare
<1>2. brain \in SUBSET Entry
  BY DiskFields
<1>3. brain \subseteq Brain /\ \A e \in Brain : e[2] # "seedSkill" => e \in brain
  BY DEF SeedSkills
<1>4. disk.content = Empty => c = Empty
  BY <1>3 DEF Empty, Brain
<1> HIDE DEF brain
<1>5. /\ c \in Content /\ c.brain = brain /\ c.tape = disk.content.tape
      /\ c.lock = disk.content.lock /\ c.db = disk.content.db
  BY <1>2, BrainSet
<1> HIDE DEF c
<1>6. disk' \in Disk /\ disk'.here /\ disk'.content = c
  BY <1>1, <1>5, Made
<1>7. Brain' = brain
  BY <1>5, <1>6 DEF Brain
<1> QED BY <1>3, <1>4, <1>5, <1>6, <1>7

---------------------------------------------------------------------------
\* What each action does, task by task.

Elsewhere(t) ==
  \A u \in Task \ {t} : /\ pc'[u] = pc[u] /\ snap'[u] = snap[u] /\ uses'[u] = uses[u]
                        /\ hashed'[u] = hashed[u] /\ blob'[u] = blob[u]

Tasks ==
  /\ pc \in [Task -> Loading \cup AtWork \cup Learnt]
  /\ snap \in [Task -> {"none", "export", "done", "lost"} \cup Exported]
  /\ uses \in [Task -> Task \cup {NoTask}] /\ hashed \in [Task -> SUBSET Entry]
  /\ blob \in [Task -> Blob \cup {NoBlob}]

LEMMA Shapes ==
  ASSUME HermesTypes
  PROVE  /\ Tasks /\ disk \in Disk /\ agent \in [Task -> AgentState]
         /\ receipts \subseteq Task /\ packs \in Nat /\ mishaps \subseteq Mishap
         /\ pointer \in Blob \cup {NoBlob} /\ shared \in Task \cup {NoTask}
         /\ \A t \in Task : pc[t] \in Loading \cup AtWork \cup Learnt
         /\ \A t \in Task : uses[t] \in Task \cup {NoTask} /\ blob[t] \in Blob \cup {NoBlob}
BY DEF HermesTypes, Tasks

LEMMA FaultCounts ==
  ASSUME HermesTypes, Fault
  PROVE  faults' \in 0 .. MaxFaults
BY HermesAssumption DEF HermesTypes, Fault

LEMMA Mishaps ==
  ASSUME HermesTypes, NEW m \in SUBSET Mishap, Happened(m)
  PROVE  mishaps' \subseteq Mishap /\ mishaps' = mishaps \cup m /\ mishaps \subseteq mishaps'
BY DEF HermesTypes, Happened

LEMMA ClashIs ==
  ASSUME NEW t
  PROVE  Clash(t) \in SUBSET Mishap /\ Clash(t) = IF Writers \ {t} = {} THEN {} ELSE {"clash"}
BY DEF Clash, Mishap

LEMMA BeginDoes ==
  ASSUME Fits, NEW t \in Task, Begin(t)
  PROVE  /\ HermesTypes' /\ Elsewhere(t)
         /\ up # "down" /\ pc[t] = "idle" /\ snap[t] = "none" /\ blob[t] = NoBlob
         /\ UNCHANGED <<launched, receipts, pointer, up, snap, hashed, blob, flush, sent, faults,
                        mishaps, agent, shared, pendingPointer, lastPublished, packs>>
         /\ disk'.content = disk.content /\ (disk.here => disk'.here)
         /\ \/ launched /\ disk'.here /\ pc'[t] = "prepare" /\ uses'[t] = uses[t]
            \/ /\ ~launched /\ shared = NoTask /\ disk' = disk /\ uses'[t] = uses[t]
               /\ pc'[t] = IF disk.here THEN "prepare" ELSE "restore"
            \/ ~launched /\ shared \in Task /\ disk' = disk /\ pc'[t] = "run" /\ uses'[t] = shared
<1>1. HermesTypes
  BY DEF Fits
<1>2. /\ UNCHANGED <<launched, receipts, pointer, up, snap, hashed, blob, flush, sent, stops, faults,
                     mishaps, agent, shared, pendingPointer, lastPublished, packs>>
      /\ up # "down" /\ pc[t] = "idle"
  BY DEF Begin, memory, chain
<1>3. disk' \in Disk /\ disk'.content = disk.content /\ (disk.here => disk'.here)
  BY <1>1, Shapes, HereSet DEF Begin
<1>4. launched /\ disk' = [disk EXCEPT !.here = TRUE] => disk'.here
  BY <1>1, Shapes, HereSet
<1>5. Elsewhere(t)
  BY <1>1, <1>2, Shapes DEF Begin, Elsewhere, Goto, Run, Tasks
<1>6. snap[t] = "none" /\ blob[t] = NoBlob
  BY <1>2 DEF Fits, BlobsFit, Exported
<1>7. /\ pc' \in [Task -> Loading \cup AtWork \cup Learnt]
      /\ uses' \in [Task -> Task \cup {NoTask}]
  BY <1>1, Shapes DEF Begin, Goto, Run, Tasks, Loading, AtWork
<1>8. HermesTypes'
  BY <1>1, <1>2, <1>3, <1>7 DEF HermesTypes
<1>9. \/ launched /\ disk'.here /\ pc'[t] = "prepare" /\ uses'[t] = uses[t]
      \/ /\ ~launched /\ shared = NoTask /\ disk' = disk /\ uses'[t] = uses[t]
         /\ pc'[t] = IF disk.here THEN "prepare" ELSE "restore"
      \/ ~launched /\ shared \in Task /\ disk' = disk /\ pc'[t] = "run" /\ uses'[t] = shared
  BY <1>1, <1>4, Shapes DEF Begin, Goto, Run, Tasks
<1> QED BY <1>2, <1>3, <1>5, <1>6, <1>8, <1>9

LEMMA ReadPointerDoes ==
  ASSUME Fits, NEW t \in Task, ReadPointer(t)
  PROVE  /\ HermesTypes' /\ Elsewhere(t)
         /\ pc[t] = "restore" /\ snap[t] = "none" /\ blob[t] = NoBlob
         /\ UNCHANGED <<launched, receipts, pointer, up, snap, uses, hashed, flush, sent, faults,
                        mishaps, agent, shared, pendingPointer, lastPublished, packs>>
         /\ disk'.content = disk.content /\ (disk.here => disk'.here)
         /\ \/ pointer = NoBlob /\ disk' = disk /\ pc'[t] = "prepare" /\ blob'[t] = NoBlob
            \/ pointer # NoBlob /\ disk'.here /\ pc'[t] = "untar" /\ blob'[t] = pointer
<1>1. HermesTypes
  BY DEF Fits
<1>2. /\ UNCHANGED <<launched, receipts, pointer, up, snap, uses, hashed, flush, sent, stops, faults,
                     mishaps, agent, shared, pendingPointer, lastPublished, packs>>
      /\ pc[t] = "restore"
  BY DEF ReadPointer, memory
<1>3. snap[t] = "none" /\ blob[t] = NoBlob
  BY <1>2 DEF Fits, BlobsFit, Exported
<1>4. /\ disk' \in Disk /\ disk'.content = disk.content /\ (disk.here => disk'.here)
      /\ disk' = [disk EXCEPT !.here = TRUE] => disk'.here
  BY <1>1, Shapes, HereSet DEF ReadPointer
<1>5. Elsewhere(t)
  BY <1>1, <1>2, Shapes DEF ReadPointer, Elsewhere, Goto, Tasks
<1>6. /\ pc' \in [Task -> Loading \cup AtWork \cup Learnt]
      /\ blob' \in [Task -> Blob \cup {NoBlob}]
  BY <1>1, Shapes DEF ReadPointer, Goto, Tasks, Loading
<1>7. HermesTypes'
  BY <1>1, <1>2, <1>4, <1>6 DEF HermesTypes
<1>8. \/ pointer = NoBlob /\ disk' = disk /\ pc'[t] = "prepare" /\ blob'[t] = NoBlob
      \/ pointer # NoBlob /\ disk'.here /\ pc'[t] = "untar" /\ blob'[t] = pointer
  BY <1>1, <1>3, <1>4, Shapes DEF ReadPointer, Goto, Tasks
<1> QED BY <1>2, <1>3, <1>4, <1>5, <1>7, <1>8

LEMMA UntarDoes ==
  ASSUME Fits, NEW t \in Task, Untar(t)
  PROVE  /\ HermesTypes' /\ Elsewhere(t)
         /\ pc[t] = "untar" /\ pc'[t] = "prepare" /\ snap[t] = "none"
         /\ blob[t] \in Blob /\ blob[t] \in Blobs /\ blob[t] # NoBlob /\ blob'[t] = NoBlob
         /\ UNCHANGED <<launched, pointer, up, snap, uses, hashed, flush, sent, faults,
                        shared, pendingPointer, lastPublished, packs>>
         /\ disk'.here /\ disk'.content = blob[t].content /\ Brain' = blob[t].content.brain
         /\ receipts' = receipts \cup blob[t].content.tape
         /\ \A o \in Task : agent'[o].hash = agent[o].hash
         /\ mishaps' = mishaps \cup (IF disk.content = Empty THEN {} ELSE {"restoreRace"})
<1>1. HermesTypes
  BY DEF Fits
<1>2. /\ UNCHANGED <<launched, pointer, up, snap, uses, hashed, flush, sent, stops, faults,
                     shared, pendingPointer, lastPublished, packs>>
      /\ disk' = [here |-> TRUE, content |-> blob[t].content]
      /\ receipts' = receipts \cup blob[t].content.tape
      /\ agent' = [o \in Task |-> IF agent[o] = NoAgent THEN NoAgent
                                  ELSE [agent[o] EXCEPT !.stale = TRUE]]
      /\ pc[t] = "untar" /\ pc' = [pc EXCEPT ![t] = "prepare"] /\ blob' = [blob EXCEPT ![t] = NoBlob]
      /\ mishaps' = mishaps \cup (IF disk.content = Empty THEN {} ELSE {"restoreRace"})
  BY DEF Untar, UntarKeeping, Goto, Happened
<1>3. snap[t] = "none" /\ blob[t] # NoBlob /\ blob[t] \in Blobs
  BY <1>2 DEF Fits, BlobsFit, Blobs
<1>4. blob[t] \in Blob
  BY <1>1, <1>3, Shapes
<1>5. blob[t].content \in Content /\ blob[t].content.tape \subseteq Task
  BY <1>4 DEF Blob, Content
<1>6. disk' \in Disk /\ disk'.here /\ disk'.content = blob[t].content
  BY <1>2, <1>5, Made
<1>7. agent' \in [Task -> AgentState] /\ \A o \in Task : agent'[o].hash = agent[o].hash
  <2>1. \A o \in Task : agent[o] \in AgentState
    BY <1>1 DEF HermesTypes
  <2>2. \A o \in Task : LET a == [agent[o] EXCEPT !.stale = TRUE]
                        IN  a \in AgentState /\ a.hash = agent[o].hash
    BY <2>1 DEF AgentState
  <2> QED BY <1>2, <2>1, <2>2
<1>8. /\ Elsewhere(t) /\ pc'[t] = "prepare" /\ blob'[t] = NoBlob
      /\ pc' \in [Task -> Loading \cup AtWork \cup Learnt] /\ blob' \in [Task -> Blob \cup {NoBlob}]
  BY <1>1, <1>2, Shapes DEF Elsewhere, Tasks, Loading
<1>9. mishaps' \subseteq Mishap /\ receipts' \subseteq Task
  BY <1>1, <1>2, <1>5, Shapes DEF Mishap
<1>10. HermesTypes'
  BY <1>1, <1>2, <1>6, <1>7, <1>8, <1>9 DEF HermesTypes
<1> QED BY <1>2, <1>3, <1>4, <1>6, <1>7, <1>8, <1>10 DEF Brain

LEMMA RestoreFailsDoes ==
  ASSUME Fits, NEW t \in Task, RestoreFails(t)
  PROVE  /\ HermesTypes' /\ Elsewhere(t)
         /\ pc[t] \in {"restore", "untar"} /\ pc'[t] = "prepare"
         /\ snap[t] = "none" /\ blob'[t] = NoBlob
         /\ UNCHANGED <<launched, disk, receipts, pointer, up, snap, uses, hashed, flush, sent,
                        agent, shared, pendingPointer, lastPublished, packs>>
         /\ mishaps' = mishaps \cup {"restoreFailed"}
<1>1. HermesTypes
  BY DEF Fits
<1>2. /\ UNCHANGED <<launched, disk, receipts, pointer, up, snap, uses, hashed, flush, sent, stops,
                     agent, shared, pendingPointer, lastPublished, packs>>
      /\ pc[t] \in {"restore", "untar"} /\ pc' = [pc EXCEPT ![t] = "prepare"]
      /\ blob' = [blob EXCEPT ![t] = NoBlob] /\ Fault
      /\ mishaps' = mishaps \cup {"restoreFailed"}
  BY DEF RestoreFails, Goto, Happened, memory
<1>3. snap[t] = "none"
  BY <1>2 DEF Fits, BlobsFit
<1>4. /\ Elsewhere(t) /\ pc'[t] = "prepare" /\ blob'[t] = NoBlob
      /\ pc' \in [Task -> Loading \cup AtWork \cup Learnt] /\ blob' \in [Task -> Blob \cup {NoBlob}]
  BY <1>1, <1>2, Shapes DEF Elsewhere, Tasks, Loading
<1>5. HermesTypes'
  BY <1>1, <1>2, <1>4, FaultCounts DEF HermesTypes, Mishap
<1> QED BY <1>2, <1>3, <1>4, <1>5

LEMMA PrepareDoes ==
  ASSUME Fits, NEW t \in Task, Prepare(t)
  PROVE  /\ HermesTypes' /\ Elsewhere(t)
         /\ pc[t] = "prepare" /\ pc'[t] = "open" /\ snap[t] = "none" /\ blob[t] = NoBlob
         /\ UNCHANGED <<launched, receipts, pointer, up, snap, uses, hashed, blob, flush, sent, faults,
                        mishaps, agent, shared, pendingPointer, lastPublished, packs>>
         /\ disk'.here
         /\ Brain' \subseteq Brain /\ \A e \in Brain : e[2] # "seedSkill" => e \in Brain'
         /\ disk'.content.tape = disk.content.tape
         /\ disk'.content.lock = disk.content.lock /\ disk'.content.db = disk.content.db
         /\ disk.content = Empty => disk'.content = Empty
<1>1. HermesTypes
  BY DEF Fits
<1>2. /\ UNCHANGED <<launched, receipts, pointer, up, snap, uses, hashed, blob, flush, sent, stops,
                     faults, mishaps, agent, shared, pendingPointer, lastPublished, packs>>
      /\ pc[t] = "prepare" /\ pc' = [pc EXCEPT ![t] = "open"]
  BY DEF Prepare, Goto, memory, chain
<1>3. snap[t] = "none" /\ blob[t] = NoBlob
  BY <1>2 DEF Fits, BlobsFit, Exported
<1>4. /\ Elsewhere(t) /\ pc'[t] = "open" /\ pc' \in [Task -> Loading \cup AtWork \cup Learnt]
  BY <1>1, <1>2, Shapes DEF Elsewhere, Tasks, Loading
<1>5. HermesTypes'
  BY <1>1, <1>2, <1>4, Shapes, Prepared DEF HermesTypes
<1> QED BY <1>1, <1>2, <1>3, <1>4, <1>5, Shapes, Prepared

LEMMA OpenDoes ==
  ASSUME Fits, NEW t \in Task, Open(t)
  PROVE  /\ HermesTypes' /\ Elsewhere(t)
         /\ pc[t] = "open" /\ pc'[t] = "lock" /\ snap[t] = "none" /\ blob[t] = NoBlob
         /\ UNCHANGED <<launched, receipts, pointer, up, snap, uses, hashed, blob, flush, sent, faults,
                        shared, pendingPointer, lastPublished, packs>>
         /\ disk.content.db
         /\ disk'.here = disk.here /\ Brain' = Brain
         /\ disk'.content.tape = disk.content.tape /\ disk'.content.db = disk.content.db
         /\ disk'.content.lock = IF Writers = {} THEN "torn" ELSE "mixed"
         /\ \A o \in Task : agent'[o].hash \in {Brain, agent[o].hash, {}}
         /\ mishaps \subseteq mishaps' /\ (Writers \ {t} # {} => "clash" \in mishaps')
         /\ (\E o \in Task : pc[o] = "untar") => "restoreRace" \in mishaps'
<1>1. HermesTypes
  BY DEF Fits
<1> DEFINE m == Clash(t) \cup (IF \E o \in Task : pc[o] = "untar" THEN {"restoreRace"} ELSE {})
<1>2. /\ UNCHANGED <<launched, receipts, pointer, up, snap, uses, hashed, blob, flush, sent, stops,
                     faults, shared, pendingPointer, lastPublished, packs>>
      /\ pc[t] = "open" /\ pc' = [pc EXCEPT ![t] = "lock"]
      /\ agent' = [o \in Task |-> IF o = t THEN [hash |-> Brain, stale |-> FALSE]
                                  ELSE IF Live(o) THEN agent[o] ELSE NoAgent]
      /\ WriteLock(Opened) /\ Happened(m) /\ disk.content.db
  BY DEF Open, Goto, chain
<1>3. snap[t] = "none" /\ blob[t] = NoBlob
  BY <1>2 DEF Fits, BlobsFit, Exported
<1>4. /\ Elsewhere(t) /\ pc'[t] = "lock" /\ pc' \in [Task -> Loading \cup AtWork \cup Learnt]
  BY <1>1, <1>2, Shapes DEF Elsewhere, Tasks, AtWork
<1>5. m \in SUBSET Mishap /\ mishaps' = mishaps \cup m
  BY <1>2, ClashIs DEF Happened, Mishap
<1>6. mishaps' \subseteq Mishap
  BY <1>1, <1>5, Shapes
<1>7. /\ (Writers \ {t} # {} => "clash" \in mishaps') /\ mishaps \subseteq mishaps'
      /\ (\E o \in Task : pc[o] = "untar") => "restoreRace" \in mishaps'
  BY <1>5, ClashIs
<1>8. /\ agent' \in [Task -> AgentState]
      /\ \A o \in Task : agent'[o].hash \in {Brain, agent[o].hash, {}}
  <2>1. \A o \in Task : agent[o] \in AgentState
    BY <1>1 DEF HermesTypes
  <2>2. Brain \subseteq Entry
    BY <1>1, Shapes, DiskFields
  <2>3. NoAgent \in AgentState /\ NoAgent.hash = {}
    BY DEF NoAgent, AgentState
  <2> DEFINE a == [hash |-> Brain, stale |-> FALSE]
  <2>4. a \in AgentState /\ a.hash = Brain
    BY <2>2 DEF AgentState
  <2> HIDE DEF a
  <2>5. \A o \in Task : agent'[o] \in {a, agent[o], NoAgent}
    BY <1>2 DEF a
  <2>6. agent' \in [Task -> AgentState]
    <3>1. \A o \in Task : agent'[o] \in AgentState
      BY <2>1, <2>3, <2>4, <2>5
    <3>2. agent' = [o \in Task |-> agent'[o]]
      BY <1>2
    <3> QED BY <3>1, <3>2
  <2> QED BY <2>3, <2>4, <2>5, <2>6
<1>9. HermesTypes'
  BY <1>1, <1>2, <1>4, <1>6, <1>8, Shapes, LockOpened DEF HermesTypes
<1> QED BY <1>1, <1>2, <1>3, <1>4, <1>7, <1>8, <1>9, Shapes, LockOpened

LEMMA LoadFailsDoes ==
  ASSUME Fits, NEW t \in Task, LoadFails(t)
  PROVE  /\ HermesTypes' /\ Elsewhere(t)
         /\ pc[t] = "open" /\ pc'[t] = "failed" /\ snap[t] = "none" /\ blob[t] = NoBlob
         /\ UNCHANGED <<launched, disk, receipts, pointer, up, snap, uses, hashed, blob, flush, sent,
                        faults, mishaps, agent, shared, pendingPointer, lastPublished, packs>>
<1>1. HermesTypes
  BY DEF Fits
<1>2. /\ UNCHANGED <<launched, disk, receipts, pointer, up, snap, uses, hashed, blob, flush, sent,
                     stops, faults, mishaps, agent, shared, pendingPointer, lastPublished, packs>>
      /\ pc[t] = "open" /\ pc' = [pc EXCEPT ![t] = "failed"]
  BY DEF LoadFails, Goto, memory, chain
<1>3. snap[t] = "none" /\ blob[t] = NoBlob
  BY <1>2 DEF Fits, BlobsFit, Exported
<1>4. /\ Elsewhere(t) /\ pc'[t] = "failed" /\ pc' \in [Task -> Loading \cup AtWork \cup Learnt]
  BY <1>1, <1>2, Shapes DEF Elsewhere, Tasks, Learnt
<1>5. HermesTypes'
  BY <1>1, <1>2, <1>4 DEF HermesTypes
<1> QED BY <1>2, <1>3, <1>4, <1>5

LEMMA LoadedDoes ==
  ASSUME Fits, NEW t \in Task, Loaded(t)
  PROVE  /\ HermesTypes' /\ Elsewhere(t)
         /\ pc[t] = "lock" /\ pc'[t] = "run" /\ uses'[t] = t /\ snap[t] = "none" /\ blob[t] = NoBlob
         /\ UNCHANGED <<launched, receipts, pointer, up, snap, hashed, blob, flush, sent, faults,
                        mishaps, agent, pendingPointer, lastPublished, packs>>
         /\ shared' = IF launched THEN shared ELSE t
         /\ disk'.here = disk.here /\ Brain' = Brain
         /\ disk'.content.tape = disk.content.tape /\ disk'.content.db = disk.content.db
         /\ disk'.content.lock \in {"whole", "torn", "mixed"}
         /\ disk.content.lock # "mixed" => disk'.content.lock = "whole"
<1>1. HermesTypes
  BY DEF Fits
<1>2. /\ UNCHANGED <<launched, receipts, pointer, up, snap, hashed, blob, flush, sent, stops, faults,
                     mishaps, agent, pendingPointer, lastPublished, packs>>
      /\ pc[t] = "lock" /\ pc' = [pc EXCEPT ![t] = "run"] /\ uses' = [uses EXCEPT ![t] = t]
      /\ shared' = IF launched THEN shared ELSE t
      /\ \E lock \in Closed(t) : WriteLock(lock)
  BY DEF Loaded, Run, Goto, chain
<1>3. snap[t] = "none" /\ blob[t] = NoBlob
  BY <1>2 DEF Fits, BlobsFit, Exported
<1>4. /\ Elsewhere(t) /\ pc'[t] = "run" /\ uses'[t] = t
      /\ pc' \in [Task -> Loading \cup AtWork \cup Learnt] /\ uses' \in [Task -> Task \cup {NoTask}]
  BY <1>1, <1>2, Shapes DEF Elsewhere, Tasks, AtWork
<1>5. HermesTypes'
  BY <1>1, <1>2, <1>4, Shapes, LockClosed DEF HermesTypes
<1> QED BY <1>1, <1>2, <1>3, <1>4, <1>5, Shapes, LockClosed

LEMMA WorkDoes ==
  ASSUME Fits, NEW t \in Task, Work(t)
  PROVE  /\ HermesTypes' /\ Elsewhere(t)
         /\ pc[t] = "run" /\ pc'[t] = "hash" /\ snap[t] = "none" /\ blob[t] = NoBlob
         /\ uses[t] \in Task /\ hashed'[t] = agent[uses[t]].hash
         /\ UNCHANGED <<launched, receipts, pointer, up, snap, uses, blob, flush, sent, faults,
                        mishaps, agent, shared, pendingPointer, lastPublished, packs>>
         /\ disk'.here = disk.here
         /\ Brain \subseteq Brain' /\ Brain' \subseteq Brain \cup Lessons(t)
         /\ disk'.content.tape = disk.content.tape
         /\ disk'.content.lock = disk.content.lock /\ disk'.content.db = disk.content.db
<1>1. HermesTypes
  BY DEF Fits
<1>2. /\ UNCHANGED <<launched, receipts, pointer, up, snap, uses, blob, flush, sent, stops, faults,
                     mishaps, agent, shared, pendingPointer, lastPublished, packs>>
      /\ pc[t] = "run" /\ pc' = [pc EXCEPT ![t] = "hash"]
      /\ hashed' = [hashed EXCEPT ![t] = agent[uses[t]].hash]
  BY DEF Work, Goto, memory
<1>3. snap[t] = "none" /\ blob[t] = NoBlob /\ uses[t] \in Task
  BY <1>2 DEF Fits, BlobsFit, Exported, UsesFit
<1>4. agent[uses[t]].hash \subseteq Entry
  BY <1>1, <1>3, Shapes DEF AgentState
<1>5. /\ Elsewhere(t) /\ pc'[t] = "hash" /\ hashed'[t] = agent[uses[t]].hash
      /\ pc' \in [Task -> Loading \cup AtWork \cup Learnt] /\ hashed' \in [Task -> SUBSET Entry]
  BY <1>1, <1>2, <1>4, Shapes DEF Elsewhere, Tasks, AtWork
<1>6. Lessons(t) \in SUBSET Entry /\ Learn(uses[t], Lessons(t))
  BY DEF Work, Lessons, Entry
<1>7. HermesTypes'
  BY <1>1, <1>2, <1>5, <1>6, Shapes, Learned DEF HermesTypes
<1> QED BY <1>1, <1>2, <1>3, <1>5, <1>6, <1>7, Shapes, Learned

LEMMA FailDoes ==
  ASSUME Fits, NEW t \in Task, Fail(t)
  PROVE  /\ HermesTypes' /\ Elsewhere(t)
         /\ pc[t] = "run" /\ pc'[t] = "failed" /\ snap[t] = "none" /\ blob[t] = NoBlob
         /\ uses'[t] = NoTask
         /\ UNCHANGED <<launched, receipts, pointer, up, snap, hashed, blob, flush, sent,
                        mishaps, agent, shared, pendingPointer, lastPublished, packs>>
         /\ disk'.here = disk.here
         /\ Brain \subseteq Brain' /\ Brain' \subseteq Brain \cup Lessons(t)
         /\ disk'.content.tape = disk.content.tape
         /\ disk'.content.lock = disk.content.lock /\ disk'.content.db = disk.content.db
<1>1. HermesTypes
  BY DEF Fits
<1>2. /\ UNCHANGED <<launched, receipts, pointer, up, snap, hashed, blob, flush, sent, stops,
                     mishaps, agent, shared, pendingPointer, lastPublished, packs>>
      /\ pc[t] = "run" /\ pc' = [pc EXCEPT ![t] = "failed"]
      /\ uses' = [uses EXCEPT ![t] = NoTask] /\ Fault
  BY DEF Fail, Goto, memory, chain
<1>3. snap[t] = "none" /\ blob[t] = NoBlob
  BY <1>2 DEF Fits, BlobsFit, Exported
<1>4. PICK entries \in {{}, Lessons(t)} : Learn(uses[t], entries)
  BY DEF Fail
<1>5. entries \in SUBSET Entry /\ entries \subseteq Lessons(t)
  BY DEF Lessons, Entry
<1>6. /\ Elsewhere(t) /\ pc'[t] = "failed" /\ uses'[t] = NoTask
      /\ pc' \in [Task -> Loading \cup AtWork \cup Learnt] /\ uses' \in [Task -> Task \cup {NoTask}]
  BY <1>1, <1>2, Shapes DEF Elsewhere, Tasks, Learnt
<1>7. HermesTypes'
  BY <1>1, <1>2, <1>4, <1>5, <1>6, Shapes, Learned, FaultCounts DEF HermesTypes
<1> QED BY <1>1, <1>2, <1>3, <1>4, <1>5, <1>6, <1>7, Shapes, Learned

LEMMA CompareDoes ==
  ASSUME Fits, NEW t \in Task, Compare(t)
  PROVE  /\ HermesTypes' /\ Elsewhere(t)
         /\ pc[t] = "hash" /\ snap[t] = "none" /\ blob[t] = NoBlob /\ uses'[t] = NoTask
         /\ IF hashed[t] # Brain THEN pc'[t] = "saveChanged" /\ hashed'[t] = Brain
                                 ELSE pc'[t] = "save" /\ hashed'[t] = {}
         /\ UNCHANGED <<launched, receipts, pointer, up, snap, blob, flush, sent, faults,
                        shared, pendingPointer, lastPublished, packs>>
         /\ disk'.here = disk.here /\ Brain' = Brain
         /\ disk'.content.tape = disk.content.tape /\ disk'.content.db = disk.content.db
         /\ disk'.content.lock = IF Writers = {} THEN "torn" ELSE "mixed"
         /\ \A o \in Task : agent'[o].hash \in {Brain, agent[o].hash}
         /\ mishaps \subseteq mishaps' /\ (Writers \ {t} # {} => "clash" \in mishaps')
<1>1. HermesTypes
  BY DEF Fits
<1> DEFINE o == uses[t]
           a == [agent[o] EXCEPT !.hash = Brain]
<1>2. /\ UNCHANGED <<launched, receipts, pointer, up, snap, blob, flush, sent, stops, faults,
                     shared, pendingPointer, lastPublished, packs>>
      /\ pc[t] = "hash"
      /\ pc' = [pc EXCEPT ![t] = IF hashed[t] # Brain THEN "saveChanged" ELSE "save"]
      /\ hashed' = [hashed EXCEPT ![t] = IF hashed[t] # Brain THEN Brain ELSE {}]
      /\ uses' = [uses EXCEPT ![t] = NoTask]
      /\ WriteLock(Opened) /\ Happened(Clash(t))
  BY DEF Compare, Goto
<1>3. agent' = [agent EXCEPT ![o] = a]
  BY DEF Compare
<1>4. snap[t] = "none" /\ blob[t] = NoBlob /\ o \in Task
  BY <1>2 DEF Fits, BlobsFit, Exported, UsesFit
<1>5. Brain \in SUBSET Entry
  BY <1>1, Shapes, DiskFields
<1>6. agent[o] \in AgentState
  BY <1>1, <1>4, Shapes
<1>7. a \in AgentState /\ a.hash = Brain
  BY <1>5, <1>6 DEF AgentState
<1> HIDE DEF a
<1>8. agent' \in [Task -> AgentState] /\ \A p \in Task : agent'[p].hash \in {Brain, agent[p].hash}
  BY <1>1, <1>3, <1>4, <1>7, Shapes
<1> HIDE DEF o
<1>9. /\ Elsewhere(t) /\ uses'[t] = NoTask
      /\ pc' \in [Task -> Loading \cup AtWork \cup Learnt] /\ uses' \in [Task -> Task \cup {NoTask}]
      /\ hashed' \in [Task -> SUBSET Entry]
  BY <1>1, <1>2, <1>5, Shapes DEF Elsewhere, Tasks, Learnt
<1>10. IF hashed[t] # Brain THEN pc'[t] = "saveChanged" /\ hashed'[t] = Brain
                            ELSE pc'[t] = "save" /\ hashed'[t] = {}
  BY <1>1, <1>2, Shapes DEF Tasks
<1>11. /\ mishaps' \subseteq Mishap /\ mishaps \subseteq mishaps'
       /\ (Writers \ {t} # {} => "clash" \in mishaps')
  BY <1>1, <1>2, ClashIs, Mishaps
<1>12. HermesTypes'
  BY <1>1, <1>2, <1>8, <1>9, <1>11, Shapes, LockOpened DEF HermesTypes
<1> QED BY <1>1, <1>2, <1>4, <1>8, <1>9, <1>10, <1>11, <1>12, Shapes, LockOpened

LEMMA FinishDoes ==
  ASSUME Fits, NEW t \in Task, Finish(t)
  PROVE  /\ HermesTypes' /\ Elsewhere(t)
         /\ pc[t] \in {"save", "saveChanged"} /\ pc'[t] = "reply" /\ snap[t] = "none"
         /\ snap'[t] = IF pc[t] = "saveChanged" THEN "export" ELSE "done"
         /\ blob[t] = NoBlob
         /\ UNCHANGED <<launched, receipts, pointer, up, uses, hashed, blob, flush, sent, faults,
                        mishaps, agent, shared, pendingPointer, lastPublished, packs>>
         /\ disk'.here = disk.here /\ Brain' = Brain
         /\ disk'.content.tape = disk.content.tape /\ disk'.content.db = disk.content.db
         /\ disk'.content.lock \in {"whole", "torn", "mixed"}
         /\ disk.content.lock # "mixed" => disk'.content.lock = "whole"
<1>1. HermesTypes
  BY DEF Fits
<1>2. /\ UNCHANGED <<launched, receipts, pointer, up, uses, hashed, blob, flush, sent, stops, faults,
                     mishaps, agent, shared, pendingPointer, lastPublished, packs>>
      /\ pc[t] \in {"save", "saveChanged"} /\ pc' = [pc EXCEPT ![t] = "reply"]
      /\ snap' = [snap EXCEPT ![t] = IF pc[t] = "saveChanged" THEN "export" ELSE "done"]
      /\ \E lock \in Closed(t) : WriteLock(lock)
  BY DEF Finish, Goto, Chain, memory
<1>3. snap[t] = "none" /\ blob[t] = NoBlob
  BY <1>2 DEF Fits, BlobsFit, Exported
<1>4. /\ Elsewhere(t) /\ pc'[t] = "reply"
      /\ snap'[t] = IF pc[t] = "saveChanged" THEN "export" ELSE "done"
      /\ pc' \in [Task -> Loading \cup AtWork \cup Learnt]
      /\ snap' \in [Task -> {"none", "export", "done", "lost"} \cup Exported]
  BY <1>1, <1>2, Shapes DEF Elsewhere, Tasks, Learnt
<1>5. HermesTypes'
  BY <1>1, <1>2, <1>4, Shapes, LockClosed DEF HermesTypes
<1> QED BY <1>1, <1>2, <1>3, <1>4, <1>5, Shapes, LockClosed

LEMMA ReplyDoes ==
  ASSUME Fits, NEW t \in Task, Reply(t)
  PROVE  /\ HermesTypes' /\ Elsewhere(t)
         /\ pc[t] = "reply" /\ pc'[t] = "done" /\ receipts' = receipts \cup {t}
         /\ UNCHANGED <<launched, disk, pointer, up, snap, uses, hashed, blob, flush, sent, faults,
                        mishaps, agent, shared, pendingPointer, lastPublished, packs>>
<1>1. HermesTypes
  BY DEF Fits
<1>2. /\ UNCHANGED <<launched, disk, pointer, up, snap, uses, hashed, blob, flush, sent, stops, faults,
                     mishaps, agent, shared, pendingPointer, lastPublished, packs>>
      /\ pc[t] = "reply" /\ pc' = [pc EXCEPT ![t] = "done"] /\ receipts' = receipts \cup {t}
  BY DEF Reply, Goto, memory, chain
<1>3. /\ Elsewhere(t) /\ pc'[t] = "done" /\ pc' \in [Task -> Loading \cup AtWork \cup Learnt]
  BY <1>1, <1>2, Shapes DEF Elsewhere, Tasks, Learnt
<1>4. HermesTypes'
  BY <1>1, <1>2, <1>3 DEF HermesTypes
<1> QED BY <1>2, <1>3, <1>4

\* The tape is that of the receipts, or the old one.
LEMMA ExportDoes ==
  ASSUME Fits, NEW t \in Task, Export(t) \/ ExportFails(t)
  PROVE  LET b == blob'[t]
         IN  /\ HermesTypes' /\ Elsewhere(t)
             /\ snap[t] = "export" /\ snap'[t] = "tar" /\ hashed'[t] = hashed[t]
             /\ UNCHANGED <<launched, receipts, pointer, up, pc, uses, hashed, flush, sent,
                            agent, shared, pendingPointer, lastPublished>>
             /\ packs' = packs + 1 /\ mishaps \subseteq mishaps'
             /\ disk'.here = disk.here /\ Brain' = Brain
             /\ \/ disk'.content.tape = receipts
                \/ disk'.content.tape = disk.content.tape /\ "untaped" \in mishaps'
             /\ disk'.content.lock = disk.content.lock /\ disk'.content.db = disk.content.db
             /\ b \in Blob /\ b # NoBlob /\ b.content = disk'.content /\ b.content.brain = Brain
             /\ b.seq = packs + 1 /\ b.answered = {u \in Task : pc[u] = "done"}
<1>1. HermesTypes /\ Tasks /\ disk \in Disk /\ packs \in Nat /\ receipts \subseteq Task
  BY Shapes DEF Fits
<1>2. PICK tape \in {receipts, disk.content.tape} :
        ExportTape(t, tape) /\ (tape = receipts \/ "untaped" \in mishaps')
  BY DEF Export, ExportFails, Happened
<1> DEFINE c == [disk.content EXCEPT !.tape = tape]
           answered == {u \in Task : pc[u] = "done"}
           b == [content |-> c, seq |-> packs + 1, answered |-> answered]
<1>3. /\ disk' = [disk EXCEPT !.content = c] /\ blob' = [blob EXCEPT ![t] = b]
      /\ packs' = packs + 1 /\ snap[t] = "export" /\ snap' = [snap EXCEPT ![t] = "tar"]
      /\ UNCHANGED <<launched, receipts, pointer, up, pc, uses, hashed, flush, sent, stops,
                     agent, shared, pendingPointer, lastPublished>>
  BY <1>2 DEF ExportTape, Chain, memory
<1>4. disk.content \in Content /\ tape \subseteq Task
  BY <1>1, DiskFields
<1>5. /\ c \in Content /\ c.brain = disk.content.brain /\ c.tape = tape
      /\ c.lock = disk.content.lock /\ c.db = disk.content.db
  BY <1>4 DEF Content
<1> HIDE DEF c
<1>6. disk' \in Disk /\ disk'.here = disk.here /\ disk'.content = c
  BY <1>1, <1>3, <1>5, ContentSet
<1>7. b \in Blob /\ b.content = c /\ b.seq = packs + 1 /\ b.answered = answered
  BY <1>1, <1>5 DEF Blob
<1> HIDE DEF b
<1>8. b # NoBlob
  BY <1>7, BlobAssumption
<1>9. /\ Elsewhere(t) /\ snap'[t] = "tar" /\ blob'[t] = b
      /\ snap' \in [Task -> {"none", "export", "done", "lost"} \cup Exported]
      /\ blob' \in [Task -> Blob \cup {NoBlob}]
  BY <1>1, <1>3, <1>7 DEF Elsewhere, Tasks, Exported
<1>10. mishaps' \subseteq Mishap /\ mishaps \subseteq mishaps' /\ faults' \in 0 .. MaxFaults
  BY <1>1, FaultCounts DEF Export, ExportFails, Happened, HermesTypes, Mishap
<1>11. HermesTypes'
  BY <1>1, <1>3, <1>6, <1>9, <1>10 DEF HermesTypes
<1> QED BY <1>2, <1>3, <1>5, <1>6, <1>7, <1>8, <1>9, <1>10, <1>11 DEF Brain

\* What tar caught lies between what it started on and what there is now.
LEMMA TarDoes ==
  ASSUME Fits, NEW t \in Task, Tar(t)
  PROVE  LET x == blob[t]
             b == blob'[t]
         IN  /\ HermesTypes' /\ Elsewhere(t) /\ snap[t] = "tar" /\ snap'[t] = "upload"
             /\ UNCHANGED <<launched, disk, receipts, pointer, up, pc, uses, hashed, flush, sent, faults,
                            agent, shared, pendingPointer, lastPublished, packs>>
             /\ mishaps \subseteq mishaps'
             /\ x \in Blob /\ x # NoBlob /\ x \in Packed /\ x \in Fresh /\ x \in Blobs
             /\ b \in Blob /\ b # NoBlob /\ b.seq = x.seq /\ b.answered = x.answered
             /\ b.content.brain \subseteq x.content.brain \cup Brain
             /\ b.content.brain = x.content.brain \/ "caughtLater" \in mishaps'
             /\ b.content.tape \subseteq x.content.tape \cup disk.content.tape
             /\ x.content.tape \subseteq b.content.tape \/ "untaped" \in mishaps'
             /\ b.content.lock = IF disk.content.lock = "whole" THEN "whole" ELSE "torn"
             /\ \/ "halfPacked" \in mishaps'
                \/ /\ b.content.db = disk.content.db
                   /\ disk.content.lock = "whole" \/ Writers \ {t} = {}
<1>1. HermesTypes /\ Tasks /\ disk \in Disk
  BY Shapes DEF Fits
<1>2. /\ UNCHANGED <<launched, disk, receipts, pointer, up, pc, uses, hashed, flush, sent, stops, faults,
                     agent, shared, pendingPointer, lastPublished, packs>>
      /\ snap[t] = "tar" /\ snap' = [snap EXCEPT ![t] = "upload"]
  BY DEF Tar, Chain, memory
<1>3. blob[t] # NoBlob /\ blob[t] \in Blobs /\ blob[t] \in Packed /\ blob[t] \in Fresh
  BY <1>2 DEF Fits, BlobsFit, Exported, Packed, Fresh, Blobs
<1>4. blob[t] \in Blob
  BY <1>1, <1>3 DEF Tasks
<1> DEFINE x == blob[t]
           lock == IF disk.content.lock = "whole" THEN "whole" ELSE "torn"
           writing == \E u \in Task : pc[u] = "run"
<1>5. PICK brain \in Caught(x.content.brain, Brain),
           tape \in IF disk.content.tape = x.content.tape THEN {x.content.tape}
                    ELSE SUBSET (x.content.tape \cup disk.content.tape),
           db \in {disk.content.db} \cup (IF writing THEN {FALSE} ELSE {}) :
        /\ blob' = [blob EXCEPT ![t].content = [brain |-> brain, tape |-> tape,
                                                lock |-> lock, db |-> db]]
        /\ Happened((IF brain # x.content.brain THEN {"caughtLater"} ELSE {})
                    \cup (IF x.content.tape \subseteq tape THEN {} ELSE {"untaped"})
                    \cup (IF db = disk.content.db /\ (lock = "whole" \/ Writers \ {t} = {})
                            THEN {} ELSE {"halfPacked"}))
  BY DEF Tar, Brain
<1>6. /\ x.content \in Content /\ x.content.brain \subseteq Entry /\ x.content.tape \subseteq Task
      /\ disk.content.tape \subseteq Task /\ Brain \subseteq Entry /\ disk.content.db \in BOOLEAN
  BY <1>1, <1>4, DiskFields DEF Blob, Content
<1>7. /\ brain \subseteq x.content.brain \cup Brain
      /\ tape \subseteq x.content.tape \cup disk.content.tape /\ db \in BOOLEAN
  BY <1>5, <1>6 DEF Caught
<1> DEFINE c == [brain |-> brain, tape |-> tape, lock |-> lock, db |-> db]
           b == [x EXCEPT !.content = c]
<1>8. c \in Content
  BY <1>6, <1>7 DEF Content
<1>9. c.brain = brain /\ c.tape = tape /\ c.lock = lock /\ c.db = db
  OBVIOUS
<1>10. blob' = [blob EXCEPT ![t] = b]
  BY <1>5
<1> HIDE DEF c
<1>11. b \in Blob /\ b.content = c /\ b.seq = x.seq /\ b.answered = x.answered
  BY <1>4, <1>8 DEF Blob
<1> HIDE DEF b
<1>12. b # NoBlob
  BY <1>11, BlobAssumption
<1>13. /\ Elsewhere(t) /\ snap'[t] = "upload" /\ blob'[t] = b
       /\ snap' \in [Task -> {"none", "export", "done", "lost"} \cup Exported]
       /\ blob' \in [Task -> Blob \cup {NoBlob}]
  BY <1>1, <1>2, <1>10, <1>11 DEF Elsewhere, Tasks, Exported
<1>14. /\ mishaps \subseteq mishaps' /\ mishaps' \subseteq Mishap
       /\ brain = x.content.brain \/ "caughtLater" \in mishaps'
       /\ x.content.tape \subseteq tape \/ "untaped" \in mishaps'
       /\ \/ "halfPacked" \in mishaps'
          \/ db = disk.content.db /\ (lock = "whole" \/ Writers \ {t} = {})
  BY <1>1, <1>5 DEF Happened, HermesTypes, Mishap
<1>15. HermesTypes'
  BY <1>1, <1>2, <1>13, <1>14 DEF HermesTypes
<1> QED BY <1>2, <1>3, <1>4, <1>7, <1>9, <1>11, <1>12, <1>13, <1>14, <1>15

LEMMA SnapshotFailsDoes ==
  ASSUME Fits, NEW t \in Task, SnapshotFails(t)
  PROVE  /\ HermesTypes' /\ Elsewhere(t)
         /\ snap[t] \in {"export", "tar", "upload"} /\ snap'[t] = "lost"
         /\ hashed'[t] = {} /\ blob'[t] = NoBlob
         /\ UNCHANGED <<launched, disk, receipts, pointer, up, pc, uses, flush, sent,
                        agent, shared, pendingPointer, lastPublished, packs>>
         /\ mishaps' = mishaps \cup {"lost"}
<1>1. HermesTypes
  BY DEF Fits
<1>2. /\ UNCHANGED <<launched, disk, receipts, pointer, up, pc, uses, flush, sent, stops,
                     agent, shared, pendingPointer, lastPublished, packs>>
      /\ snap[t] \in {"export", "tar", "upload"} /\ snap' = [snap EXCEPT ![t] = "lost"]
      /\ hashed' = [hashed EXCEPT ![t] = {}] /\ blob' = [blob EXCEPT ![t] = NoBlob] /\ Fault
      /\ mishaps' = mishaps \cup {"lost"}
  BY DEF SnapshotFails, Chain, Release, Happened, memory
<1>3. /\ Elsewhere(t) /\ snap'[t] = "lost" /\ hashed'[t] = {} /\ blob'[t] = NoBlob
      /\ snap' \in [Task -> {"none", "export", "done", "lost"} \cup Exported]
      /\ hashed' \in [Task -> SUBSET Entry] /\ blob' \in [Task -> Blob \cup {NoBlob}]
  BY <1>1, <1>2, Shapes DEF Elsewhere, Tasks
<1>4. HermesTypes'
  BY <1>1, <1>2, <1>3, FaultCounts DEF HermesTypes, Mishap
<1> QED BY <1>2, <1>3, <1>4

LEMMA InChain ==
  ASSUME Fits, NEW t \in Task, snap[t] \in Exported
  PROVE  /\ blob[t] \in Packed /\ blob[t] \in Fresh /\ blob[t] \in Blobs
         /\ blob[t] # NoBlob /\ blob[t] \in Blob
<1>1. blob[t] # NoBlob
  BY DEF Fits, BlobsFit
<1> QED BY <1>1, Shapes DEF Fits, Packed, Fresh, Blobs

LEMMA UploadDoes ==
  ASSUME Fits, NEW t \in Task, Upload(t)
  PROVE  /\ HermesTypes' /\ Elsewhere(t) /\ snap[t] = "upload" /\ snap'[t] = "relock"
         /\ UNCHANGED <<launched, receipts, pointer, up, pc, uses, hashed, blob, flush, sent, faults,
                        agent, shared, pendingPointer, lastPublished, packs>>
         /\ disk'.here = disk.here /\ Brain' = Brain
         /\ disk'.content.tape = disk.content.tape /\ disk'.content.db = disk.content.db
         /\ disk'.content.lock = IF Writers = {} THEN "torn" ELSE "mixed"
         /\ mishaps \subseteq mishaps' /\ (Writers \ {t} # {} => "clash" \in mishaps')
<1>1. HermesTypes
  BY DEF Fits
<1>2. /\ UNCHANGED <<launched, receipts, pointer, up, pc, uses, hashed, blob, flush, sent, stops,
                     faults, agent, shared, pendingPointer, lastPublished, packs>>
      /\ snap[t] = "upload" /\ snap' = [snap EXCEPT ![t] = "relock"]
      /\ WriteLock(Opened) /\ Happened(Clash(t))
  BY DEF Upload, Chain, memory
<1>3. /\ Elsewhere(t) /\ snap'[t] = "relock"
      /\ snap' \in [Task -> {"none", "export", "done", "lost"} \cup Exported]
  BY <1>1, <1>2, Shapes DEF Elsewhere, Tasks, Exported
<1>4. /\ mishaps' \subseteq Mishap /\ mishaps \subseteq mishaps'
      /\ (Writers \ {t} # {} => "clash" \in mishaps')
  BY <1>1, <1>2, ClashIs, Mishaps
<1>5. HermesTypes'
  BY <1>1, <1>2, <1>3, <1>4, Shapes, LockOpened DEF HermesTypes
<1> QED BY <1>1, <1>2, <1>3, <1>4, <1>5, Shapes, LockOpened

LEMMA RelockDoes ==
  ASSUME Fits, NEW t \in Task, Relock(t)
  PROVE  /\ HermesTypes' /\ Elsewhere(t) /\ snap[t] = "relock"
         /\ UNCHANGED <<launched, receipts, pointer, up, pc, uses, flush, sent, faults, agent, shared,
                        lastPublished, packs>>
         /\ disk'.here = disk.here /\ Brain' = Brain
         /\ disk'.content.tape = disk.content.tape /\ disk'.content.db = disk.content.db
         /\ disk'.content.lock \in {"whole", "torn", "mixed"}
         /\ disk.content.lock # "mixed" => disk'.content.lock = "whole"
         /\ mishaps \subseteq mishaps'
         /\ \/ /\ hashed[t] = lastPublished
               /\ snap'[t] = "done" /\ hashed'[t] = {} /\ blob'[t] = NoBlob
               /\ UNCHANGED <<pendingPointer, mishaps>>
            \/ /\ hashed[t] # lastPublished
               /\ snap'[t] = "send" /\ pendingPointer' = blob[t]
               /\ UNCHANGED <<hashed, blob>>
               /\ Older(blob[t], pendingPointer) => "erased" \in mishaps'
<1>1. HermesTypes
  BY DEF Fits
<1>2. /\ UNCHANGED <<launched, receipts, pointer, up, pc, uses, flush, sent, stops, faults, agent,
                     shared, lastPublished, packs>>
      /\ snap[t] = "relock" /\ \E lock \in Closed(t) : WriteLock(lock)
  BY DEF Relock
<1>3. blob[t] \in Blob
  BY <1>2, InChain DEF Exported
<1>4. \/ /\ hashed[t] = lastPublished
         /\ snap' = [snap EXCEPT ![t] = "done"]
         /\ hashed' = [hashed EXCEPT ![t] = {}] /\ blob' = [blob EXCEPT ![t] = NoBlob]
         /\ UNCHANGED <<pendingPointer, mishaps>>
      \/ /\ hashed[t] # lastPublished
         /\ snap' = [snap EXCEPT ![t] = "send"] /\ pendingPointer' = blob[t]
         /\ UNCHANGED <<hashed, blob>>
         /\ mishaps' = mishaps \cup (IF Older(blob[t], pendingPointer) THEN {"erased"} ELSE {})
  BY DEF Relock, Chain, Release, Happened
<1>5. \/ /\ hashed[t] = lastPublished
         /\ snap'[t] = "done" /\ hashed'[t] = {} /\ blob'[t] = NoBlob
         /\ UNCHANGED <<pendingPointer, mishaps>>
      \/ /\ hashed[t] # lastPublished
         /\ snap'[t] = "send" /\ pendingPointer' = blob[t]
         /\ UNCHANGED <<hashed, blob>>
         /\ Older(blob[t], pendingPointer) => "erased" \in mishaps'
  BY <1>1, <1>4, Shapes DEF Tasks
<1>6. /\ Elsewhere(t)
      /\ snap' \in [Task -> {"none", "export", "done", "lost"} \cup Exported]
      /\ hashed' \in [Task -> SUBSET Entry] /\ blob' \in [Task -> Blob \cup {NoBlob}]
  BY <1>1, <1>2, <1>4, Shapes DEF Elsewhere, Tasks, Exported
<1>7. /\ mishaps' \subseteq Mishap /\ mishaps \subseteq mishaps'
      /\ pendingPointer' \in Blob \cup {NoBlob}
  BY <1>1, <1>3, <1>4 DEF HermesTypes, Mishap
<1>8. HermesTypes'
  BY <1>1, <1>2, <1>6, <1>7, Shapes, LockClosed DEF HermesTypes
<1> QED BY <1>1, <1>2, <1>5, <1>6, <1>7, <1>8, Shapes, LockClosed

LEMMA PublishDoes ==
  ASSUME Fits, NEW t \in Task, Publish(t)
  PROVE  /\ HermesTypes' /\ Elsewhere(t) /\ snap[t] = "send" /\ snap'[t] = "done"
         /\ blob[t] \in Fresh /\ blob[t] \in Blobs /\ blob[t] # NoBlob
         /\ hashed'[t] = {} /\ blob'[t] = NoBlob
         /\ UNCHANGED <<launched, disk, receipts, up, pc, uses, flush, sent, faults, agent, shared,
                        packs>>
         /\ pointer' = blob[t] /\ lastPublished' = hashed[t] /\ pendingPointer' = NoBlob
         /\ mishaps \subseteq mishaps'
         /\ Older(blob[t], pointer) => "overtaken" \in mishaps'
         /\ pendingPointer \notin {blob[t], NoBlob} => "erased" \in mishaps'
<1>1. HermesTypes
  BY DEF Fits
<1>2. /\ UNCHANGED <<launched, disk, receipts, up, pc, uses, flush, sent, stops, faults, agent, shared,
                     packs>>
      /\ snap[t] = "send" /\ snap' = [snap EXCEPT ![t] = "done"]
      /\ hashed' = [hashed EXCEPT ![t] = {}] /\ blob' = [blob EXCEPT ![t] = NoBlob]
      /\ pointer' = blob[t] /\ lastPublished' = hashed[t] /\ pendingPointer' = NoBlob
      /\ mishaps' = mishaps \cup ((IF Older(blob[t], pointer) THEN {"overtaken"} ELSE {})
                                  \cup (IF pendingPointer \notin {blob[t], NoBlob} THEN {"erased"} ELSE {}))
  BY DEF Publish, Chain, Release, Happened
<1>3. blob[t] \in Fresh /\ blob[t] \in Blobs /\ blob[t] # NoBlob /\ blob[t] \in Blob
  BY <1>2, InChain DEF Exported
<1>4. /\ Elsewhere(t) /\ snap'[t] = "done" /\ hashed'[t] = {} /\ blob'[t] = NoBlob
      /\ snap' \in [Task -> {"none", "export", "done", "lost"} \cup Exported]
      /\ hashed' \in [Task -> SUBSET Entry] /\ blob' \in [Task -> Blob \cup {NoBlob}]
      /\ hashed[t] \subseteq Entry
  BY <1>1, <1>2, Shapes DEF Elsewhere, Tasks
<1>5. /\ mishaps \subseteq mishaps' /\ mishaps' \subseteq Mishap
      /\ Older(blob[t], pointer) => "overtaken" \in mishaps'
      /\ pendingPointer \notin {blob[t], NoBlob} => "erased" \in mishaps'
  BY <1>1, <1>2 DEF HermesTypes, Mishap
<1>6. HermesTypes'
  BY <1>1, <1>2, <1>3, <1>4, <1>5 DEF HermesTypes
<1> QED BY <1>2, <1>3, <1>4, <1>5, <1>6

LEMMA PublishFailsDoes ==
  ASSUME Fits, NEW t \in Task, PublishFails(t)
  PROVE  /\ HermesTypes' /\ Elsewhere(t) /\ snap[t] = "send" /\ snap'[t] = "done"
         /\ hashed'[t] = {} /\ blob'[t] = NoBlob /\ blob[t] \in Blobs
         /\ sent' \in {sent, sent \cup {blob[t]}}
         /\ UNCHANGED <<launched, disk, receipts, pointer, up, pc, uses, flush, mishaps, agent, shared,
                        pendingPointer, lastPublished, packs>>
<1>1. HermesTypes
  BY DEF Fits
<1>2. /\ UNCHANGED <<launched, disk, receipts, pointer, up, pc, uses, flush, stops, mishaps, agent,
                     shared, pendingPointer, lastPublished, packs>>
      /\ snap[t] = "send" /\ snap' = [snap EXCEPT ![t] = "done"]
      /\ hashed' = [hashed EXCEPT ![t] = {}] /\ blob' = [blob EXCEPT ![t] = NoBlob] /\ Fault
      /\ sent' \in {sent, sent \cup {blob[t]}}
  BY DEF PublishFails, Chain, Release, memory
<1>3. blob[t] \in Blob /\ blob[t] \in Blobs
  BY <1>2, InChain DEF Exported
<1>4. /\ Elsewhere(t) /\ snap'[t] = "done" /\ hashed'[t] = {} /\ blob'[t] = NoBlob
      /\ snap' \in [Task -> {"none", "export", "done", "lost"} \cup Exported]
      /\ hashed' \in [Task -> SUBSET Entry] /\ blob' \in [Task -> Blob \cup {NoBlob}]
  BY <1>1, <1>2, Shapes DEF Elsewhere, Tasks
<1>5. sent' \subseteq Blob
  BY <1>1, <1>2, <1>3 DEF HermesTypes
<1>6. HermesTypes'
  BY <1>1, <1>2, <1>4, <1>5, FaultCounts DEF HermesTypes
<1> QED BY <1>2, <1>3, <1>4, <1>6

LEMMA LandLateDoes ==
  ASSUME Fits, LandLate
  PROVE  /\ HermesTypes'
         /\ UNCHANGED <<launched, disk, receipts, up, pc, snap, uses, hashed, blob, flush, faults,
                        agent, shared, pendingPointer, lastPublished, packs>>
         /\ pointer' \in Blobs /\ pointer' \in Sealed /\ sent' \subseteq sent
         /\ mishaps' = mishaps \cup {"lateWrite"}
<1>1. PICK b \in sent : pointer' = b /\ sent' = sent \ {b}
  BY DEF LandLate
<1>2. /\ UNCHANGED <<launched, disk, receipts, up, pc, snap, uses, hashed, blob, flush, stops, faults,
                     agent, shared, pendingPointer, lastPublished, packs>>
      /\ mishaps' = mishaps \cup {"lateWrite"}
  BY DEF LandLate, Happened, memory, chain
<1>3. HermesTypes /\ b \in Blob
  BY <1>1 DEF Fits, HermesTypes
<1>4. b \in Blobs /\ b \in Sealed
  BY <1>1, <1>3, BlobAssumption DEF Blobs, Sealed
<1>5. HermesTypes'
  BY <1>1, <1>2, <1>3 DEF HermesTypes, Mishap
<1> QED BY <1>1, <1>2, <1>4, <1>5

\* A process that ends may have written the pointer it had pending; m is what the write overtook.
Stops(written, m) ==
  /\ Exit(written, m) /\ m \subseteq {"overtaken"}
  /\ stops' \in 0 .. MaxStops /\ faults' \in 0 .. MaxFaults
  /\ \/ written = NoBlob /\ pointer' = pointer
     \/ /\ written = flush /\ flush # NoBlob /\ pointer' = flush
        /\ Older(flush, pointer) => "overtaken" \in m

LEMMA OperatorDoes ==
  ASSUME Fits, Crash \/ Terminate \/ Flush \/ FlushFails
  PROVE  (\E w, m : Stops(w, m)) \/ (Terminate /\ up' = "flushing")
<1>1. /\ stops \in 0 .. MaxStops /\ faults \in 0 .. MaxFaults /\ HermesTypes
      /\ stops < MaxStops => stops + 1 \in 0 .. MaxStops
  BY HermesAssumption DEF Fits, HermesTypes
<1>2. Crash => Stops(NoBlob, {})
  BY <1>1 DEF Crash, Stops
<1>3. FlushFails => Stops(NoBlob, {})
  BY <1>1, FaultCounts DEF FlushFails, Stops
<1>4. Terminate => Stops(NoBlob, {}) \/ up' = "flushing"
  BY <1>1 DEF Terminate, Stops
<1>5. Flush => Stops(flush, IF Older(flush, pointer) THEN {"overtaken"} ELSE {})
  BY <1>1 DEF Flush, Stops, Fits, FlushFits
<1> QED BY <1>2, <1>3, <1>4, <1>5

LEMMA Stopped ==
  ASSUME Fits, NEW w, NEW m, Stops(w, m)
  PROVE  /\ HermesTypes'
         /\ up' = "down" /\ flush' = NoBlob /\ shared' = NoTask /\ pendingPointer' = NoBlob
         /\ lastPublished' = {} /\ UNCHANGED <<launched, receipts, packs>>
         /\ disk'.here = disk.here /\ Brain' = Brain
         /\ disk'.content.tape = disk.content.tape /\ disk'.content.db = disk.content.db
         /\ disk'.content.lock = IF disk.content.lock = "mixed" THEN "torn" ELSE disk.content.lock
         /\ disk.content = Empty => disk'.content = Empty
         /\ \A t \in Task : pc'[t] = IF pc[t] \in {"idle", "done", "failed"} THEN pc[t] ELSE "killed"
         /\ \A t \in Task : /\ snap'[t] = IF Chaining(t) THEN "lost" ELSE snap[t]
                            /\ blob'[t] = NoBlob /\ uses'[t] = NoTask /\ hashed'[t] = {}
                            /\ agent'[t].hash = {}
         /\ \A b \in sent' : b \in Blobs /\ b \in Sealed
         /\ pointer' = pointer \/ (w = flush /\ flush # NoBlob /\ pointer' = flush
                                   /\ (Older(flush, pointer) => "overtaken" \in mishaps'))
         /\ mishaps \subseteq mishaps'
         /\ (\E t \in Task : pc[t] = "untar") => "restoreFailed" \in mishaps'
         /\ \/ pendingPointer \notin {w, NoBlob}
            \/ \E t \in Task : pc[t] = "saveChanged" \/ snap[t] \in {"export", "tar", "upload", "relock"}
            => "lost" \in mishaps'
         /\ w = NoBlob \/ (w = flush /\ pointer' = flush)
<1>1. /\ HermesTypes /\ Tasks /\ disk \in Disk /\ mishaps \subseteq Mishap
      /\ Exit(w, m) /\ m \in SUBSET Mishap
  BY Shapes DEF Fits, Stops, Mishap
<1> DEFINE chained == {t \in Task : snap[t] \in {"export", "tar", "upload", "relock", "send"}}
           waiting == {blob[t] : t \in {u \in Task : snap[u] = "send"}} \cup {flush}
           lock == IF disk.content.lock = "mixed" THEN "torn" ELSE disk.content.lock
<1>2. /\ up' = "down" /\ flush' = NoBlob /\ shared' = NoTask /\ pendingPointer' = NoBlob
      /\ lastPublished' = {} /\ UNCHANGED <<launched, receipts, packs>>
      /\ sent' = sent \cup (waiting \ {w, NoBlob})
      /\ pc' = [t \in Task |-> IF pc[t] \in {"idle", "done", "failed"} THEN pc[t] ELSE "killed"]
      /\ snap' = [t \in Task |-> IF t \in chained THEN "lost" ELSE snap[t]]
      /\ WriteLock(lock)
      /\ blob' = [t \in Task |-> NoBlob] /\ agent' = [t \in Task |-> NoAgent]
      /\ uses' = [t \in Task |-> NoTask] /\ hashed' = [t \in Task |-> {}]
  BY <1>1 DEF Exit, WriteLock
<1>3. lock \in Locks
  BY <1>1, DiskFields DEF Locks
<1>4. /\ disk' \in Disk /\ disk'.here = disk.here /\ Brain' = Brain
      /\ disk'.content.tape = disk.content.tape /\ disk'.content.db = disk.content.db
      /\ disk'.content.lock = lock
  BY <1>1, <1>2, <1>3, Locked
<1>5. disk.content = Empty => disk'.content = Empty
  <2> SUFFICES ASSUME disk.content = Empty PROVE disk'.content = Empty
    OBVIOUS
  <2> DEFINE c == disk'.content
  <2>1. c \in Content
    BY <1>4 DEF Disk
  <2>2. c.brain = {} /\ c.tape = {} /\ c.db = TRUE /\ c.lock = "none"
    BY <1>4 DEF Empty, Brain
  <2> HIDE DEF c
  <2>3. c = [brain |-> c.brain, tape |-> c.tape, lock |-> c.lock, db |-> c.db]
    BY <2>1 DEF Content
  <2> QED BY <2>2, <2>3 DEF Empty, c
<1>6. \A b \in sent' : b \in Blobs /\ b \in Sealed /\ b \in Blob
  <2>1. \A t \in Task : snap[t] = "send" => blob[t] \in Blobs /\ blob[t] \in Sealed /\ blob[t] \in Blob
    BY InChain DEF Exported, Sealed
  <2>2. \A b \in sent : b \in Blobs /\ b \in Sealed /\ b \in Blob
    BY <1>1, BlobAssumption DEF Blobs, Sealed, HermesTypes
  <2>3. flush # NoBlob => flush \in Blobs /\ flush \in Sealed /\ flush \in Blob
    BY <1>1 DEF Blobs, Sealed, HermesTypes
  <2> QED BY <1>2, <2>1, <2>2, <2>3
<1>7. pointer' = pointer \/ (w = flush /\ flush # NoBlob /\ pointer' = flush
                             /\ (Older(flush, pointer) => "overtaken" \in mishaps'))
  BY <1>1 DEF Stops, Exit, Happened
<1>8. /\ mishaps \subseteq mishaps' /\ mishaps' \subseteq Mishap
      /\ (\E t \in Task : pc[t] = "untar") => "restoreFailed" \in mishaps'
      /\ \/ pendingPointer \notin {w, NoBlob}
         \/ \E t \in Task : pc[t] = "saveChanged" \/ snap[t] \in {"export", "tar", "upload", "relock"}
         => "lost" \in mishaps'
  BY <1>1 DEF Exit, Happened, Mishap
<1>9. \A t \in Task : /\ snap'[t] = IF Chaining(t) THEN "lost" ELSE snap[t]
                      /\ blob'[t] = NoBlob /\ uses'[t] = NoTask /\ hashed'[t] = {}
                      /\ agent'[t].hash = {}
  BY <1>2 DEF Chaining, NoAgent
<1>10. HermesTypes'
  <2>1. /\ pc' \in [Task -> Loading \cup AtWork \cup Learnt]
        /\ snap' \in [Task -> {"none", "export", "done", "lost"} \cup Exported]
    BY <1>1, <1>2 DEF Tasks, Learnt, Loading
  <2>2. NoAgent \in AgentState
    BY DEF NoAgent, AgentState
  <2>3. /\ agent' \in [Task -> AgentState] /\ uses' \in [Task -> Task \cup {NoTask}]
        /\ hashed' \in [Task -> SUBSET Entry] /\ blob' \in [Task -> Blob \cup {NoBlob}]
    BY <1>2, <2>2
  <2>4. pointer' \in Blob \cup {NoBlob} /\ stops' \in 0 .. MaxStops /\ faults' \in 0 .. MaxFaults
    BY <1>1, <1>7 DEF HermesTypes, Stops
  <2>5. sent' \subseteq Blob
    BY <1>6
  <2> QED BY <1>1, <1>2, <1>4, <1>8, <2>1, <2>3, <2>4, <2>5 DEF HermesTypes
<1>11. w = NoBlob \/ (w = flush /\ pointer' = flush)
  BY DEF Stops
<1> QED BY <1>2, <1>4, <1>5, <1>6, <1>7, <1>8, <1>9, <1>10, <1>11

LEMMA TerminateDoes ==
  ASSUME Fits, Terminate, up' = "flushing"
  PROVE  /\ HermesTypes'
         /\ up = "up" /\ flush' = pendingPointer /\ pendingPointer # NoBlob
         /\ UNCHANGED <<launched, disk, receipts, pointer, pc, snap, uses, hashed, blob, sent, faults,
                        agent, shared, pendingPointer, lastPublished, packs, mishaps>>
<1>1. /\ up = "up" /\ flush' = pendingPointer /\ pendingPointer # NoBlob
      /\ stops < MaxStops /\ stops' = stops + 1
      /\ UNCHANGED <<launched, disk, receipts, pointer, pc, snap, uses, hashed, blob, sent, faults,
                     agent, shared, pendingPointer, lastPublished, packs, mishaps>>
  BY DEF Terminate, Exit, memory, chain
<1>2. HermesTypes
  BY DEF Fits
<1>3. stops' \in 0 .. MaxStops
  BY <1>1, <1>2, HermesAssumption DEF HermesTypes
<1> QED BY <1>1, <1>2, <1>3 DEF HermesTypes

LEMMA BootDoes ==
  ASSUME Fits, Boot
  PROVE  /\ HermesTypes' /\ up = "down" /\ up' = "up"
         /\ UNCHANGED <<launched, disk, receipts, pointer, pc, snap, uses, hashed, blob, flush, sent,
                        faults, agent, shared, pendingPointer, lastPublished, packs, mishaps>>
BY DEF Boot, memory, chain, Fits, HermesTypes

LEMMA WipeDoes ==
  ASSUME Fits, Wipe
  PROVE  /\ HermesTypes' /\ up = "down" /\ disk.here
         /\ UNCHANGED <<launched, pointer, up, pc, snap, uses, hashed, blob, flush, sent, faults,
                        agent, shared, pendingPointer, lastPublished, packs>>
         /\ ~disk'.here /\ disk'.content = Empty /\ Brain' = {} /\ receipts' = {}
         /\ mishaps \subseteq mishaps'
         /\ launched => "unrestored" \in mishaps'
         /\ (\E t \in receipts, b \in {pointer} \cup sent : b = NoBlob \/ t \notin b.content.tape)
              => "receiptsLost" \in mishaps'
<1>1. disk' = [here |-> FALSE, content |-> Empty] /\ receipts' = {}
  BY DEF Wipe
<1>2. ~disk'.here /\ disk'.content = Empty /\ Brain' = {}
  BY <1>1 DEF Empty, Brain
<1>3. HermesTypes
  BY DEF Fits
<1>4. Empty \in Content
  BY DEF Empty, Content
<1>5. disk' \in Disk
  BY <1>1, <1>4, Made
<1>6. /\ UNCHANGED <<launched, pointer, up, pc, snap, uses, hashed, blob, flush, sent, stops, faults,
                     agent, shared, pendingPointer, lastPublished, packs>>
      /\ up = "down" /\ disk.here
  BY DEF Wipe, memory, chain
<1>7. /\ mishaps \subseteq mishaps' /\ mishaps' \subseteq Mishap
      /\ launched => "unrestored" \in mishaps'
      /\ (\E t \in receipts, b \in {pointer} \cup sent : b = NoBlob \/ t \notin b.content.tape)
           => "receiptsLost" \in mishaps'
  BY <1>3 DEF Wipe, Happened, HermesTypes, Mishap
<1>8. HermesTypes'
  BY <1>1, <1>3, <1>5, <1>6, <1>7 DEF HermesTypes
<1> QED BY <1>1, <1>2, <1>6, <1>7, <1>8

---------------------------------------------------------------------------
\* The steps, in groups.

TaskStep(t) == LoadStep(t) \/ RunStep(t) \/ ChainStep(t)
Rest == (Terminate /\ up' = "flushing") \/ Boot \/ UNCHANGED vars

LEMMA Steps ==
  ASSUME Fits, [Next]_vars
  PROVE  (\E t \in Task : TaskStep(t)) \/ LandLate \/ (\E w, m : Stops(w, m)) \/ Wipe \/ Rest
BY OperatorDoes DEF Next, TaskStep, Rest

LEMMA Rests ==
  ASSUME Fits, Rest
  PROVE  /\ HermesTypes'
         /\ UNCHANGED <<launched, disk, receipts, pointer, pc, snap, uses, hashed, blob, sent, faults,
                        agent, shared, pendingPointer, lastPublished, packs, mishaps>>
         /\ \/ UNCHANGED <<up, flush>>
            \/ up = "up" /\ up' = "flushing" /\ flush' = pendingPointer /\ pendingPointer # NoBlob
            \/ up = "down" /\ up' = "up" /\ flush' = flush
<1>1. CASE UNCHANGED vars
  BY <1>1 DEF vars, memory, chain, Fits, HermesTypes
<1>2. CASE Boot \/ (Terminate /\ up' = "flushing")
  BY <1>2, BootDoes, TerminateDoes
<1> QED BY <1>1, <1>2 DEF Rest

\* A task step moves only its own task, and never backwards.
LEMMA Moves ==
  ASSUME Fits, NEW t \in Task, TaskStep(t)
  PROVE  /\ HermesTypes' /\ Elsewhere(t) /\ UNCHANGED <<up, flush, launched>> /\ up # "down"
         /\ mishaps \subseteq mishaps' /\ packs' \in {packs, packs + 1}
         /\ receipts \subseteq receipts' /\ (disk.here => disk'.here)
         /\ pc[t] \notin Loading => pc'[t] \notin Loading
         /\ pc[t] \in Learnt => pc'[t] \in Learnt
         /\ snap'[t] # snap[t] => snap'[t] # "none" /\ pc'[t] \in {"reply", "done", "killed"}
         /\ pc'[t] # pc[t] => snap[t] = "none" \/ Reply(t)
<1>1. snap[t] # "none" => pc[t] \in {"reply", "done", "killed"}
  BY DEF Fits, BlobsFit
<1>2. up = "down" => pc[t] \in {"idle", "done", "failed", "killed"} /\ snap[t] \in {"none", "done", "lost"}
  BY DEF Fits, DownIsEmpty
<1>3. CASE LoadStep(t)
  BY <1>2, <1>3, BeginDoes, ReadPointerDoes, UntarDoes, RestoreFailsDoes, PrepareDoes, OpenDoes,
     LoadFailsDoes, LoadedDoes DEF LoadStep, Loading, Learnt
<1>4. CASE RunStep(t)
  BY <1>2, <1>4, WorkDoes, FailDoes, CompareDoes, FinishDoes, ReplyDoes DEF RunStep, Loading, Learnt
<1>5. CASE ChainStep(t)
  <2>1. CASE Export(t) \/ ExportFails(t)
    BY <1>1, <1>2, <2>1, ExportDoes DEF Loading, Learnt
  <2>2. CASE Tar(t)
    BY <1>1, <1>2, <2>2, TarDoes DEF Loading, Learnt
  <2>3. CASE SnapshotFails(t) \/ Upload(t)
    BY <1>1, <1>2, <2>3, SnapshotFailsDoes, UploadDoes DEF Loading, Learnt
  <2>4. CASE Relock(t)
    BY <1>1, <1>2, <2>4, RelockDoes DEF Loading, Learnt
  <2>5. CASE Publish(t) \/ PublishFails(t)
    BY <1>1, <1>2, <2>5, PublishDoes, PublishFailsDoes DEF Loading, Learnt
  <2> QED BY <1>5, <2>1, <2>2, <2>3, <2>4, <2>5 DEF ChainStep
<1> QED BY <1>3, <1>4, <1>5 DEF TaskStep

LEMMA Histories ==
  ASSUME Fits, [Next]_vars
  PROVE  /\ HermesTypes' /\ mishaps \subseteq mishaps'
         /\ packs \in Nat /\ packs' \in {packs, packs + 1} /\ packs <= packs'
<1>1. packs \in Nat
  BY DEF Fits, HermesTypes
<1>2. HermesTypes' /\ mishaps \subseteq mishaps' /\ packs' \in {packs, packs + 1}
  <2>1. ASSUME NEW t \in Task, TaskStep(t)
        PROVE  HermesTypes' /\ mishaps \subseteq mishaps' /\ packs' \in {packs, packs + 1}
    BY <2>1, Moves
  <2>2. ASSUME NEW w, NEW m, Stops(w, m)
        PROVE  HermesTypes' /\ mishaps \subseteq mishaps' /\ packs' = packs
    BY <2>2, Stopped
  <2>3. LandLate \/ Wipe \/ Rest => HermesTypes' /\ mishaps \subseteq mishaps' /\ packs' = packs
    BY LandLateDoes, WipeDoes, Rests
  <2> QED BY <2>1, <2>2, <2>3, Steps
<1> QED BY <1>1, <1>2

LEMMA NeverBefore ==
  ASSUME Fits, [Next]_vars, NEW m, Never(m)'
  PROVE  Never(m)
BY Histories DEF Never

---------------------------------------------------------------------------
\* Where the snapshots are.

JustPacked(b) == \E t \in Task : (Export(t) \/ ExportFails(t)) /\ b = blob'[t]
JustTarred(b) == \E t \in Task : Tar(t) /\ b = blob'[t]

LEMMA BlobsAfter ==
  ASSUME Fits, [Next]_vars
  PROVE  /\ \A b \in Blobs' : b \in Blobs \/ JustPacked(b) \/ JustTarred(b)
         /\ \A b \in Fresh' : b \in Fresh \/ JustPacked(b) \/ JustTarred(b)
         /\ \A b \in Current' :
              b \in Current \/ JustPacked(b) \/ JustTarred(b) \/ "lateWrite" \in mishaps'
<1> DEFINE Just(b) == JustPacked(b) \/ JustTarred(b)
<1>1. /\ \A u \in Task : blob[u] # NoBlob => blob[u] \in Blobs
      /\ \A b \in {pointer, pendingPointer, flush} : b # NoBlob => b \in Blobs
      /\ \A b \in sent : b # NoBlob => b \in Blobs
      /\ \A b \in {pendingPointer, flush} : b # NoBlob => b \in Fresh
      /\ \A u \in Task : snap[u] \in Exported /\ blob[u] # NoBlob => blob[u] \in Fresh
      /\ Fresh \subseteq Current /\ (pointer # NoBlob => pointer \in Current)
  BY DEF Blobs, Fresh, Current, Packed
<1>2. SUFFICES
        /\ \A u \in Task : blob'[u] # NoBlob => blob'[u] \in Blobs \/ Just(blob'[u])
        /\ \A b \in {pendingPointer', flush'} : b # NoBlob => b \in Fresh /\ b \in Blobs
        /\ \A b \in sent' : b # NoBlob => b \in Blobs
        /\ \A u \in Task : snap'[u] \in Exported /\ blob'[u] # NoBlob =>
             blob'[u] \in Fresh \/ Just(blob'[u])
        /\ pointer' # NoBlob => /\ pointer' \in Blobs
                                /\ pointer' \in Current \/ "lateWrite" \in mishaps'
  BY <1>1 DEF Blobs, Fresh, Current, Packed
<1>3. ASSUME NEW t \in Task, TaskStep(t)
      PROVE  /\ \A u \in Task : blob'[u] # NoBlob => blob'[u] \in Blobs \/ Just(blob'[u])
             /\ \A b \in {pendingPointer', flush'} : b # NoBlob => b \in Fresh /\ b \in Blobs
             /\ \A b \in sent' : b # NoBlob => b \in Blobs
             /\ \A u \in Task : snap'[u] \in Exported /\ blob'[u] # NoBlob =>
                  blob'[u] \in Fresh \/ Just(blob'[u])
             /\ pointer' # NoBlob => /\ pointer' \in Blobs
                                     /\ pointer' \in Current \/ "lateWrite" \in mishaps'
  <2>1. \A u \in Task \ {t} : blob'[u] = blob[u] /\ snap'[u] = snap[u]
    BY <1>3, Moves DEF Elsewhere
  <2>2. SUFFICES
          /\ blob'[t] # NoBlob => blob'[t] \in Blobs \/ Just(blob'[t])
          /\ \A b \in {pendingPointer', flush'} : b # NoBlob => b \in Fresh /\ b \in Blobs
          /\ \A b \in sent' : b # NoBlob => b \in Blobs
          /\ snap'[t] \in Exported /\ blob'[t] # NoBlob => blob'[t] \in Fresh \/ Just(blob'[t])
          /\ pointer' # NoBlob => pointer' \in Blobs /\ pointer' \in Current
    BY <1>1, <2>1
  <2> HIDE DEF Just
  <2>3. CASE LoadStep(t)
    BY <1>1, <2>3, BeginDoes, ReadPointerDoes, UntarDoes, RestoreFailsDoes, PrepareDoes, OpenDoes,
       LoadFailsDoes, LoadedDoes DEF LoadStep, Exported
  <2>4. CASE RunStep(t)
    BY <1>1, <2>4, WorkDoes, FailDoes, CompareDoes, FinishDoes, ReplyDoes DEF RunStep, Exported
  <2>5. CASE Export(t) \/ ExportFails(t)
    <3>1. Just(blob'[t])
      BY <2>5 DEF Just, JustPacked
    <3> QED BY <1>1, <2>5, <3>1, ExportDoes
  <2>6. CASE Tar(t)
    <3>1. Just(blob'[t])
      BY <2>6 DEF Just, JustTarred
    <3> QED BY <1>1, <2>6, <3>1, TarDoes
  <2>7. CASE SnapshotFails(t)
    BY <1>1, <2>7, SnapshotFailsDoes DEF Exported
  <2>8. CASE Upload(t)
    BY <1>1, <2>8, UploadDoes DEF Exported
  <2>9. CASE Relock(t)
    <3>1. blob[t] \in Fresh /\ blob[t] \in Blobs
      BY <2>9, RelockDoes, InChain DEF Exported
    <3> QED BY <1>1, <2>9, <3>1, RelockDoes DEF Exported
  <2>10. CASE Publish(t) \/ PublishFails(t)
    BY <1>1, <2>10, PublishDoes, PublishFailsDoes DEF Exported, Current
  <2> QED BY <1>3, <2>3, <2>4, <2>5, <2>6, <2>7, <2>8, <2>9, <2>10 DEF TaskStep, ChainStep
<1>4. ASSUME NEW w, NEW m, Stops(w, m)
      PROVE  /\ \A u \in Task : blob'[u] = NoBlob
             /\ pendingPointer' = NoBlob /\ flush' = NoBlob
             /\ \A b \in sent' : b # NoBlob => b \in Blobs
             /\ pointer' # NoBlob => pointer' \in Blobs /\ pointer' \in Current
  BY <1>1, <1>4, Stopped
<1>5. CASE LandLate
  BY <1>1, <1>5, LandLateDoes
<1>6. CASE Wipe
  BY <1>1, <1>6, WipeDoes
<1>7. CASE Rest
  BY <1>1, <1>7, Rests
<1> QED BY <1>3, <1>4, <1>5, <1>6, <1>7, Steps

LEMMA PackedIs ==
  ASSUME Fits, NEW b, JustPacked(b)
  PROVE  /\ UNCHANGED <<launched, receipts, pointer, up, pc, uses, hashed, flush, sent,
                        agent, shared, pendingPointer, lastPublished>>
         /\ packs' = packs + 1 /\ mishaps \subseteq mishaps'
         /\ disk'.here = disk.here /\ Brain' = Brain
         /\ \/ disk'.content.tape = receipts
            \/ disk'.content.tape = disk.content.tape /\ "untaped" \in mishaps'
         /\ disk'.content.lock = disk.content.lock
         /\ b \in Blob /\ b # NoBlob /\ b.content = disk'.content /\ b.content.brain = Brain
         /\ b.seq = packs + 1 /\ b.answered = {u \in Task : pc[u] = "done"} /\ Ready
<1>1. PICK t \in Task : (Export(t) \/ ExportFails(t)) /\ b = blob'[t]
  BY DEF JustPacked
<1>2. snap[t] = "export"
  BY <1>1, ExportDoes
<1>3. Ready
  BY <1>2 DEF Fits, LockFits, InUse, Chaining
<1> QED BY <1>1, <1>3, ExportDoes

\* What tar has read is a snapshot that was begun, and what was written meanwhile.
LEMMA TarredIs ==
  ASSUME Fits, NEW b, JustTarred(b)
  PROVE  /\ UNCHANGED <<disk, receipts, pointer, pc, packs>> /\ mishaps \subseteq mishaps'
         /\ b \in Blob /\ b # NoBlob
         /\ b.content.lock = IF disk.content.lock = "whole" THEN "whole" ELSE "torn"
         /\ b.content.tape \subseteq receipts \cup UNION {x.content.tape : x \in Packed}
         /\ \E x \in Packed :
              /\ x \in Fresh /\ x \in Blobs /\ x \in Blob
              /\ b.seq = x.seq /\ b.answered = x.answered
              /\ b.content.brain \subseteq x.content.brain \cup Brain
              /\ b.content.brain = x.content.brain \/ "caughtLater" \in mishaps'
              /\ b.content.tape \subseteq x.content.tape \cup disk.content.tape
              /\ x.content.tape \subseteq b.content.tape \/ "untaped" \in mishaps'
<1>1. PICK t \in Task : Tar(t) /\ b = blob'[t]
  BY DEF JustTarred
<1>2. disk.content.tape \subseteq receipts
  BY DEF Fits, LockFits
<1> DEFINE x == blob[t]
<1>3. /\ UNCHANGED <<disk, receipts, pointer, pc, packs>> /\ mishaps \subseteq mishaps'
      /\ x \in Packed /\ x \in Fresh /\ x \in Blobs /\ x \in Blob
      /\ b \in Blob /\ b # NoBlob /\ b.seq = x.seq /\ b.answered = x.answered
      /\ b.content.brain \subseteq x.content.brain \cup Brain
      /\ b.content.brain = x.content.brain \/ "caughtLater" \in mishaps'
      /\ b.content.tape \subseteq x.content.tape \cup disk.content.tape
      /\ x.content.tape \subseteq b.content.tape \/ "untaped" \in mishaps'
      /\ b.content.lock = IF disk.content.lock = "whole" THEN "whole" ELSE "torn"
  BY <1>1, TarDoes
<1> HIDE DEF x
<1>4. b.content.tape \subseteq receipts \cup UNION {y.content.tape : y \in Packed}
  BY <1>2, <1>3
<1> QED BY <1>3, <1>4

---------------------------------------------------------------------------
\* What is in use fits what there is.

LEMMA DownAfter ==
  ASSUME Fits, [Next]_vars
  PROVE  DownIsEmpty' /\ FlushFits'
<1>1. ASSUME NEW t \in Task, TaskStep(t) PROVE DownIsEmpty' /\ FlushFits'
  BY <1>1, Moves DEF DownIsEmpty, FlushFits, Fits
<1>2. ASSUME NEW w, NEW m, Stops(w, m) PROVE DownIsEmpty' /\ FlushFits'
  BY <1>2, Stopped DEF DownIsEmpty, FlushFits, Learnt, Chaining, Fits, HermesTypes, Exported
<1>3. CASE LandLate \/ Wipe
  BY <1>3, LandLateDoes, WipeDoes DEF DownIsEmpty, FlushFits, Fits
<1>4. CASE Rest
  BY <1>4, Rests DEF DownIsEmpty, FlushFits, Fits
<1> QED BY <1>1, <1>2, <1>3, <1>4, Steps

LEMMA UsesFitAfter ==
  ASSUME Fits, [Next]_vars
  PROVE  UsesFit'
<1>1. ASSUME NEW t \in Task, TaskStep(t) PROVE UsesFit'
  <2>1. \A u \in Task \ {t} : pc'[u] = pc[u] /\ uses'[u] = uses[u]
    BY <1>1, Moves DEF Elsewhere
  <2>2. pc[t] \in {"run", "hash"} => uses[t] \in Task
    BY DEF Fits, UsesFit
  <2>3. SUFFICES pc'[t] \in {"run", "hash"} => uses'[t] \in Task
    BY <2>1 DEF Fits, UsesFit
  <2>4. CASE LoadStep(t)
    BY <2>2, <2>4, BeginDoes, ReadPointerDoes, UntarDoes, RestoreFailsDoes, PrepareDoes, OpenDoes,
       LoadFailsDoes, LoadedDoes DEF LoadStep
  <2>5. CASE RunStep(t)
    BY <2>2, <2>5, WorkDoes, FailDoes, CompareDoes, FinishDoes, ReplyDoes DEF RunStep
  <2>6. CASE ChainStep(t)
    BY <2>2, <2>6, ExportDoes, TarDoes, SnapshotFailsDoes, UploadDoes, RelockDoes, PublishDoes,
       PublishFailsDoes DEF ChainStep
  <2> QED BY <1>1, <2>4, <2>5, <2>6 DEF TaskStep
<1>2. ASSUME NEW w, NEW m, Stops(w, m) PROVE UsesFit'
  BY <1>2, Stopped DEF UsesFit
<1>3. CASE LandLate \/ Wipe \/ Rest
  BY <1>3, LandLateDoes, WipeDoes, Rests DEF UsesFit, Fits
<1> QED BY <1>1, <1>2, <1>3, Steps

\* What a task step does to the directory's content.
LEMMA ContentAfter ==
  ASSUME Fits, NEW t \in Task, TaskStep(t)
  PROVE  /\ Ready => Ready'
         /\ Ready' => Ready \/ disk'.here
         /\ ~Ready' => disk'.content = Empty
         /\ disk'.content.tape \subseteq receipts'
         /\ pc'[t] = "open" => disk'.here
<1>1. /\ ~Ready => disk.content = Empty
      /\ disk.content.tape \subseteq receipts
      /\ ~disk.here => ~Ready /\ pc[t] # "open"
      /\ pc[t] \in AtWork \/ Chaining(t) => Ready
      /\ snap[t] # "none" => pc[t] \in {"reply", "done", "killed"}
  BY DEF Fits, LockFits, InUse, BlobsFit
<1>2. CASE Begin(t) \/ ReadPointer(t) \/ RestoreFails(t)
  BY <1>1, <1>2, BeginDoes, ReadPointerDoes, RestoreFailsDoes DEF Ready
<1>3. CASE Untar(t)
  <2>1. blob[t].content.lock # "none"
    BY <1>3, UntarDoes DEF Fits, BlobsFit
  <2> QED BY <1>3, <2>1, UntarDoes DEF Ready
<1>4. CASE Prepare(t)
  BY <1>1, <1>4, PrepareDoes DEF Ready
<1>5. CASE Open(t)
  BY <1>1, <1>5, OpenDoes DEF Ready
<1>6. CASE LoadFails(t)
  BY <1>1, <1>6, LoadFailsDoes DEF Ready
<1>7. CASE Loaded(t)
  BY <1>1, <1>7, LoadedDoes DEF Ready, AtWork
<1>8. CASE Work(t) \/ Fail(t)
  BY <1>1, <1>8, WorkDoes, FailDoes DEF Ready, AtWork
<1>9. CASE Compare(t)
  BY <1>1, <1>9, CompareDoes DEF Ready, AtWork
<1>10. CASE Finish(t) \/ Reply(t)
  BY <1>1, <1>10, FinishDoes, ReplyDoes DEF Ready, AtWork
<1>11. CASE Export(t) \/ ExportFails(t)
  BY <1>1, <1>11, ExportDoes DEF Ready, Chaining
<1>12. CASE Upload(t)
  BY <1>1, <1>12, UploadDoes DEF Ready, Chaining
<1>13. CASE Relock(t)
  BY <1>1, <1>13, RelockDoes DEF Ready, Chaining
<1>14. CASE Tar(t) \/ SnapshotFails(t) \/ Publish(t) \/ PublishFails(t)
  BY <1>1, <1>14, TarDoes, SnapshotFailsDoes, PublishDoes, PublishFailsDoes DEF Ready
<1> QED BY <1>2, <1>3, <1>4, <1>5, <1>6, <1>7, <1>8, <1>9, <1>10, <1>11, <1>12, <1>13, <1>14
        DEF TaskStep, LoadStep, RunStep, ChainStep

LEMMA UseAfter ==
  ASSUME Fits, NEW t \in Task, TaskStep(t)
  PROVE  /\ \A u \in Task : pc'[u] \in AtWork \/ Chaining(u)' => InUse \/ Open(t)
         /\ shared' # NoTask => InUse
<1>1. \A u \in Task \ {t} : pc'[u] = pc[u] /\ snap'[u] = snap[u]
  BY Moves DEF Elsewhere
<1>2. /\ \A u \in Task : pc[u] \in AtWork \/ Chaining(u) => InUse
      /\ shared # NoTask => InUse
  BY DEF InUse
<1>3. SUFFICES /\ pc'[t] \in AtWork \/ Chaining(t)' => InUse \/ Open(t)
               /\ shared' # NoTask => InUse
  BY <1>1, <1>2 DEF Chaining
<1>4. CASE LoadStep(t)
  BY <1>2, <1>4, BeginDoes, ReadPointerDoes, UntarDoes, RestoreFailsDoes, PrepareDoes, OpenDoes,
     LoadFailsDoes, LoadedDoes, HermesAssumption DEF LoadStep, AtWork, Chaining
<1>5. CASE RunStep(t)
  BY <1>2, <1>5, WorkDoes, FailDoes, CompareDoes, FinishDoes, ReplyDoes
  DEF RunStep, AtWork, Chaining
<1>6. CASE ChainStep(t)
  <2>1. Chaining(t) /\ UNCHANGED <<pc, shared>>
    BY <1>6, ExportDoes, TarDoes, SnapshotFailsDoes, UploadDoes, RelockDoes, PublishDoes,
       PublishFailsDoes DEF ChainStep, Chaining
  <2> QED BY <1>2, <2>1
<1> QED BY <1>4, <1>5, <1>6 DEF TaskStep

LEMMA LockFitsAfter ==
  ASSUME Fits, [Next]_vars
  PROVE  LockFits'
<1>1. /\ disk.content.tape \subseteq receipts
      /\ ~Ready => disk.content = Empty
      /\ ~disk.here => ~Ready /\ \A t \in Task : pc[t] # "open"
      /\ InUse => Ready
  BY DEF Fits, LockFits
<1>2. ASSUME NEW t \in Task, TaskStep(t) PROVE LockFits'
  <2>1. Open(t) => Ready'
    BY OpenDoes DEF Ready
  <2>2. Fresh' # {} => Ready
    <3>1. \A b : JustPacked(b) => Ready
      BY PackedIs
    <3>2. \A b : JustTarred(b) => Fresh # {}
      BY TarredIs
    <3> QED BY <1>1, <1>2, <3>1, <3>2, BlobsAfter DEF InUse, Next, TaskStep
  <2>3. InUse' => Ready'
    BY <1>1, <1>2, <2>1, <2>2, UseAfter, ContentAfter DEF InUse
  <2>4. ~disk'.here => \A u \in Task : pc'[u] # "open"
    BY <1>1, <1>2, Moves, ContentAfter DEF Elsewhere
  <2>5. ~disk'.here => ~Ready'
    BY <1>1, <1>2, Moves, ContentAfter
  <2>6. disk'.content.tape \subseteq receipts' /\ (~Ready' => disk'.content = Empty)
    BY <1>2, ContentAfter
  <2> QED BY <2>3, <2>4, <2>5, <2>6 DEF LockFits, Ready
<1>3. ASSUME NEW w, NEW m, Stops(w, m) PROVE LockFits'
  <2>1. /\ \A t \in Task : pc'[t] \notin AtWork \cup {"open"} /\ ~Chaining(t)' /\ blob'[t] = NoBlob
        /\ shared' = NoTask /\ pendingPointer' = NoBlob /\ flush' = NoBlob
    BY <1>3, Stopped DEF AtWork, Chaining
  <2>2. ~InUse'
    BY <2>1 DEF InUse, Fresh, Packed
  <2>3. /\ receipts' = receipts /\ disk'.here = disk.here
        /\ disk'.content.tape = disk.content.tape /\ (Ready' <=> Ready)
        /\ disk.content = Empty => disk'.content = Empty
    BY <1>3, Stopped DEF Ready
  <2> QED BY <1>1, <2>1, <2>2, <2>3 DEF LockFits
<1>4. CASE LandLate
  <2>1. /\ UNCHANGED <<disk, receipts, pc, snap, shared>> /\ Fresh' = Fresh
    BY <1>4, LandLateDoes DEF Fresh, Packed
  <2> QED BY <1>1, <2>1 DEF LockFits, InUse, Ready, Chaining
<1>5. CASE Rest
  <2>1. /\ UNCHANGED <<disk, receipts, pc, snap, shared>> /\ Fresh' \subseteq Fresh
    BY <1>5, Rests DEF Fresh, Packed
  <2> QED BY <1>1, <2>1 DEF LockFits, InUse, Ready, Chaining
<1>6. CASE Wipe
  <2>1. /\ \A t \in Task : pc'[t] \notin AtWork \cup {"open"} /\ ~Chaining(t)' /\ snap'[t] \notin Exported
        /\ shared' = NoTask /\ pendingPointer' = NoBlob /\ flush' = NoBlob
    BY <1>6, WipeDoes DEF AtWork, Chaining, Exported, Fits, DownIsEmpty, FlushFits
  <2>2. ~InUse'
    BY <2>1 DEF InUse, Fresh, Packed
  <2>3. disk'.content = Empty /\ Empty.lock = "none" /\ Empty.tape = {}
    BY <1>6, WipeDoes DEF Empty
  <2> QED BY <2>1, <2>2, <2>3 DEF LockFits, Ready
<1> QED BY <1>2, <1>3, <1>4, <1>5, <1>6, Steps

LEMMA BlobsFitAfter ==
  ASSUME Fits, [Next]_vars
  PROVE  BlobsFit'
<1>1. \A b \in Blobs' : b.content.lock # "none" /\ b.seq <= packs'
  <2> SUFFICES ASSUME NEW b \in Blobs' PROVE b.content.lock # "none" /\ b.seq <= packs'
    OBVIOUS
  <2>1. ASSUME NEW x \in Blobs PROVE x.content.lock # "none" /\ x.seq <= packs'
    <3>1. x.content.lock # "none" /\ x.seq <= packs /\ x \in Blob
      BY <2>1 DEF Fits, BlobsFit, HermesTypes, Blobs
    <3>2. x.seq \in Nat
      BY <3>1 DEF Blob
    <3> QED BY <3>1, <3>2, Histories
  <2>2. CASE JustPacked(b)
    <3>1. b.content.lock = disk.content.lock /\ b.seq = packs + 1 /\ packs' = packs + 1 /\ Ready
      BY <2>2, PackedIs
    <3> QED BY <3>1, Histories DEF Ready
  <2>3. CASE JustTarred(b)
    BY <2>1, <2>3, TarredIs
  <2> QED BY <2>1, <2>2, <2>3, BlobsAfter
<1>2. /\ \A u \in Task : blob[u] # NoBlob <=> pc[u] = "untar" \/ snap[u] \in Exported
      /\ \A u \in Task : snap[u] # "none" => pc[u] \in {"reply", "done", "killed"}
  BY DEF Fits, BlobsFit
<1>3. ASSUME NEW t \in Task, TaskStep(t)
      PROVE  \A u \in Task : /\ blob'[u] # NoBlob <=> pc'[u] = "untar" \/ snap'[u] \in Exported
                             /\ snap'[u] # "none" => pc'[u] \in {"reply", "done", "killed"}
  <2>1. \A u \in Task \ {t} : blob'[u] = blob[u] /\ snap'[u] = snap[u] /\ pc'[u] = pc[u]
    BY <1>3, Moves DEF Elsewhere
  <2>2. /\ blob[t] # NoBlob <=> pc[t] = "untar" \/ snap[t] \in Exported
        /\ snap[t] # "none" => pc[t] \in {"reply", "done", "killed"}
    BY <1>2
  <2>3. SUFFICES /\ blob'[t] # NoBlob <=> pc'[t] = "untar" \/ snap'[t] \in Exported
                 /\ snap'[t] # "none" => pc'[t] \in {"reply", "done", "killed"}
    BY <1>2, <2>1
  <2>4. CASE LoadStep(t)
    BY <2>2, <2>4, BeginDoes, ReadPointerDoes, UntarDoes, RestoreFailsDoes, PrepareDoes, OpenDoes,
       LoadFailsDoes, LoadedDoes DEF LoadStep, Exported
  <2>5. CASE RunStep(t)
    BY <2>2, <2>5, WorkDoes, FailDoes, CompareDoes, FinishDoes, ReplyDoes DEF RunStep, Exported
  <2>6. CASE Export(t) \/ ExportFails(t)
    BY <2>2, <2>6, ExportDoes DEF Exported
  <2>7. CASE Tar(t)
    BY <2>2, <2>7, TarDoes DEF Exported
  <2>8. CASE Upload(t) \/ SnapshotFails(t)
    BY <2>2, <2>8, UploadDoes, SnapshotFailsDoes DEF Exported
  <2>9. CASE Relock(t)
    BY <2>2, <2>9, RelockDoes DEF Exported
  <2>10. CASE Publish(t) \/ PublishFails(t)
    BY <2>2, <2>10, PublishDoes, PublishFailsDoes DEF Exported
  <2> QED BY <1>3, <2>4, <2>5, <2>6, <2>7, <2>8, <2>9, <2>10 DEF TaskStep, ChainStep
<1>4. ASSUME NEW w, NEW m, Stops(w, m)
      PROVE  \A u \in Task : /\ blob'[u] # NoBlob <=> pc'[u] = "untar" \/ snap'[u] \in Exported
                             /\ snap'[u] # "none" => pc'[u] \in {"reply", "done", "killed"}
  BY <1>2, <1>4, Stopped DEF Chaining, Exported
<1>5. CASE LandLate \/ Wipe \/ Rest
  <2>1. UNCHANGED <<pc, snap, blob>>
    BY <1>5, LandLateDoes, WipeDoes, Rests
  <2> QED BY <1>1, <1>2, <2>1 DEF BlobsFit
<1> QED BY <1>1, <1>3, <1>4, <1>5, Steps DEF BlobsFit

\* Who knows what after a step.
LEMMA BrainAfter ==
  ASSUME Fits, [Next]_vars, NEW e \in Brain'
  PROVE  \/ e \in Brain
         \/ \E t \in Task : (Work(t) \/ Fail(t)) /\ e \in Lessons(t)
         \/ \E t \in Task : Untar(t) /\ blob[t] \in Blobs /\ e \in blob[t].content.brain
<1>1. ASSUME NEW t \in Task, TaskStep(t), ~Work(t), ~Fail(t), ~Untar(t) PROVE e \in Brain
  <2>1. CASE LoadStep(t)
    BY <1>1, <2>1, BeginDoes, ReadPointerDoes, RestoreFailsDoes, PrepareDoes, OpenDoes, LoadFailsDoes,
       LoadedDoes DEF LoadStep, Brain
  <2>2. CASE RunStep(t)
    BY <1>1, <2>2, CompareDoes, FinishDoes, ReplyDoes DEF RunStep, Brain
  <2>3. CASE ChainStep(t)
    BY <2>3, ExportDoes, TarDoes, SnapshotFailsDoes, UploadDoes, RelockDoes, PublishDoes,
       PublishFailsDoes DEF ChainStep, Brain
  <2> QED BY <1>1, <2>1, <2>2, <2>3 DEF TaskStep
<1>2. ASSUME NEW t \in Task, Work(t) \/ Fail(t) PROVE e \in Brain \/ e \in Lessons(t)
  BY <1>2, WorkDoes, FailDoes
<1>3. ASSUME NEW t \in Task, Untar(t) PROVE blob[t] \in Blobs /\ e \in blob[t].content.brain
  BY <1>3, UntarDoes
<1>4. ASSUME NEW w, NEW m, Stops(w, m) PROVE e \in Brain
  BY <1>4, Stopped
<1>5. CASE LandLate \/ Wipe \/ Rest
  BY <1>5, LandLateDoes, WipeDoes, Rests DEF Brain
<1> QED BY <1>1, <1>2, <1>3, <1>4, <1>5, Steps

LEMMA HashesAfter ==
  ASSUME Fits, [Next]_vars, NEW o \in Task
  PROVE  /\ agent'[o].hash \in {agent[o].hash, Brain, {}}
         /\ hashed'[o] \in {hashed[o], Brain, {}} \cup {agent[u].hash : u \in Task}
         /\ lastPublished' \in {lastPublished, {}} \cup {hashed[u] : u \in Task}
<1>1. ASSUME NEW t \in Task, TaskStep(t)
      PROVE  /\ agent'[o].hash \in {agent[o].hash, Brain, {}}
             /\ hashed'[t] \in {hashed[t], Brain, {}} \cup {agent[u].hash : u \in Task}
             /\ o # t => hashed'[o] = hashed[o]
             /\ lastPublished' \in {lastPublished, hashed[t]}
  <2>1. o # t => hashed'[o] = hashed[o]
    BY <1>1, Moves DEF Elsewhere
  <2>2. CASE LoadStep(t)
    BY <2>1, <2>2, BeginDoes, ReadPointerDoes, RestoreFailsDoes, PrepareDoes, UntarDoes, OpenDoes,
       LoadFailsDoes, LoadedDoes DEF LoadStep
  <2>3. CASE RunStep(t)
    BY <2>1, <2>3, WorkDoes, FailDoes, CompareDoes, FinishDoes, ReplyDoes DEF RunStep
  <2>4. CASE ChainStep(t)
    BY <2>1, <2>4, ExportDoes, TarDoes, SnapshotFailsDoes, UploadDoes, RelockDoes, PublishDoes,
       PublishFailsDoes DEF ChainStep
  <2> QED BY <1>1, <2>2, <2>3, <2>4 DEF TaskStep
<1>2. ASSUME NEW w, NEW m, Stops(w, m)
      PROVE  agent'[o].hash = {} /\ hashed'[o] = {} /\ lastPublished' = {}
  BY <1>2, Stopped
<1>3. CASE LandLate \/ Wipe \/ Rest
  BY <1>3, LandLateDoes, WipeDoes, Rests
<1> QED BY <1>1, <1>2, <1>3, Steps

LEMMA RowsFitAfter ==
  ASSUME Fits, [Next]_vars
  PROVE  RowsFit'
<1> SUFFICES ASSUME NEW t \in Task, pc'[t] \notin Learnt
             PROVE  /\ Rows(t) \notin Brain' \cup lastPublished'
                    /\ \A b \in Blobs' : Rows(t) \notin b.content.brain
                    /\ \A o \in Task : Rows(t) \notin agent'[o].hash \cup hashed'[o]
  BY DEF RowsFit
<1>1. pc[t] \notin Learnt
  <2>1. ASSUME NEW u \in Task, TaskStep(u) PROVE pc[t] \notin Learnt
    BY <2>1, Moves DEF Elsewhere
  <2>2. ASSUME NEW w, NEW m, Stops(w, m) PROVE pc[t] \notin Learnt
    BY <2>2, Stopped DEF Learnt
  <2> QED BY <2>1, <2>2, Steps, LandLateDoes, WipeDoes, Rests
<1>2. /\ Rows(t) \notin Brain \cup lastPublished
      /\ \A b \in Blobs : Rows(t) \notin b.content.brain
      /\ \A o \in Task : Rows(t) \notin agent[o].hash \cup hashed[o]
  BY <1>1 DEF Fits, RowsFit
<1>3. \A u \in Task : Work(u) \/ Fail(u) => Rows(t) \notin Lessons(u)
  <2>1. \A u \in Task : Work(u) \/ Fail(u) => u # t
    BY WorkDoes, FailDoes DEF Learnt
  <2> QED BY <2>1 DEF Rows, Lessons
<1>4. Rows(t) \notin Brain'
  BY <1>2, <1>3, BrainAfter
<1>5. \A b \in Blobs' : Rows(t) \notin b.content.brain
  <2>1. \A b : JustPacked(b) => Rows(t) \notin b.content.brain
    BY <1>2, PackedIs
  <2>2. \A b : JustTarred(b) => Rows(t) \notin b.content.brain
    BY <1>2, TarredIs
  <2> QED BY <1>2, <2>1, <2>2, BlobsAfter
<1>6. Rows(t) \notin lastPublished' /\ \A o \in Task : Rows(t) \notin agent'[o].hash \cup hashed'[o]
  BY <1>2, HashesAfter
<1> QED BY <1>4, <1>5, <1>6

---------------------------------------------------------------------------
\* The first part of the invariant.

LEMMA FitsInit ==
  ASSUME Init
  PROVE  Fits
<1> DEFINE brain(answered) == IF answered THEN Lessons(First) ELSE {}
           content(answered) == [brain |-> brain(answered), tape |-> {}, lock |-> "whole", db |-> TRUE]
<1>1. PICK answered \in BOOLEAN :
        /\ disk = [here |-> TRUE, content |-> content(answered)]
        /\ receipts = IF answered THEN {First} ELSE {}
        /\ pointer = IF answered THEN [content |-> content(answered), seq |-> 1, answered |-> {}]
                                 ELSE NoBlob
        /\ pc = [t \in Task |-> IF t # First THEN "idle" ELSE IF answered THEN "done" ELSE "failed"]
        /\ snap = [t \in Task |-> IF t = First /\ answered THEN "done" ELSE "none"]
        /\ packs = IF answered THEN 1 ELSE 0
  BY DEF Init
<1>2. /\ launched \in BOOLEAN /\ up = "down"
      /\ agent = [t \in Task |-> NoAgent] /\ shared = NoTask
      /\ uses = [t \in Task |-> NoTask] /\ hashed = [t \in Task |-> {}]
      /\ blob = [t \in Task |-> NoBlob] /\ flush = NoBlob /\ sent = {}
      /\ pendingPointer = NoBlob /\ lastPublished = {}
      /\ stops = 0 /\ faults = 0 /\ mishaps = {}
  BY DEF Init
<1>3. Lessons(First) \subseteq Entry /\ First \in Task /\ {First} \subseteq Task
  BY HermesAssumption DEF Lessons, Entry
<1>4. brain(answered) \subseteq Entry
  BY <1>3
<1>5. \A t \in Task : t # First => Rows(t) \notin brain(answered)
  BY DEF Lessons, Rows
<1> HIDE DEF brain
<1> DEFINE c == content(answered)
<1>6. c \in Content /\ c.brain = brain(answered) /\ c.tape = {} /\ c.lock = "whole"
  BY <1>4 DEF Content
<1> HIDE DEF content, c
<1>7. disk \in Disk /\ disk.here /\ disk.content = c
  BY <1>1, <1>6 DEF Disk, c
<1>8. pointer = NoBlob \/ (pointer \in Blob /\ pointer.content = c /\ pointer.seq <= packs)
  <2>1. CASE answered
    <3>1. pointer = [content |-> c, seq |-> 1, answered |-> {}] /\ packs = 1
      BY <1>1, <2>1 DEF c
    <3> QED BY <1>3, <1>6, <3>1 DEF Blob
  <2> QED BY <1>1, <2>1
<1>9. HermesTypes
  <2>1. /\ pc \in [Task -> Loading \cup AtWork \cup Learnt]
        /\ snap \in [Task -> {"none", "export", "done", "lost"} \cup Exported]
        /\ receipts \subseteq Task /\ packs \in Nat
    BY <1>1, <1>3 DEF Loading, Learnt
  <2>2. agent \in [Task -> AgentState]
    BY <1>2 DEF NoAgent, AgentState
  <2>3. /\ uses \in [Task -> Task \cup {NoTask}] /\ hashed \in [Task -> SUBSET Entry]
        /\ blob \in [Task -> Blob \cup {NoBlob}]
    BY <1>2
  <2>4. stops \in 0 .. MaxStops /\ faults \in 0 .. MaxFaults
    BY <1>2, HermesAssumption
  <2> QED BY <1>2, <1>7, <1>8, <2>1, <2>2, <2>3, <2>4 DEF HermesTypes
<1>10. \A b \in Blobs : b \in Blob /\ b.content = c /\ b.seq <= packs
  BY <1>2, <1>8 DEF Blobs
<1>11. /\ \A t \in Task : pc[t] \in {"idle", "done", "failed"} /\ snap[t] \in {"none", "done"}
       /\ \A t \in Task : snap[t] # "none" => pc[t] = "done"
       /\ \A t \in Task : pc[t] \notin Learnt => t # First
  BY <1>1 DEF Learnt
<1>12. DownIsEmpty /\ FlushFits /\ UsesFit
  BY <1>2, <1>11 DEF DownIsEmpty, FlushFits, UsesFit
<1>13. LockFits
  <2>1. \A t \in Task : pc[t] \notin AtWork /\ ~Chaining(t) /\ pc[t] # "open"
    BY <1>11 DEF AtWork, Chaining
  <2>2. ~InUse
    BY <1>2, <1>11, <2>1 DEF InUse, Fresh, Packed, Exported
  <2> QED BY <1>6, <1>7, <2>1, <2>2 DEF LockFits, Ready
<1>14. BlobsFit
  BY <1>2, <1>6, <1>10, <1>11 DEF BlobsFit, Exported
<1>15. RowsFit
  <2>1. \A o \in Task : agent[o].hash = {} /\ hashed[o] = {}
    BY <1>2 DEF NoAgent
  <2> QED BY <1>2, <1>5, <1>6, <1>7, <1>10, <1>11, <2>1 DEF RowsFit, Brain
<1> QED BY <1>9, <1>12, <1>13, <1>14, <1>15 DEF Fits

LEMMA FitsStep ==
  ASSUME Fits, [Next]_vars
  PROVE  Fits'
BY Histories, DownAfter, UsesFitAfter, LockFitsAfter, BlobsFitAfter, RowsFitAfter DEF Fits

\* Every snapshot holds a lock, what is in use was loaded, and nothing is known before it is learnt.
THEOREM HermesFits == Spec => []Fits
BY FitsInit, FitsStep, PTL DEF Spec

\* The declared types.
THEOREM TypeCorrect == Spec => []TypeOK
<1>1. Fits => TypeOK
  BY DEF Fits, HermesTypes, BlobsFit, TypeOK, Loading, AtWork, Learnt, Exported
<1> QED BY <1>1, HermesFits, PTL

---------------------------------------------------------------------------
\* A published snapshot can be loaded: one task at a time writes the lock, and who has loaded
\* leaves it whole.

Writes(t) == pc[t] \in {"lock", "save", "saveChanged"} \/ snap[t] = "relock"
Used == shared # NoTask \/ \E t \in Task : pc[t] \in {"run", "hash"} \/ Chaining(t)
LoadsFit ==
  Never({"halfPacked", "clash"}) =>
    /\ \A u, v \in Task : Writes(u) /\ Writes(v) => u = v
    /\ disk.content.lock # "mixed" /\ disk.content.db
    /\ Used /\ (\A t \in Task : ~Writes(t)) => disk.content.lock = "whole"
    /\ \A b \in Sealed : b.content.lock = "whole" /\ b.content.db

LEMMA WritersAre ==
  ASSUME NEW t
  PROVE  /\ Writers = {} <=> \A u \in Task : ~Writes(u)
         /\ Writers \ {t} = {} <=> \A u \in Task \ {t} : ~Writes(u)
BY DEF Writers, Writes

LEMMA SealedAfter ==
  ASSUME Fits, [Next]_vars
  PROVE  \A b \in Sealed' : b \in Sealed \/ JustTarred(b)
<1>1. /\ \A u \in Task : snap[u] # "tar" /\ blob[u] # NoBlob => blob[u] \in Sealed
      /\ \A b \in {pointer, pendingPointer, flush} : b # NoBlob => b \in Sealed
      /\ \A b \in sent : b # NoBlob => b \in Sealed
  BY DEF Sealed
<1>2. SUFFICES
        /\ \A u \in Task : snap'[u] # "tar" /\ blob'[u] # NoBlob =>
             blob'[u] \in Sealed \/ JustTarred(blob'[u])
        /\ \A b \in {pointer', pendingPointer', flush'} : b # NoBlob => b \in Sealed
        /\ \A b \in sent' : b # NoBlob => b \in Sealed
  BY DEF Sealed
<1>3. ASSUME NEW t \in Task, TaskStep(t)
      PROVE  /\ \A u \in Task : snap'[u] # "tar" /\ blob'[u] # NoBlob =>
                  blob'[u] \in Sealed \/ JustTarred(blob'[u])
             /\ \A b \in {pointer', pendingPointer', flush'} : b # NoBlob => b \in Sealed
             /\ \A b \in sent' : b # NoBlob => b \in Sealed
  <2>1. \A u \in Task \ {t} : blob'[u] = blob[u] /\ snap'[u] = snap[u]
    BY <1>3, Moves DEF Elsewhere
  <2>2. SUFFICES
          /\ snap'[t] # "tar" /\ blob'[t] # NoBlob => blob'[t] \in Sealed \/ JustTarred(blob'[t])
          /\ \A b \in {pointer', pendingPointer', flush'} : b # NoBlob => b \in Sealed
          /\ \A b \in sent' : b # NoBlob => b \in Sealed
    BY <1>1, <2>1
  <2>3. CASE LoadStep(t)
    BY <1>1, <2>3, BeginDoes, ReadPointerDoes, UntarDoes, RestoreFailsDoes, PrepareDoes, OpenDoes,
       LoadFailsDoes, LoadedDoes DEF LoadStep
  <2>4. CASE RunStep(t)
    BY <1>1, <2>4, WorkDoes, FailDoes, CompareDoes, FinishDoes, ReplyDoes DEF RunStep
  <2>5. CASE Export(t) \/ ExportFails(t)
    BY <1>1, <2>5, ExportDoes
  <2>6. CASE Tar(t)
    <3>1. JustTarred(blob'[t])
      BY <2>6 DEF JustTarred
    <3> QED BY <1>1, <2>6, <3>1, TarDoes
  <2>7. CASE SnapshotFails(t) \/ Upload(t)
    BY <1>1, <2>7, SnapshotFailsDoes, UploadDoes
  <2>8. CASE Relock(t)
    BY <1>1, <2>8, RelockDoes
  <2>9. CASE Publish(t) \/ PublishFails(t)
    BY <1>1, <2>9, PublishDoes, PublishFailsDoes
  <2> QED BY <1>3, <2>3, <2>4, <2>5, <2>6, <2>7, <2>8, <2>9 DEF TaskStep, ChainStep
<1>4. ASSUME NEW w, NEW m, Stops(w, m)
      PROVE  /\ \A u \in Task : blob'[u] = NoBlob
             /\ \A b \in {pointer', pendingPointer', flush'} : b # NoBlob => b \in Sealed
             /\ \A b \in sent' : b # NoBlob => b \in Sealed
  BY <1>1, <1>4, Stopped
<1>5. CASE LandLate
  BY <1>1, <1>5, LandLateDoes
<1>6. CASE Wipe \/ Rest
  BY <1>1, <1>6, WipeDoes, Rests
<1> QED BY <1>3, <1>4, <1>5, <1>6, Steps

\* No task but t writes the lock when t begins to, unless the step is counted as a clash.
LEMMA WritesAlone ==
  ASSUME Fits, LoadsFit, NEW t \in Task, TaskStep(t), Never({"halfPacked", "clash"})'
  PROVE  /\ \A u, v \in Task : Writes(u)' /\ Writes(v)' => u = v
         /\ disk'.content.lock # "mixed" /\ disk'.content.db
         /\ Used' /\ (\A u \in Task : ~Writes(u)') => disk'.content.lock = "whole"
         /\ Tar(t) => blob'[t].content.lock = "whole" /\ blob'[t].content.db
<1>1. /\ \A u \in Task \ {t} : (Writes(u)' <=> Writes(u)) /\ (Chaining(u)' <=> Chaining(u))
                               /\ pc'[u] = pc[u]
      /\ Never({"halfPacked", "clash"})
  BY Moves DEF Elsewhere, Writes, Chaining, Never
<1>2. /\ \A u, v \in Task : Writes(u) /\ Writes(v) => u = v
      /\ disk.content.lock # "mixed" /\ disk.content.db
      /\ Used /\ (\A u \in Task : ~Writes(u)) => disk.content.lock = "whole"
      /\ \A b \in Sealed : b.content.lock = "whole" /\ b.content.db
  BY <1>1 DEF LoadsFit
<1>3. /\ "clash" \notin mishaps' /\ "halfPacked" \notin mishaps'
  BY DEF Never
<1>4. snap[t] # "none" => pc[t] \in {"reply", "done", "killed"}
  BY DEF Fits, BlobsFit
<1>5. CASE Untar(t)
  <2>1. blob[t] \in Sealed /\ ~Writes(t) /\ ~Writes(t)' /\ ~Tar(t)
    BY <1>5, UntarDoes, TarDoes DEF Sealed, Writes
  <2> QED BY <1>1, <1>2, <1>5, <2>1, UntarDoes
<1>6. CASE Begin(t) \/ ReadPointer(t) \/ RestoreFails(t) \/ Prepare(t) \/ LoadFails(t)
  <2>1. /\ ~Writes(t) /\ ~Writes(t)' /\ ~Chaining(t)' /\ shared' = shared
        /\ pc'[t] \in {"run", "hash"} => shared # NoTask
        /\ disk'.content.lock = disk.content.lock /\ disk'.content.db = disk.content.db
        /\ ~Tar(t)
    BY <1>6, BeginDoes, ReadPointerDoes, RestoreFailsDoes, PrepareDoes, LoadFailsDoes, TarDoes,
       HermesAssumption DEF Writes, Chaining
  <2> QED BY <1>1, <1>2, <2>1 DEF Used
<1>7. CASE Open(t) \/ Compare(t) \/ Upload(t)
  <2>1. /\ ~Writes(t) /\ Writes(t)' /\ ~Tar(t)
    BY <1>4, <1>7, OpenDoes, CompareDoes, UploadDoes, TarDoes DEF Writes
  <2>2. Writers \ {t} = {} /\ disk'.content.db = disk.content.db
        /\ disk'.content.lock = IF Writers = {} THEN "torn" ELSE "mixed"
    BY <1>3, <1>7, OpenDoes, CompareDoes, UploadDoes
  <2> QED BY <1>1, <1>2, <2>1, <2>2, WritersAre
<1>8. CASE Loaded(t) \/ Finish(t) \/ Relock(t)
  <2>1. /\ Writes(t) /\ ~Writes(t)' /\ ~Tar(t)
    BY <1>4, <1>8, LoadedDoes, FinishDoes, RelockDoes, TarDoes DEF Writes
  <2>2. /\ disk'.content.db = disk.content.db
        /\ disk.content.lock # "mixed" => disk'.content.lock = "whole"
    BY <1>8, LoadedDoes, FinishDoes, RelockDoes
  <2> QED BY <1>1, <1>2, <2>1, <2>2
<1>9. CASE Work(t) \/ Fail(t) \/ Reply(t)
  <2>1. /\ Writes(t)' <=> Writes(t)
        /\ Chaining(t)' <=> Chaining(t)
        /\ pc'[t] \in {"run", "hash"} => pc[t] \in {"run", "hash"}
        /\ shared' = shared
        /\ disk'.content.lock = disk.content.lock /\ disk'.content.db = disk.content.db
    BY <1>9, WorkDoes, FailDoes, ReplyDoes DEF Writes, Chaining
  <2>2. pc'[t] # pc[t]
    BY <1>9, WorkDoes, FailDoes, ReplyDoes
  <2>3. ~Tar(t)
    BY <2>2, TarDoes
  <2> QED BY <1>1, <1>2, <2>1, <2>3 DEF Used
<1>10. CASE Tar(t)
  <2>1. ~Writes(t) /\ ~Writes(t)' /\ Chaining(t) /\ Chaining(t)' /\ pc'[t] = pc[t]
        /\ UNCHANGED <<disk, shared>>
    BY <1>4, <1>10, TarDoes DEF Writes, Chaining
  <2>2. disk.content.lock = "whole" \/ Writers \ {t} = {}
    BY <1>3, <1>10, TarDoes
  <2>3. disk.content.lock = "whole"
    BY <1>2, <2>1, <2>2, WritersAre DEF Used
  <2> QED BY <1>1, <1>2, <1>3, <1>10, <2>1, <2>3, TarDoes DEF Used
<1>11. CASE Export(t) \/ ExportFails(t) \/ SnapshotFails(t) \/ Publish(t) \/ PublishFails(t)
  <2>1. /\ ~Writes(t) /\ ~Writes(t)' /\ Chaining(t) /\ pc'[t] = pc[t] /\ shared' = shared /\ ~Tar(t)
        /\ disk'.content.lock = disk.content.lock /\ disk'.content.db = disk.content.db
    <3>1. CASE Export(t) \/ ExportFails(t)
      BY <1>4, <3>1, ExportDoes DEF Writes, Chaining, Tar
    <3>2. CASE SnapshotFails(t)
      <4>1. snap'[t] = "lost" /\ pc'[t] = pc[t]
        BY <3>2, SnapshotFailsDoes
      <4>2. ~Tar(t)
        BY <4>1, TarDoes
      <4> QED BY <1>4, <3>2, <4>2, SnapshotFailsDoes DEF Writes, Chaining
    <3>3. CASE Publish(t) \/ PublishFails(t)
      BY <1>4, <3>3, PublishDoes, PublishFailsDoes DEF Writes, Chaining, Tar
    <3> QED BY <1>11, <3>1, <3>2, <3>3
  <2> QED BY <1>1, <1>2, <2>1 DEF Used
<1> QED BY <1>5, <1>6, <1>7, <1>8, <1>9, <1>10, <1>11 DEF TaskStep, LoadStep, RunStep, ChainStep

LEMMA LoadsStep ==
  ASSUME Fits, LoadsFit, [Next]_vars
  PROVE  LoadsFit'
<1> SUFFICES ASSUME Never({"halfPacked", "clash"})'
             PROVE  /\ \A u, v \in Task : Writes(u)' /\ Writes(v)' => u = v
                    /\ disk'.content.lock # "mixed" /\ disk'.content.db
                    /\ Used' /\ (\A t \in Task : ~Writes(t)') => disk'.content.lock = "whole"
                    /\ \A b \in Sealed' : b.content.lock = "whole" /\ b.content.db
  BY DEF LoadsFit
<1>1. /\ \A u, v \in Task : Writes(u) /\ Writes(v) => u = v
      /\ disk.content.lock # "mixed" /\ disk.content.db
      /\ Used /\ (\A t \in Task : ~Writes(t)) => disk.content.lock = "whole"
      /\ \A b \in Sealed : b.content.lock = "whole" /\ b.content.db
  BY NeverBefore DEF LoadsFit
<1>2. \A b \in Sealed' : b.content.lock = "whole" /\ b.content.db
  <2>1. \A b : JustTarred(b) => b.content.lock = "whole" /\ b.content.db
    BY WritesAlone DEF JustTarred, TaskStep, ChainStep
  <2> QED BY <1>1, <2>1, SealedAfter
<1>3. ASSUME NEW w, NEW m, Stops(w, m)
      PROVE  /\ \A t \in Task : ~Writes(t)'
             /\ ~Used' /\ disk'.content.lock # "mixed" /\ disk'.content.db
  BY <1>1, <1>3, Stopped DEF Writes, Used, Chaining
<1>4. CASE Wipe
  <2>1. \A t \in Task : ~Writes(t)' /\ ~Chaining(t)' /\ pc'[t] \notin {"run", "hash"}
    BY <1>4, WipeDoes DEF Writes, Chaining, Fits, DownIsEmpty
  <2>2. shared' = NoTask
    BY <1>4, WipeDoes DEF Fits, DownIsEmpty
  <2> QED BY <1>2, <1>4, <2>1, <2>2, WipeDoes DEF Used, Empty
<1>5. CASE LandLate \/ Rest
  <2>1. UNCHANGED <<pc, snap, shared, disk>>
    BY <1>5, LandLateDoes, Rests
  <2> QED BY <1>1, <1>2, <2>1 DEF Writes, Used, Chaining
<1> QED BY <1>2, <1>3, <1>4, <1>5, WritesAlone, Steps

LEMMA LoadsInit ==
  ASSUME Init
  PROVE  LoadsFit
<1> DEFINE brain(answered) == IF answered THEN Lessons(First) ELSE {}
           content(answered) == [brain |-> brain(answered), tape |-> {}, lock |-> "whole", db |-> TRUE]
<1>1. PICK answered \in BOOLEAN :
        /\ disk = [here |-> TRUE, content |-> content(answered)]
        /\ pointer = IF answered THEN [content |-> content(answered), seq |-> 1, answered |-> {}]
                                 ELSE NoBlob
        /\ pc = [t \in Task |-> IF t # First THEN "idle" ELSE IF answered THEN "done" ELSE "failed"]
        /\ snap = [t \in Task |-> IF t = First /\ answered THEN "done" ELSE "none"]
  BY DEF Init
<1>2. \A t \in Task : pc[t] \in {"idle", "done", "failed"} /\ snap[t] \in {"none", "done"}
  BY <1>1
<1>3. /\ shared = NoTask /\ blob = [t \in Task |-> NoBlob] /\ flush = NoBlob /\ sent = {}
      /\ pendingPointer = NoBlob
  BY DEF Init
<1>4. content(answered).lock = "whole" /\ content(answered).db
  OBVIOUS
<1> HIDE DEF content
<1>5. \A b \in Sealed : b.content.lock = "whole" /\ b.content.db
  BY <1>1, <1>3, <1>4 DEF Sealed
<1> QED BY <1>1, <1>2, <1>3, <1>4, <1>5 DEF LoadsFit, Writes, Used, Chaining

\* A published snapshot can be loaded again (load, runTask).
THEOREM PublishedLoad == Spec => []PublishedLoads
<1>1. LoadsFit => PublishedLoads
  BY DEF LoadsFit, PublishedLoads, Sealed
<1>2. Init => Fits /\ LoadsFit
  BY FitsInit, LoadsInit
<1>3. Fits /\ LoadsFit /\ [Next]_vars => (Fits /\ LoadsFit)'
  BY FitsStep, LoadsStep
<1> QED BY <1>1, <1>2, <1>3, PTL DEF Spec

---------------------------------------------------------------------------
\* What the published snapshot knows.

\* None of the mishaps after which an agent may have forgotten.
Lapses == {"restoreFailed", "restoreRace", "lateWrite", "unrestored"}
NoLapse == Never(Lapses)

\* The directory of a loaded agent knows what the pointer names, or may name soon; newer
\* snapshots know what older ones do; an agent that is not loaded will be, from the pointer.
RememberFit ==
  NoLapse =>
    /\ Ready => \A b \in Current : /\ Kept(b.content.brain) \subseteq Brain
                                   /\ b.content.tape \subseteq receipts
    /\ "caughtLater" \notin mishaps =>
         \A x, y \in Current : x.seq <= y.seq => Kept(x.content.brain) \subseteq y.content.brain
    /\ ~Ready /\ pointer # NoBlob =>
         /\ ~launched
         /\ \A t \in Task : pc[t] = "untar" => blob[t] = pointer
         /\ disk.here \/ (\E t \in Task : pc[t] \in {"prepare", "open"}) =>
              \E t \in Task : pc[t] = "untar"

LEMMA KeptIs ==
  ASSUME NEW brain, NEW e
  PROVE  e \in Kept(brain) <=> e \in brain /\ e[2] # "seedSkill"
BY DEF Kept, SeedSkills

LEMMA NoLapseBefore ==
  ASSUME Fits, [Next]_vars, NoLapse'
  PROVE  NoLapse /\ Lapses \cap mishaps' = {}
BY NeverBefore DEF NoLapse, Never

\* The pointer moves to a snapshot of this process, unless a write outlived its own.
LEMMA PointerAfter ==
  ASSUME Fits, [Next]_vars
  PROVE  \/ pointer' = pointer
         \/ "lateWrite" \in mishaps'
         \/ /\ pointer' \in Fresh /\ pointer' # NoBlob
            /\ Older(pointer', pointer) => "overtaken" \in mishaps'
<1>1. ASSUME NEW t \in Task, TaskStep(t), ~Publish(t) PROVE pointer' = pointer
  <2>1. CASE LoadStep(t)
    BY <2>1, BeginDoes, ReadPointerDoes, UntarDoes, RestoreFailsDoes, PrepareDoes, OpenDoes,
       LoadFailsDoes, LoadedDoes DEF LoadStep
  <2>2. CASE RunStep(t)
    BY <2>2, WorkDoes, FailDoes, CompareDoes, FinishDoes, ReplyDoes DEF RunStep
  <2>3. CASE ChainStep(t)
    BY <1>1, <2>3, ExportDoes, TarDoes, SnapshotFailsDoes, UploadDoes, RelockDoes, PublishFailsDoes
    DEF ChainStep
  <2> QED BY <1>1, <2>1, <2>2, <2>3 DEF TaskStep
<1>2. ASSUME NEW t \in Task, Publish(t)
      PROVE  /\ pointer' \in Fresh /\ pointer' # NoBlob
             /\ Older(pointer', pointer) => "overtaken" \in mishaps'
  BY <1>2, PublishDoes
<1>3. ASSUME NEW w, NEW m, Stops(w, m)
      PROVE  \/ pointer' = pointer
             \/ /\ pointer' \in Fresh /\ pointer' # NoBlob
                /\ Older(pointer', pointer) => "overtaken" \in mishaps'
  BY <1>3, Stopped DEF Fresh
<1>4. CASE LandLate \/ Wipe \/ Rest
  BY <1>4, LandLateDoes, WipeDoes, Rests
<1> QED BY <1>1, <1>2, <1>3, <1>4, Steps

\* A directory without a lock gets one from a snapshot or from a load.
LEMMA ReadyAfter ==
  ASSUME Fits, [Next]_vars
  PROVE  /\ Ready' => Ready \/ \E t \in Task : Untar(t) \/ Open(t)
         /\ Ready => Ready' \/ Wipe
<1>1. ASSUME NEW t \in Task, TaskStep(t), Ready', ~Untar(t), ~Open(t) PROVE Ready
  <2>1. CASE LoadStep(t)
    <3>1. CASE Loaded(t)
      BY <3>1, LoadedDoes DEF Fits, LockFits, InUse, AtWork
    <3> QED BY <1>1, <2>1, <3>1, BeginDoes, ReadPointerDoes, RestoreFailsDoes, PrepareDoes, LoadFailsDoes
            DEF LoadStep, Ready
  <2>2. CASE RunStep(t)
    <3>1. pc[t] \in AtWork => Ready
      BY DEF Fits, LockFits, InUse
    <3> QED BY <1>1, <2>2, <3>1, WorkDoes, FailDoes, CompareDoes, FinishDoes, ReplyDoes
            DEF RunStep, Ready, AtWork
  <2>3. CASE ChainStep(t)
    <3>1. Chaining(t)
      BY <2>3, ExportDoes, TarDoes, SnapshotFailsDoes, UploadDoes, RelockDoes, PublishDoes,
         PublishFailsDoes DEF ChainStep, Chaining
    <3> QED BY <3>1 DEF Fits, LockFits, InUse
  <2> QED BY <1>1, <2>1, <2>2, <2>3 DEF TaskStep
<1>2. ASSUME NEW w, NEW m, Stops(w, m) PROVE Ready' <=> Ready
  BY <1>2, Stopped DEF Ready
<1>3. CASE LandLate \/ Rest
  BY <1>3, LandLateDoes, Rests DEF Ready
<1>4. CASE Wipe
  BY <1>4, WipeDoes DEF Ready, Empty
<1> QED BY <1>1, <1>2, <1>3, <1>4, Steps, ContentAfter

\* The entries of a directory in use stay in it, but for the skills of the seed.
LEMMA KeptAfter ==
  ASSUME Fits, [Next]_vars, ~Wipe, \A t \in Task : ~Untar(t)
  PROVE  /\ \A e \in Brain : e[2] # "seedSkill" => e \in Brain'
         /\ receipts \subseteq receipts'
<1>1. ASSUME NEW t \in Task, TaskStep(t)
      PROVE  /\ \A e \in Brain : e[2] # "seedSkill" => e \in Brain'
             /\ receipts \subseteq receipts'
  <2>1. CASE LoadStep(t)
    BY <2>1, BeginDoes, ReadPointerDoes, RestoreFailsDoes, PrepareDoes, OpenDoes, LoadFailsDoes,
       LoadedDoes DEF LoadStep, Brain
  <2>2. CASE RunStep(t)
    BY <2>2, WorkDoes, FailDoes, CompareDoes, FinishDoes, ReplyDoes DEF RunStep, Brain
  <2>3. CASE ChainStep(t)
    BY <2>3, ExportDoes, TarDoes, SnapshotFailsDoes, UploadDoes, RelockDoes, PublishDoes,
       PublishFailsDoes DEF ChainStep, Brain
  <2> QED BY <1>1, <2>1, <2>2, <2>3 DEF TaskStep
<1>2. ASSUME NEW w, NEW m, Stops(w, m) PROVE Brain' = Brain /\ receipts' = receipts
  BY <1>2, Stopped
<1>3. CASE LandLate \/ Rest
  BY <1>3, LandLateDoes, Rests DEF Brain
<1> QED BY <1>1, <1>2, <1>3, Steps

LEMMA CurrentBeforeLoad ==
  ASSUME Fits, ~Ready
  PROVE  /\ Fresh = {}
         /\ \A b \in Current : b = pointer /\ pointer # NoBlob
BY DEF Fits, LockFits, InUse, Current

\* A load that ends in a directory without a lock has the pointer's snapshot, or there is none.
LEMMA LoadedFromPointer ==
  ASSUME Fits, [Next]_vars, RememberFit, NoLapse', ~Ready, Ready', NEW b \in Current
  PROVE  Brain' = b.content.brain /\ b.content.tape \subseteq receipts'
<1>1. NoLapse /\ b = pointer /\ pointer # NoBlob
  BY NoLapseBefore, CurrentBeforeLoad
<1>2. /\ \A t \in Task : pc[t] = "untar" => blob[t] = pointer
      /\ (\E t \in Task : pc[t] = "open") => \E t \in Task : pc[t] = "untar"
  BY <1>1 DEF RememberFit
<1>3. \A t \in Task : ~Open(t)
  BY <1>2, NoLapseBefore, OpenDoes DEF Lapses
<1>4. PICK t \in Task : Untar(t)
  BY <1>3, ReadyAfter
<1> QED BY <1>1, <1>2, <1>4, UntarDoes

\* A snapshot that was there, and what this step may have made of it.
LEMMA CurrentAfter ==
  ASSUME Fits, [Next]_vars, "lateWrite" \notin mishaps', NEW b \in Current'
  PROVE  \/ b \in Current
         \/ JustPacked(b)
         \/ JustTarred(b) /\ Ready
<1>1. JustTarred(b) => Ready
  BY TarredIs, CurrentBeforeLoad
<1> QED BY <1>1, BlobsAfter

\* As far as their order and their entries go, nothing is new but what was packed.
LEMMA SameAsBefore ==
  ASSUME Fits, [Next]_vars, {"lateWrite", "caughtLater"} \cap mishaps' = {}
  PROVE  /\ \A b \in Current' :
              JustPacked(b) \/ \E a \in Current : a.seq = b.seq /\ a.content.brain = b.content.brain
         /\ \A b \in Fresh' :
              JustPacked(b) \/ \E a \in Fresh : a.seq = b.seq /\ a.content.brain = b.content.brain
         /\ \A a \in Current : a \in Blobs /\ a # NoBlob /\ a.seq \in Nat /\ a.seq <= packs
<1>1. ASSUME NEW b, JustTarred(b)
      PROVE  \E a \in Fresh : a.seq = b.seq /\ a.content.brain = b.content.brain
  BY <1>1, TarredIs
<1>2. ASSUME NEW a \in Current PROVE a \in Blobs /\ a # NoBlob /\ a.seq \in Nat /\ a.seq <= packs
  <2>1. a \in Blobs /\ a # NoBlob
    <3>1. \A u \in Task : snap[u] \in Exported => blob[u] # NoBlob
      BY InChain
    <3> QED BY <3>1 DEF Current, Fresh, Packed, Blobs
  <2>2. a \in Blob /\ a.seq <= packs
    BY <2>1 DEF Fits, BlobsFit, HermesTypes, Blobs
  <2> QED BY <2>1, <2>2 DEF Blob
<1>3. \A b \in Current' :
        JustPacked(b) \/ \E a \in Current : a.seq = b.seq /\ a.content.brain = b.content.brain
  BY <1>1, CurrentAfter DEF Current
<1>4. \A b \in Fresh' :
        JustPacked(b) \/ \E a \in Fresh : a.seq = b.seq /\ a.content.brain = b.content.brain
  BY <1>1, BlobsAfter
<1> QED BY <1>2, <1>3, <1>4

LEMMA CurrentKept ==
  ASSUME Fits, [Next]_vars, RememberFit, NoLapse', Ready', NEW b \in Current'
  PROVE  Kept(b.content.brain) \subseteq Brain' /\ b.content.tape \subseteq receipts'
<1>1. NoLapse /\ Lapses \cap mishaps' = {}
  BY NoLapseBefore
<1>2. CASE JustPacked(b)
  <2>1. b.content.brain = Brain' /\ b.content.tape \subseteq receipts'
    BY <1>2, PackedIs DEF Fits, LockFits
  <2> QED BY <2>1, KeptIs
<1>3. CASE JustTarred(b) /\ Ready
  <2>1. /\ UNCHANGED <<disk, receipts>>
        /\ disk.content.tape \subseteq receipts
    BY <1>3, TarredIs DEF Fits, LockFits
  <2>2. PICK x \in Packed : /\ x \in Fresh
                            /\ b.content.brain \subseteq x.content.brain \cup Brain
                            /\ b.content.tape \subseteq x.content.tape \cup disk.content.tape
    BY <1>3, TarredIs
  <2>3. Kept(x.content.brain) \subseteq Brain /\ x.content.tape \subseteq receipts
    BY <1>1, <1>3, <2>2 DEF RememberFit, Current
  <2>4. Brain' = Brain
    BY <2>1 DEF Brain
  <2> QED BY <2>1, <2>2, <2>3, <2>4, KeptIs
<1>4. CASE b \in Current /\ Ready
  <2>1. Kept(b.content.brain) \subseteq Brain /\ b.content.tape \subseteq receipts
    BY <1>1, <1>4 DEF RememberFit
  <2>2. ~Wipe
    BY WipeDoes DEF Ready, Empty
  <2>3. \A t \in Task : ~Untar(t)
    BY <1>1, <1>4, UntarDoes DEF Ready, Empty, Lapses
  <2>4. /\ \A e \in Brain : e[2] # "seedSkill" => e \in Brain'
        /\ receipts \subseteq receipts'
    BY <2>2, <2>3, KeptAfter
  <2> QED BY <2>1, <2>4, KeptIs
<1>5. CASE b \in Current /\ ~Ready
  <2>1. Brain' = b.content.brain /\ b.content.tape \subseteq receipts'
    BY <1>5, LoadedFromPointer
  <2> QED BY <2>1, KeptIs
<1>6. "lateWrite" \notin mishaps'
  BY <1>1 DEF Lapses
<1> QED BY <1>2, <1>3, <1>4, <1>5, <1>6, CurrentAfter

LEMMA CurrentOrdered ==
  ASSUME Fits, [Next]_vars, RememberFit, NoLapse', "caughtLater" \notin mishaps',
         NEW x \in Current', NEW y \in Current', x.seq <= y.seq
  PROVE  Kept(x.content.brain) \subseteq y.content.brain
<1>1. NoLapse /\ "caughtLater" \notin mishaps /\ packs \in Nat
  BY NoLapseBefore, Histories
<1>2. ASSUME NEW b \in Current'
      PROVE  JustPacked(b) \/ \E a \in Current : a.seq = b.seq /\ a.content.brain = b.content.brain
  BY SameAsBefore DEF NoLapse, Never, Lapses
<1>3. \A a \in Current : a.seq \in Nat /\ a.seq <= packs
  BY SameAsBefore DEF NoLapse, Never, Lapses
<1>4. CASE JustPacked(x)
  <2>1. x.seq = packs + 1 /\ x.content.brain = Brain
    BY <1>4, PackedIs
  <2>2. ASSUME NEW a \in Current, a.seq = y.seq PROVE FALSE
    BY <1>1, <1>3, <2>1, <2>2
  <2>3. JustPacked(y)
    BY <1>2, <2>2
  <2>4. y.content.brain = Brain
    BY <2>3, PackedIs
  <2> QED BY <2>1, <2>4, KeptIs
<1>5. ASSUME NEW a \in Current, a.seq = x.seq, a.content.brain = x.content.brain
      PROVE  Kept(x.content.brain) \subseteq y.content.brain
  <2>1. CASE JustPacked(y)
    <3>1. Ready /\ y.content.brain = Brain
      BY <2>1, PackedIs
    <3> QED BY <1>1, <1>5, <3>1 DEF RememberFit
  <2>2. ASSUME NEW c \in Current, c.seq = y.seq, c.content.brain = y.content.brain
        PROVE  Kept(x.content.brain) \subseteq y.content.brain
    <3>1. Kept(a.content.brain) \subseteq c.content.brain
      BY <1>1, <1>5, <2>2 DEF RememberFit
    <3> QED BY <1>5, <2>2, <3>1
  <2> QED BY <1>2, <2>1, <2>2
<1> QED BY <1>2, <1>4, <1>5

\* An agent that is not loaded, after a step.
LEMMA UnloadedStep ==
  ASSUME Fits, [Next]_vars, RememberFit, NoLapse', ~Ready', pointer' # NoBlob
  PROVE  /\ ~launched'
         /\ \A t \in Task : pc'[t] = "untar" => blob'[t] = pointer'
         /\ disk'.here \/ (\E t \in Task : pc'[t] \in {"prepare", "open"}) =>
              \E t \in Task : pc'[t] = "untar"
<1>1. NoLapse /\ Lapses \cap mishaps' = {}
  BY NoLapseBefore
<1>2. CASE Wipe
  <2>1. up = "down"
    BY <1>2, WipeDoes
  <2>2. \A t \in Task : pc[t] \notin {"untar", "prepare", "open"}
    BY <2>1 DEF Fits, DownIsEmpty
  <2> QED BY <1>1, <1>2, <2>2, WipeDoes DEF Lapses
<1>3. CASE ~Wipe
  <2>1. ~Ready
    BY <1>3, ReadyAfter
  <2>2. pointer' = pointer
    BY <1>1, <2>1, PointerAfter, CurrentBeforeLoad DEF Lapses
  <2>3. /\ ~launched
        /\ \A t \in Task : pc[t] = "untar" => blob[t] = pointer
        /\ disk.here \/ (\E t \in Task : pc[t] \in {"prepare", "open"}) =>
             \E t \in Task : pc[t] = "untar"
    BY <1>1, <2>1, <2>2 DEF RememberFit
  <2>4. ASSUME NEW t \in Task, TaskStep(t)
        PROVE  /\ launched' = launched
               /\ \A u \in Task : pc'[u] = "untar" => blob'[u] = pointer
               /\ disk'.here \/ (\E u \in Task : pc'[u] \in {"prepare", "open"}) =>
                    \E u \in Task : pc'[u] = "untar"
    <3>1. /\ launched' = launched
          /\ \A u \in Task \ {t} : pc'[u] = pc[u] /\ blob'[u] = blob[u]
      BY <2>4, Moves DEF Elsewhere
    <3>2. pc[t] \notin AtWork /\ ~Chaining(t)
      BY <2>1 DEF Fits, LockFits, InUse
    <3>3. CASE Begin(t)
      BY <2>1, <2>3, <3>1, <3>3, BeginDoes, HermesAssumption DEF Fits, LockFits, InUse
    <3>4. CASE ReadPointer(t)
      BY <2>2, <2>3, <3>1, <3>4, ReadPointerDoes
    <3>5. CASE Untar(t) \/ RestoreFails(t) \/ Open(t)
      <4>1. ~RestoreFails(t)
        BY <1>1, RestoreFailsDoes DEF Lapses
      <4>2. Open(t) => Ready'
        BY OpenDoes DEF Ready
      <4>3. Untar(t) => Ready'
        BY UntarDoes DEF Ready, Fits, BlobsFit
      <4> QED BY <3>5, <4>1, <4>2, <4>3
    <3>6. CASE Prepare(t) \/ LoadFails(t)
      BY <2>3, <3>1, <3>6, PrepareDoes, LoadFailsDoes
    <3>7. CASE Loaded(t)
      BY <3>2, <3>7, LoadedDoes DEF AtWork
    <3>8. CASE Reply(t)
      BY <2>3, <3>1, <3>8, ReplyDoes
    <3>9. CASE RunStep(t) /\ ~Reply(t)
      BY <3>2, <3>9, WorkDoes, FailDoes, CompareDoes, FinishDoes DEF RunStep, AtWork
    <3>10. CASE ChainStep(t)
      BY <3>2, <3>10, ExportDoes, TarDoes, SnapshotFailsDoes, UploadDoes, RelockDoes, PublishDoes,
         PublishFailsDoes DEF ChainStep, Chaining
    <3> QED BY <2>4, <3>3, <3>4, <3>5, <3>6, <3>7, <3>8, <3>9, <3>10 DEF TaskStep, LoadStep
  <2>5. ASSUME NEW w, NEW m, Stops(w, m)
        PROVE  /\ launched' = launched /\ disk'.here = disk.here
               /\ \A u \in Task : pc[u] # "untar" /\ pc'[u] \notin {"untar", "prepare", "open"}
    BY <1>1, <2>5, Stopped DEF Lapses
  <2>6. CASE LandLate \/ Rest
    <3>1. UNCHANGED <<launched, disk, pc, blob>>
      BY <2>6, LandLateDoes, Rests
    <3> QED BY <2>2, <2>3, <3>1
  <2> QED BY <1>3, <2>2, <2>3, <2>4, <2>5, <2>6, Steps
<1> QED BY <1>2, <1>3

LEMMA RememberAfter ==
  ASSUME Fits, [Next]_vars, RememberFit
  PROVE  RememberFit'
BY CurrentKept, CurrentOrdered, UnloadedStep DEF RememberFit

LEMMA RememberInit ==
  ASSUME Init
  PROVE  RememberFit
<1>1. Ready
  BY DEF Init, Ready
<1>2. \A b \in Current : b = pointer /\ pointer # NoBlob
  BY DEF Init, Current, Fresh, Packed, Exported
<1>3. pointer # NoBlob => pointer.content.brain = Brain /\ pointer.content.tape \subseteq receipts
  BY DEF Init, Brain
<1>4. \A e \in Kept(Brain) : e \in Brain
  BY KeptIs
<1> QED BY <1>1, <1>2, <1>3, <1>4 DEF RememberFit

LEMMA RememberInvariant == Spec => [](Fits /\ RememberFit)
<1>1. Init => Fits /\ RememberFit
  BY FitsInit, RememberInit
<1>2. (Fits /\ RememberFit) /\ [Next]_vars => (Fits /\ RememberFit)'
  BY FitsStep, RememberAfter
<1> QED BY <1>1, <1>2, PTL DEF Spec

\* An agent that runs knows what its published snapshot knows, receipts included (load).
THEOREM AgentRemembers == Spec => []RunningAgentRemembers
<1>1. Fits /\ RememberFit => RunningAgentRemembers
  <2> SUFFICES ASSUME Fits, RememberFit, pointer # NoBlob, NEW t \in Task, Running(t), NoLapse
               PROVE  Kept(pointer.content.brain) \subseteq Brain /\ pointer.content.tape \subseteq receipts
    BY DEF RunningAgentRemembers, NoLapse, Never, Lapses
  <2>1. Ready
    BY DEF Fits, LockFits, InUse, Running, AtWork
  <2> QED BY <2>1 DEF RememberFit, Current
<1> QED BY <1>1, RememberInvariant, PTL

\* The published snapshot is not replaced by one that knows less (runTask, load).
THEOREM PointerKeeps == Spec => PointerForgetsNothing
<1> DEFINE excuses == {"restoreFailed", "restoreRace", "lateWrite", "overtaken", "caughtLater",
                       "unrestored"}
           A == pointer # NoBlob /\ ~(Kept(pointer.content.brain) \subseteq pointer'.content.brain) =>
                  Happening(excuses)
<1>1. ASSUME Fits, RememberFit, Fits', [Next]_vars PROVE A
  <2> SUFFICES ASSUME pointer # NoBlob, ~Happening(excuses)
               PROVE  Kept(pointer.content.brain) \subseteq pointer'.content.brain
    OBVIOUS
  <2>1. /\ NoLapse' /\ "lateWrite" \notin mishaps' /\ "overtaken" \notin mishaps'
        /\ "caughtLater" \notin mishaps'
    BY DEF Happening, NoLapse, Never, Lapses
  <2>2. NoLapse /\ "caughtLater" \notin mishaps
    BY <1>1, <2>1, NoLapseBefore, Histories
  <2>3. CASE pointer' = pointer
    BY <2>3, KeptIs
  <2>4. CASE pointer' # pointer
    <3>1. pointer' \in Fresh /\ pointer' # NoBlob /\ ~Older(pointer', pointer)
      BY <1>1, <2>1, <2>4, PointerAfter
    <3>2. pointer \in Current /\ pointer' \in Current
      BY <3>1 DEF Current
    <3>3. pointer \in Blob /\ pointer' \in Blob
      BY <1>1, <3>1 DEF Fits, HermesTypes
    <3>4. pointer.seq \in Nat /\ pointer'.seq \in Nat
      BY <3>3 DEF Blob
    <3>5. pointer.seq <= pointer'.seq
      BY <3>1, <3>4 DEF Older
    <3> QED BY <1>1, <2>2, <3>2, <3>5 DEF RememberFit
  <2> QED BY <2>3, <2>4
<1>2. Fits /\ RememberFit /\ Fits' /\ [Next]_vars => [A]_vars
  BY <1>1
<1> QED BY <1>2, RememberInvariant, PTL DEF Spec, PointerForgetsNothing

---------------------------------------------------------------------------
\* Receipts.

Taped == Never({"untaped", "receiptsLost", "restoreRace"})

\* The receipt of an answered task is where its result is, or in receipts.db; it is in the
\* snapshots whose export came after the answer, those that tar still reads included.
TapeFit ==
  Taped =>
    /\ \A t \in Task : pc[t] = "done" /\ Rows(t) \in Brain => t \in receipts
    /\ \A b \in Blobs, t \in Task : pc[t] = "done" /\ Rows(t) \in b.content.brain =>
         t \in b.content.tape \cup receipts
    /\ \A b \in Blobs : \A t \in b.answered : Rows(t) \in b.content.brain => t \in b.content.tape
    /\ \A u \in Task : snap[u] = "tar" =>
         \A t \in blob[u].answered : pc[t] = "done" /\ (Rows(t) \in Brain => t \in blob[u].content.tape)

LEMMA TapedBefore ==
  ASSUME Fits, [Next]_vars, Taped'
  PROVE  Taped /\ {"untaped", "receiptsLost", "restoreRace"} \cap mishaps' = {}
BY NeverBefore DEF Taped, Never

\* A task is done once its receipt is recorded, and for good.
LEMMA DoneAfter ==
  ASSUME Fits, [Next]_vars, NEW t \in Task
  PROVE  /\ pc[t] = "done" => pc'[t] = "done"
         /\ pc'[t] = "done" => pc[t] = "done" \/ t \in receipts'
         /\ Wipe \/ receipts \subseteq receipts'
<1>1. ASSUME NEW u \in Task, TaskStep(u)
      PROVE  /\ pc[t] = "done" => pc'[t] = "done"
             /\ pc'[t] = "done" => pc[t] = "done" \/ t \in receipts'
             /\ receipts \subseteq receipts'
  <2>1. (\A v \in Task \ {u} : pc'[v] = pc[v]) /\ receipts \subseteq receipts'
    BY <1>1, Moves DEF Elsewhere
  <2>2. CASE t # u
    BY <2>1, <2>2
  <2>3. CASE t = u /\ LoadStep(t)
    BY <2>1, <2>3, BeginDoes, ReadPointerDoes, UntarDoes, RestoreFailsDoes, PrepareDoes, OpenDoes,
       LoadFailsDoes, LoadedDoes DEF LoadStep
  <2>4. CASE t = u /\ RunStep(t)
    BY <2>1, <2>4, WorkDoes, FailDoes, CompareDoes, FinishDoes, ReplyDoes DEF RunStep
  <2>5. CASE t = u /\ ChainStep(t)
    BY <2>1, <2>5, ExportDoes, TarDoes, SnapshotFailsDoes, UploadDoes, RelockDoes, PublishDoes,
       PublishFailsDoes DEF ChainStep
  <2> QED BY <1>1, <2>2, <2>3, <2>4, <2>5 DEF TaskStep
<1>2. ASSUME NEW w, NEW m, Stops(w, m)
      PROVE  (pc'[t] = "done" <=> pc[t] = "done") /\ receipts' = receipts
  BY <1>2, Stopped
<1>3. CASE LandLate \/ Wipe \/ Rest
  BY <1>3, LandLateDoes, WipeDoes, Rests
<1> QED BY <1>1, <1>2, <1>3, Steps

LEMMA WipedBlobs ==
  ASSUME Fits, Wipe, NEW b \in Blobs
  PROVE  b \in {pointer} \cup sent /\ b # NoBlob
<1>1. /\ \A t \in Task : /\ pc[t] \in {"idle", "done", "failed", "killed"}
                         /\ snap[t] \in {"none", "done", "lost"}
      /\ pendingPointer = NoBlob /\ flush = NoBlob
  BY WipeDoes DEF Fits, DownIsEmpty, FlushFits
<1>2. \A t \in Task : blob[t] = NoBlob
  BY <1>1 DEF Fits, BlobsFit, Exported
<1> QED BY <1>1, <1>2 DEF Blobs

LEMMA Answered ==
  ASSUME Fits, TapeFit, [Next]_vars, Taped', NEW t \in Task, pc'[t] = "done"
  PROVE  /\ Rows(t) \in Brain' => t \in receipts'
         /\ \A b \in Blobs' : Rows(t) \in b.content.brain => t \in b.content.tape \cup receipts'
<1>1. Taped /\ {"untaped", "receiptsLost", "restoreRace"} \cap mishaps' = {}
  BY TapedBefore
<1>2. /\ pc[t] = "done" /\ Rows(t) \in Brain => t \in receipts
      /\ \A b \in Blobs : pc[t] = "done" /\ Rows(t) \in b.content.brain =>
           t \in b.content.tape \cup receipts
  BY <1>1 DEF TapeFit
<1>3. SUFFICES ASSUME t \notin receipts'
               PROVE  /\ Rows(t) \notin Brain'
                      /\ \A b \in Blobs' : Rows(t) \in b.content.brain => t \in b.content.tape
  OBVIOUS
<1>4. pc[t] = "done"
  BY <1>3, DoneAfter
<1>5. ASSUME Rows(t) \in Brain' PROVE FALSE
  <2>1. CASE Rows(t) \in Brain
    BY <1>2, <1>3, <1>4, <1>5, <2>1, DoneAfter, WipeDoes
  <2>2. ASSUME NEW u \in Task, Work(u) \/ Fail(u), Rows(t) \in Lessons(u) PROVE FALSE
    <3>1. t = u
      BY <2>2 DEF Rows, Lessons
    <3> QED BY <1>4, <2>2, <3>1, WorkDoes, FailDoes
  <2>3. ASSUME NEW u \in Task, Untar(u), blob[u] \in Blobs, Rows(t) \in blob[u].content.brain
        PROVE  FALSE
    BY <1>2, <1>3, <1>4, <2>3, UntarDoes
  <2> QED BY <1>5, <2>1, <2>2, <2>3, BrainAfter
<1>6. ASSUME NEW b \in Blobs', Rows(t) \in b.content.brain PROVE t \in b.content.tape
  <2>1. CASE JustPacked(b)
    BY <1>1, <1>2, <1>3, <1>4, <1>6, <2>1, PackedIs
  <2>2. CASE JustTarred(b)
    <3>1. PICK x \in Packed : /\ x \in Blobs
                              /\ b.content.brain \subseteq x.content.brain \cup Brain
                              /\ x.content.tape \subseteq b.content.tape \/ "untaped" \in mishaps'
      BY <2>2, TarredIs
    <3>2. receipts' = receipts
      BY <2>2, TarredIs
    <3> QED BY <1>1, <1>2, <1>3, <1>4, <1>6, <3>1, <3>2
  <2>3. CASE b \in Blobs
    <3>1. t \in b.content.tape \cup receipts
      BY <1>2, <1>4, <1>6, <2>3
    <3>2. CASE Wipe
      <4>1. b \in {pointer} \cup sent /\ b # NoBlob
        BY <2>3, <3>2, WipedBlobs
      <4> QED BY <1>1, <3>1, <3>2, <4>1, WipeDoes
    <3>3. CASE ~Wipe
      BY <1>3, <3>1, <3>3, DoneAfter
    <3> QED BY <3>2, <3>3
  <2> QED BY <1>6, <2>1, <2>2, <2>3, BlobsAfter
<1> QED BY <1>5, <1>6

\* What a snapshot holds of the tasks that were answered when its receipts were exported.
LEMMA AnsweredBefore ==
  ASSUME Fits, TapeFit, [Next]_vars, Taped', NEW b \in Blobs', NEW t \in b.answered,
         Rows(t) \in b.content.brain
  PROVE  t \in b.content.tape
<1>1. Taped /\ {"untaped", "receiptsLost", "restoreRace"} \cap mishaps' = {}
  BY TapedBefore
<1>2. CASE b \in Blobs
  BY <1>1, <1>2 DEF TapeFit
<1>3. CASE JustPacked(b)
  <2>1. /\ b.content.brain = Brain /\ b.content.tape = receipts
        /\ b.answered = {u \in Task : pc[u] = "done"}
    BY <1>1, <1>3, PackedIs
  <2> QED BY <1>1, <2>1 DEF TapeFit
<1>4. CASE JustTarred(b)
  <2>1. PICK u \in Task : Tar(u) /\ b = blob'[u]
    BY <1>4 DEF JustTarred
  <2>2. /\ snap[u] = "tar" /\ blob[u] \in Blobs
        /\ b.answered = blob[u].answered
        /\ b.content.brain \subseteq blob[u].content.brain \cup Brain
        /\ blob[u].content.tape \subseteq b.content.tape
    BY <1>1, <2>1, TarDoes
  <2>3. Rows(t) \in blob[u].content.brain \cup Brain => t \in blob[u].content.tape
    BY <1>1, <2>2 DEF TapeFit
  <2> QED BY <2>2, <2>3
<1> QED BY <1>2, <1>3, <1>4, BlobsAfter

\* While tar reads, no result comes into the directory but of tasks not yet answered.
LEMMA TarReads ==
  ASSUME Fits, TapeFit, [Next]_vars, Taped', NEW u \in Task, snap'[u] = "tar", NEW t \in blob'[u].answered
  PROVE  pc'[t] = "done" /\ (Rows(t) \in Brain' => t \in blob'[u].content.tape)
<1>1. Taped /\ {"untaped", "receiptsLost", "restoreRace"} \cap mishaps' = {}
  BY TapedBefore
<1>2. CASE Export(u) \/ ExportFails(u)
  <2>1. /\ pc' = pc /\ Brain' = Brain /\ blob'[u].content.tape = receipts
        /\ blob'[u].answered = {v \in Task : pc[v] = "done"}
    BY <1>1, <1>2, ExportDoes
  <2> QED BY <1>1, <2>1 DEF TapeFit
<1>3. CASE ~(Export(u) \/ ExportFails(u))
  <2>1. snap[u] = "tar" /\ blob'[u] = blob[u]
    <3>1. ASSUME NEW v \in Task, TaskStep(v) PROVE snap[u] = "tar" /\ blob'[u] = blob[u]
      <4>1. CASE v # u
        BY <3>1, <4>1, Moves DEF Elsewhere
      <4>2. CASE v = u /\ (LoadStep(u) \/ RunStep(u))
        <5>1. ASSUME LoadStep(u) PROVE snap'[u] # "tar"
          BY <5>1, BeginDoes, ReadPointerDoes, UntarDoes, RestoreFailsDoes, PrepareDoes, OpenDoes,
             LoadFailsDoes, LoadedDoes DEF LoadStep
        <5>2. ASSUME RunStep(u) PROVE snap'[u] = "tar" => snap[u] = "tar" /\ blob'[u] = blob[u]
          BY <5>2, WorkDoes, FailDoes, CompareDoes, FinishDoes, ReplyDoes DEF RunStep
        <5> QED BY <4>2, <5>1, <5>2
      <4>3. CASE v = u /\ ChainStep(u)
        BY <1>3, <4>3, TarDoes, SnapshotFailsDoes, UploadDoes, RelockDoes, PublishDoes,
           PublishFailsDoes DEF ChainStep
      <4> QED BY <3>1, <4>1, <4>2, <4>3 DEF TaskStep
    <3>2. ASSUME NEW w, NEW m, Stops(w, m) PROVE FALSE
      BY <3>2, Stopped DEF Chaining
    <3> QED BY <3>1, <3>2, Steps, LandLateDoes, WipeDoes, Rests
  <2>2. pc[t] = "done" /\ (Rows(t) \in Brain => t \in blob[u].content.tape)
    BY <1>1, <2>1 DEF TapeFit
  <2>3. t \in Task
    <3>1. blob[u] \in Blob
      BY <2>1, InChain DEF Exported
    <3> QED BY <2>1, <3>1 DEF Blob
  <2>4. Rows(t) \in Brain' => Rows(t) \in Brain
    <3>1. ASSUME NEW v \in Task, Work(v) \/ Fail(v) PROVE Rows(t) \notin Lessons(v)
      <4>1. v # t
        BY <2>2, <3>1, WorkDoes, FailDoes
      <4> QED BY <4>1 DEF Rows, Lessons
    <3>2. ASSUME NEW v \in Task, Untar(v) PROVE FALSE
      <4>1. Ready
        BY <2>1 DEF Fits, LockFits, InUse, Chaining
      <4> QED BY <1>1, <3>2, <4>1, UntarDoes DEF Ready, Empty
    <3> QED BY <3>1, <3>2, BrainAfter
  <2> QED BY <2>1, <2>2, <2>3, <2>4, DoneAfter
<1> QED BY <1>2, <1>3

LEMMA TapeStep ==
  ASSUME Fits, [Next]_vars, TapeFit
  PROVE  TapeFit'
BY Answered, AnsweredBefore, TarReads DEF TapeFit

LEMMA TapeInit ==
  ASSUME Init
  PROVE  TapeFit
<1>1. /\ pendingPointer = NoBlob /\ flush = NoBlob /\ sent = {} /\ \A t \in Task : blob[t] = NoBlob
      /\ \A t \in Task : snap[t] # "tar"
  BY DEF Init
<1>2. pointer # NoBlob => pointer.content.brain = Brain /\ pointer.answered = {}
  BY DEF Init, Brain
<1>3. Brain \subseteq Lessons(First) /\ (Brain # {} => receipts = {First})
  BY DEF Init, Brain
<1>4. \A t \in Task : Rows(t) \in Brain => t \in receipts
  BY <1>3 DEF Rows, Lessons
<1>5. \A b \in Blobs : b = pointer /\ pointer # NoBlob
  BY <1>1 DEF Blobs
<1> QED BY <1>1, <1>2, <1>4, <1>5 DEF TapeFit

\* What a published snapshot holds of a task answered before its receipts were exported has its
\* receipt in the snapshot (runTask's export, load).
THEOREM TapeFollows == Spec => []TapeFollowsBrain
<1>1. Init => Fits /\ TapeFit
  BY FitsInit, TapeInit
<1>2. (Fits /\ TapeFit) /\ [Next]_vars => (Fits /\ TapeFit)'
  BY FitsStep, TapeStep
<1>3. Fits /\ TapeFit => TapeFollowsBrain
  BY DEF TapeFit, Taped, TapeFollowsBrain, Blobs, Rows
<1> QED BY <1>1, <1>2, <1>3, PTL DEF Spec

---------------------------------------------------------------------------
\* What a graceful stop keeps.

Losses == {"lost", "erased", "overtaken", "lateWrite", "restoreRace", "caughtLater"}
NoLoss == Never(Losses)
Knows(b, t) == b # NoBlob /\ Rows(t) \in b.content.brain

\* A task whose hash of the directory is, or will be, on its way to a snapshot.
Saving(t) == pc[t] = "saveChanged" \/ snap[t] \in {"export", "tar", "upload", "relock"}

\* What a task taught the agent is published, waits to be, or is on its way in a chain.
Covered(t) ==
  \/ Knows(pointer, t)
  \/ Knows(pendingPointer, t)
  \/ \E u \in Task : Saving(u) /\ Rows(t) \in hashed[u]

\* A restore has the pointer's snapshot; a chain, and the hash published last, are of results that
\* the directory and the snapshot hold; newer snapshots hold what older ones do; and results are
\* covered once their task has compared the hashes, for the one before did not hold them.
RestoresFit == ~Ready => \A t \in Task : pc[t] = "untar" => blob[t] = pointer
ChainsFit ==
  \A t, u \in Task : Saving(t) \/ snap[t] = "send" =>
    (Rows(u) \in hashed[t] => Rows(u) \in Brain /\ (snap[t] \in Exported => Knows(blob[t], u)))
OrderFits ==
  \A x \in Current, y \in Fresh, u \in Task :
    x.seq <= y.seq /\ Knows(x, u) /\ Rows(u) \in Brain => Knows(y, u)
LastFits == \A u \in Task : Rows(u) \in lastPublished \cap Brain => Knows(pointer, u)
ResultsFit ==
  \A t \in Task :
    /\ pc[t] = "hash" => Rows(t) \notin hashed[t]
    /\ pc[t] \in {"save", "saveChanged", "reply", "done"} /\ Rows(t) \in Brain => Covered(t)
KeepFit == NoLoss => RestoresFit /\ ChainsFit /\ OrderFits /\ LastFits /\ ResultsFit

LEMMA NoLossBefore ==
  ASSUME Fits, [Next]_vars, NoLoss'
  PROVE  NoLoss /\ Losses \cap mishaps' = {}
BY NeverBefore DEF NoLoss, Never

\* A restore finds no lock, without a race.
LEMMA RestoredUnloaded ==
  ASSUME Fits, [Next]_vars, NoLoss', NEW t \in Task, Untar(t)
  PROVE  ~Ready
<1>1. "restoreRace" \notin mishaps'
  BY NoLossBefore DEF Losses
<1>2. disk.content = Empty
  BY <1>1, UntarDoes
<1> QED BY <1>2 DEF Ready, Empty

\* The pointer does not move before a directory is loaded.
LEMMA PointerStays ==
  ASSUME Fits, [Next]_vars, NoLoss', ~Ready
  PROVE  pointer' = pointer
BY NoLossBefore, PointerAfter, CurrentBeforeLoad DEF Losses

\* Results stay in a directory in use.
LEMMA RowsStay ==
  ASSUME Fits, [Next]_vars, NoLoss', Ready, ~Wipe, NEW t \in Task, Rows(t) \in Brain
  PROVE  Rows(t) \in Brain'
<1>1. Rows(t)[2] # "seedSkill"
  BY DEF Rows
<1> QED BY <1>1, KeptAfter, RestoredUnloaded

\* Where the results of the directory came from.
LEMMA RowsCame ==
  ASSUME Fits, [Next]_vars, KeepFit, NoLoss', NEW t \in Task, Rows(t) \in Brain'
  PROVE  \/ Rows(t) \in Brain
         \/ Work(t) \/ Fail(t)
         \/ ~Ready /\ Knows(pointer, t) /\ pointer' = pointer
<1>1. ASSUME NEW u \in Task, Work(u) \/ Fail(u), Rows(t) \in Lessons(u) PROVE Work(t) \/ Fail(t)
  BY <1>1 DEF Rows, Lessons
<1>2. ASSUME NEW u \in Task, Untar(u), Rows(t) \in blob[u].content.brain
      PROVE  ~Ready /\ Knows(pointer, t) /\ pointer' = pointer
  <2>1. ~Ready /\ pointer' = pointer
    BY <1>2, RestoredUnloaded, PointerStays
  <2>2. blob[u] = pointer /\ blob[u] # NoBlob
    BY <1>2, <2>1, NoLossBefore, UntarDoes DEF KeepFit, RestoresFit
  <2> QED BY <1>2, <2>1, <2>2 DEF Knows
<1> QED BY <1>1, <1>2, BrainAfter

LEMMA RestoresAfter ==
  ASSUME Fits, [Next]_vars, KeepFit, NoLoss'
  PROVE  RestoresFit'
<1> SUFFICES ASSUME ~Ready', NEW t \in Task, pc'[t] = "untar" PROVE blob'[t] = pointer'
  BY DEF RestoresFit
<1>1. CASE Wipe
  <2>1. pc[t] # "untar"
    BY <1>1, WipeDoes DEF Fits, DownIsEmpty
  <2> QED BY <1>1, <2>1, WipeDoes
<1>2. CASE ~Wipe
  <2>1. ~Ready /\ pointer' = pointer
    BY <1>2, ReadyAfter, PointerStays
  <2>2. pc[t] = "untar" => blob[t] = pointer
    BY <2>1, NoLossBefore DEF KeepFit, RestoresFit
  <2>3. ASSUME NEW u \in Task, TaskStep(u) PROVE blob'[t] = pointer
    <3>1. CASE t # u
      BY <2>2, <2>3, <3>1, Moves DEF Elsewhere
    <3>2. CASE t = u /\ LoadStep(t)
      BY <2>2, <3>2, BeginDoes, ReadPointerDoes, UntarDoes, RestoreFailsDoes, PrepareDoes, OpenDoes,
         LoadFailsDoes, LoadedDoes DEF LoadStep
    <3>3. CASE t = u /\ RunStep(t)
      BY <3>3, WorkDoes, FailDoes, CompareDoes, FinishDoes, ReplyDoes DEF RunStep
    <3>4. CASE t = u /\ ChainStep(t)
      <4>1. Chaining(t)
        BY <3>4, ExportDoes, TarDoes, SnapshotFailsDoes, UploadDoes, RelockDoes, PublishDoes,
           PublishFailsDoes DEF ChainStep, Chaining
      <4> QED BY <2>1, <4>1 DEF Fits, LockFits, InUse
    <3> QED BY <2>3, <3>1, <3>2, <3>3, <3>4 DEF TaskStep
  <2>4. ASSUME NEW w, NEW m, Stops(w, m) PROVE FALSE
    BY <2>4, Stopped
  <2>5. CASE LandLate \/ Rest
    BY <2>1, <2>2, <2>5, LandLateDoes, Rests
  <2> QED BY <1>2, <2>1, <2>3, <2>4, <2>5, Steps
<1> QED BY <1>1, <1>2

LEMMA ChainsAfter ==
  ASSUME Fits, [Next]_vars, KeepFit, NoLoss'
  PROVE  ChainsFit'
<1> DEFINE Held(t) == Saving(t) \/ snap[t] = "send"
<1> SUFFICES ASSUME NEW t \in Task, NEW u \in Task, Held(t)', Rows(u) \in hashed'[t]
             PROVE  Rows(u) \in Brain' /\ (snap'[t] \in Exported => Knows(blob'[t], u))
  BY DEF ChainsFit, Knows
<1>1. Held(t) => Ready
  BY DEF Fits, LockFits, InUse, AtWork, Chaining, Saving
<1>2. Held(t) /\ Rows(u) \in hashed[t] =>
        Rows(u) \in Brain /\ (snap[t] \in Exported => Knows(blob[t], u))
  BY NoLossBefore DEF KeepFit, ChainsFit
<1>3. Held(t) /\ Rows(u) \in hashed[t] => Rows(u) \in Brain'
  <2>1. Wipe => ~Held(t)
    BY WipeDoes DEF Fits, DownIsEmpty, Saving
  <2> QED BY <1>1, <1>2, <2>1, RowsStay
<1>4. \/ pc[t] \notin {"save", "saveChanged"} \/ snap[t] = "none"
  BY DEF Fits, BlobsFit
<1>5. ASSUME NEW v \in Task, TaskStep(v)
      PROVE  Rows(u) \in Brain' /\ (snap'[t] \in Exported => Knows(blob'[t], u))
  <2>1. CASE t # v
    <3>1. snap'[t] = snap[t] /\ hashed'[t] = hashed[t] /\ blob'[t] = blob[t] /\ pc'[t] = pc[t]
      BY <1>5, <2>1, Moves DEF Elsewhere
    <3> QED BY <1>2, <1>3, <3>1 DEF Saving
  <2>2. CASE t = v /\ LoadStep(t)
    BY <2>2, BeginDoes, ReadPointerDoes, UntarDoes, RestoreFailsDoes, PrepareDoes, OpenDoes,
       LoadFailsDoes, LoadedDoes DEF LoadStep, Saving
  <2>3. CASE t = v /\ Compare(t)
    BY <2>3, CompareDoes DEF Saving, Exported
  <2>4. CASE t = v /\ Finish(t)
    <3>1. /\ hashed'[t] = hashed[t] /\ snap'[t] = IF pc[t] = "saveChanged" THEN "export" ELSE "done"
          /\ pc'[t] = "reply"
      BY <2>4, FinishDoes
    <3>2. Held(t)
      BY <3>1 DEF Saving
    <3> QED BY <1>3, <3>1, <3>2 DEF Exported
  <2>5. CASE t = v /\ (Work(t) \/ Fail(t))
    BY <2>5, WorkDoes, FailDoes DEF Saving
  <2>6. CASE t = v /\ Reply(t)
    <3>1. /\ hashed'[t] = hashed[t] /\ snap'[t] = snap[t] /\ blob'[t] = blob[t] /\ pc'[t] = "done"
      BY <2>6, ReplyDoes
    <3> QED BY <1>2, <1>3, <3>1 DEF Saving
  <2>7. CASE t = v /\ (Export(t) \/ ExportFails(t))
    <3>1. /\ snap[t] = "export" /\ hashed'[t] = hashed[t] /\ Brain' = Brain
          /\ blob'[t] # NoBlob /\ blob'[t].content.brain = Brain
      BY <2>7, ExportDoes
    <3> QED BY <1>2, <1>3, <3>1 DEF Knows, Saving
  <2>8. CASE t = v /\ Tar(t)
    <3>1. "caughtLater" \notin mishaps'
      BY NoLossBefore DEF Losses
    <3>2. /\ snap[t] = "tar" /\ hashed'[t] = hashed[t]
          /\ blob'[t] # NoBlob /\ blob'[t].content.brain = blob[t].content.brain
      BY <2>8, <3>1, TarDoes
    <3> QED BY <1>2, <1>3, <3>2 DEF Knows, Saving, Exported
  <2>9. CASE t = v /\ Upload(t)
    <3>1. snap[t] = "upload" /\ hashed'[t] = hashed[t] /\ blob'[t] = blob[t]
      BY <2>9, UploadDoes
    <3> QED BY <1>2, <1>3, <3>1 DEF Saving, Exported
  <2>10. CASE t = v /\ Relock(t)
    <3>1. /\ snap[t] = "relock"
          /\ Rows(u) \in hashed'[t] => hashed'[t] = hashed[t] /\ blob'[t] = blob[t]
      BY <2>10, RelockDoes
    <3> QED BY <1>2, <1>3, <3>1 DEF Saving, Exported
  <2>11. CASE t = v /\ (SnapshotFails(t) \/ Publish(t) \/ PublishFails(t))
    BY <2>11, SnapshotFailsDoes, PublishDoes, PublishFailsDoes
  <2> QED BY <1>5, <2>1, <2>2, <2>3, <2>4, <2>5, <2>6, <2>7, <2>8, <2>9, <2>10, <2>11
          DEF TaskStep, RunStep, ChainStep
<1>6. ASSUME NEW w, NEW m, Stops(w, m) PROVE FALSE
  BY <1>6, Stopped
<1>7. CASE LandLate \/ Wipe \/ Rest
  <2>1. UNCHANGED <<snap, hashed, blob, pc>>
    BY <1>7, LandLateDoes, WipeDoes, Rests
  <2> QED BY <1>2, <1>3, <2>1 DEF Saving
<1> QED BY <1>5, <1>6, <1>7, Steps

LEMMA OrderAfter ==
  ASSUME Fits, [Next]_vars, KeepFit, NoLoss'
  PROVE  OrderFits'
<1> SUFFICES ASSUME NEW x \in Current', NEW y \in Fresh', NEW u \in Task,
                    x.seq <= y.seq, Knows(x, u), Rows(u) \in Brain'
             PROVE  Knows(y, u)
  BY DEF OrderFits, Knows
<1>1. NoLoss /\ {"lateWrite", "caughtLater"} \cap mishaps' = {} /\ packs \in Nat
  BY NoLossBefore, Histories DEF Losses
<1>2. y # NoBlob
  BY DEF Fresh
<1>3. CASE JustPacked(y)
  BY <1>3, PackedIs DEF Knows
<1>4. ASSUME NEW c \in Fresh, c.seq = y.seq, c.content.brain = y.content.brain
      PROVE  Knows(y, u)
  <2>1. Ready
    BY <1>4, CurrentBeforeLoad
  <2>2. c \in Current
    BY <1>4 DEF Current
  <2>3. ~JustPacked(x)
    <3>1. c.seq \in Nat /\ c.seq <= packs
      BY <1>1, <2>2, SameAsBefore
    <3> QED BY <1>1, <1>4, <3>1, PackedIs
  <2>4. PICK a \in Current : a.seq = x.seq /\ a.content.brain = x.content.brain
    BY <1>1, <2>3, SameAsBefore
  <2>5. a \in Blobs /\ Knows(a, u)
    BY <1>1, <2>4, SameAsBefore DEF Knows
  <2>6. ~Work(u) /\ ~Fail(u)
    <3>1. Work(u) \/ Fail(u) => pc[u] \notin Learnt
      BY WorkDoes, FailDoes DEF Learnt
    <3> QED BY <2>5, <3>1 DEF Fits, RowsFit, Knows
  <2>7. Rows(u) \in Brain
    BY <2>1, <2>6, RowsCame
  <2>8. Knows(c, u)
    BY <1>1, <1>4, <2>4, <2>5, <2>7 DEF KeepFit, OrderFits
  <2> QED BY <1>2, <1>4, <2>8 DEF Knows
<1> QED BY <1>1, <1>3, <1>4, SameAsBefore

LEMMA LastAfter ==
  ASSUME Fits, [Next]_vars, KeepFit, NoLoss'
  PROVE  LastFits'
<1> SUFFICES ASSUME NEW u \in Task, Rows(u) \in lastPublished', Rows(u) \in Brain'
             PROVE  Knows(pointer', u)
  BY DEF LastFits, Knows
<1>1. NoLoss
  BY NoLossBefore
<1>2. CASE lastPublished' = lastPublished /\ pointer' = pointer
  <2>1. ~Work(u) /\ ~Fail(u)
    <3>1. Work(u) \/ Fail(u) => pc[u] \notin Learnt
      BY WorkDoes, FailDoes DEF Learnt
    <3> QED BY <1>2, <3>1 DEF Fits, RowsFit
  <2>2. CASE Rows(u) \in Brain
    BY <1>1, <1>2, <2>2 DEF KeepFit, LastFits
  <2> QED BY <1>2, <2>1, <2>2, RowsCame
<1>3. ASSUME NEW t \in Task, Publish(t) PROVE Knows(pointer', u)
  <2>1. /\ pointer' = blob[t] /\ lastPublished' = hashed[t] /\ snap[t] = "send"
    BY <1>3, PublishDoes
  <2> QED BY <1>1, <2>1 DEF KeepFit, ChainsFit, Exported
<1>4. ASSUME NEW t \in Task, TaskStep(t), ~Publish(t)
      PROVE  lastPublished' = lastPublished /\ pointer' = pointer
  <2>1. CASE LoadStep(t)
    BY <2>1, BeginDoes, ReadPointerDoes, UntarDoes, RestoreFailsDoes, PrepareDoes, OpenDoes,
       LoadFailsDoes, LoadedDoes DEF LoadStep
  <2>2. CASE RunStep(t)
    BY <2>2, WorkDoes, FailDoes, CompareDoes, FinishDoes, ReplyDoes DEF RunStep
  <2>3. CASE ChainStep(t)
    BY <1>4, <2>3, ExportDoes, TarDoes, SnapshotFailsDoes, UploadDoes, RelockDoes, PublishFailsDoes
    DEF ChainStep
  <2> QED BY <1>4, <2>1, <2>2, <2>3 DEF TaskStep
<1>5. ASSUME NEW w, NEW m, Stops(w, m) PROVE FALSE
  BY <1>5, Stopped
<1>6. ~LandLate
  BY NoLossBefore, LandLateDoes DEF Losses
<1>7. CASE Wipe \/ Rest
  BY <1>2, <1>7, WipeDoes, Rests
<1> QED BY <1>2, <1>3, <1>4, <1>5, <1>6, <1>7, Steps

\* A result stays known when a newer snapshot takes the place of one that knows it.
LEMMA KnowsOn ==
  ASSUME Fits, KeepFit, NoLoss, NEW x \in Current, NEW y \in Fresh, ~Older(y, x),
         NEW t \in Task, Knows(x, t), Rows(t) \in Brain
  PROVE  Knows(y, t)
<1>1. x \in Blob /\ y \in Blob /\ y # NoBlob /\ x # NoBlob
  BY BlobAssumption DEF Current, Fresh, Packed, Fits, HermesTypes
<1>2. x.seq \in Nat /\ y.seq \in Nat
  BY <1>1 DEF Blob
<1>3. x.seq <= y.seq
  BY <1>1, <1>2 DEF Older
<1> QED BY <1>3 DEF KeepFit, OrderFits

\* A covered result stays covered.
LEMMA CoverStays ==
  ASSUME Fits, [Next]_vars, KeepFit, NoLoss', NEW t \in Task, Covered(t), Rows(t) \in Brain
  PROVE  Covered(t)'
<1>1. /\ NoLoss /\ {"lost", "erased", "overtaken", "lateWrite", "restoreRace"} \cap mishaps' = {}
  BY NoLossBefore DEF Losses
<1>2. CASE Knows(pointer, t)
  <2>1. CASE pointer' = pointer
    BY <1>2, <2>1 DEF Covered, Knows
  <2>2. CASE pointer' # pointer
    <3>1. pointer' \in Fresh /\ ~Older(pointer', pointer)
      BY <1>1, <2>2, PointerAfter
    <3>2. pointer \in Current
      BY <1>2 DEF Current, Knows
    <3>3. Knows(pointer', t)
      BY <1>1, <1>2, <3>1, <3>2, KnowsOn
    <3> QED BY <3>3 DEF Covered, Knows
  <2> QED BY <2>1, <2>2
<1>3. CASE Knows(pendingPointer, t)
  <2>1. pendingPointer \in Current /\ pendingPointer # NoBlob
    BY <1>3 DEF Current, Fresh, Knows
  <2>2. CASE pendingPointer' = pendingPointer
    BY <1>3, <2>2 DEF Covered, Knows
  <2>3. ASSUME NEW u \in Task, Relock(u), pendingPointer' # pendingPointer PROVE Covered(t)'
    <3>1. snap[u] = "relock" /\ pendingPointer' = blob[u] /\ ~Older(blob[u], pendingPointer)
      BY <1>1, <2>3, RelockDoes
    <3>2. blob[u] \in Fresh
      BY <3>1, InChain DEF Exported
    <3>3. Knows(blob[u], t)
      BY <1>1, <1>3, <2>1, <3>1, <3>2, KnowsOn
    <3> QED BY <3>1, <3>3 DEF Covered, Knows
  <2>4. ASSUME NEW u \in Task, Publish(u) PROVE Covered(t)'
    <3>1. pointer' = pendingPointer
      BY <1>1, <2>1, <2>4, PublishDoes
    <3> QED BY <1>3, <3>1 DEF Covered, Knows
  <2>5. ASSUME NEW u \in Task, TaskStep(u), ~Relock(u), ~Publish(u)
        PROVE  pendingPointer' = pendingPointer
    <3>1. CASE LoadStep(u)
      BY <3>1, BeginDoes, ReadPointerDoes, UntarDoes, RestoreFailsDoes, PrepareDoes, OpenDoes,
         LoadFailsDoes, LoadedDoes DEF LoadStep
    <3>2. CASE RunStep(u)
      BY <3>2, WorkDoes, FailDoes, CompareDoes, FinishDoes, ReplyDoes DEF RunStep
    <3>3. CASE ChainStep(u)
      BY <2>5, <3>3, ExportDoes, TarDoes, SnapshotFailsDoes, UploadDoes, PublishFailsDoes
      DEF ChainStep
    <3> QED BY <2>5, <3>1, <3>2, <3>3 DEF TaskStep
  <2>6. ASSUME NEW w, NEW m, Stops(w, m) PROVE Covered(t)'
    <3>1. pointer' = pendingPointer
      BY <1>1, <2>1, <2>6, Stopped
    <3> QED BY <1>3, <3>1 DEF Covered, Knows
  <2>7. CASE LandLate \/ Wipe \/ Rest
    BY <2>2, <2>7, LandLateDoes, WipeDoes, Rests
  <2> QED BY <2>2, <2>3, <2>4, <2>5, <2>6, <2>7, Steps
<1>4. ASSUME NEW u \in Task, Saving(u), Rows(t) \in hashed[u]
      PROVE  Covered(t)'
  <2>1. CASE Saving(u)' /\ hashed'[u] = hashed[u]
    BY <1>4, <2>1 DEF Covered
  <2>2. CASE Relock(u)
    <3>1. CASE hashed[u] = lastPublished
      <4>1. Knows(pointer, t)
        BY <1>1, <1>4, <3>1 DEF KeepFit, LastFits
      <4> QED BY <1>2, <4>1
    <3>2. CASE hashed[u] # lastPublished
      <4>1. pendingPointer' = blob[u] /\ snap[u] = "relock"
        BY <2>2, <3>2, RelockDoes
      <4>2. Knows(blob[u], t)
        BY <1>1, <1>4, <4>1 DEF KeepFit, ChainsFit, Exported
      <4> QED BY <4>1, <4>2 DEF Covered, Knows
    <3> QED BY <3>1, <3>2
  <2>3. ASSUME NEW v \in Task, TaskStep(v), ~Relock(u)
        PROVE  Saving(u)' /\ hashed'[u] = hashed[u]
    <3>1. CASE v # u
      <4>1. pc'[u] = pc[u] /\ snap'[u] = snap[u] /\ hashed'[u] = hashed[u]
        BY <2>3, <3>1, Moves DEF Elsewhere
      <4> QED BY <1>4, <4>1 DEF Saving
    <3>2. CASE v = u /\ LoadStep(u)
      <4>1. pc[u] \in Loading \cup {"lock"} /\ snap' = snap /\ hashed'[u] = hashed[u]
        BY <3>2, BeginDoes, ReadPointerDoes, UntarDoes, RestoreFailsDoes, PrepareDoes, OpenDoes,
           LoadFailsDoes, LoadedDoes DEF LoadStep, Loading
      <4> QED BY <1>4, <4>1 DEF Saving, Loading
    <3>3. CASE v = u /\ (Work(u) \/ Fail(u) \/ Compare(u))
      BY <1>4, <3>3, WorkDoes, FailDoes, CompareDoes DEF Saving
    <3>4. CASE v = u /\ Finish(u)
      <4>1. /\ hashed'[u] = hashed[u] /\ snap[u] = "none"
            /\ snap'[u] = IF pc[u] = "saveChanged" THEN "export" ELSE "done"
        BY <3>4, FinishDoes
      <4> QED BY <1>4, <4>1 DEF Saving
    <3>5. CASE v = u /\ Reply(u)
      <4>1. hashed'[u] = hashed[u] /\ snap'[u] = snap[u] /\ pc[u] = "reply"
        BY <3>5, ReplyDoes
      <4> QED BY <1>4, <4>1 DEF Saving
    <3>6. CASE v = u /\ ChainStep(u)
      <4>1. snap[u] # "none"
        BY <3>6, ExportDoes, TarDoes, SnapshotFailsDoes, UploadDoes, RelockDoes, PublishDoes,
           PublishFailsDoes DEF ChainStep
      <4>2. snap[u] # "send"
        BY <1>4, <4>1 DEF Fits, BlobsFit, Saving
      <4>3. /\ hashed'[u] = hashed[u]
            /\ snap'[u] \in {"tar", "upload", "relock"}
        BY <1>1, <2>3, <3>6, <4>2, ExportDoes, TarDoes, UploadDoes, SnapshotFailsDoes, PublishDoes,
           PublishFailsDoes DEF ChainStep
      <4> QED BY <4>3 DEF Saving
    <3> QED BY <2>3, <3>1, <3>2, <3>3, <3>4, <3>5, <3>6 DEF TaskStep, RunStep
  <2>4. ASSUME NEW w, NEW m, Stops(w, m) PROVE FALSE
    BY <1>1, <1>4, <2>4, Stopped DEF Saving
  <2>5. CASE LandLate \/ Wipe \/ Rest
    <3>1. UNCHANGED <<pc, snap, hashed>>
      BY <2>5, LandLateDoes, WipeDoes, Rests
    <3> QED BY <1>4, <2>1, <3>1 DEF Saving
  <2> QED BY <2>1, <2>2, <2>3, <2>4, <2>5, Steps
<1> QED BY <1>2, <1>3, <1>4 DEF Covered

LEMMA ResultsAfter ==
  ASSUME Fits, [Next]_vars, KeepFit, NoLoss'
  PROVE  ResultsFit'
<1> DEFINE Answering == {"save", "saveChanged", "reply", "done"}
<1>1. NoLoss
  BY NoLossBefore
<1>2. ASSUME NEW t \in Task, pc'[t] \in Answering, Rows(t) \in Brain' PROVE Covered(t)'
  <2>1. CASE ~Ready /\ Knows(pointer, t) /\ pointer' = pointer
    BY <2>1 DEF Covered, Knows
  <2>2. ~Work(t) /\ ~Fail(t)
    BY <1>2, WorkDoes, FailDoes
  <2>3. CASE Rows(t) \in Brain /\ Compare(t)
    <3>1. pc[t] = "hash" /\ (hashed[t] # Brain => pc'[t] = "saveChanged" /\ hashed'[t] = Brain)
      BY <2>3, CompareDoes
    <3>2. Rows(t) \notin hashed[t]
      BY <1>1, <3>1 DEF KeepFit, ResultsFit
    <3> QED BY <2>3, <3>1, <3>2 DEF Covered, Saving
  <2>4. CASE Rows(t) \in Brain /\ ~Compare(t)
    <3>1. pc[t] \in Answering
      <4>1. ASSUME NEW u \in Task, TaskStep(u) PROVE pc[t] \in Answering
        <5>1. CASE u # t
          BY <1>2, <4>1, <5>1, Moves DEF Elsewhere
        <5>2. CASE u = t /\ LoadStep(t)
          BY <1>2, <5>2, BeginDoes, ReadPointerDoes, UntarDoes, RestoreFailsDoes, PrepareDoes,
             OpenDoes, LoadFailsDoes, LoadedDoes DEF LoadStep
        <5>3. CASE u = t /\ RunStep(t)
          BY <2>2, <2>4, <5>3, FinishDoes, ReplyDoes DEF RunStep
        <5>4. CASE u = t /\ ChainStep(t)
          BY <1>2, <5>4, ExportDoes, TarDoes, SnapshotFailsDoes, UploadDoes, RelockDoes, PublishDoes,
             PublishFailsDoes DEF ChainStep
        <5> QED BY <4>1, <5>1, <5>2, <5>3, <5>4 DEF TaskStep
      <4>2. ASSUME NEW w, NEW m, Stops(w, m) PROVE pc[t] \in Answering
        BY <1>2, <4>2, Stopped
      <4>3. CASE LandLate \/ Wipe \/ Rest
        BY <1>2, <4>3, LandLateDoes, WipeDoes, Rests
      <4> QED BY <4>1, <4>2, <4>3, Steps
    <3>2. Covered(t)
      BY <1>1, <2>4, <3>1 DEF KeepFit, ResultsFit
    <3> QED BY <2>4, <3>2, CoverStays
  <2> QED BY <1>2, <2>1, <2>2, <2>3, <2>4, RowsCame
<1>3. ASSUME NEW t \in Task, pc'[t] = "hash" PROVE Rows(t) \notin hashed'[t]
  <2>1. CASE pc[t] = "hash" /\ hashed'[t] = hashed[t]
    BY <1>1, <2>1 DEF KeepFit, ResultsFit
  <2>2. CASE Work(t)
    <3>1. pc[t] = "run" /\ uses[t] \in Task /\ hashed'[t] = agent[uses[t]].hash
      BY <2>2, WorkDoes
    <3> QED BY <3>1 DEF Fits, RowsFit, Learnt
  <2>3. ASSUME NEW u \in Task, TaskStep(u), ~Work(t) PROVE pc[t] = "hash" /\ hashed'[t] = hashed[t]
    <3>1. CASE u # t
      BY <1>3, <2>3, <3>1, Moves DEF Elsewhere
    <3>2. CASE u = t /\ LoadStep(t)
      BY <1>3, <3>2, BeginDoes, ReadPointerDoes, UntarDoes, RestoreFailsDoes, PrepareDoes, OpenDoes,
         LoadFailsDoes, LoadedDoes DEF LoadStep
    <3>3. CASE u = t /\ RunStep(t)
      BY <1>3, <2>3, <3>3, FailDoes, CompareDoes, FinishDoes, ReplyDoes DEF RunStep
    <3>4. CASE u = t /\ ChainStep(t)
      <4>1. snap[t] # "none" /\ pc' = pc
        BY <3>4, ExportDoes, TarDoes, SnapshotFailsDoes, UploadDoes, RelockDoes, PublishDoes,
           PublishFailsDoes DEF ChainStep
      <4> QED BY <1>3, <4>1 DEF Fits, BlobsFit
    <3> QED BY <2>3, <3>1, <3>2, <3>3, <3>4 DEF TaskStep
  <2>4. ASSUME NEW w, NEW m, Stops(w, m) PROVE FALSE
    BY <1>3, <2>4, Stopped
  <2>5. CASE LandLate \/ Wipe \/ Rest
    BY <1>3, <2>1, <2>5, LandLateDoes, WipeDoes, Rests
  <2> QED BY <2>1, <2>2, <2>3, <2>4, <2>5, Steps
<1> QED BY <1>2, <1>3 DEF ResultsFit

LEMMA KeepStep ==
  ASSUME Fits, [Next]_vars, KeepFit
  PROVE  KeepFit'
BY RestoresAfter, ChainsAfter, OrderAfter, LastAfter, ResultsAfter DEF KeepFit

LEMMA KeepInit ==
  ASSUME Init
  PROVE  KeepFit
<1>1. /\ pendingPointer = NoBlob /\ flush = NoBlob /\ lastPublished = {}
      /\ \A t \in Task : blob[t] = NoBlob /\ hashed[t] = {} /\ snap[t] \in {"none", "done"}
  BY DEF Init
<1>2. /\ Ready
      /\ \A t \in Task : pc[t] = "done" => pointer # NoBlob /\ pointer.content.brain = Brain
      /\ \A t \in Task : pc[t] \in {"idle", "done", "failed"}
  <2>1. pointer = NoBlob \/ pointer.content.brain = Brain
    BY DEF Init, Brain
  <2>2. \A t \in Task : pc[t] \in {"idle", "done", "failed"}
    BY DEF Init
  <2>3. Ready
    BY DEF Init, Ready
  <2>4. ASSUME NEW t \in Task, pc[t] = "done" PROVE pointer # NoBlob
    <3> DEFINE c == [brain |-> Lessons(First), tape |-> {}, lock |-> "whole", db |-> TRUE]
               b == [content |-> c, seq |-> 1, answered |-> {}]
    <3>1. pointer = b
      BY <2>4 DEF Init
    <3>2. c \in Content
      BY HermesAssumption DEF Content, Lessons, Entry
    <3> HIDE DEF c
    <3>3. b \in Blob
      BY <3>2, HermesAssumption DEF Blob
    <3> HIDE DEF b
    <3> QED BY <3>1, <3>3, BlobAssumption
  <2> QED BY <2>1, <2>2, <2>3, <2>4
<1>3. RestoresFit
  BY <1>2 DEF RestoresFit
<1>4. ChainsFit
  BY <1>1 DEF ChainsFit
<1>5. OrderFits
  BY <1>1 DEF OrderFits, Fresh, Packed
<1>6. LastFits
  BY <1>1 DEF LastFits
<1>7. ResultsFit
  BY <1>2 DEF ResultsFit, Covered, Knows
<1> QED BY <1>3, <1>4, <1>5, <1>6, <1>7 DEF KeepFit

\* A graceful stop with nothing running leaves the pointer with all that was learnt (runTask, flush).
THEOREM StopKeeps == Spec => GracefulStopKeepsWork
<1>1. Init => Fits /\ KeepFit
  BY FitsInit, KeepInit
<1>2. (Fits /\ KeepFit) /\ [Next]_vars => (Fits /\ KeepFit)'
  BY FitsStep, KeepStep
<1>3. ASSUME Fits, KeepFit, [Next]_vars,
             up # "down", up' = "down", Terminate \/ Flush,
             \A t \in Task : /\ pc[t] \in {"idle", "done", "failed", "killed"}
                             /\ snap[t] \in {"none", "done"},
             ~Happening({"lost", "erased", "overtaken", "lateWrite", "restoreRace", "caughtLater"}),
             NEW t \in Task, pc[t] = "done", <<t, "rows">> \in Brain
      PROVE  pointer' # NoBlob /\ <<t, "rows">> \in pointer'.content.brain
  <2>1. NoLoss'
    BY <1>3 DEF Happening, NoLoss, Never, Losses
  <2>2. NoLoss /\ Rows(t) \in Brain
    BY <1>3, <2>1, NoLossBefore DEF Rows
  <2>3. Covered(t)
    BY <1>3, <2>2 DEF KeepFit, ResultsFit
  <2>4. Covered(t)'
    BY <1>3, <2>1, <2>2, <2>3, CoverStays
  <2>5. PICK w, m : Stops(w, m)
    BY <1>3, OperatorDoes
  <2>6. pendingPointer' = NoBlob
    BY <1>3, <2>5, Stopped
  <2>7. \A u \in Task : pc'[u] # "saveChanged" /\ snap'[u] \in {"none", "done"}
    <3> SUFFICES ASSUME NEW u \in Task PROVE pc'[u] # "saveChanged" /\ snap'[u] \in {"none", "done"}
      OBVIOUS
    <3>1. /\ pc'[u] = IF pc[u] \in {"idle", "done", "failed"} THEN pc[u] ELSE "killed"
          /\ snap'[u] = IF Chaining(u) THEN "lost" ELSE snap[u]
      BY <1>3, <2>5, Stopped
    <3> QED BY <1>3, <3>1 DEF Chaining
  <2> QED BY <2>4, <2>6, <2>7 DEF Covered, Knows, Rows, Saving
<1>4. ASSUME Fits, KeepFit, [Next]_vars
      PROVE  [up # "down" /\ up' = "down" /\ (Terminate \/ Flush)
               /\ (\A t \in Task : pc[t] \in {"idle", "done", "failed", "killed"} /\ snap[t] \in {"none", "done"}) =>
               \/ Happening({"lost", "erased", "overtaken", "lateWrite", "restoreRace", "caughtLater"})
               \/ \A t \in Task : pc[t] = "done" /\ <<t, "rows">> \in Brain =>
                    pointer' # NoBlob /\ <<t, "rows">> \in pointer'.content.brain]_vars
  BY <1>3, <1>4
<1> QED BY <1>1, <1>2, <1>4, PTL DEF Spec, GracefulStopKeepsWork
=============================================================================
