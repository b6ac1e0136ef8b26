------------------------- MODULE UserReindexing_proofs -------------------------
(***************************************************************************)
(* What UserReindexing guarantees for any number of consumers and changes.  *)
(***************************************************************************)
EXTENDS UserReindexing, TLAPS, SequenceTheorems

USE QueueAssumption, ChangeAssumption

----------------------------------------------------------------------------
(* The inductive invariant *)

\* Tasks in the queue, and with consumers, have been enqueued.
EnqueuedOnce ==
    /\ \A t \in Queued : stage[t] = "done"
    /\ \A c \in Consumer : holds[c] # NoTask => stage[holds[c]] = "done"
    /\ \A t \in Task : task[t] = "completed" => stage[t] = "done"

\* No time is ahead of the clock.
PastOf ==
    /\ required <= clock /\ indexed <= clock
    /\ \A n \in Change : mark[n] <= clock
    /\ \A c \in Consumer : startedAt[c] <= clock

\* What is copied is what was committed.
Copies ==
    /\ index \subseteq reached /\ index \subseteq committed
    /\ \A c \in Consumer : source[c] \subseteq committed

\* An import that has not committed holds the lock of the row since it looked at the clock.
LockIsHeld ==
    /\ \A n, m \in Change : stage[n] = "importing" /\ stage[m] = "importing" => n = m
    /\ \A n \in Change :
           stage[n] = "importing" =>
               kind[n] = "import" /\ indexed <= mark[n] /\ required <= mark[n]

\* A change that an execution has not read is to be marked with a time after its start, unless
\* it is an import.
UnreadOf(c) ==
    step[c] \in {"write", "stamp"} /\ ~IsDeleted =>
        \A n \in committed \ source[c] :
            \/ stage[n] = "committed" \/ n \in lost
            \/ required >= startedAt[c] \/ kind[n] = "import"

\* An execution brings the change of its task to the index.
ExecutionOf(c) ==
    /\ step[c] \in {"write", "stamp"} => holds[c] \in source[c]
    /\ step[c] = "stamp" => source[c] \subseteq reached /\ (raced \/ source[c] \subseteq index)
    /\ step[c] = "done" => holds[c] \in reached \cup lost \/ raced \/ IsDeleted

ReindexInv ==
    /\ TypeOK /\ EnqueuedOnce /\ PastOf /\ Copies /\ LockIsHeld
    /\ \A c \in Consumer : UnreadOf(c) /\ ExecutionOf(c)
    /\ TaskIsLostOnlyByFailure /\ UpToDateMarkIsHonest /\ CompletedTaskWasIndexed


----------------------------------------------------------------------------
(* Proofs *)

\* An item that is pushed is added to the items of the queue.
LEMMA PushFacts ==
    ASSUME NEW q \in Seq(Task), IsInjective(q), NEW t \in Task, t \notin ToSet(q)
    PROVE  /\ <<t>> \o q \in Seq(Task) /\ IsInjective(<<t>> \o q)
           /\ ToSet(<<t>> \o q) = ToSet(q) \cup {t}
  <1> DEFINE p == <<t>> \o q
  <1>1. p \in Seq(Task) /\ Len(p) = Len(q) + 1 /\ Len(q) \in Nat
    OBVIOUS
  <1>2. p[1] = t /\ \A i \in 2..Len(q) + 1 : p[i] = q[i - 1]
    OBVIOUS
  <1>3. DOMAIN p = 1..Len(q) + 1 /\ DOMAIN q = 1..Len(q)
    BY <1>1
  <1> HIDE DEF p
  <1>4. \A i \in 2..Len(q) + 1 : i - 1 \in 1..Len(q) /\ p[i] \in ToSet(q)
    BY <1>1, <1>2, <1>3 DEF ToSet
  <1>5. IsInjective(p)
    <2> SUFFICES ASSUME NEW i \in 1..Len(q) + 1, NEW j \in 1..Len(q) + 1, p[i] = p[j]
                 PROVE  i = j
      BY <1>3 DEF IsInjective
    <2>1. CASE i = 1 \/ j = 1
      BY <1>1, <1>2, <1>4, <2>1
    <2>2. CASE i # 1 /\ j # 1
      <3>1. q[i - 1] = q[j - 1] /\ i - 1 \in 1..Len(q) /\ j - 1 \in 1..Len(q)
        BY <1>1, <1>2, <2>2
      <3>2. i - 1 = j - 1
        BY <1>3, <3>1 DEF IsInjective
      <3> QED
        BY <1>1, <3>2
    <2> QED
      BY <2>1, <2>2
  <1>6. ToSet(p) = ToSet(q) \cup {t}
    <2>1. ToSet(p) \subseteq ToSet(q) \cup {t}
      BY <1>1, <1>2, <1>3, <1>4 DEF ToSet
    <2>2. t \in ToSet(p)
      BY <1>1, <1>2, <1>3 DEF ToSet
    <2>3. ASSUME NEW i \in 1..Len(q)
          PROVE  q[i] \in ToSet(p)
      <3>1. i + 1 \in 2..Len(q) + 1 /\ (i + 1) - 1 = i
        BY <1>1
      <3>2. p[i + 1] = q[i]
        BY <1>2, <3>1
      <3> QED
        BY <1>1, <1>3, <3>1, <3>2 DEF ToSet
    <2> QED
      BY <1>3, <2>1, <2>2, <2>3 DEF ToSet
  <1> QED
    BY <1>1, <1>5, <1>6 DEF p

\* An item that is popped was in the queue, and the others stay in it.
LEMMA PopFacts ==
    ASSUME NEW q \in Seq(Task), IsInjective(q), q # <<>>
    PROVE  /\ Front(q) \in Seq(Task) /\ IsInjective(Front(q)) /\ Last(q) \in Task
           /\ Last(q) \in ToSet(q) /\ ToSet(q) = ToSet(Front(q)) \cup {Last(q)}
  <1> DEFINE f == Front(q)
  <1>1. Len(q) \in Nat \ {0} /\ DOMAIN q = 1..Len(q)
    OBVIOUS
  <1>2. Last(q) \in Task /\ Last(q) = q[Len(q)]
    BY <1>1 DEF Last
  <1>3. f \in Seq(Task) /\ DOMAIN f = 1..Len(q) - 1 /\ \A i \in 1..Len(q) - 1 : f[i] = q[i]
    BY <1>1 DEF Front
  <1> HIDE DEF f
  <1>4. IsInjective(f)
    <2>1. \A i \in 1..Len(q) - 1 : i \in 1..Len(q)
      BY <1>1
    <2>2. \A i, j \in 1..Len(q) : q[i] = q[j] => i = j
      BY <1>1 DEF IsInjective
    <2>3. \A i, j \in 1..Len(q) - 1 : f[i] = f[j] => i = j
      BY <1>3, <2>1, <2>2, Zenon
    <2> QED
      BY <1>3, <2>3, Zenon DEF IsInjective
  <1>5. ToSet(q) = ToSet(f) \cup {Last(q)}
    <2>1. \A i \in 1..Len(q) : i \in 1..Len(q) - 1 \/ i = Len(q)
      <3>1. \A n \in Nat : \A i \in 1..n : i \in 1..n - 1 \/ i = n
        OBVIOUS
      <3> QED
        BY <1>1, <3>1
    <2>2. \A i \in 1..Len(q) - 1 : i \in 1..Len(q)
      BY <1>1
    <2>3. Len(q) \in 1..Len(q)
      BY <1>1
    <2>4. \A x \in ToSet(q) : x \in ToSet(f) \/ x = Last(q)
      BY <1>1, <1>2, <1>3, <2>1, Zenon DEF ToSet
    <2>5. \A x \in ToSet(f) : x \in ToSet(q)
      BY <1>1, <1>3, <2>2, Zenon DEF ToSet
    <2>6. Last(q) \in ToSet(q)
      BY <1>1, <1>2, <2>3, Zenon DEF ToSet
    <2> DEFINE before == ToSet(q)
               after == ToSet(f) \cup {Last(q)}
    <2>7. \A x : x \in before <=> x \in after
      BY <2>4, <2>5, <2>6, Zenon
    <2> HIDE DEF before, after
    <2>8. before = after
      BY <2>7, Zenon
    <2> QED
      BY <2>8 DEF before, after
  <1> QED
    BY <1>2, <1>3, <1>4, <1>5 DEF f


----------------------------------------------------------------------------
(* Types *)

ChangeTypes ==
    /\ kind \in [Change -> {"none", "update", "import", "delete"}]
    /\ stage \in [Change -> Stages] /\ mark \in [Change -> 0..MaxTime]
    /\ committed \subseteq Change /\ index \subseteq Change /\ reached \subseteq Change
    /\ \A n \in Change : n \in committed <=> stage[n] \notin {"none", "importing"}
    /\ required \in 0..MaxTime /\ indexed \in 0..MaxTime /\ clock \in 0..MaxTime
    /\ raced \in BOOLEAN

ExecTypes ==
    /\ step \in [Consumer -> Steps] /\ startedAt \in [Consumer -> 0..MaxTime]
    /\ \A c \in Consumer : step[c] # "none" <=> pc[c] = "run"
    /\ source \in [Consumer -> SUBSET Change]

\* The type invariant by part of the system
LEMMA TypeParts == TypeOK <=> QueueTypeOK /\ ChangeTypes /\ ExecTypes
  BY DEF TypeOK, ChangeTypes, ExecTypes

\* What a consumer does to the queue while it runs no task
LoopStep(c) ==
    Reserve(c) \/ Dequeue(c) \/ DequeueTimesOut(c) \/ LoopEnds(c) \/ Start(c)

\* A task is enqueued only once: the queue has no item twice.
LEMMA QueueTypeStep ==
    ASSUME QueueTypeOK, ChangeTypes, EnqueuedOnce, Next
    PROVE  QueueTypeOK'
  <1>1. CASE UNCHANGED queueVars
    BY <1>1 DEF QueueTypeOK, queueVars, Queued
  <1>2. CASE \E n \in Change : EnqueueReindexUserTask(n)
    <2>1. PICK n \in Change : EnqueueReindexUserTask(n)
      BY <1>2
    <2>2. CASE stage[n] = "marked" /\ EnqueueSetNX(n)
      BY <2>2 DEF QueueTypeOK, EnqueueSetNX
    <2>3. CASE stage[n] = "set" /\ EnqueueLPush(n)
      <3>1. n \in Task /\ n \notin ToSet(queue) /\ queue \in Seq(Task) /\ IsInjective(queue)
        BY <2>3 DEF EnqueuedOnce, Queued, QueueTypeOK
      <3>2. queue' \in Seq(Task) /\ IsInjective(queue')
        BY <2>3, <3>1, PushFacts DEF EnqueueLPush
      <3> QED
        BY <2>3, <3>1, <3>2 DEF QueueTypeOK, EnqueueLPush
    <2> QED
      BY <2>1, <2>2, <2>3 DEF EnqueueReindexUserTask
  <1>3. CASE \E n \in Change : AnnouncementFails(n)
    BY <1>3 DEF QueueTypeOK, AnnouncementFails, Fail
  <1>4. CASE \E t \in Task : Expire(t)
    BY <1>4 DEF QueueTypeOK, Expire, Fail
  <1>5. CASE \E c \in Consumer : Stop(c)
    BY <1>5 DEF QueueTypeOK, Stop, Fail
  <1>6. CASE \E c \in Consumer : LoopStep(c)
    <2>1. PICK c \in Consumer : LoopStep(c)
      BY <1>6
    <2>2. CASE Reserve(c) \/ DequeueTimesOut(c) \/ LoopEnds(c) \/ Start(c)
      BY <2>2 DEF QueueTypeOK, Reserve, DequeueTimesOut, LoopEnds, Start, Goto
    <2>3. CASE Dequeue(c)
      <3>1. queue \in Seq(Task) /\ IsInjective(queue) /\ queue # <<>>
        BY <2>3 DEF Dequeue, QueueTypeOK
      <3>2. queue' \in Seq(Task) /\ IsInjective(queue') /\ Last(queue) \in Task
        BY <2>3, <3>1, PopFacts DEF Dequeue
      <3>3. /\ UNCHANGED <<task, shutdown, lost, failures>>
            /\ pc' = [pc EXCEPT ![c] = "get"]
            /\ holds' = [holds EXCEPT ![c] = Last(queue)]
        BY <2>3 DEF Dequeue, Goto
      <3> QED
        BY <3>2, <3>3 DEF QueueTypeOK
    <2> QED
      BY <2>1, <2>2, <2>3 DEF LoopStep
  <1>7. CASE \E c \in Consumer : GetTask(c)
    BY <1>7 DEF QueueTypeOK, GetTask
  <1>8. CASE \E c \in Consumer : Complete(c)
    BY <1>8 DEF QueueTypeOK, Complete, Goto
  <1>9. CASE \E c \in Consumer : ExecFails(c)
    BY <1>9 DEF QueueTypeOK, ExecFails, Fail
  <1>10. CASE \E c \in Consumer : Crash(c)
    BY <1>10 DEF QueueTypeOK, Crash, Fail
  <1> QED
    BY <1>1, <1>2, <1>3, <1>4, <1>5, <1>6, <1>7, <1>8, <1>9, <1>10
       DEF Next, RequestStep, ConsumerStep, CommitTx, MarkAsReindexRequired, ImportMark,
           ImportCommit, BeginExec, ReadRow, ReadSource, WriteIndex, UpdateLastIndexedAt,
           CompleteTask, CrashTask, LoopStep

\* The types of the database side
LEMMA ChangeTypeStep ==
    ASSUME ChangeTypes, ExecTypes, Next
    PROVE  ChangeTypes'
  <1>1. CASE UNCHANGED <<changeVars, indexed, index, clock, history>>
    BY <1>1 DEF ChangeTypes, changeVars, history
  <1>2. ASSUME NEW n \in Change, NEW k \in {"update", "delete"}, CommitTx(n, k)
        PROVE  ChangeTypes'
    BY <1>2 DEF ChangeTypes, CommitTx, history, Stages
  <1>3. ASSUME NEW n \in Change, MarkAsReindexRequired(n)
        PROVE  ChangeTypes'
    BY <1>3 DEF ChangeTypes, MarkAsReindexRequired, history, Stages, Now
  <1>4. ASSUME NEW n \in Change, ImportMark(n)
        PROVE  ChangeTypes'
    BY <1>4 DEF ChangeTypes, ImportMark, history, Stages, Now
  <1>5. ASSUME NEW n \in Change, ImportCommit(n)
        PROVE  ChangeTypes'
    BY <1>5 DEF ChangeTypes, ImportCommit, history, Stages
  <1>6. ASSUME NEW n \in Change, EnqueueReindexUserTask(n) \/ AnnouncementFails(n)
        PROVE  ChangeTypes'
    BY <1>6 DEF ChangeTypes, EnqueueReindexUserTask, AnnouncementFails, history, Stages
  <1>7. ASSUME NEW c \in Consumer, BeginExec(c)
        PROVE  ChangeTypes'
    BY <1>7 DEF ChangeTypes, BeginExec, changeVars, history, Now
  <1>8. ASSUME NEW c \in Consumer, WriteIndex(c)
        PROVE  ChangeTypes'
    BY <1>8 DEF ChangeTypes, ExecTypes, WriteIndex, changeVars
  <1>9. ASSUME NEW c \in Consumer, UpdateLastIndexedAt(c)
        PROVE  ChangeTypes'
    BY <1>9 DEF ChangeTypes, ExecTypes, UpdateLastIndexedAt, changeVars
  <1> QED
    BY <1>1, <1>2, <1>3, <1>4, <1>5, <1>6, <1>7, <1>8, <1>9
       DEF Next, RequestStep, ConsumerStep, ReadRow, ReadSource, CompleteTask, ExecFails,
           CrashTask, reindexVars, changeVars, history

\* The types of the executions
LEMMA ExecTypeStep ==
    ASSUME QueueTypeOK, ChangeTypes, ExecTypes, Next
    PROVE  ExecTypes'
  <1>1. CASE UNCHANGED <<execVars, pc>>
    BY <1>1 DEF ExecTypes, execVars
  <1>2. ASSUME NEW c \in Consumer, LoopStep(c), UNCHANGED execVars
        PROVE  ExecTypes'
    BY <1>2 DEF ExecTypes, execVars, LoopStep, Reserve, Dequeue, DequeueTimesOut, LoopEnds,
                Start, Goto, QueueTypeOK
  <1>3. ASSUME NEW c \in Consumer, BeginExec(c)
        PROVE  ExecTypes'
    <2>1. pc \in [Consumer -> {"idle", "reserved", "get", "run", "stopped"}] /\ pc[c] = "get"
      BY <1>3 DEF BeginExec, GetTask, QueueTypeOK
    <2>2. CASE pc' = [pc EXCEPT ![c] = "run"]
      <3>1. /\ step' = [step EXCEPT ![c] = "row"] /\ source' = source
            /\ startedAt' = [startedAt EXCEPT ![c] = clock'] /\ clock' \in 0..MaxTime
        BY <1>3, <2>1, <2>2 DEF BeginExec, Then, Now
      <3> QED
        BY <2>1, <2>2, <3>1 DEF ExecTypes, Steps
    <2>3. CASE pc' = [pc EXCEPT ![c] = "idle"]
      <3>1. step' = step /\ source' = source /\ startedAt' = startedAt
        BY <1>3, <2>1, <2>3 DEF BeginExec
      <3> QED
        BY <2>1, <2>3, <3>1 DEF ExecTypes
    <2> QED
      BY <1>3, <2>2, <2>3 DEF BeginExec, GetTask
  <1>4. ASSUME NEW c \in Consumer, ReadRow(c) \/ ReadSource(c)
        PROVE  ExecTypes'
    BY <1>4 DEF ExecTypes, ReadRow, ReadSource, At, Then, Steps, ChangeTypes, queueVars
  <1>5. ASSUME NEW c \in Consumer, WriteIndex(c) \/ UpdateLastIndexedAt(c)
        PROVE  ExecTypes'
    BY <1>5 DEF ExecTypes, WriteIndex, UpdateLastIndexedAt, At, Then, Steps, queueVars
  <1>6. ASSUME NEW c \in Consumer, ExecFails(c)
        PROVE  ExecTypes'
    BY <1>6 DEF ExecTypes, ExecFails, Then, Steps
  <1>7. ASSUME NEW c \in Consumer, CompleteTask(c) \/ CrashTask(c)
        PROVE  ExecTypes'
    <2>1. pc \in [Consumer -> {"idle", "reserved", "get", "run", "stopped"}]
      BY DEF QueueTypeOK
    <2>2. /\ pc' = [pc EXCEPT ![c] = "idle"] /\ step' = [step EXCEPT ![c] = "none"]
          /\ startedAt' = [startedAt EXCEPT ![c] = 0] /\ source' = [source EXCEPT ![c] = {}]
      BY <1>7 DEF CompleteTask, CrashTask, Complete, Crash, Goto, Forget, Then
    <2> QED
      BY <2>1, <2>2 DEF ExecTypes, Steps
  <1>8. ASSUME NEW n \in Change, EnqueueReindexUserTask(n)
        PROVE  ExecTypes'
    BY <1>1, <1>8 DEF EnqueueReindexUserTask, EnqueueSetNX, EnqueueLPush
  <1> QED
    BY <1>1, <1>2, <1>3, <1>4, <1>5, <1>6, <1>7, <1>8
       DEF Next, RequestStep, ConsumerStep, CommitTx, MarkAsReindexRequired, ImportMark,
           ImportCommit, AnnouncementFails, Expire, Stop, reindexVars, execVars, queueVars,
           LoopStep


----------------------------------------------------------------------------
(* The queue *)

\* An announcement that is over stays so; every item that is taken was in the queue.
LEMMA QueueMoves ==
    ASSUME QueueTypeOK, ChangeTypes, EnqueuedOnce, Next
    PROVE  /\ \A n \in Change : stage[n] = "done" => stage'[n] = "done"
           /\ \A t \in Queued' : t \in Queued \/ stage'[t] = "done"
           /\ \A c \in Consumer : holds'[c] \in {holds[c], NoTask} \cup Queued
           /\ \A t \in Task :
                  task'[t] = "completed" =>
                      task[t] = "completed" \/ \E c \in Consumer : holds[c] = t
  <1>1. ASSUME NEW n \in Change
        PROVE  stage[n] = "done" => stage'[n] = "done"
    <2>1. ASSUME NEW m \in Change, NEW l, stage[m] # "done", stage' = [stage EXCEPT ![m] = l]
          PROVE  stage[n] = "done" => stage'[n] = "done"
      BY <2>1 DEF ChangeTypes
    <2> QED
      BY <2>1 DEF Next, RequestStep, ConsumerStep, CommitTx, MarkAsReindexRequired, ImportMark,
             ImportCommit, EnqueueReindexUserTask, AnnouncementFails, BeginExec, ReadRow,
             ReadSource, WriteIndex, UpdateLastIndexedAt, CompleteTask, ExecFails, CrashTask,
             reindexVars, changeVars
  <1>2. /\ \A t \in Queued' : t \in Queued \/ stage'[t] = "done"
        /\ \A c \in Consumer : holds'[c] \in {holds[c], NoTask} \cup Queued
    <2>1. CASE UNCHANGED <<queue, holds>>
      BY <2>1 DEF Queued
    <2>2. ASSUME NEW n \in Change, stage[n] = "set", EnqueueLPush(n),
                 stage' = [stage EXCEPT ![n] = "done"]
          PROVE  /\ \A t \in Queued' : t \in Queued \/ stage'[t] = "done"
                 /\ \A c \in Consumer : holds'[c] \in {holds[c], NoTask} \cup Queued
      <3>1. n \in Task /\ n \notin ToSet(queue) /\ queue \in Seq(Task) /\ IsInjective(queue)
        BY <2>2 DEF EnqueuedOnce, Queued, QueueTypeOK
      <3>2. ToSet(queue') = ToSet(queue) \cup {n}
        BY <2>2, <3>1, PushFacts DEF EnqueueLPush
      <3> QED
        BY <2>2, <3>2 DEF EnqueueLPush, Queued, ChangeTypes
    <2>3. ASSUME NEW c \in Consumer, Dequeue(c)
          PROVE  /\ \A t \in Queued' : t \in Queued \/ stage'[t] = "done"
                 /\ \A d \in Consumer : holds'[d] \in {holds[d], NoTask} \cup Queued
      <3>1. queue \in Seq(Task) /\ IsInjective(queue) /\ queue # <<>>
        BY <2>3 DEF Dequeue, QueueTypeOK
      <3>2. ToSet(queue') \subseteq ToSet(queue) /\ Last(queue) \in ToSet(queue)
        BY <2>3, <3>1, PopFacts DEF Dequeue
      <3>3. holds' = [holds EXCEPT ![c] = Last(queue)]
        BY <2>3 DEF Dequeue
      <3> QED
        BY <3>2, <3>3 DEF Queued, QueueTypeOK
    <2>4. ASSUME NEW c \in Consumer, queue' = queue, holds' = [holds EXCEPT ![c] = NoTask]
          PROVE  /\ \A t \in Queued' : t \in Queued \/ stage'[t] = "done"
                 /\ \A d \in Consumer : holds'[d] \in {holds[d], NoTask} \cup Queued
      BY <2>4 DEF Queued, QueueTypeOK
    <2>5. ASSUME NEW n \in Change, EnqueueReindexUserTask(n)
          PROVE  \/ UNCHANGED <<queue, holds>>
                 \/ /\ stage[n] = "set" /\ EnqueueLPush(n)
                    /\ stage' = [stage EXCEPT ![n] = "done"]
      BY <2>5 DEF EnqueueReindexUserTask, EnqueueSetNX
    <2> QED
      BY <2>1, <2>2, <2>3, <2>4, <2>5
         DEF Next, RequestStep, ConsumerStep, CommitTx, MarkAsReindexRequired, ImportMark,
             ImportCommit, AnnouncementFails, Expire, Stop, Reserve, DequeueTimesOut, LoopEnds,
             Start, BeginExec, GetTask, ReadRow, ReadSource, WriteIndex, UpdateLastIndexedAt,
             CompleteTask, Complete, ExecFails, CrashTask, Crash, queueVars
  <1>3. ASSUME NEW t \in Task, task'[t] = "completed"
        PROVE  task[t] = "completed" \/ \E c \in Consumer : holds[c] = t
    <2>1. CASE task' = task
      BY <1>3, <2>1
    <2>2. ASSUME NEW s \in Task, NEW l \in {"pending", "expired"}, task' = [task EXCEPT ![s] = l]
          PROVE  task[t] = "completed"
      BY <1>3, <2>2 DEF QueueTypeOK
    <2>3. ASSUME NEW c \in Consumer, Complete(c)
          PROVE  task[t] = "completed" \/ holds[c] = t
      BY <1>3, <2>3 DEF Complete, QueueTypeOK
    <2>4. ASSUME NEW n \in Change, EnqueueReindexUserTask(n)
          PROVE  task' = task \/ task' = [task EXCEPT ![n] = "pending"]
      BY <2>4 DEF EnqueueReindexUserTask, EnqueueSetNX, EnqueueLPush
    <2> QED
      BY <2>1, <2>2, <2>3, <2>4
         DEF Next, RequestStep, ConsumerStep, CommitTx, MarkAsReindexRequired, ImportMark,
             ImportCommit, AnnouncementFails, Expire, Stop, Reserve, Dequeue, DequeueTimesOut,
             LoopEnds, Start, BeginExec, GetTask, ReadRow, ReadSource, WriteIndex,
             UpdateLastIndexedAt, CompleteTask, ExecFails, CrashTask, Crash, queueVars
  <1> QED
    BY <1>1, <1>2, <1>3

\* Only a task whose enqueuing is over is in the queue, with a consumer or completed.
LEMMA EnqueuedStep ==
    ASSUME QueueTypeOK, ChangeTypes, EnqueuedOnce, Next
    PROVE  EnqueuedOnce'
  <1>1. \A t \in Queued : t \in Change
    BY DEF QueueTypeOK, Queued, ToSet
  <1>2. \A c \in Consumer : holds[c] \in Change \cup {NoTask}
    BY DEF QueueTypeOK
  <1>3. \A n \in Change : stage[n] = "done" => stage'[n] = "done"
    BY QueueMoves
  <1>4. \A t \in Queued' : stage'[t] = "done"
    BY <1>1, <1>3, QueueMoves DEF EnqueuedOnce
  <1>5. ASSUME NEW c \in Consumer, holds'[c] # NoTask
        PROVE  stage'[holds'[c]] = "done"
    <2>1. holds'[c] \in {holds[c], NoTask} \cup Queued
      BY QueueMoves
    <2>2. CASE holds'[c] \in Queued
      BY <1>1, <1>3, <2>2 DEF EnqueuedOnce
    <2>3. CASE holds'[c] = holds[c]
      BY <1>2, <1>3, <1>5, <2>3 DEF EnqueuedOnce
    <2> QED
      BY <1>5, <2>1, <2>2, <2>3
  <1>6. ASSUME NEW t \in Task, task'[t] = "completed"
        PROVE  stage'[t] = "done"
    <2>1. t \in Change /\ t # NoTask
      OBVIOUS
    <2>2. task[t] = "completed" \/ \E c \in Consumer : holds[c] = t
      BY <1>6, QueueMoves
    <2>3. stage[t] = "done"
      BY <2>1, <2>2 DEF EnqueuedOnce
    <2> QED
      BY <1>3, <2>1, <2>3
  <1> QED
    BY <1>4, <1>5, <1>6 DEF EnqueuedOnce

\* A pending task moves from the queue to a consumer.
LEMMA LostStep ==
    ASSUME QueueTypeOK, QueueTypeOK', ChangeTypes, EnqueuedOnce, TaskIsLostOnlyByFailure, Next
    PROVE  TaskIsLostOnlyByFailure'
  <1> SUFFICES ASSUME NEW t \in Task, task'[t] = "pending", stage'[t] = "done"
               PROVE  t \in Queued' \cup lost' \/ \E c \in Consumer : holds'[c] = t
    BY DEF TaskIsLostOnlyByFailure, QueueTypeOK
  <1>0. t # NoTask /\ t \in Change
    OBVIOUS
  <1>1. task[t] = "pending" /\ stage[t] = "done" =>
            t \in Queued \cup lost \/ \E c \in Consumer : holds[c] = t
    BY DEF TaskIsLostOnlyByFailure
  <1>2. CASE /\ stage[t] = "done" /\ task[t] = "pending" /\ queue' = queue /\ holds' = holds
             /\ lost \subseteq lost'
    BY <1>1, <1>2 DEF Queued
  <1>3. ASSUME NEW n \in Change, NEW l \in Stages \ {"done"}, stage' = [stage EXCEPT ![n] = l]
        PROVE  stage[t] = "done"
    BY <1>3 DEF ChangeTypes
  <1>4. CASE UNCHANGED <<task, queue, holds>> /\ lost \subseteq lost' /\ stage[t] = "done"
    BY <1>2, <1>4
  <1>5. ASSUME NEW n \in Change, EnqueueReindexUserTask(n)
        PROVE  t \in Queued' \cup lost' \/ \E c \in Consumer : holds'[c] = t
    <2>1. CASE stage[n] = "marked" /\ EnqueueSetNX(n) /\ stage' = [stage EXCEPT ![n] = "set"]
      <3>1. t # n
        BY <2>1 DEF ChangeTypes
      <3> QED
        BY <1>2, <2>1, <3>1 DEF EnqueueSetNX, QueueTypeOK, ChangeTypes
    <2>2. CASE stage[n] = "set" /\ EnqueueLPush(n) /\ stage' = [stage EXCEPT ![n] = "done"]
      <3>1. n \in Task /\ n \notin ToSet(queue) /\ queue \in Seq(Task) /\ IsInjective(queue)
        BY <2>2 DEF EnqueuedOnce, Queued, QueueTypeOK
      <3>2. ToSet(queue') = ToSet(queue) \cup {n}
        BY <2>2, <3>1, PushFacts DEF EnqueueLPush
      <3>3. t = n \/ stage[t] = "done"
        BY <2>2 DEF ChangeTypes
      <3> QED
        BY <1>1, <2>2, <3>2, <3>3 DEF EnqueueLPush, Queued
    <2> QED
      BY <1>5, <2>1, <2>2 DEF EnqueueReindexUserTask
  <1>6. ASSUME NEW n \in Change, AnnouncementFails(n)
        PROVE  t \in Queued' \cup lost' \/ \E c \in Consumer : holds'[c] = t
    <2>1. t = n \/ stage[t] = "done"
      BY <1>6 DEF AnnouncementFails, ChangeTypes
    <2> QED
      BY <1>2, <1>6, <2>1 DEF AnnouncementFails
  <1>7. ASSUME NEW s \in Task, Expire(s), UNCHANGED reindexVars
        PROVE  t \in Queued' \cup lost' \/ \E c \in Consumer : holds'[c] = t
    BY <1>2, <1>7 DEF Expire, QueueTypeOK, reindexVars
  <1>8. ASSUME NEW c \in Consumer, Dequeue(c), UNCHANGED reindexVars
        PROVE  t \in Queued' \cup lost' \/ \E d \in Consumer : holds'[d] = t
    <2>1. queue \in Seq(Task) /\ IsInjective(queue) /\ queue # <<>>
      BY <1>8 DEF Dequeue, QueueTypeOK
    <2>2. Queued = Queued' \cup {Last(queue)}
      BY <1>8, <2>1, PopFacts DEF Dequeue, Queued
    <2>3. holds[c] = NoTask /\ holds' = [holds EXCEPT ![c] = Last(queue)] /\ lost' = lost
      BY <1>8 DEF Dequeue, Goto, QueueTypeOK
    <2>4. \A d \in Consumer : holds[d] # NoTask => holds'[d] = holds[d]
      BY <2>3 DEF QueueTypeOK
    <2>5. holds'[c] = Last(queue)
      BY <2>3 DEF QueueTypeOK
    <2>6. task[t] = "pending" /\ stage[t] = "done"
      BY <1>8 DEF Dequeue, reindexVars
    <2> QED
      BY <1>0, <1>1, <2>2, <2>3, <2>4, <2>5, <2>6
  <1>9. ASSUME NEW c \in Consumer, GetTask(c), stage' = stage
        PROVE  t \in Queued' \cup lost' \/ \E d \in Consumer : holds'[d] = t
    <2>1. /\ task[t] = "pending" /\ stage[t] = "done" /\ Queued' = Queued /\ lost' = lost
      BY <1>9 DEF GetTask, Queued
    <2>2. \A d \in Consumer : holds[d] = t => holds'[d] = t
      BY <1>9, <2>1 DEF GetTask, QueueTypeOK
    <2> QED
      BY <1>1, <2>1, <2>2
  <1>10. ASSUME NEW c \in Consumer, Complete(c), stage' = stage
         PROVE  t \in Queued' \cup lost' \/ \E d \in Consumer : holds'[d] = t
    <2>1. holds[c] # t
      BY <1>10 DEF Complete, QueueTypeOK
    <2>2. /\ task[t] = "pending" /\ stage[t] = "done" /\ Queued' = Queued /\ lost' = lost
      BY <1>10, <2>1 DEF Complete, Queued, QueueTypeOK
    <2>3. \A d \in Consumer : holds[d] = t => holds'[d] = t
      BY <1>10, <2>1 DEF Complete, QueueTypeOK
    <2> QED
      BY <1>1, <2>2, <2>3
  <1>11. ASSUME NEW c \in Consumer, Crash(c), stage' = stage
         PROVE  t \in Queued' \cup lost' \/ \E d \in Consumer : holds'[d] = t
    <2>1. task[t] = "pending" /\ stage[t] = "done" /\ Queued' = Queued
      BY <1>11 DEF Crash, Queued
    <2>2. \A d \in Consumer : holds[d] = t => holds'[d] = t \/ t \in lost'
      BY <1>0, <1>11 DEF Crash, QueueTypeOK
    <2>3. lost \subseteq lost'
      BY <1>11 DEF Crash
    <2> QED
      BY <1>1, <2>1, <2>2, <2>3
  <1> QED
    BY <1>2, <1>3, <1>4, <1>5, <1>6, <1>7, <1>8, <1>9, <1>10, <1>11
       DEF Next, RequestStep, ConsumerStep, CommitTx, MarkAsReindexRequired, ImportMark,
           ImportCommit, Stop, Reserve, DequeueTimesOut, LoopEnds, Start, BeginExec, ReadRow,
           ReadSource, WriteIndex, UpdateLastIndexedAt, CompleteTask, ExecFails, CrashTask,
           queueVars, reindexVars, changeVars, Stages


----------------------------------------------------------------------------
(* Clock, copies and lock *)

\* Time does not go back.
LEMMA NowFacts ==
    ASSUME ChangeTypes, Now
    PROVE  clock' \in 0..MaxTime /\ clock <= clock'
  BY DEF ChangeTypes, Now

\* Marks and starts are in the past.
LEMMA PastStep ==
    ASSUME ChangeTypes, ExecTypes, PastOf, Next
    PROVE  PastOf'
  <1>0. /\ clock \in Nat /\ required \in Nat /\ indexed \in Nat
        /\ mark \in [Change -> Nat] /\ startedAt \in [Consumer -> Nat]
    BY DEF ChangeTypes, ExecTypes
  <1>1. CASE UNCHANGED <<required, indexed, mark, startedAt, clock>>
    BY <1>1 DEF PastOf
  <1>2. ASSUME NEW n \in Change, MarkAsReindexRequired(n)
        PROVE  PastOf'
    <2>1. /\ clock' \in Nat /\ clock <= clock' /\ UNCHANGED <<mark, indexed, startedAt>>
          /\ required' \in {required, clock'}
      BY <1>2, NowFacts DEF MarkAsReindexRequired, execVars
    <2> QED
      BY <1>0, <2>1 DEF PastOf
  <1>3. ASSUME NEW n \in Change, ImportMark(n)
        PROVE  PastOf'
    <2>1. /\ clock' \in Nat /\ clock <= clock' /\ UNCHANGED <<required, indexed, startedAt>>
          /\ mark' = [mark EXCEPT ![n] = clock']
      BY <1>3, NowFacts DEF ImportMark, execVars
    <2> QED
      BY <1>0, <2>1 DEF PastOf
  <1>4. ASSUME NEW n \in Change, ImportCommit(n)
        PROVE  PastOf'
    <2>1. /\ UNCHANGED <<clock, indexed, startedAt>> /\ required' = mark[n]
          /\ mark' = [mark EXCEPT ![n] = 0]
      BY <1>4 DEF ImportCommit, execVars
    <2> QED
      BY <1>0, <2>1 DEF PastOf
  <1>5. ASSUME NEW c \in Consumer, BeginExec(c)
        PROVE  PastOf'
    <2>1. CASE UNCHANGED <<startedAt, clock>>
      BY <1>1, <1>5, <2>1 DEF BeginExec, changeVars
    <2>2. CASE Now /\ startedAt' = [startedAt EXCEPT ![c] = clock']
      <3>1. clock' \in Nat /\ clock <= clock' /\ UNCHANGED <<required, indexed, mark>>
        BY <1>5, <2>2, NowFacts DEF BeginExec, changeVars
      <3> QED
        BY <1>0, <2>2, <3>1 DEF PastOf
    <2> QED
      BY <1>5, <2>1, <2>2 DEF BeginExec
  <1>6. ASSUME NEW c \in Consumer, UpdateLastIndexedAt(c)
        PROVE  PastOf'
    <2>1. /\ UNCHANGED <<required, mark, startedAt, clock>>
          /\ indexed' \in {indexed, startedAt[c]}
      BY <1>6 DEF UpdateLastIndexedAt, changeVars
    <2> QED
      BY <1>0, <2>1 DEF PastOf
  <1>7. ASSUME NEW c \in Consumer, Forget(c), UNCHANGED <<required, indexed, mark, clock>>
        PROVE  PastOf'
    BY <1>0, <1>7 DEF PastOf, Forget
  <1> QED
    BY <1>1, <1>2, <1>3, <1>4, <1>5, <1>6, <1>7
       DEF Next, RequestStep, ConsumerStep, CommitTx, EnqueueReindexUserTask, AnnouncementFails,
           ReadRow, ReadSource, WriteIndex, CompleteTask, ExecFails, CrashTask, reindexVars,
           changeVars, execVars

\* What is read, indexed or reached was committed.
LEMMA CopiesStep ==
    ASSUME ChangeTypes, ExecTypes, Copies, Next
    PROVE  Copies'
  <1>1. CASE UNCHANGED <<index, source, reached>> /\ committed \subseteq committed'
    BY <1>1 DEF Copies
  <1>2. ASSUME NEW c \in Consumer, NEW s \in SUBSET committed, source' = [source EXCEPT ![c] = s],
               UNCHANGED <<index, reached, committed>>
        PROVE  Copies'
    BY <1>2 DEF Copies, ExecTypes
  <1>3. ASSUME NEW c \in Consumer, WriteIndex(c)
        PROVE  Copies'
    BY <1>3 DEF Copies, WriteIndex, changeVars
  <1>4. ASSUME NEW c \in Consumer, ReadRow(c) \/ ReadSource(c)
        PROVE  Copies'
    <2>1. UNCHANGED <<index, reached, committed>>
      BY <1>4 DEF ReadRow, ReadSource, changeVars, history
    <2>2. source' = source \/ source' = [source EXCEPT ![c] = committed]
      BY <1>4 DEF ReadRow, ReadSource
    <2> QED
      BY <1>1, <1>2, <2>1, <2>2
  <1>5. ASSUME NEW c \in Consumer, Forget(c), UNCHANGED <<index, reached, committed>>
        PROVE  Copies'
    BY <1>2, <1>5 DEF Forget
  <1> QED
    BY <1>1, <1>3, <1>4, <1>5
       DEF Next, RequestStep, ConsumerStep, CommitTx, MarkAsReindexRequired, ImportMark,
           ImportCommit, EnqueueReindexUserTask, AnnouncementFails, BeginExec,
           UpdateLastIndexedAt, CompleteTask, ExecFails, CrashTask, reindexVars, changeVars,
           execVars, history

\* Nobody else writes the row while an import has it.
LEMMA LockStep ==
    ASSUME ChangeTypes, PastOf, LockIsHeld, Next
    PROVE  LockIsHeld'
  <1>0. /\ required \in Nat /\ indexed \in Nat /\ mark \in [Change -> Nat] /\ clock \in Nat
    BY DEF ChangeTypes
  <1>1. ASSUME NEW n \in Change, NEW l, l # "importing", stage' = [stage EXCEPT ![n] = l],
               \A m \in Change \ {n} : stage[m] = "importing" =>
                   /\ kind'[m] = kind[m] /\ mark'[m] = mark[m]
                   /\ indexed' = indexed /\ required' = required
        PROVE  LockIsHeld'
    BY <1>1 DEF LockIsHeld, ChangeTypes
  <1>2. CASE UNCHANGED <<stage, kind, mark, indexed, required>>
    BY <1>2 DEF LockIsHeld
  <1>3. ASSUME NEW n \in Change, NEW k \in {"update", "delete"}, CommitTx(n, k)
        PROVE  LockIsHeld'
    BY <1>1, <1>3 DEF CommitTx, ChangeTypes
  <1>4. ASSUME NEW n \in Change, MarkAsReindexRequired(n)
        PROVE  LockIsHeld'
    BY <1>1, <1>4 DEF MarkAsReindexRequired, RowIsLocked
  <1>5. ASSUME NEW n \in Change, ImportMark(n)
        PROVE  LockIsHeld'
    <2>1. /\ clock' \in Nat /\ clock <= clock' /\ UNCHANGED <<required, indexed>>
          /\ mark'[n] = clock' /\ kind'[n] = "import"
      BY <1>5, NowFacts DEF ImportMark, ChangeTypes
    <2>2. \A m \in Change : stage'[m] = "importing" => m = n
      BY <1>5 DEF ImportMark, RowIsLocked, ChangeTypes
    <2> QED
      BY <1>0, <2>1, <2>2 DEF LockIsHeld, PastOf
  <1>6. ASSUME NEW n \in Change, ImportCommit(n)
        PROVE  LockIsHeld'
    BY <1>1, <1>6 DEF ImportCommit, LockIsHeld
  <1>7. ASSUME NEW n \in Change, EnqueueReindexUserTask(n) \/ AnnouncementFails(n)
        PROVE  LockIsHeld'
    BY <1>1, <1>7 DEF EnqueueReindexUserTask, AnnouncementFails
  <1>8. ASSUME NEW c \in Consumer, UpdateLastIndexedAt(c)
        PROVE  LockIsHeld'
    <2>1. stage' = stage /\ \A m \in Change : stage[m] # "importing"
      BY <1>8 DEF UpdateLastIndexedAt, changeVars, RowIsLocked
    <2> QED
      BY <2>1 DEF LockIsHeld
  <1> QED
    BY <1>2, <1>3, <1>4, <1>5, <1>6, <1>7, <1>8
       DEF Next, RequestStep, ConsumerStep, BeginExec, ReadRow, ReadSource, WriteIndex,
           CompleteTask, ExecFails, CrashTask, reindexVars, changeVars


----------------------------------------------------------------------------
(* Executions *)

\* What every step adds to, and what it leaves of the changes that are still to be marked
Grows ==
    /\ committed \subseteq committed' /\ reached \subseteq reached' /\ lost \subseteq lost'
    /\ raced => raced'
    /\ index \subseteq index' \/ raced'
    /\ required <= required'
    /\ \A n \in committed : kind'[n] = kind[n]
    /\ \A n \in committed :
           stage[n] = "committed" =>
               stage'[n] = "committed" \/ n \in lost' \/ required' >= clock \/ IsDeleted'
    /\ \A n \in committed' \ committed : stage'[n] = "committed" \/ kind'[n] = "import"

\* Every step adds to what is committed, reached, lost and raced.
LEMMA GrowsStep ==
    ASSUME QueueTypeOK, ChangeTypes, ExecTypes, PastOf, LockIsHeld, Next
    PROVE  Grows
  <1>0. /\ required \in Nat /\ indexed \in Nat /\ mark \in [Change -> Nat] /\ clock \in Nat
        /\ raced \in BOOLEAN
    BY DEF ChangeTypes
  <1>1. ASSUME UNCHANGED <<changeVars, index, history>>, lost \subseteq lost'
        PROVE  Grows
    BY <1>0, <1>1 DEF Grows, changeVars, history
  <1>2. ASSUME NEW n \in Change, NEW k \in {"update", "delete"}, CommitTx(n, k)
        PROVE  Grows
    BY <1>0, <1>2 DEF Grows, CommitTx, history, queueVars, ChangeTypes
  <1>3. ASSUME NEW n \in Change, MarkAsReindexRequired(n)
        PROVE  Grows
    <2>1. /\ UNCHANGED <<kind, committed, index, reached, raced, lost>>
          /\ clock' \in Nat /\ clock <= clock'
          /\ \A m \in Change : m # n => stage'[m] = stage[m]
      BY <1>3, NowFacts DEF MarkAsReindexRequired, history, queueVars, ChangeTypes
    <2>2. IsDeleted' <=> IsDeleted
      BY <2>1 DEF IsDeleted, Deletions
    <2>3. required' = IF IsDeleted THEN required ELSE clock'
      BY <1>3 DEF MarkAsReindexRequired
    <2>4. required <= required' /\ (IsDeleted' \/ required' >= clock)
      BY <1>0, <2>1, <2>2, <2>3 DEF PastOf
    <2> QED
      BY <2>1, <2>4 DEF Grows, ChangeTypes
  <1>4. ASSUME NEW n \in Change, ImportMark(n)
        PROVE  Grows
    BY <1>0, <1>4 DEF Grows, ImportMark, history, queueVars, ChangeTypes
  <1>5. ASSUME NEW n \in Change, ImportCommit(n)
        PROVE  Grows
    <2>1. kind[n] = "import" /\ required <= mark[n]
      BY <1>5 DEF LockIsHeld, ImportCommit
    <2> QED
      BY <1>0, <1>5, <2>1 DEF Grows, ImportCommit, history, queueVars, ChangeTypes
  <1>6. ASSUME NEW n \in Change, EnqueueReindexUserTask(n) \/ AnnouncementFails(n)
        PROVE  Grows
    BY <1>0, <1>6 DEF Grows, EnqueueReindexUserTask, AnnouncementFails, EnqueueSetNX,
                      EnqueueLPush, history, ChangeTypes
  <1>7. ASSUME NEW c \in Consumer, WriteIndex(c)
        PROVE  Grows
    <2>1. /\ UNCHANGED <<queueVars, changeVars>> /\ index' = source[c]
          /\ reached \subseteq reached'
      BY <1>7 DEF WriteIndex
    <2>2. (raced => raced') /\ (index \ source[c] # {} => raced')
      BY <1>7 DEF WriteIndex
    <2>3. index \subseteq index' \/ raced'
      BY <2>1, <2>2
    <2> QED
      BY <1>0, <2>1, <2>2, <2>3 DEF Grows, changeVars, queueVars
  <1>8. ASSUME NEW c \in Consumer, UpdateLastIndexedAt(c)
        PROVE  Grows
    <2>1. /\ UNCHANGED <<queueVars, changeVars, index, reached>> /\ (raced => raced')
      BY <1>8 DEF UpdateLastIndexedAt
    <2> QED
      BY <1>0, <2>1 DEF Grows, changeVars, queueVars
  <1> QED
    BY <1>1, <1>2, <1>3, <1>4, <1>5, <1>6, <1>7, <1>8
       DEF Next, RequestStep, ConsumerStep, Expire, Stop, Reserve, Dequeue, DequeueTimesOut,
           LoopEnds, Start, BeginExec, GetTask, ReadRow, ReadSource, CompleteTask, Complete,
           ExecFails, CrashTask, Crash, reindexVars, changeVars, history, queueVars

\* A deleted user stays deleted.
LEMMA DeletedStays ==
    ASSUME Grows
    PROVE  IsDeleted => IsDeleted'
  <1> SUFFICES ASSUME NEW n \in committed \cap Deletions
               PROVE  IsDeleted'
    BY DEF IsDeleted
  <1>1. n \in committed' /\ kind'[n] = kind[n] /\ n \in Change /\ kind[n] = "delete"
    BY DEF Grows, Deletions
  <1> QED
    BY <1>1 DEF IsDeleted, Deletions

\* What holds of an execution goes on to hold while it does nothing.
LEMMA IdleInv ==
    ASSUME ChangeTypes, ChangeTypes', ExecTypes, PastOf, Grows,
           NEW c \in Consumer, UnreadOf(c), ExecutionOf(c),
           step'[c] = step[c], source'[c] = source[c], startedAt'[c] = startedAt[c],
           holds'[c] = holds[c]
    PROVE  UnreadOf(c)' /\ ExecutionOf(c)'
  <1>0. /\ required \in Nat /\ required' \in Nat /\ clock \in Nat /\ startedAt[c] \in Nat
        /\ startedAt[c] <= clock
    BY DEF ChangeTypes, ExecTypes, PastOf
  <1>1. IsDeleted => IsDeleted'
    BY DeletedStays
  <1>2. UnreadOf(c)'
    <2> SUFFICES ASSUME step[c] \in {"write", "stamp"}, ~IsDeleted',
                        NEW n \in committed', n \notin source[c]
                 PROVE  \/ stage'[n] = "committed" \/ n \in lost'
                        \/ required' >= startedAt[c] \/ kind'[n] = "import"
      BY DEF UnreadOf
    <2>1. CASE n \in committed
      <3>1. \/ stage[n] = "committed" \/ n \in lost
            \/ required >= startedAt[c] \/ kind[n] = "import"
        BY <1>1, <2>1 DEF UnreadOf
      <3>2. required >= startedAt[c] => required' >= startedAt[c]
        BY <1>0 DEF Grows
      <3>3. required' >= clock => required' >= startedAt[c]
        BY <1>0
      <3> QED
        BY <2>1, <3>1, <3>2, <3>3 DEF Grows
    <2>2. CASE n \notin committed
      BY <2>2 DEF Grows
    <2> QED
      BY <2>1, <2>2
  <1>3. ExecutionOf(c)'
    BY <1>1 DEF ExecutionOf, Grows
  <1> QED
    BY <1>2, <1>3

\* The step of a consumer
LEMMA ExecutionStep ==
    ASSUME ReindexInv, TypeOK', Next, NEW c \in Consumer
    PROVE  UnreadOf(c)' /\ ExecutionOf(c)'
  <1>0. /\ QueueTypeOK /\ ChangeTypes /\ ExecTypes /\ PastOf /\ Copies /\ LockIsHeld
        /\ EnqueuedOnce /\ UnreadOf(c) /\ ExecutionOf(c) /\ UpToDateMarkIsHonest
    BY TypeParts DEF ReindexInv
  <1>1. QueueTypeOK' /\ ChangeTypes' /\ ExecTypes'
    BY DEF TypeOK, ChangeTypes, ExecTypes
  <1>2. Grows
    BY <1>0, GrowsStep
  <1>3. IsDeleted => IsDeleted'
    BY <1>2, DeletedStays
  <1> DEFINE Idle == /\ step'[c] = step[c] /\ source'[c] = source[c]
                     /\ startedAt'[c] = startedAt[c] /\ holds'[c] = holds[c]
  <1>4. CASE Idle
    BY <1>0, <1>1, <1>2, <1>4, IdleInv
  <1>5. ASSUME step'[c] \notin {"write", "stamp", "done"}
        PROVE  UnreadOf(c)' /\ ExecutionOf(c)'
    BY <1>5 DEF UnreadOf, ExecutionOf
  <1>6. CASE LoopStep(c) /\ UNCHANGED reindexVars
    <2>1. pc[c] # "run" /\ step' = step
      BY <1>6 DEF LoopStep, Reserve, Dequeue, DequeueTimesOut, LoopEnds, Start, Goto, reindexVars
    <2>2. step[c] = "none"
      BY <1>0, <2>1 DEF ExecTypes
    <2> QED
      BY <1>5, <2>1, <2>2
  <1>7. CASE BeginExec(c)
    <2>1. pc[c] = "get" /\ (step' = step \/ step' = [step EXCEPT ![c] = "row"])
      BY <1>7 DEF BeginExec, GetTask, Then
    <2>2. step[c] = "none"
      BY <1>0, <2>1 DEF ExecTypes
    <2> QED
      BY <1>0, <1>5, <2>1, <2>2 DEF ExecTypes
  <1>8. CASE CompleteTask(c) \/ CrashTask(c)
    <2>1. step' = [step EXCEPT ![c] = "none"]
      BY <1>8 DEF CompleteTask, CrashTask, Forget, Then
    <2> QED
      BY <1>0, <1>5, <2>1 DEF ExecTypes
  <1>9. CASE ExecFails(c)
    <2>1. step'[c] = "done" /\ holds' = holds /\ holds[c] \in lost'
      BY <1>0, <1>9 DEF ExecFails, Then, ExecTypes
    <2> QED
      BY <2>1 DEF UnreadOf, ExecutionOf
  <1>t. At(c, step[c]) => holds[c] \in committed
    <2> SUFFICES ASSUME pc[c] = "run"
                 PROVE  holds[c] \in committed
      BY DEF At
    <2>1. holds[c] # NoTask /\ holds[c] \in Change
      BY <1>0 DEF QueueTypeOK
    <2>2. stage[holds[c]] = "done"
      BY <1>0, <2>1 DEF EnqueuedOnce
    <2> QED
      BY <1>0, <2>1, <2>2 DEF ChangeTypes
  <1>10. CASE ReadRow(c)
    <2>1. /\ UNCHANGED <<queueVars, changeVars, indexed, index, startedAt, history>>
          /\ holds[c] \in committed
      BY <1>10, <1>t DEF ReadRow, At
    <2>2. CASE IsDeleted
      <3>1. step'[c] = "write" /\ source'[c] = committed
        BY <1>0, <1>10, <2>2 DEF ReadRow, Then, ExecTypes
      <3> QED
        BY <1>3, <2>1, <2>2, <3>1 DEF UnreadOf, ExecutionOf, queueVars
    <2>3. CASE ~IsDeleted /\ UpToDate(c)
      <3>1. step'[c] = "done"
        BY <1>0, <1>10, <2>3 DEF ReadRow, Then, ExecTypes
      <3>2. raced \/ holds[c] \in index \/ holds[c] \in lost
        <4>1. stage[holds[c]] = "done"
          BY <1>0, <1>10, <2>1 DEF ReadRow, At, QueueTypeOK, EnqueuedOnce
        <4> QED
          BY <1>0, <2>1, <2>3, <4>1 DEF UpToDateMarkIsHonest, UpToDate
      <3>3. raced' \/ holds'[c] \in reached' \cup lost'
        BY <1>0, <2>1, <3>2 DEF Copies, queueVars, history
      <3> QED
        BY <3>1, <3>3 DEF UnreadOf, ExecutionOf
    <2>4. CASE ~IsDeleted /\ ~UpToDate(c)
      <3>1. step'[c] = "source"
        BY <1>0, <1>10, <2>4 DEF ReadRow, Then, ExecTypes
      <3> QED
        BY <1>5, <3>1
    <2> QED
      BY <2>2, <2>3, <2>4
  <1>11. CASE ReadSource(c)
    <2>1. /\ UNCHANGED <<queueVars, changeVars>> /\ holds[c] \in committed
      BY <1>11, <1>t DEF ReadSource, At
    <2>2. CASE IsDeleted
      <3>1. step'[c] = "done"
        BY <1>0, <1>11, <2>2 DEF ReadSource, Then, ExecTypes
      <3> QED
        BY <1>3, <2>2, <3>1 DEF UnreadOf, ExecutionOf
    <2>3. CASE ~IsDeleted
      <3>1. step'[c] = "write" /\ source'[c] = committed
        BY <1>0, <1>11, <2>3 DEF ReadSource, Then, ExecTypes
      <3> QED
        BY <2>1, <3>1 DEF UnreadOf, ExecutionOf, queueVars, changeVars
    <2> QED
      BY <2>2, <2>3
  <1>12. CASE WriteIndex(c)
    <2>1. /\ UNCHANGED <<queueVars, changeVars, startedAt, source>> /\ step[c] = "write"
          /\ index' = source[c] /\ source[c] \subseteq reached'
          /\ step'[c] = IF source[c] \cap Deletions # {} THEN "done" ELSE "stamp"
      BY <1>0, <1>12 DEF WriteIndex, At, Then, ExecTypes
    <2>2. UnreadOf(c)'
      <3>1. IsDeleted' <=> IsDeleted
        BY <2>1 DEF IsDeleted, Deletions, changeVars
      <3> QED
        BY <1>0, <2>1, <3>1 DEF UnreadOf, changeVars, queueVars
    <2>3. holds[c] \in source[c]
      BY <1>0, <2>1 DEF ExecutionOf
    <2>4. ExecutionOf(c)'
      BY <2>1, <2>3 DEF ExecutionOf, queueVars
    <2> QED
      BY <2>2, <2>4
  <1>13. CASE UpdateLastIndexedAt(c)
    <2>1. /\ UNCHANGED <<queueVars, reached>> /\ step[c] = "stamp" /\ step'[c] = "done"
      BY <1>0, <1>13 DEF UpdateLastIndexedAt, At, Then, ExecTypes
    <2>2. holds[c] \in reached
      BY <1>0, <2>1 DEF ExecutionOf
    <2> QED
      BY <2>1, <2>2 DEF UnreadOf, ExecutionOf, queueVars
  <1>14. ASSUME NEW n \in Change, \/ MarkAsReindexRequired(n) \/ ImportMark(n) \/ ImportCommit(n)
                                  \/ EnqueueReindexUserTask(n) \/ AnnouncementFails(n)
                                  \/ \E k \in {"update", "delete"} : CommitTx(n, k)
         PROVE  Idle
    BY <1>14 DEF MarkAsReindexRequired, ImportMark, ImportCommit, EnqueueReindexUserTask,
                 EnqueueSetNX, EnqueueLPush, AnnouncementFails, CommitTx, queueVars, execVars
  <1>15. ASSUME NEW d \in Consumer \ {c},
                \/ LoopStep(d) /\ UNCHANGED reindexVars
                \/ BeginExec(d) \/ CompleteTask(d) \/ CrashTask(d) \/ ExecFails(d)
         PROVE  Idle
    <2>1. CASE LoopStep(d) /\ UNCHANGED reindexVars
      BY <1>0, <2>1 DEF LoopStep, Reserve, Dequeue, DequeueTimesOut, LoopEnds, Start,
                        reindexVars, QueueTypeOK
    <2>2. CASE BeginExec(d)
      BY <1>0, <2>2 DEF BeginExec, GetTask, Then, ExecTypes, QueueTypeOK
    <2>3. CASE CompleteTask(d) \/ CrashTask(d)
      BY <1>0, <2>3 DEF CompleteTask, CrashTask, Complete, Crash, Forget, Then, ExecTypes,
                        QueueTypeOK
    <2>4. CASE ExecFails(d)
      BY <1>0, <2>4 DEF ExecFails, Then, ExecTypes
    <2> QED
      BY <1>15, <2>1, <2>2, <2>3, <2>4
  <1>16. ASSUME NEW d \in Consumer \ {c},
                ReadRow(d) \/ ReadSource(d) \/ WriteIndex(d) \/ UpdateLastIndexedAt(d)
         PROVE  Idle
    BY <1>0, <1>16 DEF ReadRow, ReadSource, WriteIndex, UpdateLastIndexedAt, Then, ExecTypes,
                       queueVars
  <1>17. CASE \E t \in Task : Expire(t) /\ UNCHANGED reindexVars
    BY <1>4, <1>17 DEF Expire, reindexVars
  <1>18. CASE \E d \in Consumer : Stop(d) /\ UNCHANGED reindexVars
    BY <1>4, <1>18 DEF Stop, reindexVars
  <1> HIDE DEF Idle
  <1> QED
    BY <1>4, <1>6, <1>7, <1>8, <1>9, <1>10, <1>11, <1>12, <1>13, <1>14, <1>15, <1>16, <1>17,
       <1>18 DEF Next, RequestStep, ConsumerStep, LoopStep


----------------------------------------------------------------------------
(* The columns of the user, and completed tasks *)

\* A change that is committed is marked later; the one exception is an import, and no index is
\* stamped while that has the row.
LEMMA HonestStep ==
    ASSUME ReindexInv, TypeOK', Next
    PROVE  UpToDateMarkIsHonest'
  <1>0. /\ QueueTypeOK /\ ChangeTypes /\ ExecTypes /\ PastOf /\ LockIsHeld
        /\ UpToDateMarkIsHonest
    BY TypeParts DEF ReindexInv
  <1>1. Grows
    BY <1>0, GrowsStep
  <1>2. IsDeleted => IsDeleted'
    BY <1>1, DeletedStays
  <1>3. /\ required \in Nat /\ indexed \in Nat /\ clock \in Nat /\ indexed <= clock
        /\ required' \in Nat /\ indexed' \in Nat
    BY <1>0 DEF PastOf, ChangeTypes, TypeOK
  <1>4. ASSUME indexed' = indexed,
               \/ \A n \in committed' \ committed : stage'[n] = "committed"
               \/ required' >= indexed
        PROVE  UpToDateMarkIsHonest'
    <2> SUFFICES ASSUME ~IsDeleted', ~raced', indexed' > required', NEW n \in committed'
                 PROVE  n \in index' \/ stage'[n] = "committed" \/ n \in lost'
      BY DEF UpToDateMarkIsHonest
    <2>1. ~IsDeleted /\ ~raced /\ indexed > required
      BY <1>1, <1>2, <1>3, <1>4 DEF Grows
    <2>2. CASE n \in committed
      <3>1. n \in index \/ stage[n] = "committed" \/ n \in lost
        BY <1>0, <2>1, <2>2 DEF UpToDateMarkIsHonest
      <3>2. ~(required' >= clock)
        BY <1>3, <1>4
      <3> QED
        BY <1>1, <2>2, <3>1, <3>2 DEF Grows
    <2>3. CASE n \notin committed
      BY <1>3, <1>4, <2>3
    <2> QED
      BY <2>2, <2>3
  <1>5. ASSUME indexed' = indexed, committed' = committed
        PROVE  UpToDateMarkIsHonest'
    BY <1>4, <1>5
  <1>6. ASSUME NEW n \in Change, NEW k \in {"update", "delete"}, CommitTx(n, k)
        PROVE  UpToDateMarkIsHonest'
    <2>1. indexed' = indexed /\ \A m \in committed' \ committed : stage'[m] = "committed"
      BY <1>0, <1>6 DEF CommitTx, ChangeTypes
    <2> QED
      BY <1>4, <2>1
  <1>7. ASSUME NEW n \in Change, ImportCommit(n)
        PROVE  UpToDateMarkIsHonest'
    <2>1. indexed' = indexed /\ required' = mark[n] /\ indexed <= mark[n]
      BY <1>0, <1>7 DEF ImportCommit, LockIsHeld
    <2>2. required' >= indexed
      BY <1>3, <2>1
    <2> QED
      BY <1>4, <2>1, <2>2
  <1>8. ASSUME NEW c \in Consumer, UpdateLastIndexedAt(c)
        PROVE  UpToDateMarkIsHonest'
    <2>1. /\ UNCHANGED <<queueVars, changeVars, index>> /\ step[c] = "stamp"
          /\ indexed' = IF IsDeleted THEN indexed ELSE startedAt[c]
      BY <1>8 DEF UpdateLastIndexedAt, At
    <2>2. (raced => raced') /\ (OvertakesImport(c) => raced')
      BY <1>8 DEF UpdateLastIndexedAt
    <2>3. startedAt[c] \in Nat /\ UnreadOf(c) /\ ExecutionOf(c)
      BY <1>0 DEF ExecTypes, ReindexInv
    <2> SUFFICES ASSUME ~IsDeleted', ~raced', indexed' > required', NEW n \in committed'
                 PROVE  n \in index' \/ stage'[n] = "committed" \/ n \in lost'
      BY DEF UpToDateMarkIsHonest
    <2>4. startedAt[c] > required /\ ~IsDeleted /\ n \in committed
      BY <1>2, <2>1 DEF changeVars
    <2>5. CASE n \in source[c]
      BY <2>1, <2>2, <2>3, <2>5 DEF ExecutionOf
    <2>6. CASE n \notin source[c]
      <3>1. kind[n] # "import"
        BY <2>2, <2>4, <2>6 DEF OvertakesImport
      <3>2. ~(required >= startedAt[c])
        BY <1>3, <2>3, <2>4
      <3> QED
        BY <2>1, <2>3, <2>4, <2>6, <3>1, <3>2 DEF UnreadOf, changeVars, queueVars
    <2> QED
      BY <2>5, <2>6
  <1> QED
    BY <1>5, <1>6, <1>7, <1>8
       DEF Next, RequestStep, ConsumerStep, MarkAsReindexRequired, ImportMark,
           EnqueueReindexUserTask, AnnouncementFails, BeginExec, ReadRow, ReadSource, WriteIndex,
           CompleteTask, ExecFails, CrashTask, reindexVars, changeVars

\* Whoever completes a task has seen its change reach the index.
LEMMA CompletedStep ==
    ASSUME ReindexInv, TypeOK', Next
    PROVE  CompletedTaskWasIndexed'
  <1>0. /\ QueueTypeOK /\ ChangeTypes /\ ExecTypes /\ PastOf /\ LockIsHeld /\ EnqueuedOnce
        /\ CompletedTaskWasIndexed
    BY TypeParts DEF ReindexInv
  <1>1. Grows
    BY <1>0, GrowsStep
  <1>2. IsDeleted => IsDeleted'
    BY <1>1, DeletedStays
  <1> SUFFICES ASSUME NEW t \in Task, task'[t] = "completed"
               PROVE  t \in reached' \cup lost' \/ raced' \/ IsDeleted'
    BY DEF CompletedTaskWasIndexed
  <1>3. CASE task[t] = "completed"
    BY <1>0, <1>1, <1>2, <1>3 DEF CompletedTaskWasIndexed, Grows
  <1>4. ASSUME task[t] # "completed", NEW c \in Consumer, CompleteTask(c)
        PROVE  t \in reached' \cup lost' \/ raced' \/ IsDeleted'
    <2>1. task' = [task EXCEPT ![holds[c]] = "completed"] /\ step[c] = "done"
      BY <1>4 DEF CompleteTask, Complete
    <2>2. t = holds[c]
      BY <1>0, <1>4, <2>1 DEF QueueTypeOK
    <2>3. ExecutionOf(c)
      BY DEF ReindexInv
    <2> QED
      BY <1>1, <1>2, <2>1, <2>2, <2>3 DEF ExecutionOf, Grows
  <1>5. CASE task' = task
    BY <1>3, <1>5
  <1>6. ASSUME NEW s \in Task, NEW l \in {"pending", "expired"}, task' = [task EXCEPT ![s] = l]
        PROVE  task[t] = "completed"
    BY <1>0, <1>6 DEF QueueTypeOK
  <1>7. ASSUME NEW n \in Change, EnqueueReindexUserTask(n)
        PROVE  task' = task \/ task' = [task EXCEPT ![n] = "pending"]
    BY <1>7 DEF EnqueueReindexUserTask, EnqueueSetNX, EnqueueLPush
  <1> QED
    BY <1>3, <1>4, <1>5, <1>6, <1>7
       DEF Next, RequestStep, ConsumerStep, CommitTx, MarkAsReindexRequired, ImportMark,
           ImportCommit, AnnouncementFails, Expire, Stop, Reserve, Dequeue, DequeueTimesOut,
           LoopEnds, Start, BeginExec, GetTask, ReadRow, ReadSource, WriteIndex,
           UpdateLastIndexedAt, ExecFails, CrashTask, Crash, queueVars

----------------------------------------------------------------------------
(* The invariant *)

\* Nobody is at work.
LEMMA InitInv ==
    ASSUME Init
    PROVE  ReindexInv
  <1>1. TypeOK
    <2>1. <<>> \in Seq(Task) /\ IsInjective(<<>>)
      BY DEF IsInjective
    <2>2. QueueTypeOK
      BY <2>1 DEF Init, QueueInit, QueueTypeOK
    <2>3. 0 \in 0..MaxTime /\ 1 \in 0..MaxTime
      OBVIOUS
    <2>4. ChangeTypes
      BY <2>3 DEF Init, ChangeTypes, Stages
    <2>5. ExecTypes
      BY <2>3 DEF Init, QueueInit, ExecTypes, Steps
    <2> QED
      BY <2>2, <2>4, <2>5, TypeParts
  <1>2. Queued = {}
    BY DEF Init, QueueInit, Queued, ToSet
  <1>3. EnqueuedOnce /\ TaskIsLostOnlyByFailure /\ CompletedTaskWasIndexed
    BY <1>2 DEF Init, QueueInit, EnqueuedOnce, TaskIsLostOnlyByFailure, CompletedTaskWasIndexed
  <1>4. PastOf /\ Copies /\ LockIsHeld /\ UpToDateMarkIsHonest
    BY DEF Init, PastOf, Copies, LockIsHeld, UpToDateMarkIsHonest
  <1>5. \A c \in Consumer : UnreadOf(c) /\ ExecutionOf(c)
    BY DEF Init, UnreadOf, ExecutionOf
  <1> QED
    BY <1>1, <1>3, <1>4, <1>5 DEF ReindexInv

\* Nothing changes.
LEMMA StutterInv ==
    ASSUME ReindexInv, UNCHANGED vars
    PROVE  ReindexInv'
  <1> USE DEF vars, queueVars, reindexVars
  <1>1. TypeOK'
    BY DEF ReindexInv, TypeOK, QueueTypeOK
  <1>2. EnqueuedOnce' /\ TaskIsLostOnlyByFailure'
    BY DEF ReindexInv, EnqueuedOnce, TaskIsLostOnlyByFailure, Queued
  <1>3. PastOf' /\ Copies' /\ LockIsHeld'
    BY DEF ReindexInv, PastOf, Copies, LockIsHeld
  <1>4. IsDeleted' <=> IsDeleted
    BY DEF IsDeleted, Deletions
  <1>5. UpToDateMarkIsHonest' /\ CompletedTaskWasIndexed'
    BY <1>4 DEF ReindexInv, UpToDateMarkIsHonest, CompletedTaskWasIndexed
  <1>6. \A c \in Consumer : UnreadOf(c)' /\ ExecutionOf(c)'
    BY <1>4 DEF ReindexInv, UnreadOf, ExecutionOf
  <1> QED
    BY <1>1, <1>2, <1>3, <1>5, <1>6 DEF ReindexInv

\* ReindexInv is an invariant: it holds at first, and every step keeps it.
LEMMA Invariance == Spec => []ReindexInv
  <1>1. Init => ReindexInv
    BY InitInv
  <1>2. ASSUME ReindexInv, Next
        PROVE  ReindexInv'
    <2>1. QueueTypeOK /\ ChangeTypes /\ ExecTypes
      BY <1>2, TypeParts DEF ReindexInv
    <2>2. QueueTypeOK' /\ ChangeTypes' /\ ExecTypes'
      BY <1>2, <2>1, QueueTypeStep, ChangeTypeStep, ExecTypeStep DEF ReindexInv
    <2>3. TypeOK'
      BY <2>2 DEF TypeOK, ChangeTypes, ExecTypes
    <2>4. EnqueuedOnce' /\ TaskIsLostOnlyByFailure'
      BY <1>2, <2>1, <2>2, EnqueuedStep, LostStep DEF ReindexInv
    <2>5. PastOf' /\ Copies' /\ LockIsHeld'
      BY <1>2, <2>1, PastStep, CopiesStep, LockStep DEF ReindexInv
    <2>6. \A c \in Consumer : UnreadOf(c)' /\ ExecutionOf(c)'
      BY <1>2, <2>3, ExecutionStep
    <2>7. UpToDateMarkIsHonest' /\ CompletedTaskWasIndexed'
      BY <1>2, <2>3, HonestStep, CompletedStep
    <2> QED
      BY <2>3, <2>4, <2>5, <2>6, <2>7 DEF ReindexInv
  <1>3. ReindexInv /\ UNCHANGED vars => ReindexInv'
    BY StutterInv
  <1> QED
    BY <1>1, <1>2, <1>3, PTL DEF Spec

----------------------------------------------------------------------------
(* The theorems *)

\* Every variable keeps its type; the queue has no item twice.
THEOREM TypeCorrect == Spec => []TypeOK
  <1>1. ReindexInv => TypeOK
    BY DEF ReindexInv
  <1> QED
    BY <1>1, Invariance, PTL

\* A pending task is in the queue or with a running consumer, unless its announcement, its
\* consumer or its key has failed it, whatever the number of consumers and shutdowns.
THEOREM TaskLossCorrect == Spec => []TaskIsLostOnlyByFailure
  <1>1. ReindexInv => TaskIsLostOnlyByFailure
    BY DEF ReindexInv
  <1> QED
    BY <1>1, Invariance, PTL

\* The columns of the user say "up to date" only of changes that are in the index, or have
\* still to be marked, unless something failed or was overtaken.
THEOREM UpToDateMarkCorrect == Spec => []UpToDateMarkIsHonest
  <1>1. ReindexInv => UpToDateMarkIsHonest
    BY DEF ReindexInv
  <1> QED
    BY <1>1, Invariance, PTL

\* A completed task has brought its change to the index, unless it failed, was overtaken or met
\* the deletion of the user.
THEOREM CompletedTaskCorrect == Spec => []CompletedTaskWasIndexed
  <1>1. ReindexInv => CompletedTaskWasIndexed
    BY DEF ReindexInv
  <1> QED
    BY <1>1, Invariance, PTL
=============================================================================
