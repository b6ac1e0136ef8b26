---------------------------- MODULE UserReindexing ----------------------------
(***************************************************************************)
(* The search index and the database: changes of one user, the event that    *)
(* follows a commit, the sink that marks the user and enqueues a task, and    *)
(* the tasks that copy the user into the index (lib/event, lib/infra/db,      *)
(* lib/search/reindex, lib/userimport, redisqueue/task_user_reindex.go).      *)
(*                                                                          *)
(* The content of the user is the set of the changes that were committed.     *)
(***************************************************************************)
EXTENDS TaskQueue

CONSTANTS
    Change,            \* changes of the user, each a request of its own
    MaxTime            \* bound on the clock

\* The task of a change carries its name.
ASSUME ChangeAssumption == Change = Task /\ IsFiniteSet(Change) /\ MaxTime \in Nat \ {0}

VARIABLES
    kind,              \* of each change: "update", "import", "delete" ("none" before it begins)
    stage,             \* of each change: see Stages
    mark,              \* of an import: the time it marks the user with
    committed,         \* changes in the database
    required, indexed, \* columns require_reindex_after and last_indexed_at of the user; 0: NULL
    index,             \* changes in the search index
    step,              \* per consumer: step of the execution
    startedAt, source, \* per consumer: its start, and the user it has read
    clock,
    reached,           \* history: changes that were in the index at some time
    raced              \* history: the index or the mark was overwritten by something older

reindexVars ==
    <<kind, stage, mark, committed, required, indexed, index, step, startedAt, source, clock,
      reached, raced>>
vars == <<queueVars, reindexVars>>

changeVars == <<kind, stage, mark, committed, required>>
execVars   == <<step, startedAt, source>>
history    == <<reached, raced>>

Stages == {"none", "importing", "committed", "marked", "set", "done"}
Steps  == {"none", "row", "source", "write", "stamp", "done"}

\* A user who was never marked nor indexed, as after its creation.  (Nobody reads an earlier mark:
\* every task follows a mark of its own.)
Init ==
    /\ QueueInit
    /\ kind = [n \in Change |-> "none"] /\ stage = [n \in Change |-> "none"]
    /\ mark = [n \in Change |-> 0]
    /\ committed = {} /\ required = 0 /\ indexed = 0 /\ index = {}
    /\ step = [c \in Consumer |-> "none"] /\ startedAt = [c \in Consumer |-> 0]
    /\ source = [c \in Consumer |-> {}]
    /\ clock = 1 /\ reached = {} /\ raced = FALSE

Deletions == {n \in Change : kind[n] = "delete"}
IsDeleted == committed \cap Deletions # {}

\* An import has written the row of the user and not committed yet: others that write the
\* row wait.
RowIsLocked == \E n \in Change : stage[n] = "importing"

\* Time passes where somebody looks at the clock.
Now == clock' \in {clock, clock + 1} \cap 0..MaxTime

----------------------------------------------------------------------------
(* A change, and the event of its transaction *)

\* HookHandle.WithTx with an event dispatched in it.  The event goes to the sinks after the
\* commit (DidCommitTx).
CommitTx(n, k) ==
    /\ stage[n] = "none" /\ ~IsDeleted /\ ~(k = "delete" /\ RowIsLocked)
    /\ kind' = [kind EXCEPT ![n] = k]
    /\ stage' = [stage EXCEPT ![n] = "committed"]
    /\ committed' = committed \cup {n}
    /\ UNCHANGED <<queueVars, mark, required, indexed, index, execVars, clock, history>>

\* (mutant: the user is not marked if the task of another change is under way)
MarkOnce(n) ==
    /\ stage[n] = "committed" /\ ~RowIsLocked
    /\ Now
    /\ required' = IF IsDeleted \/ Queued \cup Held # {} THEN required ELSE clock'
    /\ stage' = [stage EXCEPT ![n] = "marked"]
    /\ UNCHANGED <<queueVars, kind, mark, committed, indexed, index, execVars, history>>

\* Sink.ReceiveNonBlockingEvent: MarkAsReindexRequired in a transaction of its own; no row
\* of a deleted user is left to mark.
MarkAsReindexRequired(n) ==
    /\ stage[n] = "committed" /\ ~RowIsLocked
    /\ Now
    /\ required' = IF IsDeleted THEN required ELSE clock'
    /\ stage' = [stage EXCEPT ![n] = "marked"]
    /\ UNCHANGED <<queueVars, kind, mark, committed, indexed, index, execVars, history>>

\* importRecordInConn: the user is marked in the transaction that changes it.
ImportMark(n) ==
    /\ stage[n] = "none" /\ ~IsDeleted /\ ~RowIsLocked
    /\ Now
    /\ kind' = [kind EXCEPT ![n] = "import"]
    /\ mark' = [mark EXCEPT ![n] = clock']
    /\ stage' = [stage EXCEPT ![n] = "importing"]
    /\ UNCHANGED <<queueVars, committed, required, indexed, index, execVars, history>>

ImportCommit(n) ==
    /\ stage[n] = "importing"
    /\ committed' = committed \cup {n}
    /\ required' = mark[n]
    /\ mark' = [mark EXCEPT ![n] = 0]
    /\ stage' = [stage EXCEPT ![n] = "marked"]
    /\ UNCHANGED <<queueVars, kind, indexed, index, execVars, clock, history>>

\* EnqueueReindexUserTask
EnqueueReindexUserTask(n) ==
    /\ \/ /\ stage[n] = "marked" /\ EnqueueSetNX(n)
          /\ stage' = [stage EXCEPT ![n] = "set"]
       \/ /\ stage[n] = "set" /\ EnqueueLPush(n)
          /\ stage' = [stage EXCEPT ![n] = "done"]
    /\ UNCHANGED <<kind, mark, committed, required, indexed, index, execVars, clock, history>>

\* The process dies after the commit, or a sink fails, which is only logged.
AnnouncementFails(n) ==
    /\ stage[n] \in {"committed", "marked", "set"} /\ Fail
    /\ stage' = [stage EXCEPT ![n] = "done"]
    /\ lost' = lost \cup {n}
    /\ UNCHANGED <<task, queue, pc, holds, shutdown, kind, mark, committed, required, indexed,
                   index, execVars, clock, history>>

----------------------------------------------------------------------------
(* ExecReindexUser, while the consumer is at "run" *)

At(c, from) == pc[c] = "run" /\ step[c] = from
Then(c, to) == step' = [step EXCEPT ![c] = to]

\* The task is read, and the execution looks at the clock.
BeginExec(c) ==
    /\ GetTask(c)
    /\ IF pc'[c] = "run"
       THEN /\ Now /\ Then(c, "row")
            /\ startedAt' = [startedAt EXCEPT ![c] = clock']
       ELSE UNCHANGED <<step, startedAt, clock>>
    /\ UNCHANGED <<changeVars, indexed, index, source, history>>

\* (mutant: the times may be equal)
UpToDateOrSame(c) == required # 0 /\ indexed >= required

\* "Already latest state, skip the update"
UpToDate(c) == required # 0 /\ indexed > required

\* getSourceWithAction, first query
ReadRow(c) ==
    /\ At(c, "row")
    /\ IF IsDeleted
       THEN Then(c, "write") /\ source' = [source EXCEPT ![c] = committed]
       ELSE Then(c, IF UpToDate(c) THEN "done" ELSE "source") /\ UNCHANGED source
    /\ UNCHANGED <<queueVars, changeVars, indexed, index, startedAt, clock, history>>

\* SourceProvider.getSource; it fails if the user has gone since.
ReadSource(c) ==
    /\ At(c, "source")
    /\ IF IsDeleted
       THEN Then(c, "done") /\ UNCHANGED source
       ELSE Then(c, "write") /\ source' = [source EXCEPT ![c] = committed]
    /\ UNCHANGED <<queueVars, changeVars, indexed, index, startedAt, clock, history>>

\* reindexUser or deleteUser
WriteIndex(c) ==
    /\ At(c, "write")
    /\ index' = source[c]
    /\ reached' = reached \cup source[c]
    /\ raced' = (raced \/ index \ source[c] # {})
    /\ Then(c, IF source[c] \cap Deletions # {} THEN "done" ELSE "stamp")
    /\ UNCHANGED <<queueVars, changeVars, indexed, startedAt, source, clock>>

\* An import that the execution has not read, and that is marked with an earlier time
OvertakesImport(c) ==
    \E n \in committed \ source[c] : kind[n] = "import" /\ startedAt[c] > required

\* (mutant: the time of the update, not of the start)
UpdateLastIndexedAtNow(c) ==
    /\ At(c, "stamp") /\ ~RowIsLocked
    /\ Now
    /\ indexed' = IF IsDeleted THEN indexed ELSE clock'
    /\ raced' = (raced \/ OvertakesImport(c))
    /\ Then(c, "done")
    /\ UNCHANGED <<queueVars, changeVars, index, startedAt, source, reached>>

UpdateLastIndexedAt(c) ==
    /\ At(c, "stamp") /\ ~RowIsLocked
    /\ indexed' = IF IsDeleted THEN indexed ELSE startedAt[c]
    /\ raced' = (raced \/ OvertakesImport(c))
    /\ Then(c, "done")
    /\ UNCHANGED <<queueVars, changeVars, index, startedAt, source, clock, reached>>

Forget(c) ==
    /\ Then(c, "none")
    /\ startedAt' = [startedAt EXCEPT ![c] = 0] /\ source' = [source EXCEPT ![c] = {}]

\* A task that fails is completed, with IsSuccess false; it is not tried again.
ExecFails(c) ==
    /\ pc[c] = "run" /\ step[c] # "done" /\ Fail
    /\ Then(c, "done")
    /\ lost' = lost \cup {holds[c]}
    /\ UNCHANGED <<task, queue, pc, holds, shutdown, changeVars, indexed, index, startedAt, source,
                   clock, history>>

CompleteTask(c) ==
    /\ step[c] = "done" /\ Complete(c) /\ Forget(c)
    /\ UNCHANGED <<changeVars, indexed, index, clock, history>>

CrashTask(c) ==
    /\ Crash(c) /\ Forget(c)
    /\ UNCHANGED <<changeVars, indexed, index, clock, history>>

----------------------------------------------------------------------------

RequestStep(n) ==
    MarkAsReindexRequired(n) \/ ImportCommit(n) \/ EnqueueReindexUserTask(n)

ConsumerStep(c) ==
    \/ /\ Reserve(c) \/ Dequeue(c) \/ DequeueTimesOut(c) \/ LoopEnds(c) \/ Start(c)
       /\ UNCHANGED reindexVars
    \/ BeginExec(c) \/ ReadRow(c) \/ ReadSource(c) \/ WriteIndex(c) \/ UpdateLastIndexedAt(c)
    \/ CompleteTask(c)

Next ==
    \/ \E n \in Change, k \in {"update", "delete"} : CommitTx(n, k)
    \/ \E n \in Change : ImportMark(n) \/ RequestStep(n) \/ AnnouncementFails(n)
    \/ \E t \in Task : Expire(t) /\ UNCHANGED reindexVars
    \/ \E c \in Consumer : ConsumerStep(c) \/ ExecFails(c) \/ CrashTask(c)
    \/ \E c \in Consumer : Stop(c) /\ UNCHANGED reindexVars

Spec == Init /\ [][Next]_vars

\* Every goroutine goes on: a request to the end of its announcement, a consumer from one
\* task to the next; a process that was shut down is followed by another.
FairSpec ==
    /\ Spec
    /\ \A n \in Change : WF_vars(RequestStep(n))
    /\ \A c \in Consumer : WF_vars(ConsumerStep(c))

----------------------------------------------------------------------------
(* Properties *)

TypeOK ==
    /\ QueueTypeOK
    /\ kind \in [Change -> {"none", "update", "import", "delete"}]
    /\ stage \in [Change -> Stages] /\ mark \in [Change -> 0..MaxTime]
    /\ committed \subseteq Change /\ index \subseteq Change /\ reached \subseteq Change
    /\ \A n \in Change : n \in committed <=> stage[n] \notin {"none", "importing"}
    /\ required \in 0..MaxTime /\ indexed \in 0..MaxTime /\ clock \in 0..MaxTime
    /\ step \in [Consumer -> Steps] /\ startedAt \in [Consumer -> 0..MaxTime]
    /\ \A c \in Consumer : step[c] # "none" <=> pc[c] = "run"
    /\ source \in [Consumer -> SUBSET Change]
    /\ raced \in BOOLEAN

\* consumer.go:235 "Reserve before dequeue. [...] the job will be gone forever" otherwise: a
\* pending task whose enqueuing is over is in the queue or with a running consumer, unless
\* its key has expired, or the process that had it has died.  A shutdown loses none.
TaskIsLostOnlyByFailure ==
    \A t \in Task :
        task[t] = "pending" /\ stage[t] = "done" =>
            t \in Queued \cup lost \/ \E c \in Consumer : holds[c] = t /\ pc[c] \in {"get", "run"}

\* reindexer.go:75 "Already latest state, skip the update": when the columns of the user say
\* so, a change that was committed is in the index, or has still to be marked by the sink, or
\* its announcement or its task has failed; unless two executions, or an execution and an
\* import, have overtaken each other.
UpToDateMarkIsHonest ==
    ~IsDeleted /\ ~raced /\ indexed > required =>
        \A n \in committed : n \in index \/ stage[n] = "committed" \/ n \in lost

\* A task that is completed has brought the change it was enqueued for to the index, or
\* another one had, unless it failed, was overtaken or met the deletion of the user.
CompletedTaskWasIndexed ==
    \A t \in Task : task[t] = "completed" => t \in reached \cup lost \/ raced \/ IsDeleted

\* The index catches up with the database if nothing fails and no two overtake each other.
IndexCatchesUp ==
    index # committed ~> (index = committed \/ raced \/ lost # {})
=============================================================================
