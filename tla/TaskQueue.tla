------------------------------- MODULE TaskQueue -------------------------------
(***************************************************************************)
(* A background queue: producers that enqueue tasks, and the consumers that  *)
(* take them, one at a time (lib/infra/redisqueue, redisqueue/consumer.go).  *)
(* What a task does while pc is "run" is up to the module that extends this  *)
(* one.  The rate limiter is module RateLimit; here a consumer is let through *)
(* after some time.                                                          *)
(***************************************************************************)
EXTENDS Naturals, Sequences, FiniteSets, SequencesExt

CONSTANTS
    Consumer,          \* loops that drain the queue, one per process
    Task,
    NoTask,
    MaxFailures        \* bound: crashes, failed commands and calls, expired keys, shutdowns

ASSUME QueueAssumption == NoTask \notin Task /\ MaxFailures \in Nat

VARIABLES
    task,              \* the key of each task: "absent", "pending", "completed", "expired"
    queue,             \* the list of queue items; the head was pushed last
    pc,                \* per consumer: "idle", "reserved", "get", "run", "stopped"
    holds,             \* per consumer: the item it has taken
    shutdown,          \* per consumer: Stop has been called
    lost,              \* history: tasks that a failure, a crash or the end of their key has met
    failures

queueVars == <<task, queue, pc, holds, shutdown, lost, failures>>

QueueInit ==
    /\ task = [t \in Task |-> "absent"] /\ queue = <<>>
    /\ pc = [c \in Consumer |-> "idle"] /\ holds = [c \in Consumer |-> NoTask]
    /\ shutdown = [c \in Consumer |-> FALSE]
    /\ lost = {} /\ failures = 0

Fail == failures < MaxFailures /\ failures' = failures + 1

Queued == ToSet(queue)
Held   == {holds[c] : c \in Consumer} \ {NoTask}

----------------------------------------------------------------------------
(* Producer.EnqueueTask *)

EnqueueSetNX(t) ==
    /\ task' = [task EXCEPT ![t] = "pending"]
    /\ UNCHANGED <<queue, pc, holds, shutdown, lost, failures>>

EnqueueLPush(t) ==
    /\ queue' = <<t>> \o queue
    /\ UNCHANGED <<task, pc, holds, shutdown, lost, failures>>

\* The key of a task has a TTL from SETNX on, whatever the length of the queue.
Expire(t) ==
    /\ task[t] = "pending" /\ Fail
    /\ task' = [task EXCEPT ![t] = "expired"]
    /\ lost' = lost \cup {t}
    /\ UNCHANGED <<queue, pc, holds, shutdown>>

----------------------------------------------------------------------------
(* Consumer.work *)

Goto(c, from, to) == pc[c] = from /\ pc' = [pc EXCEPT ![c] = to]

\* After the backoff and until the limiter lets it through, the loop looks at shutdown.
Reserve(c) ==
    /\ Goto(c, "idle", "reserved") /\ ~shutdown[c]
    /\ UNCHANGED <<task, queue, holds, shutdown, lost, failures>>

\* (mutant: a shutdown is noticed once the item has been taken)
DequeueUnlessShutdown(c) ==
    /\ pc[c] = "reserved" /\ queue # <<>>
    /\ queue' = Front(queue)
    /\ IF shutdown[c]
       THEN pc' = [pc EXCEPT ![c] = "idle"] /\ UNCHANGED holds
       ELSE pc' = [pc EXCEPT ![c] = "get"] /\ holds' = [holds EXCEPT ![c] = Last(queue)]
    /\ UNCHANGED <<task, shutdown, lost, failures>>

\* BRPOP
Dequeue(c) ==
    /\ Goto(c, "reserved", "get") /\ queue # <<>>
    /\ holds' = [holds EXCEPT ![c] = Last(queue)]
    /\ queue' = Front(queue)
    /\ UNCHANGED <<task, shutdown, lost, failures>>

\* BRPOP has waited for 10 seconds; the reservation is cancelled.
DequeueTimesOut(c) ==
    /\ Goto(c, "reserved", "idle") /\ queue = <<>>
    /\ UNCHANGED <<task, queue, holds, shutdown, lost, failures>>

\* (mutant: the item of a missing task stays with the consumer)
GetTaskKeeps(c) ==
    /\ pc[c] = "get"
    /\ pc' = [pc EXCEPT ![c] = IF task[holds[c]] = "pending" THEN "run" ELSE "idle"]
    /\ UNCHANGED <<task, queue, holds, shutdown, lost, failures>>

\* "task item not found" ends this round.
GetTask(c) ==
    /\ pc[c] = "get"
    /\ IF task[holds[c]] = "pending"
       THEN pc' = [pc EXCEPT ![c] = "run"] /\ UNCHANGED holds
       ELSE pc' = [pc EXCEPT ![c] = "idle"] /\ holds' = [holds EXCEPT ![c] = NoTask]
    /\ UNCHANGED <<task, queue, shutdown, lost, failures>>

\* SET: a key that has expired meanwhile is written anew.
Complete(c) ==
    /\ Goto(c, "run", "idle")
    /\ task' = [task EXCEPT ![holds[c]] = "completed"]
    /\ holds' = [holds EXCEPT ![c] = NoTask]
    /\ UNCHANGED <<queue, shutdown, lost, failures>>

\* The process dies, or loses its connection to Redis: the item it had taken is gone.
Crash(c) ==
    /\ pc[c] \notin {"idle", "stopped"} /\ Fail
    /\ pc' = [pc EXCEPT ![c] = "idle"]
    /\ lost' = lost \cup ({holds[c]} \ {NoTask})
    /\ holds' = [holds EXCEPT ![c] = NoTask]
    /\ UNCHANGED <<task, queue, shutdown>>

----------------------------------------------------------------------------
(* Shutdown.  Stop returns when the consumer is "stopped". *)

Stop(c) ==
    /\ ~shutdown[c] /\ Fail
    /\ shutdown' = [shutdown EXCEPT ![c] = TRUE]
    /\ UNCHANGED <<task, queue, pc, holds, lost>>

LoopEnds(c) ==
    /\ shutdown[c] /\ Goto(c, "idle", "stopped")
    /\ UNCHANGED <<task, queue, holds, shutdown, lost, failures>>

\* The next process
Start(c) ==
    /\ Goto(c, "stopped", "idle")
    /\ shutdown' = [shutdown EXCEPT ![c] = FALSE]
    /\ UNCHANGED <<task, queue, holds, lost, failures>>

----------------------------------------------------------------------------

QueueTypeOK ==
    /\ task \in [Task -> {"absent", "pending", "completed", "expired"}]
    /\ queue \in Seq(Task) /\ IsInjective(queue)
    /\ pc \in [Consumer -> {"idle", "reserved", "get", "run", "stopped"}]
    /\ holds \in [Consumer -> Task \cup {NoTask}]
    /\ \A c \in Consumer : holds[c] # NoTask <=> pc[c] \in {"get", "run"}
    /\ shutdown \in [Consumer -> BOOLEAN]
    /\ lost \subseteq Task /\ failures \in 0..MaxFailures
=============================================================================
