--------------------------- MODULE OneTimePasswords ---------------------------
(***************************************************************************)
(* One-time passwords of one kind sent to one target (pkg/lib/authn/otp):   *)
(* the key of the code, rewritten as a whole by everybody who changes it,   *)
(* and the counter of failed attempts beside it.  A process is a request or *)
(* the goroutine that delivers a WhatsApp message; it sends one Redis       *)
(* command per step.  What the rate limits of this component answer is left *)
(* open (module AuthenticationAttempts is about them).                      *)
(***************************************************************************)
EXTENDS Integers, FiniteSets

CONSTANTS
    Process,
    MaxFailedAttempts, \* kind.RevocationMaxFailedAttempts, not 0
    ValidPeriod,       \* kind.ValidPeriod
    Bounds             \* bound: a behaviour stays within one of these triples of codes
                       \* generated, time, and crashes and failed commands

ASSUME OTPAssumption ==
    /\ IsFiniteSet(Process) /\ Process # {}
    /\ MaxFailedAttempts \in Nat \ {0} /\ ValidPeriod \in Nat \ {0}
    /\ IsFiniteSet(Bounds) /\ Bounds \subseteq [codes : Nat, time : Nat, failures : Nat]

Within(g, t, f) == \E b \in Bounds : g <= b.codes /\ t <= b.time /\ f <= b.failures

Code  == UNION {1 .. b.codes : b \in Bounds}  \* in the order in which they are generated
None  == 0

VARIABLES
    now,
    code,                \* what the code key holds; code.id = None: there is no key
    attempts, countEnds, \* the counter, and when it expires (0: it has no TTL)
    pc, op,              \* per process: next command, operation
    mem,                 \* per process: the *Code as it has read it
    generated,           \* number of codes generated so far
    delivered,           \* number of messages whose delivery result has arrived
    wrong,               \* history: wrong comparisons per code since the counter was reset
    used, reused,        \* history: codes with which a consuming verification succeeded, and
                         \* did so again
    overlapped,          \* history: codes written after the key had changed since it was read
    failures

store   == <<code, attempts, countEnds>>
locals  == <<op, mem>>
history == <<wrong, used, reused, overlapped>>
vars    == <<now, store, pc, locals, generated, delivered, history, failures>>

\* type Code: what changes after it was generated.  SendMessageError, the channel and the
\* message ID stand for themselves only: that the key is written is what matters.
CodeData ==
    [id : Code \cup {None}, consumed : BOOLEAN, submitted : {"nothing", "wrong", "right"},
     expireAt : Nat]

NoCode == [id |-> None, consumed |-> FALSE, submitted |-> "nothing", expireAt |-> 0]

Init ==
    /\ now = 0 /\ code = NoCode /\ attempts = 0 /\ countEnds = 0
    /\ pc = [p \in Process |-> "idle"] /\ op = [p \in Process |-> "none"]
    /\ mem = [p \in Process |-> NoCode]
    /\ generated = 0 /\ delivered = 0 /\ failures = 0
    /\ wrong = [c \in Code |-> 0]
    /\ used = {} /\ reused = {} /\ overlapped = {}

Goto(p, from, to) == pc[p] = from /\ pc' = [pc EXCEPT ![p] = to]

\* Local variables are kept as long as they are read.
Keep(p, o, m) ==
    /\ op' = [op EXCEPT ![p] = o]
    /\ mem' = [mem EXCEPT ![p] = m]

Return(p) ==
    /\ pc' = [pc EXCEPT ![p] = "idle"]
    /\ Keep(p, "none", NoCode)

Begin(p, o, first) ==
    /\ Goto(p, "idle", first)
    /\ op' = [op EXCEPT ![p] = o]
    /\ UNCHANGED <<now, store, mem, generated, history, failures>>

\* VerifyOTP, also with UseSubmittedCode
BeginVerify(p)          == Begin(p, "verify", "check") /\ UNCHANGED delivered
BeginVerifySubmitted(p) == Begin(p, "verifySubmitted", "check") /\ UNCHANGED delivered

\* ConsumeCode; SetSubmittedCode.  (InspectState by itself does what a verification does that
\* the rate limit turns away.)
BeginConsume(p) == Begin(p, "consume", "get") /\ UNCHANGED delivered
BeginSubmit(p)  == Begin(p, "submit", "get") /\ UNCHANGED delivered

\* The result of a WhatsApp message arrives, once for every message.
BeginDelivered(p) ==
    /\ delivered < generated
    /\ delivered' = delivered + 1
    /\ Begin(p, "sent", "get")

----------------------------------------------------------------------------
(* GenerateOTP, and MessageSender.Send after it *)

\* (mutant: a code that is still there is kept)
GenerateSetNX(p) ==
    /\ Within(generated + 1, now, failures)
    /\ Goto(p, "idle", "reset")
    /\ op' = [op EXCEPT ![p] = "sent"]
    /\ generated' = generated + 1
    /\ code' = IF code.id # None THEN code
               ELSE [NoCode EXCEPT !.id = generated', !.expireAt = now + ValidPeriod]
    /\ UNCHANGED <<now, attempts, countEnds, mem, delivered, wrong, used, reused, overlapped,
                   failures>>

\* CodeStoreRedis.Create with a new code; the rate limits have agreed.
GenerateSet(p) ==
    /\ Within(generated + 1, now, failures)
    /\ Goto(p, "idle", "reset")
    /\ op' = [op EXCEPT ![p] = "sent"]
    /\ generated' = generated + 1
    /\ code' = [NoCode EXCEPT !.id = generated', !.expireAt = now + ValidPeriod]
    /\ UNCHANGED <<now, attempts, countEnds, mem, delivered, wrong, used, reused, overlapped,
                   failures>>

\* Comparisons that have been made and will be counted only now
Pending(c) == Cardinality({p \in Process : pc[p] = "incr" /\ mem[p].id = c})

\* Then the message is sent; its result may arrive while the request goes on.
ResetFailedAttempts(p) ==
    /\ Goto(p, "reset", "get")
    /\ attempts' = 0 /\ countEnds' = 0
    /\ wrong' = [c \in Code |-> Pending(c)]
    /\ UNCHANGED <<now, code, locals, generated, delivered, used, reused, overlapped, failures>>

\* "non-critical error; log and continue"
ResetFails(p) ==
    /\ Within(generated, now, failures + 1)
    /\ Goto(p, "reset", "get")
    /\ failures' = failures + 1
    /\ UNCHANGED <<now, store, locals, generated, delivered, history>>

----------------------------------------------------------------------------
(* The counter *)

\* checkFailedAttemptsRevocation; then VerifyOTP reserves from its rate limits, which may
\* refuse.
CheckFailedAttempts(p) ==
    /\ pc[p] = "check"
    /\ \/ /\ attempts >= MaxFailedAttempts
          /\ Goto(p, "check", "revoke") /\ Keep(p, "none", NoCode)
       \/ /\ attempts < MaxFailedAttempts /\ op[p] # "inspect"
          /\ Goto(p, "check", "get") /\ UNCHANGED locals
       \/ attempts < MaxFailedAttempts /\ Return(p)
    /\ UNCHANGED <<now, store, generated, delivered, history, failures>>

\* deleteCode, decided by the counter of some time ago
Revoke(p) ==
    /\ pc[p] = "revoke"
    /\ code' = NoCode
    /\ Return(p)
    /\ UNCHANGED <<now, attempts, countEnds, generated, delivered, history, failures>>

\* INCR, which creates a counter without TTL
IncrementFailedAttempts(p) ==
    /\ Goto(p, "incr", "expire")
    /\ Keep(p, "none", NoCode)
    /\ attempts' = attempts + 1
    /\ UNCHANGED <<now, code, countEnds, generated, delivered, wrong, used, reused, overlapped,
                   failures>>

\* (mutant: the counter has a shorter life of its own, which starts with the first attempt)
ExpireAtFirst(p) ==
    /\ pc[p] = "expire"
    /\ countEnds' = IF attempts = 0 THEN 0 ELSE IF countEnds = 0 THEN now + 1 ELSE countEnds
    /\ Return(p)
    /\ UNCHANGED <<now, code, attempts, generated, delivered, history, failures>>

\* "This ensures the number of failed attempts outlives the OTP." (attempt_tracker_redis.go)
ExpireFailedAttempts(p) ==
    /\ pc[p] = "expire"
    /\ countEnds' = IF attempts = 0 THEN 0 ELSE now + ValidPeriod
    /\ Return(p)
    /\ UNCHANGED <<now, code, attempts, generated, delivered, history, failures>>

----------------------------------------------------------------------------
(* Reading the code and writing it back *)

Verifying == {"verify", "verifySubmitted"}

\* A guess may be right or wrong.
MayMatch(p) == op[p] = "verifySubmitted" => code.submitted = "right"
MayDiffer(p) == op[p] = "verifySubmitted" => code.submitted # "right"

\* (mutant: a code that has been consumed is compared like any other)
NothingToDoIfMissing(p) == code.id = None

\* A missing or a consumed code ends a verification and ConsumeCode; a delivery result is
\* dropped if an error was recorded before (it may always be).
NothingToDo(p) ==
    \/ code.id = None
    \/ code.consumed /\ op[p] \in Verifying \cup {"consume"}

\* CodeStoreRedis.Get, and the comparison in memory.  A right guess ends a verification with
\* SkipConsume; otherwise it is written that the code is consumed.
GetCode(p) ==
    /\ pc[p] = "get"
    /\ \/ /\ NothingToDo(p) \/ op[p] = "sent"
          /\ Return(p) /\ UNCHANGED wrong
       \/ /\ ~NothingToDo(p) /\ op[p] \in Verifying /\ MayDiffer(p)
          /\ Goto(p, "get", "incr")
          /\ wrong' = [wrong EXCEPT ![code.id] = @ + 1]
          /\ Keep(p, "verify", [NoCode EXCEPT !.id = code.id])
       \/ /\ ~NothingToDo(p) /\ op[p] \in Verifying /\ MayMatch(p)
          /\ Return(p) /\ UNCHANGED wrong
       \/ /\ ~NothingToDo(p) /\ (op[p] \in Verifying => MayMatch(p))
          /\ Goto(p, "get", "set")
          /\ Keep(p, IF op[p] \in Verifying THEN "verify" ELSE op[p], code)
          /\ UNCHANGED wrong
    /\ UNCHANGED <<now, store, generated, delivered, used, reused, overlapped, failures>>

\* What the operation may make of the code it has read
Changed(p) ==
    CASE op[p] = "submit" -> {[mem[p] EXCEPT !.submitted = g] : g \in {"wrong", "right"}}
      [] op[p] = "sent"   -> {mem[p]}
      [] OTHER            -> {[mem[p] EXCEPT !.consumed = TRUE]}

\* What happens in the history when p's copy is written
Recorded(p) ==
    LET c == mem[p].id
        use == IF op[p] \in Verifying THEN {c} ELSE {}
    IN  /\ used' = used \cup use
        /\ reused' = reused \cup (use \cap used)
        /\ overlapped' = overlapped \cup (IF code = mem[p] THEN {} ELSE {c})

\* (mutant: every write starts the valid period again)
UpdateRenews(p) ==
    /\ pc[p] = "set"
    /\ code' \in {[c EXCEPT !.expireAt = now + ValidPeriod] : c \in Changed(p)} /\ Recorded(p)
    /\ Return(p)
    /\ UNCHANGED <<now, attempts, countEnds, generated, delivered, wrong, failures>>

\* (mutant: a code is written whether or not its time is up)
UpdateCodeLate(p) ==
    /\ pc[p] = "set"
    /\ code' \in Changed(p) /\ Recorded(p)
    /\ IF op[p] = "submit"
       THEN Goto(p, "set", "check") /\ Keep(p, "inspect", NoCode)
       ELSE Return(p)
    /\ UNCHANGED <<now, attempts, countEnds, generated, delivered, wrong, failures>>

\* CodeStoreRedis.Update: SETEX of the whole code, whatever the key holds by now; an error
\* if its time is up.  SetSubmittedCode goes on to InspectState.
UpdateCode(p) ==
    /\ pc[p] = "set"
    /\ IF now < mem[p].expireAt
       THEN code' \in Changed(p) /\ Recorded(p)
       ELSE UNCHANGED <<code, used, reused, overlapped>>
    /\ IF op[p] = "submit" /\ now < mem[p].expireAt
       THEN /\ Goto(p, "set", "check")
            /\ Keep(p, "inspect", NoCode)
       ELSE Return(p)
    /\ UNCHANGED <<now, attempts, countEnds, generated, delivered, wrong, failures>>

----------------------------------------------------------------------------
(* The environment *)

\* The process dies, or Redis fails and the call only returns its error.
Crash(p) ==
    /\ pc[p] # "idle" /\ Within(generated, now, failures + 1)
    /\ failures' = failures + 1
    /\ Return(p)
    /\ UNCHANGED <<now, store, generated, delivered, history>>

Tick ==
    /\ Within(generated, now + 1, failures)
    /\ now' = now + 1
    /\ code' = IF code.expireAt <= now' THEN NoCode ELSE code
    /\ IF countEnds # 0 /\ countEnds <= now'
       THEN attempts' = 0 /\ countEnds' = 0
       ELSE UNCHANGED <<attempts, countEnds>>
    /\ UNCHANGED <<pc, locals, generated, delivered, history, failures>>

Step(p) ==
    \/ ResetFailedAttempts(p) \/ ResetFails(p)
    \/ CheckFailedAttempts(p) \/ Revoke(p)
    \/ IncrementFailedAttempts(p) \/ ExpireFailedAttempts(p)
    \/ GetCode(p) \/ UpdateCode(p)
    \/ Crash(p)

Call(p) ==
    \/ GenerateSet(p)
    \/ BeginVerify(p) \/ BeginVerifySubmitted(p)
    \/ BeginConsume(p) \/ BeginSubmit(p)
    \/ BeginDelivered(p)

Next == Tick \/ \E p \in Process : Call(p) \/ Step(p)

Spec == Init /\ [][Next]_vars

----------------------------------------------------------------------------
(* Properties *)

\* The code in the key is one whose time is not up.
TypeOK ==
    /\ now \in Nat /\ failures \in Nat
    /\ code \in CodeData /\ (code.id # None => now < code.expireAt)
    /\ attempts \in Nat /\ countEnds \in Nat
    /\ pc \in [Process ->
                 {"idle", "reset", "check", "revoke", "incr", "expire", "get", "set"}]
    /\ op \in [Process -> Verifying \cup {"none", "inspect", "consume", "submit", "sent"}]
    /\ mem \in [Process -> CodeData]
    /\ generated \in Code \cup {None} /\ delivered \in 0 .. generated
    /\ wrong \in [Code -> Nat]
    /\ used \subseteq Code /\ reused \subseteq Code /\ overlapped \subseteq Code

Others == Cardinality(Process) - 1

\* A code is compared with at most the permitted number of wrong guesses before it is gone,
\* and with one more for each other process that had passed the check of the counter by then,
\* or whose attempt could not be counted; twice as many if the counter, still that of an
\* earlier code, ends before anybody has extended it.
WrongGuessesAreBounded ==
    \A c \in Code : wrong[c] <= MaxFailedAttempts + 2 * Others + failures

\* A code verifies twice only if somebody wrote the key after reading it before a use: the
\* result of a delivery, a submission or another verification.
UsedTwiceOnlyByOverlap ==
    reused \subseteq overlapped

\* An older code is in the key only if such a write has brought it back.
OlderCodeOnlyByOverlap ==
    code.id \notin {None, generated} => code.id \in overlapped

\* No write makes a code live longer than from its generation.
ExpiryIsNeverRenewed ==
    [][(code.id # None /\ code'.id = code.id) => code'.expireAt = code.expireAt]_vars
=============================================================================
