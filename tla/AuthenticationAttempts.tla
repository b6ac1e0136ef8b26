------------------------ MODULE AuthenticationAttempts ------------------------
(***************************************************************************)
(* Guesses at the credential of one user: Service.VerifyOneWithSpec         *)
(* (pkg/lib/authn/authenticator/service/service.go) with the rate limits    *)
(* and the lockout around it.  VerifyRecoveryCode (pkg/lib/authn/mfa) runs  *)
(* through the same steps.  A request sends one Redis command per step.     *)
(***************************************************************************)
EXTENDS Sequences, FiniteSets, Functions, RateLimit, Lockout

CONSTANTS
    Request,       \* goroutines that serve requests
    Limits,        \* rate limits in the order in which they are reserved: every
                   \* contributor has a bucket for each
    Config,        \* configurations of the app: the limits that are enabled, perUser
                   \* (lockout_type: per_user, or else per_user_per_ip), the IP addresses
                   \* from which requests come
    Weights,       \* weights of a request, in halves of a token
    MaxTime,       \* bound: the clock stops here
    MaxFailures    \* bound: crashes and failed commands

ASSUME LimitAssumption ==
    /\ Limits \in Seq([period : Nat \ {0}, burst : Nat \ {0}])
    /\ Weights \subseteq Nat
    /\ Config \subseteq [enabled : SUBSET DOMAIN Limits, perUser : BOOLEAN,
                          from : SUBSET Contributor]
    /\ MaxTime \in Nat /\ MaxFailures \in Nat

ASSUME FiniteAssumption ==
    /\ IsFiniteSet(Request) /\ Request # {}
    /\ IsFiniteSet(Contributor)

Bucket == Contributor \X DOMAIN Limits
Lock   == Contributor \cup {Global}

VARIABLES
    config,                     \* the configuration in force (never changes)
    now,                        \* the clock of Redis
    tat,                        \* keys of the rate limits
    record, lock,               \* keys of the lockout
    pc, ip, halves, at,         \* per request: step, RemoteIP, weight, index into Limits
    verdict,                    \* per request: result of the comparison
    since, net,                 \* history: the window of LeakyBucket
    guesses,                    \* history: wrong guesses in it, per bucket
    promise,                    \* history: what was last answered about a bucket
    tries,                      \* history: wrong guesses since a lock or a clear-out
    failures                    \* crashes and failed commands so far

redis  == <<tat, record, lock>>
locals == <<ip, halves, at, verdict>>
window == <<since, net, guesses>>
vars   == <<config, now, redis, pc, locals, window, promise, tries, failures>>

\* Limiter.doReserveN of a disabled limit takes no token and sends no command: the loops
\* over the limits go from one that is enabled to the next.
NextLimit(i) ==
    LET next == {j \in config.enabled : j > i}
    IN  IF next = {} THEN Len(Limits) + 1 ELSE CHOOSE j \in next : \A k \in next : j <= k

SomeIP == CHOOSE c \in Contributor : TRUE

Init ==
    /\ config \in Config
    /\ now = 0 /\ since = 0 /\ failures = 0
    /\ tat = [b \in Bucket |-> 0]
    /\ record = NoRecord /\ lock = [k \in Lock |-> 0]
    /\ pc = [r \in Request |-> "idle"]
    /\ ip = [r \in Request |-> SomeIP]
    /\ halves = [r \in Request |-> 0]
    /\ at = [r \in Request |-> NextLimit(0)]
    /\ verdict = [r \in Request |-> "none"]
    /\ net = [b \in Bucket |-> 0] /\ guesses = [b \in Bucket |-> 0]
    /\ promise = [b \in Bucket |-> [at |-> 0, halves |-> 0]]
    /\ tries = [c \in Contributor |-> 0]

Goto(r, from, to) == pc[r] = from /\ pc' = [pc EXCEPT ![r] = to]

\* A request forgets its local variables when it returns.
Return(r) ==
    /\ pc' = [pc EXCEPT ![r] = "idle"]
    /\ halves' = [halves EXCEPT ![r] = 0]
    /\ at' = [at EXCEPT ![r] = NextLimit(0)]
    /\ verdict' = [verdict EXCEPT ![r] = "none"]
    /\ ip' = [ip EXCEPT ![r] = SomeIP]

----------------------------------------------------------------------------
(* RateLimits.Reserve: one Update per limit.  When a later one does not      *)
(* conform, the reservations made so far are dropped without being cancelled *)

Begin(r, c, h) ==
    /\ Goto(r, "idle", "reserve")
    /\ ip' = [ip EXCEPT ![r] = c]
    /\ halves' = [halves EXCEPT ![r] = h]
    /\ UNCHANGED <<config, now, redis, at, verdict, window, promise, tries, failures>>

\* (mutant: the key is written although the call does not conform)
UpdateAlways(b, h) ==
    /\ tat' = [tat EXCEPT ![b] = NewTAT(Limits[b[2]], @, now, h)]
    /\ net' = IF IsConforming(Limits[b[2]], tat[b], now, h)
              THEN [net EXCEPT ![b] = @ + Increment(Limits[b[2]], h)] ELSE net

\* StorageRedis.Update: the script writes the key only if the call conforms.
Update(b, h) ==
    LET limit == Limits[b[2]]
    IN  /\ tat' = IF IsConforming(limit, tat[b], now, h)
                  THEN [tat EXCEPT ![b] = NewTAT(limit, @, now, h)] ELSE tat
        /\ net' = IF IsConforming(limit, tat[b], now, h)
                  THEN [net EXCEPT ![b] = @ + Increment(limit, h)] ELSE net

Reserve(r) ==
    LET b     == <<ip[r], at[r]>>
        limit == Limits[at[r]]
    IN  /\ pc[r] = "reserve" /\ at[r] \in config.enabled
        /\ Update(b, halves[r])
        /\ promise' = [promise EXCEPT ![b] =
                          [at |-> TimeToAct(limit, tat[b], now, halves[r]),
                           halves |-> IF IsConforming(limit, tat[b], now, halves[r])
                                      THEN 2 ELSE halves[r]]]
        /\ IF IsConforming(limit, tat[b], now, halves[r])
           THEN at' = [at EXCEPT ![r] = NextLimit(@)] /\ UNCHANGED <<pc, ip, halves, verdict>>
           ELSE Return(r)
    /\ UNCHANGED <<config, now, record, lock, since, guesses, tries, failures>>

----------------------------------------------------------------------------
(* The lockout and the comparison *)

\* (mutant: the lock is not looked at before the comparison)
LockoutCheckSkipped(r) ==
    /\ at[r] \notin DOMAIN Limits /\ Goto(r, "reserve", "compare")
    /\ UNCHANGED <<config, now, redis, locals, window, promise, tries, failures>>

\* Lockout.Check: MakeAttempts with 0 attempts reads only.  From here on the deferred
\* Cancel runs at every return.
LockoutCheck(r) ==
    /\ at[r] \notin DOMAIN Limits
    /\ IF IsBlocked(lock[LockKey(config.perUser, ip[r])], now)
       THEN Goto(r, "reserve", "cancel") /\ at' = [at EXCEPT ![r] = NextLimit(0)]
       ELSE Goto(r, "reserve", "compare") /\ UNCHANGED at
    /\ UNCHANGED <<config, now, redis, ip, halves, verdict, window, promise, tries, failures>>

\* An error of Redis runs the deferred Cancel, too.
LockoutCheckFails(r) ==
    /\ at[r] \notin DOMAIN Limits /\ failures < MaxFailures
    /\ Goto(r, "reserve", "cancel") /\ at' = [at EXCEPT ![r] = NextLimit(0)]
    /\ failures' = failures + 1
    /\ UNCHANGED <<config, now, redis, ip, halves, verdict, window, promise, tries>>

CountGuess(r) ==
    guesses' = [b \in Bucket |->
        guesses[b] + IF b[1] = ip[r] /\ b[2] \in config.enabled
                     THEN Increment(Limits[b[2]], halves[r]) ELSE 0]

\* "other": an error that is not ErrInvalidCredentials, or a recovery code already used
Compare(r, result) ==
    /\ pc[r] = "compare"
    /\ verdict' = [verdict EXCEPT ![r] = result]
    /\ at' = [at EXCEPT ![r] = NextLimit(0)]
    /\ IF result = "wrong"
       THEN /\ Goto(r, "compare", "attempt")
            /\ CountGuess(r)
            /\ tries' = [tries EXCEPT ![ip[r]] = @ + 1]
       ELSE Goto(r, "compare", "cancel") /\ UNCHANGED <<guesses, tries>>
    /\ UNCHANGED <<config, now, redis, ip, halves, since, net, promise, failures>>

\* A wrong guess with a method that takes no part in the lockout: PreventCancel, and then
\* Lockout.MakeAttempt does nothing.
CompareExempt(r) ==
    /\ pc[r] = "compare"
    /\ CountGuess(r)
    /\ Return(r)
    /\ UNCHANGED <<config, now, redis, since, net, promise, tries, failures>>

\* Whose guesses count for a lock
Sharing(c) == IF config.perUser THEN Contributor ELSE {c}
Forget(S) == tries' = [c \in Contributor |-> IF c \in S THEN 0 ELSE tries[c]]

\* (mutant: an attempt during a lock makes it longer)
MakeAttemptExtends(r) ==
    LET c     == ip[r]
        after == Counted(record, c, now)
        total == Deciding(after, config.perUser, c)
    IN  /\ pc[r] = "attempt"
        /\ record' = after
        /\ IF total >= MaxAttempts
           THEN /\ lock' = [lock EXCEPT ![LockKey(config.perUser, c)] =
                               now + LockDuration(total - MaxAttempts)]
                /\ Forget(Sharing(c))
           ELSE UNCHANGED <<lock, tries>>
    /\ Return(r)
    /\ UNCHANGED <<config, now, tat, window, promise, failures>>

\* (mutant: the reservation of a wrong guess is cancelled like any other)
MakeAttemptCancels(r) ==
    /\ pc[r] = "attempt" /\ ~IsBlocked(lock[LockKey(config.perUser, ip[r])], now)
    /\ record' = Counted(record, ip[r], now)
    /\ pc' = [pc EXCEPT ![r] = "cancel"]
    /\ UNCHANGED <<config, now, tat, lock, locals, window, promise, tries, failures>>

\* Lockout.MakeAttempt after PreventCancel.  A guess that was compared while the lock came
\* into force is not counted.
MakeAttempt(r) ==
    LET c     == ip[r]
        after == Counted(record, c, now)
        total == Deciding(after, config.perUser, c)
    IN  /\ pc[r] = "attempt"
        /\ IF IsBlocked(lock[LockKey(config.perUser, c)], now)
           THEN UNCHANGED <<record, lock, tries>>
           ELSE /\ record' = after
                /\ IF total >= MaxAttempts
                   THEN /\ lock' = [lock EXCEPT ![LockKey(config.perUser, c)] =
                                       now + LockDuration(total - MaxAttempts)]
                        /\ Forget(Sharing(c))
                   ELSE UNCHANGED <<lock, tries>>
    /\ Return(r)
    /\ UNCHANGED <<config, now, tat, window, promise, failures>>

\* IntentLoginFlow's commit clears the attempts made from the IP address c of the request that
\* finishes the login.  It may come much later, or never, or do nothing because no method that
\* was used takes part in the lockout (LoginNotFinished).
ClearAttempts(r, c) ==
    /\ pc[r] = "verified"
    /\ record' = Cleared(record, c, now)
    /\ Forget({c})
    /\ Return(r)
    /\ UNCHANGED <<config, now, tat, lock, window, promise, failures>>

LoginNotFinished(r) ==
    /\ pc[r] = "verified"
    /\ Return(r)
    /\ UNCHANGED <<config, now, redis, window, promise, tries, failures>>

----------------------------------------------------------------------------
(* RateLimits.Cancel, deferred *)

CancelDone(r) ==
    IF NextLimit(at[r]) <= Len(Limits)
    THEN at' = [at EXCEPT ![r] = NextLimit(@)] /\ UNCHANGED <<pc, ip, halves, verdict>>
    ELSE IF verdict[r] = "right"
         THEN /\ pc' = [pc EXCEPT ![r] = "verified"]
              /\ UNCHANGED locals
         ELSE Return(r)

\* Limiter.Cancel; tokenTaken = 0: nothing to cancel
Cancel(r) ==
    /\ pc[r] = "cancel"
    /\ IF at[r] \notin config.enabled \/ halves[r] = 0
       THEN UNCHANGED <<tat, net>>
       ELSE Update(<<ip[r], at[r]>>, -halves[r])
    /\ CancelDone(r)
    /\ UNCHANGED <<config, now, record, lock, since, guesses, promise, tries, failures>>

\* An error of Redis is logged, the other reservations are still cancelled.
CancelFails(r) ==
    /\ pc[r] = "cancel" /\ at[r] \in config.enabled /\ failures < MaxFailures
    /\ failures' = failures + 1
    /\ CancelDone(r)
    /\ UNCHANGED <<config, now, redis, window, promise, tries>>

----------------------------------------------------------------------------
(* The environment *)

\* The process dies, or Redis fails in a step after which the code only returns: then, too,
\* reservations are kept and a wrong guess is not counted.
Crash(r) ==
    /\ pc[r] \notin {"idle", "verified"} /\ failures < MaxFailures
    /\ failures' = failures + 1
    /\ Return(r)
    /\ UNCHANGED <<config, now, redis, window, promise, tries>>

\* The record and the locks have a TTL.  (The keys of the rate limits have none to speak
\* of: EXPIREAT is given milliseconds for seconds.)
Tick ==
    /\ now < MaxTime
    /\ now' = now + 1
    /\ lock' = [k \in Lock |-> IF IsBlocked(lock[k], now') THEN lock[k] ELSE 0]
    /\ IF record.expireAt # 0 /\ record.expireAt <= now'
       THEN record' = NoRecord /\ Forget(Contributor)
       ELSE UNCHANGED <<record, tries>>
    /\ UNCHANGED <<config, tat, pc, locals, window, promise, failures>>

\* A new window (history only)
Observe ==
    /\ config.enabled # {}
    /\ since' = now
    /\ net' = [b \in Bucket |-> 0] /\ guesses' = [b \in Bucket |-> 0]
    /\ UNCHANGED <<config, now, redis, pc, locals, promise, tries, failures>>

Step(r) ==
    \/ Reserve(r)
    \/ LockoutCheck(r) \/ LockoutCheckFails(r)
    \/ (\E result \in {"right", "wrong", "other"} : Compare(r, result)) \/ CompareExempt(r)
    \/ MakeAttempt(r)
    \/ (\E c \in config.from : ClearAttempts(r, c)) \/ LoginNotFinished(r)
    \/ Cancel(r) \/ CancelFails(r)
    \/ Crash(r)

Next ==
    \/ \E r \in Request, c \in config.from, h \in Weights : Begin(r, c, h)
    \/ \E r \in Request : Step(r)
    \/ Tick
    \/ Observe

Spec == Init /\ [][Next]_vars

----------------------------------------------------------------------------
(* Properties *)

TypeOK ==
    /\ config \in Config
    /\ now \in 0 .. MaxTime /\ since \in 0 .. now /\ failures \in 0 .. MaxFailures
    /\ tat \in [Bucket -> Int]
    /\ record \in [total : Nat, by : [Contributor -> Nat], expireAt : Nat]
    /\ lock \in [Lock -> Nat]
    /\ pc \in [Request -> {"idle", "reserve", "compare", "attempt", "cancel", "verified"}]
    /\ ip \in [Request -> Contributor] /\ halves \in [Request -> Weights \cup {0}]
    /\ at \in [Request -> 1 .. Len(Limits) + 1]
    /\ verdict \in [Request -> {"none", "right", "wrong", "other"}]
    /\ net \in [Bucket -> Int] /\ guesses \in [Bucket -> Nat]
    /\ promise \in [Bucket -> [at : Int, halves : Nat]] /\ tries \in [Contributor -> Nat]

\* The buckets of gcra.go are leaky buckets: its arrival time is the clock plus the level.
Ahead(b) == IF tat[b] > now THEN tat[b] - now ELSE 0

Amounts == {Increment(Limits[i], h) : i \in DOMAIN Limits, h \in Weights}
               \cup {-Increment(Limits[i], -h) : i \in DOMAIN Limits, h \in Weights}

LB == INSTANCE LeakyBucket WITH
          Capacity <- [b \in Bucket |-> Tolerance(Limits[b[2]])],
          Amount <- Amounts,
          level <- [b \in Bucket |-> Ahead(b)]

\* The rate limiter (gcra.go, limiter.go) implements LeakyBucket, cancellations included.
ImplementsLeakyBucket == LB!Spec

\* In any window a bucket receives at most its burst plus what leaks meanwhile.
RateIsBounded == LB!RateIsBounded

\* So do wrong guesses, up to one token per request: a token that was taken before the window
\* and is given back in it, when it has long leaked, makes room for one guess more.
GuessRateIsBounded ==
    \A b \in Bucket, h \in Weights :
        b[2] \in config.enabled /\ (\A other \in Weights : other <= h) =>
            guesses[b] <= Tolerance(Limits[b[2]]) + (now - since)
                              + Cardinality(Request) * Increment(Limits[b[2]], h)

\* Limiter.GetTimeToAct and the error of a rejected call tell when to come back: who waits
\* until then is not rejected, unless another call takes the token first.
TimeToActIsHonest ==
    \A b \in Bucket :
        LET limit == Limits[b[2]]
        IN  promise[b].at <= now /\ promise[b].halves <= 2 * limit.burst
                => IsConforming(limit, tat[b], now, promise[b].halves)

\* The total of lockout/record.go, which decides, is kept beside its parts, and each is
\* changed by attempts, by clearing and by expiry.
TotalIsSumOfParts ==
    record.total = SumFunctionOnSet(record.by, Contributor)

\* docs/specs/account-lockout.md:81: "Once the user was locked, the locking period will not
\* be updated."  Nor does the end of the record or a success of somebody else unlock.
LockIsKept ==
    [][\A k \in Lock : IsBlocked(lock[k], now') => lock'[k] = lock[k]]_vars

\* Wrong guesses that fit between two locks (or clear-outs).  Requests that have passed
\* Lockout.Check together compare together: those that come after the one that locks are
\* refused, and are not counted; so are those whose MakeAttempt fails.  (Of guesses with a
\* method that takes no part in the lockout, only the rate is bounded.)
GuessesPerLockAreBounded ==
    \A c \in Contributor :
        SumFunctionOnSet(tries, Sharing(c))
            <= MaxAttempts + 2 * (Cardinality(Request) - 1) + failures
=============================================================================
