------------------------------- MODULE Lockout -------------------------------
(***************************************************************************)
(* The two Lua scripts of pkg/lib/lockout/record.go, each run by Redis as   *)
(* one command.  Times are in seconds.  The record of a user is             *)
(* [total, by, expireAt] with the failed attempts of all contributors       *)
(* together and of each of them (0: no field); expireAt is 0 when there is  *)
(* no record.  A lock is the time it ends (0: no key).                      *)
(***************************************************************************)
EXTENDS Integers

CONSTANTS
    Contributor,              \* remote IP addresses
    Global,                   \* name of the lock that all contributors share
    MaxAttempts,
    MinDuration, MaxDuration, \* of a lock
    BackoffNum, BackoffDen,   \* backoff_factor, a float in the code
    HistoryDuration

ASSUME LockoutAssumption ==
    /\ Contributor # {} /\ Global \notin Contributor
    /\ MaxAttempts \in Nat \ {0} /\ HistoryDuration \in Nat \ {0}
    /\ MinDuration \in Nat \ {0} /\ MaxDuration \in Nat /\ MaxDuration >= MinDuration
    /\ BackoffNum \in Nat /\ BackoffDen \in Nat \ {0} /\ BackoffNum >= BackoffDen

NoRecord == [total |-> 0, by |-> [c \in Contributor |-> 0], expireAt |-> 0]

\* string.format("%s:lock:%s", ...)
LockKey(perUser, c) == IF perUser THEN Global ELSE c

IsBlocked(until, now) == until > now

\* min(min_duration * backoff_factor ^ exponent, max_duration), rounded up: the script
\* compares the time a lock ends with whole seconds, and only `until > now` reads it.
LockDuration(exponent) ==
    LET exact == MinDuration * BackoffNum ^ exponent
        unit  == BackoffDen ^ exponent
        up    == (exact + unit - 1) \div unit
    IN  IF up \in 0 .. MaxDuration THEN up ELSE MaxDuration

Counted(record, c, now) ==
    [total |-> record.total + 1,
     by |-> [record.by EXCEPT ![c] = @ + 1],
     expireAt |-> now + HistoryDuration]

\* `total` of the script: what decides about the lock
Deciding(record, perUser, c) == IF perUser THEN record.total ELSE record.by[c]

\* (mutant: clearing a contributor leaves what it has added to the total)
ClearedFieldOnly(record, c, now) ==
    [total |-> record.total,
     by |-> [record.by EXCEPT ![c] = 0],
     expireAt |-> IF record.expireAt = 0 THEN now + HistoryDuration ELSE record.expireAt]

\* (mutant: the field stays, and the total is not cut at zero)
ClearedTotalOnly(record, c, now) ==
    [total |-> record.total - record.by[c], by |-> record.by,
     expireAt |-> IF record.expireAt = 0 THEN now + HistoryDuration ELSE record.expireAt]

\* clearAttemptsLuaScript; HSET creates the record if there is none
Cleared(record, c, now) ==
    [total |-> IF record.total > record.by[c] THEN record.total - record.by[c] ELSE 0,
     by |-> [record.by EXCEPT ![c] = 0],
     expireAt |-> IF record.expireAt = 0 THEN now + HistoryDuration ELSE record.expireAt]
=============================================================================
