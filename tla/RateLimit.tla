------------------------------ MODULE RateLimit ------------------------------
(***************************************************************************)
(* The Lua script of pkg/lib/ratelimit/gcra.go, which Redis runs as one     *)
(* command.  A limit is [period, burst]; the key of a bucket holds the      *)
(* theoretical arrival time tat (0: there is no key).  Weights are floats   *)
(* in the code; here they are counted in halves of a token, so that the     *)
(* rounding of `math.ceil` shows.                                           *)
(***************************************************************************)
EXTENDS Integers

Larger(x, y) == IF x >= y THEN x ELSE y

EmissionInterval(limit) == limit.period \div limit.burst

\* math.ceil(emission_interval * n), n = halves / 2; negative for a cancellation
Increment(limit, halves) == (EmissionInterval(limit) * halves + 1) \div 2

\* dvt: how far ahead of the clock the arrival time may run
Tolerance(limit) == EmissionInterval(limit) * limit.burst

\* The two numbers the script computes before it decides
NewTAT(limit, tat, now, halves)  == Larger(tat, now) + Increment(limit, halves)
AllowAt(limit, tat, now, halves) == NewTAT(limit, tat, now, halves) - Tolerance(limit)

\* (mutant: one token more than the burst)
IsConformingOffByOne(limit, tat, now, halves) ==
    now + EmissionInterval(limit) >= AllowAt(limit, tat, now, halves)

IsConforming(limit, tat, now, halves) == now >= AllowAt(limit, tat, now, halves)

\* (mutant: a conforming call answers with the time at which it was allowed itself)
TimeToActAgain(limit, tat, now, halves) == AllowAt(limit, tat, now, halves)

\* When to come back.  After a conforming call: for one more of at least a whole token.
\* (Redis truncates the number it returns.)
TimeToAct(limit, tat, now, halves) ==
    IF IsConforming(limit, tat, now, halves)
    THEN AllowAt(limit, tat, now, halves)
             + (Larger(2, halves) * EmissionInterval(limit)) \div 2
    ELSE AllowAt(limit, tat, now, halves)
=============================================================================
