----------------------------- MODULE LeakyBucket -----------------------------
(***************************************************************************)
(* What a rate limit promises: a bucket that leaks one unit per unit of     *)
(* time, never holds more than its capacity, and is filled by taking tokens *)
(* and emptied by giving them back.  A window of observation may be opened  *)
(* at any time; `net` is what was taken less what was given back in it.     *)
(***************************************************************************)
EXTENDS Integers

CONSTANTS Bucket, Capacity, Amount

\* What the constants have to be; who instantiates the module sees to it
CapacityIsNatural == Capacity \in [Bucket -> Nat] /\ Amount \subseteq Nat

VARIABLES
    now,    \* the clock
    level,  \* how full each bucket is
    since,  \* when the window of observation was opened
    net     \* what each bucket has received since

vars == <<now, level, since, net>>

Positive(x) == IF x > 0 THEN x ELSE 0

Init ==
    /\ now \in Nat /\ since = now
    /\ level = [b \in Bucket |-> 0]
    /\ net = [b \in Bucket |-> 0]

Take(b, amount) ==
    /\ level[b] + amount <= Capacity[b]
    /\ level' = [level EXCEPT ![b] = @ + amount]
    /\ net' = [net EXCEPT ![b] = @ + amount]
    /\ UNCHANGED <<now, since>>

\* Less may be in the bucket than is given back: the rest has leaked already.
GiveBack(b, amount) ==
    /\ level' = [level EXCEPT ![b] = Positive(@ - amount)]
    /\ net' = [net EXCEPT ![b] = @ - amount]
    /\ UNCHANGED <<now, since>>

Leak ==
    /\ now' = now + 1
    /\ level' = [b \in Bucket |-> Positive(level[b] - 1)]
    /\ UNCHANGED <<since, net>>

Observe ==
    /\ since' = now
    /\ net' = [b \in Bucket |-> 0]
    /\ UNCHANGED <<now, level>>

Next ==
    \/ \E b \in Bucket, amount \in Amount : Take(b, amount) \/ GiveBack(b, amount)
    \/ Leak
    \/ Observe

Spec == Init /\ [][Next]_vars

\* A window of any length sees at most one full bucket more than leaks in it: with
\* gcra.go's emission interval as the size of a token, at most `burst` tokens and one more
\* per interval.
RateIsBounded ==
    \A b \in Bucket : net[b] <= Capacity[b] + (now - since)
=============================================================================
