----------------------- MODULE MCAuthenticationAttempts -----------------------
(* AuthenticationAttempts on a small instance. *)
EXTENDS AuthenticationAttempts, TLC

\* Two limits: a burst of two, and a narrower one that is reserved second
MCLimits == <<[period |-> 2, burst |-> 2], [period |-> 2, burst |-> 1]>>

\* Both limits, one client; or no limit and two clients that share a lock or do not
MCConfig ==
    {[enabled |-> {1, 2}, perUser |-> TRUE, from |-> {"ip1"}]}
        \cup [enabled : {{}}, perUser : BOOLEAN, from : {{"ip1", "ip2"}}]

Symmetry == Permutations(Request)
=============================================================================
