---------------------------- MODULE MCSessionGroups ----------------------------
(* SessionGroups on a small instance. *)
EXTENDS SessionGroups, TLC

Symmetry ==
    Permutations(Request) \cup Permutations(Session) \cup Permutations(Code)
        \cup Permutations(Grant)

\* Two grants of a session from one code; two codes of clients, of which the second exchange
\* revokes the grant of the first or adds a token to it; a failure; two sessions.
SmallBounds ==
    {[sessions |-> 1, codes |-> 1, grants |-> 2, failures |-> 0],
     [sessions |-> 0, codes |-> 2, grants |-> 2, failures |-> 0],
     [sessions |-> 1, codes |-> 1, grants |-> 1, failures |-> 1],
     [sessions |-> 2, codes |-> 0, grants |-> 0, failures |-> 1]}
=============================================================================
