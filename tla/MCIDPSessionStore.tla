-------------------------- MODULE MCIDPSessionStore --------------------------
(* IDPSessionStore on a small instance. *)
EXTENDS IDPSessionStore, TLC

\* Requests are interchangeable (safety runs only).
Symmetry == Permutations(Request)
SymmetryTwo == Permutations(Request) \cup Permutations(Session)
=============================================================================
