------------------------- MODULE MCOfflineGrantStore -------------------------
(* OfflineGrantStore on a small instance. *)
EXTENDS OfflineGrantStore, TLC

\* Requests are interchangeable.
Symmetry == Permutations(Request)
=============================================================================
