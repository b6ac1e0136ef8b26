-------------------------- MODULE MCOneTimePasswords --------------------------
(* OneTimePasswords on a small instance. *)
EXTENDS OneTimePasswords, TLC

Symmetry == Permutations(Process)

\* Two codes, the second of which outlives the counter of the first; or one code and a failure.
SmallBounds ==
    {[codes |-> 2, time |-> 2, failures |-> 0], [codes |-> 1, time |-> 2, failures |-> 1]}
=============================================================================
