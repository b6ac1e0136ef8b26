--------------------------- MODULE MCUserReindexing ---------------------------
(* UserReindexing on a small instance. *)
EXTENDS UserReindexing
=============================================================================
