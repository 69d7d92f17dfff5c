-------------------------- MODULE MCOrderSubmission --------------------------
(* Small instances of OrderSubmission for TLC. *)
EXTENDS OrderSubmission

CONSTANTS b1, s1, f1
=============================================================================
