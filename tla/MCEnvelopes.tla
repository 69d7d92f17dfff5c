---------------------------- MODULE MCEnvelopes ----------------------------
(* Instances of Envelopes for TLC; the bounds are in the .cfg files. *)
EXTENDS Envelopes
=============================================================================
