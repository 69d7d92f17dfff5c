----------------------------- MODULE MCSellSide -----------------------------
(* Instances of SellSide for TLC. *)
EXTENDS SellSide
CONSTANTS c1, c2
=============================================================================
