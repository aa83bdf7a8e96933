------------------------------- MODULE MC_Funds -------------------------------
(* Instances of Funds for TLC. *)
EXTENDS Funds

CONSTANTS r1, r2
=============================================================================
