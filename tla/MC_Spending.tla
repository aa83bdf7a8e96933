----------------------------- MODULE MC_Spending -----------------------------
(* Instances of Spending for TLC. *)
EXTENDS Spending

CONSTANTS r1, r2
=============================================================================
