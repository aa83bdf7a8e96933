------------------------- MODULE MC_LightningReceive -------------------------
(* Instances of LightningReceive for TLC. *)
EXTENDS LightningReceive

CONSTANTS l1, l2

(* Every settlement is a deposit. *)
AllDeposits == 1 .. Settlements
=============================================================================
