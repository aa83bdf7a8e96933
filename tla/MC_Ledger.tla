------------------------------- MODULE MC_Ledger -------------------------------
(* Instances of Ledger and of the conversions for TLC. *)
EXTENDS Migrations, TLC

CONSTANTS s1, s2

Opens == [a \in Accounts |-> IF a = "balance" THEN 5 ELSE IF a = "pending" THEN 2 ELSE 1]

(* Bound: while older data are converted there is one request, a deposit or *)
(* the like; payments and flags come with data of today.                    *)
Apart == from = "microsats" \/ (flags = 0 /\ requests <= 1 /\ \A s \in Sends : send[s].pc = "start")

Symmetry == Permutations(Sends)
=============================================================================
