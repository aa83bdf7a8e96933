-------------------------- MODULE MC_OnchainDeposit --------------------------
(* An instance of OnchainDeposit for TLC: one transaction with one output to  *)
(* an address of ours.  An output is named <<transaction, index>>, as its     *)
(* reference is, and all feeds give it that name.                             *)
EXTENDS OnchainDeposit

CONSTANTS h1, h2, t1, a1

OneOutput == {<<t1, 1>>}
TxIs == [d \in Deposits |-> d[1]]
FirstIs == [t \in Txs |-> <<t, 1>>]
NoMore == [d \in Deposits |-> None]
OwnAddress == [d \in Deposits |-> a1]
Amounts == [d \in Deposits |-> 1]
TrueRef == [d \in Deposits |-> d]
=============================================================================
