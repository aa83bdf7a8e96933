---------------------------- MODULE MC_OnchainSend ----------------------------
(* Instances of OnchainSend for TLC. *)
EXTENDS OnchainSend, TLC

CONSTANTS s1, s2, t1, t2, t3, c1, c2

(* The properties name no send, transaction or coin, and none is temporal. *)
Symmetry == Permutations(Sends) \cup Permutations(Txs) \cup Permutations(Coins)
=============================================================================
