---------------------------------- MODULE Mint ----------------------------------
(***************************************************************************)
(* The current mint with both that spend its proofs: claims at the server  *)
(* (Ecash) and melts through the front (Melts).                            *)
(***************************************************************************)
EXTENDS Melts

vars == <<spent, ecash, melts>>

Init == spent = {} /\ EcashInit /\ MeltsInit

Next == (EcashNext /\ UNCHANGED melts) \/ (MeltsNext /\ UNCHANGED ecash)

Spec == Init /\ [][Next]_vars

(* Every variable has its type. *)
MintTypeOK == EcashTypeOK /\ MeltsTypeOK
=============================================================================
