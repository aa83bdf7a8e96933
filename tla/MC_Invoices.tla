------------------------------ MODULE MC_Invoices ------------------------------
(* Instances of Preimages, which composes invoices, vaults and queues, for TLC. *)
EXTENDS Preimages, TLC

CONSTANTS m1, m2, v1, v2, k1, k2, o1, p1, p2, h1, c1, c2, c3

Ops   == {call[c].op : c \in Calls} \ {None}
Kinds == {call[c].code.kind : c \in {d \in Calls : call[d].code # None}} \cup {x.code.kind : x \in handed}
Quiet == queue = <<>> /\ added = {} /\ restarts = 0

(* Bound: a behaviour is about vaults, with one key that the chain knows, or *)
(* about offers, or about preimages.                                         *)
OfVaults    == /\ Quiet /\ Kinds \subseteq {"address"} /\ seen = {}
               /\ Cardinality({k \in Keys : reached[k] # 0}) <= 1
               /\ \A c \in Active : call[c].pc \notin {"mint", "offer"}
OfOffers    == /\ Quiet /\ Kinds \subseteq {"offer", "minted"}
               /\ Ops \subseteq {"generate", "put", "standing"}
               /\ \A k \in Keys : reached[k] = 0
OfPreimages == /\ Kinds \subseteq {"minted"} /\ Ops \subseteq {"add", "sell", "put"}
               /\ \A k \in Keys : reached[k] = 0
               /\ \A c \in Active : call[c].pc \notin {"derive", "offer"}

Apart == OfVaults \/ OfOffers \/ OfPreimages

Symmetry == Permutations(Calls) \cup Permutations(Keys)
=============================================================================
