--------------------------------- MODULE MC_Mint ---------------------------------
(* Instances of Mint for TLC. *)
EXTENDS Mint, TLC

CONSTANTS c1, c2, n1, n2, o1, o2, i1, q1, q2, r1, r2

Symmetry == Permutations(Claims) \cup Permutations(NewProofs) \cup Permutations(OldProofs)
            \cup Permutations(Quotes) \cup Permutations(Requests)
(* Bound: two requests in all, claims or melts, and one fault; the mint is    *)
(* out of reach and its keys grow old only while there is a claim, and the    *)
(* front's entries only while there is none; the front is idle while there is *)
(* no melt to come, and remembers a quote for each that is.                   *)
Apart ==
  /\ Cardinality({c \in Claims : claim[c].pc # "start"})
       + Cardinality({r \in Requests : melt[r].pc # "start"}) <= 2
  /\ faults + reboots + outages <= 1
  /\ (\A c \in Claims : claim[c].pc = "start") => outages = 0 /\ ~cached
  /\ (\E c \in Claims : claim[c].pc # "start") => aged = {} /\ Cardinality(asked) <= 1
  /\ (\A c \in Claims : claim[c].pc # "start") => asked = {} /\ known = {}
=============================================================================
