---------------------------- MODULE MC_UserAccounts ----------------------------
(* Instances of UserAccounts for TLC. *)
EXTENDS UserAccounts, TLC

CONSTANTS u1, u2, a1, a2, k1, k2, e1, c1, c2, c3

Ops == {call[c].op : c \in Calls} \ {None}

Updates == {call[c] : c \in {d \in Active : call[d].op = "update"}}

Begun == {c \in Calls : call[c].pc # "start"}
Late  == now # 0 \/ \E u \in Live : rec[u].legacy
Alone == Cardinality(Begun) <= 2

(* Bound: a behaviour is about names, keys, passwords, locks or addresses; *)
(* the calls are two where they are many, and three otherwise.             *)
OfNames ==
  /\ codes = {}
  /\ Ops \subseteq {"register", "update", "delete", "rekey", "evict"} /\ ~Late
  /\ \A r \in Updates : r.pw = 0 /\ r.email = None /\ r.key = None
OfKeys ==
  /\ codes = {}
  /\ Ops \subseteq {"register", "nostr", "update", "save", "delete", "rekey"} /\ ~Late /\ Alone
  /\ \A r \in Updates : r.pw = 0 /\ r.email = None
OfPasswords ==
  /\ codes = {} /\ Cardinality(used) = 1
  /\ Ops \subseteq {"login", "keylogin", "update", "save", "evict"} /\ Alone
  /\ \A r \in Updates : r.key = None /\ r.name = r.copy.name /\ r.email = None
OfLocks == codes = {} /\ Cardinality(used) = 1 /\ Ops \subseteq {"login"} /\ ~Late
OfEmails ==
  /\ Ops \subseteq {"register", "request", "verify", "update", "rekey"} /\ ~Late
  /\ \A r \in Updates : r.key = None /\ r.name = r.copy.name /\ r.pw = 0

Apart == OfNames \/ OfKeys \/ OfPasswords \/ OfLocks \/ OfEmails

Symmetry == Permutations(Users) \cup Permutations(Calls) \cup Permutations(Names) \cup Permutations(Keys)
=============================================================================
