--------------------------------- MODULE Vaults ---------------------------------
(***************************************************************************)
(* Non-custodial accounts (vaults).  The server knows the public key and   *)
(* derives addresses from it, the next one at nextIndex.  The record of an *)
(* account is one JSON value: handlers read all of it, make other calls,   *)
(* and write all of it back.                                               *)
(***************************************************************************)
EXTENDS Integers, FiniteSets

CONSTANTS
  Users,
  Accounts,    \* ids of accounts
  Keys,        \* extended public keys
  Calls,       \* requests, and what they leave running
  None,
  MaxIndex     \* bound: addresses of a key, one of which may be paid at the start

AccountRecords ==
  [owner : Users, key : Keys \cup {None}, next : 0..MaxIndex, imported : BOOLEAN,
   desc : Keys \cup {None}]

ASSUME VaultsAssumption ==
  /\ None \notin Users \cup Accounts \cup Keys \cup Calls \cup AccountRecords
  /\ MaxIndex \in Nat \ {0}

VARIABLES
  account,   \* redis: account:<id>
  listed,    \* redis: <uid>:accounts, of all users
  reached,   \* chain: addresses of the key below it may have been paid
  call,      \* locals of the calls
  worn,      \* history: the keys that an account has had
  spoiled    \* history: what two calls held at once, or two accounts had

vaults == <<account, listed, reached, worn>>

Existing == {a \in Accounts : account[a] # None}
Vaulted  == {a \in Existing : account[a].key # None}

Idle == [op |-> None, pc |-> "start", user |-> None, acct |-> None, copy |-> None, key |-> None,
         id |-> None, of |-> None, over |-> None, code |-> None, secret |-> None]

(* Accounts of an earlier version have a seed and a descriptor, and no key. *)
VaultsInit ==
  /\ \E u \in Users, a \in Accounts, k \in Keys :
       account = [b \in Accounts |->
                    IF b = a THEN [owner |-> u, key |-> None, next |-> 0, imported |-> FALSE, desc |-> k]
                    ELSE None]
  /\ listed = Existing /\ worn = {} /\ spoiled = {}
  /\ reached \in [Keys -> {0, 1}]
  /\ call = [c \in Calls |-> Idle]

VaultsTypeOK ==
  /\ account \in [Accounts -> AccountRecords \cup {None}]
  /\ listed \subseteq Accounts /\ reached \in [Keys -> 0..MaxIndex]
  /\ worn \subseteq Keys /\ DOMAIN call = Calls

-----------------------------------------------------------------------------
At(c, op, pc) == call[c].op = op /\ call[c].pc = pc
Copy(c)       == call[c].copy
Active        == {c \in Calls : call[c].pc \notin {"start", "done"}}
Done(c)       == [Idle EXCEPT !.op = call[c].op, !.pc = "done"]

(* The keys of an account whose record a call has read and will write. *)
Held(r) ==
  IF r.copy = None \/ r.pc \in {"start", "done"} THEN {}
  ELSE {r.copy.key, r.copy.desc, r.key} \ {None}

Become(c, r) ==
  /\ call' = [call EXCEPT ![c] = r]
  /\ spoiled' = spoiled \cup UNION {Held(r) \cap Held(call[d]) : d \in Active \ {c}}

Goto(c, pc) == Become(c, [call[c] EXCEPT !.pc = pc])
End(c)      == Become(c, Done(c))

(* An account gets a key that another has, or had. *)
Wear(a, k, r, c) ==
  LET again == k # None /\ k \in worn /\ (a \notin Existing \/ account[a].key # k)
  IN  /\ worn' = worn \cup ({k} \ {None})
      /\ call' = [call EXCEPT ![c] = r]
      /\ spoiled' = spoiled \cup {x \in {k} : again}

-----------------------------------------------------------------------------
(* createAccount(): the key is looked for among the user's vaults, the node *)
(* gets a wallet, the record is stored.                                     *)

CreateBegin(c) ==
  /\ call[c].pc = "start"
  /\ \E u \in Users, a \in Accounts \ (Existing \cup listed), k \in Keys :
       /\ \A b \in listed \cap Existing : account[b].owner = u => account[b].key # k
       /\ \A d \in Calls : call[d].acct # a
       /\ Become(c, [Idle EXCEPT !.op = "create", !.pc = "store", !.user = u, !.acct = a, !.key = k])
  /\ UNCHANGED vaults

CreateStore(c) ==
  LET r == call[c]
  IN  /\ At(c, "create", "store")
      /\ account' = [account EXCEPT ![r.acct] =
           [owner |-> r.user, key |-> r.key, next |-> 0, imported |-> FALSE, desc |-> None]]
      /\ listed' = listed \cup {r.acct}
      /\ Wear(r.acct, r.key, Done(c), c) /\ UNCHANGED reached

-----------------------------------------------------------------------------
(* updateAccount(): a new name, or a new key, whose history is then imported. *)

UpdateBegin(c) ==
  /\ call[c].pc = "start"
  /\ \E a \in listed \cap Existing, k \in Keys \cup {None} :
       Become(c, [Idle EXCEPT !.op = "account", !.pc = "store", !.user = account[a].owner, !.acct = a,
                              !.copy = account[a], !.key = k])
  /\ UNCHANGED vaults

UpdateStore(c) ==
  LET r   == call[c]
      new == IF r.key = None THEN r.copy ELSE [r.copy EXCEPT !.key = r.key, !.imported = FALSE]
  IN  /\ At(c, "account", "store")
      /\ account' = [account EXCEPT ![r.acct] = new]
      /\ Wear(r.acct, new.key,
              IF r.key = None THEN Done(c)
              ELSE [r EXCEPT !.op = "import", !.pc = "sync", !.copy = new, !.key = None], c)
      /\ UNCHANGED <<listed, reached>>

(* deleteAccount(): the record and its entry in the list go together. *)
DeleteBegin(c) ==
  /\ call[c].pc = "start"
  /\ \E a \in listed \cap Existing :
       Become(c, [Idle EXCEPT !.op = "delete", !.pc = "store", !.acct = a])
  /\ UNCHANGED vaults

DeleteStore(c) ==
  /\ At(c, "delete", "store") /\ End(c)
  /\ account' = [account EXCEPT ![call[c].acct] = None]
  /\ listed' = listed \ {call[c].acct} /\ UNCHANGED <<reached, worn>>

-----------------------------------------------------------------------------
(* importAccountHistory(), from the list of accounts too: the record is held *)
(* while the chain is searched, and stored once or twice.                    *)

ImportBegin(c) ==
  /\ call[c].pc = "start"
  /\ \E a \in listed \cap Vaulted :
       /\ ~account[a].imported
       /\ Become(c, [Idle EXCEPT !.op = "import", !.pc = "sync", !.acct = a, !.copy = account[a]])
  /\ UNCHANGED vaults

ImportSync(c) ==
  LET r    == call[c]
      used == reached[r.copy.key]
  IN  /\ At(c, "import", "sync")
      /\ \/ /\ used > r.copy.next
            /\ account' = [account EXCEPT ![r.acct] = [r.copy EXCEPT !.next = used]]
            /\ Become(c, [r EXCEPT !.pc = "stamp", !.copy.next = used])
         \/ used <= r.copy.next /\ Goto(c, "stamp") /\ UNCHANGED account
         \/ End(c) /\ UNCHANGED account
      /\ UNCHANGED <<listed, reached, worn>>

ImportStamp(c) ==
  /\ At(c, "import", "stamp") /\ End(c)
  /\ account' = [account EXCEPT ![call[c].acct] = [Copy(c) EXCEPT !.imported = TRUE]]
  /\ UNCHANGED <<listed, reached, worn>>

-----------------------------------------------------------------------------
(* migrateAccounts(), at the start of the server, while requests are served: *)
(* the key is taken from the descriptor, the index from the chain if it can  *)
(* be asked.                                                                 *)

MigrateBegin(c) ==
  /\ call[c].pc = "start"
  /\ \E a \in Existing \ Vaulted :
       Become(c, [Idle EXCEPT !.op = "migrate", !.pc = "store", !.acct = a, !.copy = account[a]])
  /\ UNCHANGED vaults

MigrateStore(c) ==
  LET r == call[c]
  IN  /\ At(c, "migrate", "store")
      /\ \E next \in {reached[r.copy.desc], r.copy.next} :
           account' = [account EXCEPT ![r.acct] = [r.copy EXCEPT !.key = r.copy.desc, !.next = next]]
      /\ Wear(r.acct, r.copy.desc, Done(c), c)
      /\ UNCHANGED <<listed, reached>>

-----------------------------------------------------------------------------
(* Somebody pays to an address of a key. *)
Reach(k) ==
  /\ reached[k] < MaxIndex /\ reached' = [reached EXCEPT ![k] = @ + 1]
  /\ UNCHANGED <<account, listed, worn, call, spoiled>>

VaultsNext ==
  \/ \E c \in Calls :
       \/ CreateBegin(c) \/ CreateStore(c) \/ UpdateBegin(c) \/ UpdateStore(c)
       \/ DeleteBegin(c) \/ DeleteStore(c)
       \/ ImportBegin(c) \/ ImportSync(c) \/ ImportStamp(c)
       \/ MigrateBegin(c) \/ MigrateStore(c)
  \/ \E k \in Keys : Reach(k)
=============================================================================
