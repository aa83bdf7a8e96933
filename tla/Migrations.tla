------------------------------- MODULE Migrations -------------------------------
(***************************************************************************)
(* The start of the server on older data.  Three conversions run at the    *)
(* same time as the requests and as each other: `set` takes the balances   *)
(* from redis into the ledger, `multiply` turns sats of the ledger into    *)
(* microsats, `fund` takes the funds from redis.  Each notes in redis that *)
(* it is through, at its very end.                                         *)
(***************************************************************************)
EXTENDS Ledger, Sequences

CONSTANT MaxStops  \* bound: restarts of the process

ASSUME MigrationsAssumption == MaxStops \in Nat

VARIABLES
  from,        \* where the amounts are at first: redis, sats or microsats of the ledger
  migrated,    \* redis: tb:migrated, tb:microsats, tb:funds-migrated
  conv,        \* locals of the conversions
  moved,       \* history: accounts that a conversion has changed
  tainted,     \* history: accounts changed before a conversion read them or again
  stops

migration      == <<from, migrated, conv, moved, tainted, stops>>
migrationsVars == <<ledger, migration>>

Conversions == {"set", "multiply", "fund"}
Users       == <<"balance", "pending", "credit">>
Scanned     == [c \in Conversions |-> IF c = "fund" THEN <<"fund">> ELSE Users]

First(c)    == IF c = "multiply" THEN "read" ELSE "create"

(* A conversion at its first account, or at none when its flag is set. *)
Begin(done) ==
  [c \in Conversions |-> [todo |-> IF c \in done THEN <<>> ELSE Scanned[c],
                          at |-> First(c), read |-> 0]]

MigrationsTypeOK ==
  /\ LedgerTypeOK
  /\ migrated \subseteq Conversions /\ moved \subseteq Conversions \X Accounts
  /\ tainted \subseteq Accounts /\ stops \in Nat
  /\ \A c \in Conversions : /\ conv[c].todo \in Seq(Accounts) /\ conv[c].read \in Nat
                            /\ conv[c].at \in {"create", "read", "move"}

MigrationsInit ==
  /\ LedgerInit
  /\ from \in {"redis", "sats", "microsats"}
  /\ migrated = CASE from = "redis" -> {} [] from = "sats" -> {"set"}
                  [] OTHER -> Conversions
  /\ created = CASE from = "redis" -> {} [] from = "sats" -> Accounts \ {"fund"}
                 [] OTHER -> Accounts
  /\ tb = [a \in Accounts |-> IF a \notin created THEN 0
                              ELSE IF from = "sats" THEN OpeningSats[a]
                              ELSE OpeningSats[a] * Msats]
  /\ conv = Begin(migrated) /\ moved = {} /\ tainted = {} /\ stops = 0

Pending(c)  == conv[c].todo # <<>>
Account(c)  == Head(conv[c].todo)

(* The conversions that have still to look at an account. *)
Ahead(a) ==
  {c \in Conversions : \E i \in DOMAIN conv[c].todo :
     conv[c].todo[i] = a /\ ~(i = 1 /\ conv[c].at = "move")}

-----------------------------------------------------------------------------
(* A request, whatever the conversions are at. *)
Request ==
  /\ LedgerNext
  /\ tainted' = tainted \cup {a \in Accounts : tb'[a] # tb[a] /\ Ahead(a) # {}}
  /\ UNCHANGED <<from, migrated, conv, moved, stops>>

(* createBalanceAccount makes two accounts, createCreditAccounts and *)
(* createFundAccount the one.                                        *)
Create(c) ==
  /\ Pending(c) /\ conv[c].at = "create"
  /\ created' = created \cup (IF Account(c) = "balance" THEN {"balance", "pending"}
                              ELSE IF Account(c) = "pending" THEN {} ELSE {Account(c)})
  /\ conv' = [conv EXCEPT ![c].at = IF c = "fund" THEN "move" ELSE "read"]
  /\ UNCHANGED <<tb, noFree, evicted, send, history, requests, flags,
                 from, migrated, moved, tainted, stops>>

Read(c) ==
  /\ Pending(c) /\ conv[c].at = "read"
  /\ conv' = [conv EXCEPT ![c].at = "move", ![c].read = tb[Account(c)]]
  /\ UNCHANGED <<ledger, from, migrated, moved, tainted, stops>>

Converted(c, diff) ==
  /\ Pending(c) /\ conv[c].at = "move"
  /\ IF Account(c) \in created /\ diff # 0 /\ tb[Account(c)] + diff >= 0
       THEN /\ tb' = [tb EXCEPT ![Account(c)] = @ + diff]
            /\ moved' = moved \cup {<<c, Account(c)>>}
            /\ tainted' = tainted \cup (IF Ahead(Account(c)) \ {c} # {} THEN {Account(c)}
                                        ELSE {})
            /\ loose' = (loose \/ Account(c) = "balance")
       ELSE UNCHANGED <<tb, moved, tainted, loose>>
  /\ conv' = [conv EXCEPT ![c] = [todo |-> Tail(conv[c].todo), at |-> First(c), read |-> 0]]
  /\ UNCHANGED <<created, noFree, evicted, send, live, held, excess, onFee, requests, flags,
                 from, migrated, stops>>

(* Mutant: the amount is added, not what is missing. *)
SetAdds == Converted("set", OpeningSats[Account("set")] * Msats)

(* tbSetBalance, tbSetPending, tbSetCredit: the difference to what was read. *)
Set == Converted("set", OpeningSats[Account("set")] * Msats - conv["set"].read)

(* tbMultiplyForMicrosats adds 999999 times what was read. *)
Multiply == Converted("multiply", conv["multiply"].read * (Msats - 1))

(* tbFundCredit: the amount is added. *)
Fund == Converted("fund", OpeningSats["fund"] * Msats)

(* The flag, when the scan is through. *)
Through(c) ==
  /\ ~Pending(c) /\ c \notin migrated
  /\ migrated' = migrated \cup {c}
  /\ UNCHANGED <<ledger, from, conv, moved, tainted, stops>>

(* The conversions that have no flag start over: a difference may be taken  *)
(* again if nobody used the account meanwhile, a sum or a product may not.  *)
ServerStops ==
  /\ stops < MaxStops /\ stops' = stops + 1
  /\ conv' = Begin(migrated) /\ send' = [s \in Sends |-> Idle]
  /\ tainted' = tainted \cup
       {a \in Accounts : \E c \in Conversions \ migrated, d \in Conversions :
          /\ \E i \in DOMAIN Scanned[c] : Scanned[c][i] = a
          /\ live[a] # 0 \/ (<<d, a>> \in moved /\ ~(c = "set" /\ d = "set"))}
  /\ UNCHANGED <<tb, created, noFree, evicted, history, requests, flags, from, migrated, moved>>

MigrationsNext ==
  \/ Request
  \/ \E c \in Conversions : Create(c) \/ Read(c) \/ Through(c)
  \/ Set \/ Multiply \/ Fund
  \/ ServerStops

MigrationsSpec == MigrationsInit /\ [][MigrationsNext]_migrationsVars

-----------------------------------------------------------------------------
(* Properties *)

(* When the conversions are through, an account has what it had in redis    *)
(* and what requests have moved since, crashes in `set` included; unless it *)
(* was changed before a conversion read it, or a product or a sum was taken *)
(* twice because the server stopped before the flag was written.            *)
MigratedExactly ==
  migrated = Conversions =>
    \A a \in Accounts \ tainted : tb[a] = OpeningSats[a] * Msats + live[a]
=============================================================================
