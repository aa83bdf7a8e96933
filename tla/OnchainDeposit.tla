---------------------------- MODULE OnchainDeposit ----------------------------
(***************************************************************************)
(* On-chain deposits.  A transaction that pays us is handled by confirm()  *)
(* (walletnotify, and sweeps by hand) and by processWatchedTx() (the ZMQ   *)
(* feeds, txWebhook, and catchUp() at boot), each called any number of     *)
(* times, at any moment.  The first to see an output credits it to the     *)
(* pending balance of the account; when the transaction is in a block, one *)
(* moves it to the balance.                                                *)
(*                                                                         *)
(* A handler of a transaction takes its outputs one after the other.  A    *)
(* step is the code between two awaits, reads in a row being one step;     *)
(* redis and the ledger survive a crash, the handlers do not.  All         *)
(* invoices belong to one account, outputs are above the dust limit, and   *)
(* no transaction is funded by our own wallet.                             *)
(***************************************************************************)
EXTENDS Integers, FiniteSets, FiniteSetsExt

CONSTANTS
  Handlers,       \* calls of confirm and processWatchedTx that run at a time
  Txs,            \* transactions that pay us
  Deposits,       \* their outputs that pay us
  TxOf,           \* the transaction of an output
  First, After,   \* the first such output of a transaction, and the next one
  Addresses,      \* addresses of our invoices
  AddressOf,      \* the address an output pays to
  AmountOf,       \* the amount of an output
  Watchable,      \* the addresses generate() puts into `watching` (bitcoin)
  Refs,           \* transaction id and output index
  WalletRef,      \* what the node, the wallet and esplora call an output
  ZmqRef,         \* what decodeTx calls it: outputs without an address do not count
  Ids,            \* payment ids
  None,           \* no output, no id
  MaxCrashes,     \* bound: process crashes
  MaxFailures,    \* bound: ledger and redis calls that fail
  MaxExpiries     \* bound: locks that expire while a handler is at work there

ASSUME DepositAssumption ==
  /\ TxOf \in [Deposits -> Txs] /\ First \in [Txs -> Deposits]
  /\ After \in [Deposits -> Deposits \cup {None}]
  /\ AddressOf \in [Deposits -> Addresses] /\ Watchable \subseteq Addresses
  /\ AmountOf \in [Deposits -> Nat \ {0}]
  /\ WalletRef \in [Deposits -> Refs] /\ ZmqRef \in [Deposits -> Refs]
  /\ \A t \in Txs : TxOf[First[t]] = t
  /\ \A d \in Deposits : After[d] # None => TxOf[After[d]] = TxOf[d]
  /\ \A d, e \in Deposits :
       {WalletRef[d], ZmqRef[d]} \cap {WalletRef[e], ZmqRef[e]} # {} => TxOf[d] = TxOf[e]
  /\ Ids \subseteq Nat /\ None \notin Deposits /\ None \notin Ids
  /\ IsFiniteSet(Handlers)
  /\ MaxCrashes \in Nat /\ MaxFailures \in Nat /\ MaxExpiries \in Nat

VARIABLES
  pointer,        \* redis: payment:<txid>:<vout>, an id
  record,         \* redis: payment:<id>
  of,             \* the output a payment was made for
  invoice,        \* redis: the invoice of an address
  watching,       \* redis: the set `watching`
  locks, mortal,  \* redis: the locks, and those that have an expiry
  pendingSats,    \* ledger: the pending account
  balance,        \* ledger: the balance account
  credits,        \* ledger: how often a reference was credited
  chain,          \* network: where a transaction is
  job,            \* what a handler works on, and what it will do next
  crashes, failures, expiries

store  == <<pointer, record, of, invoice, watching>>
lock   == <<locks, mortal>>
ledger == <<pendingSats, balance, credits>>
faults == <<crashes, failures, expiries>>
vars   == <<store, lock, ledger, chain, job, faults>>

(* lock:<txid>:<vout>, lock:credit:<address>, confirmlock:<txid>:<vout> *)
RefLock(r)     == <<"ref", r>>
CreditLock(a)  == <<"credit", a>>
ConfirmLock(r) == <<"confirm", r>>
LockNames == ({"ref", "confirm"} \X Refs) \cup ({"credit"} \X Addresses)

Kinds == {"confirm", "watch", "zmq"}
Labels == {"free", "look", "lock", "expire", "load", "creditLock", "creditExpire",
           "point", "ledger", "save", "unlock", "failUnlock", "relook",
           "confirmLock", "confirmLoad", "confirmLedger", "confirmSave",
           "confirmUnlock", "inLoad", "inInvoice", "inPayment", "inLedger", "inUnwatch"}

NoInvoice == [received |-> 0, pending |-> 0]
Idle == [pc |-> "free", kind |-> "confirm", dep |-> None, mined |-> FALSE,
         p |-> None, was |-> FALSE, inv |-> NoInvoice]

Ref(h)     == IF job[h].kind = "zmq" THEN ZmqRef[job[h].dep] ELSE WalletRef[job[h].dep]
Address(h) == AddressOf[job[h].dep]
Amount(h)  == AmountOf[job[h].dep]

Goto(h, label) == job' = [job EXCEPT ![h].pc = label]
End(h) == job' = [job EXCEPT ![h] = Idle]

(* `continue`, or the return after the last output *)
NextOutput(h) ==
  IF After[job[h].dep] = None THEN End(h)
  ELSE job' = [job EXCEPT ![h] =
                 [Idle EXCEPT !.pc = "look", !.kind = job[h].kind,
                              !.mined = job[h].mined, !.dep = After[job[h].dep]]]

(* getPayment follows the pointer to the record. *)
Stored(r) == IF pointer[r] = None THEN "none" ELSE record[pointer[r]]

Init ==
  /\ pointer = [r \in Refs |-> None] /\ record = [i \in Ids |-> "none"]
  /\ of = [i \in Ids |-> None]
  /\ invoice = [a \in Addresses |-> NoInvoice] /\ watching = Watchable
  /\ locks = {} /\ mortal = {}
  /\ pendingSats = 0 /\ balance = 0 /\ credits = [r \in Refs |-> 0]
  /\ chain = [t \in Txs |-> "unseen"]
  /\ job = [h \in Handlers |-> Idle]
  /\ crashes = 0 /\ failures = 0 /\ expiries = 0

-----------------------------------------------------------------------------
(* The environment *)

Appears(t) ==
  /\ chain[t] = "unseen"
  /\ chain' = [chain EXCEPT ![t] = "mempool"]
  /\ UNCHANGED <<store, lock, ledger, job, faults>>

Mined(t) ==
  /\ chain[t] # "mined"
  /\ chain' = [chain EXCEPT ![t] = "mined"]
  /\ UNCHANGED <<store, lock, ledger, job, faults>>

(* A handler is called and reads how far the transaction is.  The rawtx feed *)
(* calls every transaction unconfirmed, also those of a block.               *)
Notify(h, k, t) ==
  /\ job[h].pc = "free" /\ chain[t] # "unseen"
  /\ \E m \in {chain[t] = "mined"} \cup (IF k = "zmq" THEN {FALSE} ELSE {}) :
       job' = [job EXCEPT ![h] = [Idle EXCEPT !.pc = "look", !.kind = k,
                                              !.dep = First[t], !.mined = m]]
  /\ UNCHANGED <<store, lock, ledger, chain, faults>>

-----------------------------------------------------------------------------
(* Finding out what is to be done for an output *)

Unwatched(h) == job[h].kind # "confirm" /\ Address(h) \notin watching

LookSkips(h) ==
  /\ job[h].pc = "look"
  /\ \/ Unwatched(h)
     \/ Stored(Ref(h)) # "none" /\ ~job[h].mined
     \/ Stored(Ref(h)) = "confirmed" /\ job[h].kind # "confirm"
  /\ NextOutput(h)
  /\ UNCHANGED <<store, lock, ledger, chain, faults>>

LookFindsNone(h) ==
  /\ job[h].pc = "look" /\ ~Unwatched(h) /\ Stored(Ref(h)) = "none"
  /\ Goto(h, "lock")
  /\ UNCHANGED <<store, lock, ledger, chain, faults>>

(* confirm() reads the record before it takes the lock. *)
LookConfirms(h) ==
  /\ job[h].pc = "look" /\ job[h].kind = "confirm"
  /\ Stored(Ref(h)) # "none" /\ job[h].mined
  /\ job' = [job EXCEPT ![h].pc = "confirmLock", ![h].p = pointer[Ref(h)],
                        ![h].was = (Stored(Ref(h)) = "confirmed")]
  /\ UNCHANGED <<store, lock, ledger, chain, faults>>

LookWatchedEarly(h) ==
  /\ job[h].pc = "look" /\ job[h].kind # "confirm" /\ ~Unwatched(h)
  /\ Stored(Ref(h)) = "pending"
  /\ job' = [job EXCEPT ![h].pc = "inLoad", ![h].p = pointer[Ref(h)]]
  /\ UNCHANGED <<store, lock, ledger, chain, faults>>

LookWatched(h) ==
  /\ job[h].pc = "look" /\ job[h].kind # "confirm" /\ ~Unwatched(h)
  /\ Stored(Ref(h)) = "pending" /\ job[h].mined
  /\ job' = [job EXCEPT ![h].pc = "inLoad", ![h].p = pointer[Ref(h)]]
  /\ UNCHANGED <<store, lock, ledger, chain, faults>>

-----------------------------------------------------------------------------
(* A new output: the lock of the handlers, then credit() *)

LockBlindly(h) ==
  /\ job[h].pc = "lock"
  /\ locks' = locks \cup {RefLock(Ref(h))} /\ Goto(h, "expire")
  /\ UNCHANGED <<store, mortal, ledger, chain, faults>>

Lock(h) ==
  /\ job[h].pc = "lock"
  /\ IF RefLock(Ref(h)) \in locks
     THEN NextOutput(h) /\ UNCHANGED locks
     ELSE locks' = locks \cup {RefLock(Ref(h))} /\ Goto(h, "expire")
  /\ UNCHANGED <<store, mortal, ledger, chain, faults>>

Expire(h) ==
  /\ job[h].pc = "expire"
  /\ mortal' = mortal \cup ({RefLock(Ref(h))} \cap locks)
  /\ Goto(h, "load")
  /\ UNCHANGED <<store, locks, ledger, chain, faults>>

(* credit() reads the invoice before it takes its own lock. *)
Load(h) ==
  /\ job[h].pc = "load"
  /\ job' = [job EXCEPT ![h].pc = "creditLock", ![h].inv = invoice[Address(h)]]
  /\ UNCHANGED <<store, lock, ledger, chain, faults>>

(* A taken lock makes credit() throw, and its caller end. *)
TakeCreditLock(h) ==
  /\ job[h].pc = "creditLock"
  /\ IF CreditLock(Address(h)) \in locks
     THEN End(h) /\ UNCHANGED locks
     ELSE locks' = locks \cup {CreditLock(Address(h))} /\ Goto(h, "creditExpire")
  /\ UNCHANGED <<store, mortal, ledger, chain, faults>>

AlreadyPaid(h) == job[h].inv.received >= Amount(h)

CreditExpire(h) ==
  /\ job[h].pc = "creditExpire"
  /\ mortal' = mortal \cup ({CreditLock(Address(h))} \cap locks)
  /\ Goto(h, IF AlreadyPaid(h) THEN "failUnlock" ELSE "point")
  /\ UNCHANGED <<store, locks, ledger, chain, faults>>

Unused == {i \in Ids : /\ \A r \in Refs : pointer[r] # i
                       /\ \A h \in Handlers : job[h].p # i}

(* The pointer to a new id is written long before the record.  (Ids are used *)
(* again when nothing names them any more.)                                  *)
Point(h) ==
  /\ job[h].pc = "point"
  /\ \E i \in Unused :
       /\ \A j \in Unused : i <= j
       /\ pointer' = [pointer EXCEPT ![Ref(h)] = i]
       /\ record' = [record EXCEPT ![i] = "none"] /\ of' = [of EXCEPT ![i] = job[h].dep]
       /\ job' = [job EXCEPT ![h].pc = "ledger", ![h].p = i,
                             ![h].inv.pending = @ + Amount(h)]
  /\ UNCHANGED <<invoice, watching, lock, ledger, chain, faults>>

CreditLedger(h) ==
  /\ job[h].pc = "ledger"
  /\ pendingSats' = pendingSats + Amount(h)
  /\ credits' = [credits EXCEPT ![Ref(h)] = @ + 1]
  /\ Goto(h, "save")
  /\ UNCHANGED <<store, lock, balance, chain, faults>>

SaveAndUnwatch(h) ==
  /\ job[h].pc = "save"
  /\ invoice' = [invoice EXCEPT ![Address(h)] = job[h].inv]
  /\ record' = [record EXCEPT ![job[h].p] = "pending"]
  /\ watching' = watching \ {Address(h)}
  /\ Goto(h, "unlock")
  /\ UNCHANGED <<pointer, of, lock, ledger, chain, faults>>

Save(h) ==
  /\ job[h].pc = "save"
  /\ invoice' = [invoice EXCEPT ![Address(h)] = job[h].inv]
  /\ record' = [record EXCEPT ![job[h].p] = "pending"]
  /\ Goto(h, "unlock")
  /\ UNCHANGED <<pointer, of, watching, lock, ledger, chain, faults>>

Release(name) == locks' = locks \ {name} /\ mortal' = mortal \ {name}

Unlock(h) ==
  /\ job[h].pc = "unlock"
  /\ Release(CreditLock(Address(h)))
  /\ IF job[h].kind # "confirm" /\ job[h].mined THEN Goto(h, "relook") ELSE NextOutput(h)
  /\ UNCHANGED <<store, ledger, chain, faults>>

FailUnlock(h) ==
  /\ job[h].pc = "failUnlock"
  /\ Release(CreditLock(Address(h)))
  /\ End(h)
  /\ UNCHANGED <<store, ledger, chain, faults>>

(* Only processWatchedTx goes on to confirm what it has just credited. *)
Relook(h) ==
  /\ job[h].pc = "relook"
  /\ IF Stored(Ref(h)) = "pending"
     THEN job' = [job EXCEPT ![h].pc = "inLoad", ![h].p = pointer[Ref(h)]]
     ELSE NextOutput(h)
  /\ UNCHANGED <<store, lock, ledger, chain, faults>>

-----------------------------------------------------------------------------
(* The end of a pending deposit *)

(* tbConfirm: the two transfers are linked, the pending account cannot be *)
(* overdrawn, and a refusal is only logged.                               *)
Move(h) ==
  LET amount == AmountOf[of[job[h].p]] IN
  /\ IF pendingSats >= amount
     THEN pendingSats' = pendingSats - amount /\ balance' = balance + amount
     ELSE UNCHANGED <<pendingSats, balance>>
  /\ UNCHANGED credits

Received(a) == [received |-> invoice[a].received + invoice[a].pending, pending |-> 0]

(* The lock is taken for a record that was read before. *)
TakeConfirmLock(h) ==
  /\ job[h].pc = "confirmLock"
  /\ IF ConfirmLock(Ref(h)) \in locks
     THEN NextOutput(h) /\ UNCHANGED lock
     ELSE /\ locks' = locks \cup {ConfirmLock(Ref(h))}
          /\ mortal' = mortal \cup {ConfirmLock(Ref(h))}
          /\ Goto(h, IF job[h].was THEN "confirmUnlock" ELSE "confirmLoad")
  /\ UNCHANGED <<store, ledger, chain, faults>>

ConfirmLoad(h) ==
  /\ job[h].pc = "confirmLoad"
  /\ job' = [job EXCEPT ![h].pc = "confirmLedger", ![h].inv = Received(Address(h))]
  /\ UNCHANGED <<store, lock, ledger, chain, faults>>

ConfirmLedger(h) ==
  /\ job[h].pc = "confirmLedger"
  /\ Move(h)
  /\ Goto(h, "confirmSave")
  /\ UNCHANGED <<store, lock, chain, faults>>

ConfirmSave(h) ==
  /\ job[h].pc = "confirmSave"
  /\ invoice' = [invoice EXCEPT ![Address(h)] = job[h].inv]
  /\ record' = [record EXCEPT ![job[h].p] = "confirmed"]
  /\ Goto(h, "confirmUnlock")
  /\ UNCHANGED <<pointer, of, watching, lock, ledger, chain, faults>>

ConfirmUnlock(h) ==
  /\ job[h].pc = "confirmUnlock"
  /\ Release(ConfirmLock(Ref(h)))
  /\ NextOutput(h)
  /\ UNCHANGED <<store, ledger, chain, faults>>

(* confirmWatchedIncoming takes no lock, and writes before it moves. *)
InLoad(h) ==
  /\ job[h].pc = "inLoad"
  /\ job' = [job EXCEPT ![h].pc = "inInvoice", ![h].inv = Received(Address(h))]
  /\ UNCHANGED <<store, lock, ledger, chain, faults>>

InInvoice(h) ==
  /\ job[h].pc = "inInvoice"
  /\ invoice' = [invoice EXCEPT ![Address(h)] = job[h].inv]
  /\ Goto(h, "inPayment")
  /\ UNCHANGED <<pointer, record, of, watching, lock, ledger, chain, faults>>

InPayment(h) ==
  /\ job[h].pc = "inPayment"
  /\ record' = [record EXCEPT ![job[h].p] = "confirmed"]
  /\ Goto(h, "inLedger")
  /\ UNCHANGED <<pointer, of, invoice, watching, lock, ledger, chain, faults>>

InLedger(h) ==
  /\ job[h].pc = "inLedger"
  /\ Move(h)
  /\ Goto(h, "inUnwatch")
  /\ UNCHANGED <<store, lock, chain, faults>>

InUnwatch(h) ==
  /\ job[h].pc = "inUnwatch"
  /\ watching' = watching \ {Address(h)}
  /\ NextOutput(h)
  /\ UNCHANGED <<pointer, record, of, invoice, lock, ledger, chain, faults>>

-----------------------------------------------------------------------------
(* Faults *)

(* A failed call: credit() then releases its lock if it has come to its try. *)
(* (After the save it may be one of the last calls of the try that fails, or *)
(* the release itself.)                                                      *)
CallFails(h) ==
  /\ job[h].pc # "free" /\ failures < MaxFailures
  /\ failures' = failures + 1
  /\ \/ job[h].pc \in {"point", "ledger", "save", "unlock"} /\ Goto(h, "failUnlock")
     \/ job[h].pc \notin {"point", "ledger", "save"} /\ End(h)
  /\ UNCHANGED <<store, lock, ledger, chain, crashes, expiries>>

(* Handlers that have found no record, up to the moment it is stored, and    *)
(* those inside credit() or between the confirmation's lock and its end.     *)
Crediting == {"lock", "expire", "load", "creditLock", "creditExpire", "point", "ledger", "save"}
HoldsCredit == {"creditExpire", "point", "ledger", "save", "unlock", "failUnlock"}
HoldsConfirm == {"confirmLoad", "confirmLedger", "confirmSave", "confirmUnlock"}

AtWork(name) ==
  \E h \in Handlers :
    \/ job[h].pc \in Crediting /\ name = RefLock(Ref(h))
    \/ job[h].pc \in HoldsCredit /\ name = CreditLock(Address(h))
    \/ job[h].pc \in HoldsConfirm /\ name = ConfirmLock(Ref(h))

(* A lock expires, and counts if a handler that needs it has been so slow. *)
LockExpires(name) ==
  /\ name \in mortal
  /\ Release(name)
  /\ IF AtWork(name) THEN expiries < MaxExpiries /\ expiries' = expiries + 1
     ELSE UNCHANGED expiries
  /\ UNCHANGED <<store, ledger, chain, job, crashes, failures>>

Crash ==
  /\ crashes < MaxCrashes
  /\ crashes' = crashes + 1
  /\ job' = [h \in Handlers |-> Idle]
  /\ UNCHANGED <<store, lock, ledger, chain, failures, expiries>>

-----------------------------------------------------------------------------
Look(h) == LookSkips(h) \/ LookFindsNone(h) \/ LookConfirms(h) \/ LookWatched(h)

Credit(h) ==
  \/ Load(h) \/ TakeCreditLock(h) \/ CreditExpire(h) \/ Point(h) \/ CreditLedger(h)
  \/ Save(h) \/ Unlock(h) \/ FailUnlock(h)

Confirm(h) ==
  \/ TakeConfirmLock(h) \/ ConfirmLoad(h) \/ ConfirmLedger(h) \/ ConfirmSave(h)
  \/ ConfirmUnlock(h)

ConfirmWatched(h) == InLoad(h) \/ InInvoice(h) \/ InPayment(h) \/ InLedger(h) \/ InUnwatch(h)

HandlerStep(h) ==
  Look(h) \/ Lock(h) \/ Expire(h) \/ Credit(h) \/ Relook(h) \/ Confirm(h) \/ ConfirmWatched(h)

Next ==
  \/ \E t \in Txs : Appears(t) \/ Mined(t) \/ \E h \in Handlers, k \in Kinds : Notify(h, k, t)
  \/ \E h \in Handlers : HandlerStep(h) \/ CallFails(h)
  \/ \E name \in LockNames : LockExpires(name)
  \/ Crash

Spec == Init /\ [][Next]_vars

(* Fairness: handlers run on, and the expiry of a lock comes in a minute at *)
(* most, however many handlers come and go.                                 *)
Fairness ==
  /\ \A h \in Handlers : WF_vars(HandlerStep(h))
  /\ \A name \in LockNames : SF_vars(LockExpires(name))

FairSpec == Spec /\ Fairness

-----------------------------------------------------------------------------
(* Properties *)

(* Every variable has its type. *)
StoreType ==
  /\ pointer \in [Refs -> Ids \cup {None}]
  /\ record \in [Ids -> {"none", "pending", "confirmed"}]
  /\ of \in [Ids -> Deposits \cup {None}]
  /\ invoice \in [Addresses -> [received : Nat, pending : Nat]]
  /\ watching \subseteq Watchable
  /\ locks \subseteq LockNames /\ mortal \subseteq locks

LedgerType ==
  /\ pendingSats \in Nat /\ balance \in Nat /\ credits \in [Refs -> Nat]
  /\ chain \in [Txs -> {"unseen", "mempool", "mined"}]

JobType ==
  job \in [Handlers -> [pc : Labels, kind : Kinds, dep : Deposits \cup {None},
                        mined : BOOLEAN, p : Ids \cup {None}, was : BOOLEAN,
                        inv : [received : Nat, pending : Nat]]]

FaultsType ==
  /\ crashes \in 0 .. MaxCrashes /\ failures \in 0 .. MaxFailures
  /\ expiries \in 0 .. MaxExpiries

TypeOK == StoreType /\ LedgerType /\ JobType /\ FaultsType

(* However many handlers see an output, at once or one after the other, its    *)
(* reference is credited once, and once more at most for each crash, each      *)
(* failed call and each lock that expired under a handler.                     *)
CreditsBoundedByFaults ==
  \A r \in Refs : credits[r] <= 1 + crashes + failures + expiries

(* A deposit shows as confirmed only when its transaction is in a block, from  *)
(* whatever feed and however old a reading a handler takes that.               *)
ConfirmedIsMined ==
  \A i \in Ids : record[i] = "confirmed" => chain[TxOf[of[i]]] = "mined"

(* catchUp at a boot, when nothing else runs yet, comes to a transaction. *)
Sweep(t) == (\A h \in Handlers : job[h] = Idle) /\ \E h \in Handlers : Notify(h, "watch", t)

Confirmed(d) == \E r \in {WalletRef[d], ZmqRef[d]} : Stored(r) = "confirmed"

(* A lock that was left without an expiry, or an invoice that was received in  *)
(* full before the pointer led to a record: nobody credits the output again.   *)
LeftLocked(d) ==
  \E name \in {RefLock(WalletRef[d]), CreditLock(AddressOf[d])} :
    name \in locks \ mortal
Refused(d) == invoice[AddressOf[d]].received >= AmountOf[d]

(* A mined output is confirmed in the end if the server is booted again and    *)
(* again and its catchUp comes to the transaction, whatever crashed or failed  *)
(* before, unless a lock without an expiry or a received invoice is in the way.*)
SweepsConfirm ==
  \A d \in Deposits :
    ([]<><<Sweep(TxOf[d])>>_vars /\ AddressOf[d] \in Watchable)
      => (chain[TxOf[d]] = "mined" ~> Confirmed(d) \/ LeftLocked(d) \/ Refused(d))
=============================================================================
