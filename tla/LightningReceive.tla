--------------------------- MODULE LightningReceive ---------------------------
(***************************************************************************)
(* Incoming Lightning payments: listenForLightning() waits for the next    *)
(* settlement of the node behind the cursor pay_index, credits it with     *)
(* credit() and only then moves the cursor.  ensureListenerAlive() and the *)
(* drop of the listen socket start the listener again when it is stuck.    *)
(*                                                                         *)
(* A settlement is its pay_index at the node.  An invocation of the        *)
(* listener is a slot; a step is the code between two awaits.  Redis, the  *)
(* ledger and the node survive a crash, the flags of the module and the    *)
(* invocations do not.                                                     *)
(***************************************************************************)
EXTENDS Integers, FiniteSets

CONSTANTS
  Slots,          \* invocations of listenForLightning that run at a time
  Settlements,    \* bound: how many invoices the node sees paid
  Deposits,       \* settlements of invoices of existing users
  MaxTimers,      \* bound: pending timers that call the listener
  MaxRecycles,    \* bound: listenerEpoch
  MaxDrops,       \* bound: losses of the listen socket
  MaxCrashes,     \* bound: process crashes
  MaxFailures,    \* bound: ledger and redis calls that fail
  MaxExpiries,    \* bound: credit locks that expire while they are held
  MaxFaults       \* bound: all of these but the timers together

ASSUME ReceiveAssumption ==
  /\ IsFiniteSet(Slots) /\ Settlements \in Nat /\ Deposits \subseteq 1 .. Settlements
  /\ MaxTimers \in Nat \ {0} /\ MaxRecycles \in Nat /\ MaxDrops \in Nat
  /\ MaxCrashes \in Nat /\ MaxFailures \in Nat /\ MaxExpiries \in Nat
  /\ MaxFaults \in Nat

VARIABLES
  payIndex,        \* redis: pay_index
  locks,           \* redis: lock:credit:<hash>
  mortal,          \* redis: the locks that have an expiry
  claimed,         \* redis: credited:<preimage>
  records,         \* redis: settlements whose invoice and payment record are stored
  pointed,         \* redis: payment:<hash> leads to the record of the claim's winner
  credited,        \* ledger: how often a settlement was credited
  settled,         \* node: the last pay_index
  listenerActive, listenerPhase, listenerEpoch, recycleArmed,
  timers,          \* setTimeout(listenForLightning) calls that are pending
  pc,              \* what an invocation will do next
  myEpoch,         \* its epoch
  at,              \* the cursor it has read, then the settlement it works on
  paid,            \* the invoice that credit() loaded was received already
  probed,          \* the cursor the watchdog has read, or none
  drops, crashes, failures, expiries

store       == <<payIndex, locks, mortal, claimed, records, pointed>>
listener    == <<listenerActive, listenerPhase, listenerEpoch, recycleArmed, timers>>
slots       == <<pc, myEpoch, at, paid>>
faults      == <<drops, crashes, failures, expiries>>
receiveVars == <<store, credited, settled, listener, slots, probed, faults>>

Unseen == -1

Labels == {"free", "cursor", "wait", "lookup", "load", "lock", "expire", "claim",
           "ledger", "save", "complete", "unlock", "check", "advance",
           "failUnlock", "fail"}

(* An invocation works on a settlement. *)
Processing == Labels \ {"free", "cursor", "wait", "fail"}

Proceed(l, label) == pc' = [pc EXCEPT ![l] = label]

(* One more of the bounded events may happen. *)
Spare == drops + crashes + failures + expiries + listenerEpoch < MaxFaults

Armed == IF timers < MaxTimers THEN timers + 1 ELSE timers

(* The invocation ends: the listener is idle, and is called again. *)
Rearm ==
  /\ listenerActive' = FALSE /\ listenerPhase' = "idle" /\ timers' = Armed
  /\ UNCHANGED <<listenerEpoch, recycleArmed>>

ReceiveInit ==
  /\ payIndex = 0 /\ locks = {} /\ mortal = {} /\ claimed = {} /\ records = {}
  /\ pointed = {}
  /\ credited = [s \in 1 .. Settlements |-> 0] /\ settled = 0
  /\ listenerActive = FALSE /\ listenerPhase = "idle" /\ listenerEpoch = 0
  /\ recycleArmed = FALSE /\ timers = 1
  /\ pc = [l \in Slots |-> "free"] /\ myEpoch = [l \in Slots |-> 0]
  /\ at = [l \in Slots |-> 0] /\ paid = [l \in Slots |-> FALSE]
  /\ probed = Unseen
  /\ drops = 0 /\ crashes = 0 /\ failures = 0 /\ expiries = 0

-----------------------------------------------------------------------------
(* listenForLightning up to the settlement *)

(* The synchronous part: an active listener is not doubled. *)
Listen(l) ==
  /\ pc[l] = "free"
  /\ listenerActive' = TRUE /\ listenerPhase' = "waiting"
  /\ myEpoch' = [myEpoch EXCEPT ![l] = listenerEpoch]
  /\ Proceed(l, "cursor")
  /\ UNCHANGED <<at, paid>>

TimerFires ==
  /\ timers > 0
  /\ timers' = timers - 1
  /\ \/ listenerActive /\ UNCHANGED <<listenerActive, listenerPhase, slots>>
     \/ ~listenerActive /\ \E l \in Slots : Listen(l)
  /\ UNCHANGED <<store, credited, settled, listenerEpoch, recycleArmed, probed, faults>>

ReadCursor(l) ==
  /\ pc[l] = "cursor"
  /\ at' = [at EXCEPT ![l] = payIndex]
  /\ Proceed(l, "wait")
  /\ UNCHANGED <<store, credited, settled, listener, myEpoch, paid, probed, faults>>

(* Variant: the cursor moves before the settlement is processed. *)
ResolveAndAdvance(l) ==
  /\ pc[l] = "wait" /\ at[l] < settled /\ myEpoch[l] = listenerEpoch
  /\ listenerPhase' = "processing"
  /\ at' = [at EXCEPT ![l] = @ + 1] /\ payIndex' = at'[l]
  /\ Proceed(l, "lookup")
  /\ UNCHANGED <<locks, mortal, claimed, records, pointed, credited, settled,
                 listenerActive, listenerEpoch, recycleArmed, timers, myEpoch, paid,
                 probed, faults>>

(* waitanyinvoice resolves; an invocation that was recycled bows out. *)
Resolve(l) ==
  /\ pc[l] = "wait" /\ at[l] < settled
  /\ IF myEpoch[l] = listenerEpoch
     THEN /\ listenerPhase' = "processing"
          /\ at' = [at EXCEPT ![l] = @ + 1]
          /\ Proceed(l, "lookup")
     ELSE Proceed(l, "free") /\ UNCHANGED <<listenerPhase, at>>
  /\ UNCHANGED <<store, credited, settled, listenerActive, listenerEpoch,
                 recycleArmed, timers, myEpoch, paid, probed, faults>>

(* waitanyinvoice rejects with code 904 after 30 quiet seconds. *)
WaitTimesOut(l) ==
  /\ pc[l] = "wait" /\ at[l] >= settled
  /\ Rearm
  /\ Proceed(l, "free")
  /\ UNCHANGED <<store, credited, settled, myEpoch, at, paid, probed, faults>>

(* Mint-owned, unknown and deleted users' invoices and those with a payment *)
(* are skipped; getInvoice, getUser and getPayment only read.               *)
Lookup(l) ==
  /\ pc[l] = "lookup"
  /\ Proceed(l, IF at[l] \in Deposits \ (records \cap pointed) THEN "load" ELSE "advance")
  /\ UNCHANGED <<store, credited, settled, listener, myEpoch, at, paid, probed, faults>>

-----------------------------------------------------------------------------
(* credit *)

(* The invoice is loaded before the lock is taken. *)
Load(l) ==
  /\ pc[l] = "load"
  /\ paid' = [paid EXCEPT ![l] = at[l] \in records]
  /\ Proceed(l, "lock")
  /\ UNCHANGED <<store, credited, settled, listener, myEpoch, at, probed, faults>>

(* setNX of the lock; it throws when the lock is held. *)
Lock(l) ==
  /\ pc[l] = "lock"
  /\ locks' = locks \cup {at[l]}
  /\ Proceed(l, IF at[l] \in locks THEN "fail" ELSE "expire")
  /\ UNCHANGED <<payIndex, mortal, claimed, records, pointed, credited, settled,
                 listener, myEpoch, at, paid, probed, faults>>

(* Only now the lock gets its 30 seconds; a received invoice is refused. *)
ExpireLock(l) ==
  /\ pc[l] = "expire"
  /\ mortal' = mortal \cup (locks \cap {at[l]})
  /\ Proceed(l, IF paid[l] THEN "failUnlock" ELSE "claim")
  /\ UNCHANGED <<payIndex, locks, claimed, records, pointed, credited, settled,
                 listener, myEpoch, at, paid, probed, faults>>

(* Variant: the claim is stored without NX. *)
ClaimCreditAgain(l) ==
  /\ pc[l] = "claim"
  /\ claimed' = claimed \cup {at[l]} /\ pointed' = pointed \cup {at[l]}
  /\ Proceed(l, "ledger")
  /\ UNCHANGED <<payIndex, locks, mortal, records, credited, settled, listener,
                 myEpoch, at, paid, probed, faults>>

(* The pointer is stored, then credited:<preimage> is claimed with NX: a late *)
(* loser has made the pointer lead nowhere.                                   *)
ClaimCredit(l) ==
  /\ pc[l] = "claim"
  /\ claimed' = claimed \cup {at[l]}
  /\ IF at[l] \in claimed
     THEN pointed' = pointed \ {at[l]} /\ Proceed(l, "unlock")
     ELSE pointed' = pointed \cup {at[l]} /\ Proceed(l, "ledger")
  /\ UNCHANGED <<payIndex, locks, mortal, records, credited, settled, listener,
                 myEpoch, at, paid, probed, faults>>

(* tbCredit *)
CreditLedger(l) ==
  /\ pc[l] = "ledger"
  /\ credited' = [credited EXCEPT ![at[l]] = @ + 1]
  /\ Proceed(l, "save")
  /\ UNCHANGED <<store, settled, listener, myEpoch, at, paid, probed, faults>>

(* The multi with the invoice and the payment record. *)
SaveRecord(l) ==
  /\ pc[l] = "save"
  /\ records' = records \cup {at[l]}
  /\ Proceed(l, "complete")
  /\ UNCHANGED <<payIndex, locks, mortal, claimed, pointed, credited, settled,
                 listener, myEpoch, at, paid, probed, faults>>

(* completePayment: notifications, webhooks and forwards. *)
Complete(l) ==
  /\ pc[l] = "complete"
  /\ Proceed(l, "unlock")
  /\ UNCHANGED <<store, credited, settled, listener, myEpoch, at, paid, probed, faults>>

(* Variant: a lock that is taken again inherits the old expiry. *)

(* The finally: the lock goes, whoever holds it by now. *)
Unlock(l) ==
  /\ pc[l] \in {"unlock", "failUnlock"}
  /\ locks' = locks \ {at[l]} /\ mortal' = mortal \ {at[l]}
  /\ Proceed(l, IF pc[l] = "unlock" THEN "check" ELSE "fail")
  /\ UNCHANGED <<payIndex, claimed, records, pointed, credited, settled, listener,
                 myEpoch, at, paid, probed, faults>>

-----------------------------------------------------------------------------
(* listenForLightning after credit *)

(* Variant: a claim without a payment is an error. *)
CheckPersistedOnly(l) ==
  /\ pc[l] = "check"
  /\ Proceed(l, IF at[l] \in records \cap pointed THEN "advance" ELSE "fail")
  /\ UNCHANGED <<store, credited, settled, listener, myEpoch, at, paid, probed, faults>>

(* The payment shows that the credit persisted; a claim without a payment is *)
(* taken for a reused preimage.                                              *)
CheckPersisted(l) ==
  /\ pc[l] = "check"
  /\ Proceed(l, IF at[l] \in (records \cap pointed) \cup claimed THEN "advance" ELSE "fail")
  /\ UNCHANGED <<store, credited, settled, listener, myEpoch, at, paid, probed, faults>>

(* The cursor is stored; who was recycled leaves the rest to its successor. *)
Advance(l) ==
  /\ pc[l] = "advance"
  /\ payIndex' = at[l]
  /\ IF myEpoch[l] = listenerEpoch THEN Rearm ELSE UNCHANGED listener
  /\ Proceed(l, "free")
  /\ UNCHANGED <<locks, mortal, claimed, records, pointed, credited, settled,
                 myEpoch, at, paid, probed, faults>>

(* A call of redis, the node or the ledger throws: inside the try of credit() *)
(* the lock goes, before it (expire) or at its end the lock stays.            *)
CallFails(l) ==
  /\ pc[l] \notin {"free", "failUnlock", "fail"} /\ failures < MaxFailures /\ Spare
  /\ failures' = failures + 1
  /\ Proceed(l, IF pc[l] \in {"claim", "ledger", "save", "complete"}
             THEN "failUnlock" ELSE "fail")
  /\ UNCHANGED <<store, credited, settled, listener, myEpoch, at, paid, probed,
                 drops, crashes, expiries>>

(* The error handler: a retry in five seconds. *)
Fail(l) ==
  /\ pc[l] = "fail"
  /\ Rearm
  /\ Proceed(l, "free")
  /\ UNCHANGED <<store, credited, settled, myEpoch, at, paid, probed, faults>>

-----------------------------------------------------------------------------
(* ensureListenerAlive *)

WatchRead ==
  /\ probed = Unseen
  /\ probed' = payIndex
  /\ UNCHANGED <<store, credited, settled, listener, slots, faults>>

(* A reset or a drop of the socket: the waits on it end without an answer. *)
Dropped == [l \in Slots |-> IF pc[l] = "wait" THEN "free" ELSE pc[l]]

(* The node is ahead of the cursor: the listener is started over at once. *)
WatchForcesRestart ==
  /\ probed # Unseen /\ probed < settled
  /\ probed' = Unseen
  /\ \E l \in Slots :
       /\ Dropped[l] = "free"
       /\ pc' = [Dropped EXCEPT ![l] = "cursor"]
       /\ myEpoch' = [myEpoch EXCEPT ![l] = listenerEpoch]
  /\ listenerActive' = TRUE /\ listenerPhase' = "waiting"
  /\ UNCHANGED <<store, credited, settled, listenerEpoch, recycleArmed, timers,
                 at, paid, faults>>

(* Not ahead, or the node did not answer: an inactive listener is started, a  *)
(* busy one is left alone.                                                    *)
WatchRestarts ==
  /\ probed # Unseen
  /\ \/ probed >= settled /\ UNCHANGED failures
     \/ failures < MaxFailures /\ Spare /\ failures' = failures + 1
  /\ probed' = Unseen
  /\ IF listenerActive THEN UNCHANGED <<listenerActive, listenerPhase, slots>>
                       ELSE \E l \in Slots : Listen(l)
  /\ UNCHANGED <<store, credited, settled, listenerEpoch, recycleArmed, timers,
                 drops, crashes, expiries>>

(* A wait that is too long, and the probe on the main socket finds a backlog: *)
(* the listener is recycled.                                                  *)
WatchRecycles ==
  /\ probed # Unseen /\ listenerActive /\ listenerPhase = "waiting"
  /\ payIndex < settled /\ listenerEpoch < MaxRecycles /\ Spare
  /\ probed' = Unseen
  /\ listenerEpoch' = listenerEpoch + 1
  /\ pc' = Dropped
  /\ listenerActive' = FALSE /\ listenerPhase' = "idle" /\ timers' = Armed
  /\ UNCHANGED <<store, credited, settled, recycleArmed, myEpoch, at, paid, faults>>

-----------------------------------------------------------------------------
(* The node, the socket and the process *)

Settle ==
  /\ settled < Settlements
  /\ settled' = settled + 1
  /\ UNCHANGED <<store, credited, listener, slots, probed, faults>>

(* lnListen.onDrop: once until its timer fires. *)
SocketDrops ==
  /\ drops < MaxDrops /\ Spare
  /\ drops' = drops + 1
  /\ pc' = Dropped
  /\ IF listenerActive /\ ~recycleArmed
     THEN /\ recycleArmed' = TRUE /\ listenerActive' = FALSE /\ listenerPhase' = "idle"
     ELSE UNCHANGED <<recycleArmed, listenerActive, listenerPhase>>
  /\ UNCHANGED <<store, credited, settled, listenerEpoch, timers, myEpoch, at, paid, probed,
                 crashes, failures, expiries>>

RecycleFires ==
  /\ recycleArmed
  /\ recycleArmed' = FALSE
  /\ \/ listenerActive /\ UNCHANGED <<listenerActive, listenerPhase, slots>>
     \/ ~listenerActive /\ \E l \in Slots : Listen(l)
  /\ UNCHANGED <<store, credited, settled, listenerEpoch, timers, probed, faults>>

(* An unused lock expires; a used one if its holder is slow. *)
LockExpires ==
  \E s \in mortal :
    /\ locks' = locks \ {s} /\ mortal' = mortal \ {s}
    /\ IF \E l \in Slots : at[l] = s /\ pc[l] \in {"claim", "ledger", "save",
                                                  "complete", "unlock", "failUnlock"}
       THEN expiries < MaxExpiries /\ Spare /\ expiries' = expiries + 1
       ELSE UNCHANGED expiries
    /\ UNCHANGED <<payIndex, claimed, records, pointed, credited, settled, listener, slots,
                   probed, drops, crashes, failures>>

(* The process dies, or exits after ten retries, and boots. *)
Crash ==
  /\ crashes < MaxCrashes /\ Spare
  /\ crashes' = crashes + 1
  /\ listenerActive' = FALSE /\ listenerPhase' = "idle" /\ listenerEpoch' = 0
  /\ recycleArmed' = FALSE /\ timers' = 1
  /\ pc' = [l \in Slots |-> "free"] /\ probed' = Unseen
  /\ UNCHANGED <<store, credited, settled, myEpoch, at, paid, drops, failures, expiries>>

-----------------------------------------------------------------------------
ListenStep(l) ==
  \/ ReadCursor(l) \/ Resolve(l) \/ Lookup(l) \/ Load(l) \/ Lock(l)
  \/ ExpireLock(l) \/ ClaimCredit(l) \/ CreditLedger(l) \/ SaveRecord(l)
  \/ Complete(l) \/ Unlock(l) \/ CheckPersisted(l) \/ Advance(l) \/ Fail(l)

Watchdog == WatchRead \/ WatchForcesRestart \/ WatchRestarts \/ WatchRecycles

ReceiveNext ==
  \/ \E l \in Slots : ListenStep(l) \/ WaitTimesOut(l) \/ CallFails(l)
  \/ TimerFires \/ RecycleFires \/ Watchdog
  \/ Settle \/ SocketDrops \/ LockExpires \/ Crash

ReceiveSpec == ReceiveInit /\ [][ReceiveNext]_receiveVars

(* Fairness: invocations, timers and the watchdog's interval go on, and a     *)
(* lock with an expiry expires.  The node answers a wait for a settlement it  *)
(* has at once, long before the watchdog could end the wait again.            *)
Fairness ==
  /\ \A l \in Slots : WF_receiveVars(ListenStep(l)) /\ SF_receiveVars(Resolve(l))
  /\ WF_receiveVars(TimerFires) /\ WF_receiveVars(RecycleFires) /\ WF_receiveVars(Watchdog)
  /\ WF_receiveVars(LockExpires)

FairSpec == ReceiveSpec /\ Fairness

-----------------------------------------------------------------------------
(* Properties *)

StoreType ==
  /\ payIndex \in 0 .. Settlements /\ settled \in 0 .. Settlements
  /\ locks \subseteq 1 .. Settlements /\ mortal \subseteq locks
  /\ claimed \subseteq 1 .. Settlements /\ pointed \subseteq claimed
  /\ records \subseteq 1 .. Settlements
  /\ credited \in [1 .. Settlements -> Nat]

FlagsType ==
  /\ listenerActive \in BOOLEAN /\ recycleArmed \in BOOLEAN
  /\ listenerPhase \in {"idle", "waiting", "processing"}

CountsType ==
  /\ listenerEpoch \in 0 .. MaxRecycles /\ timers \in 0 .. MaxTimers
  /\ probed \in Unseen .. Settlements

SlotsType ==
  /\ pc \in [Slots -> Labels] /\ myEpoch \in [Slots -> 0 .. MaxRecycles]
  /\ at \in [Slots -> 0 .. Settlements] /\ paid \in [Slots -> BOOLEAN]

FaultsType ==
  /\ drops \in 0 .. MaxDrops /\ crashes \in 0 .. MaxCrashes
  /\ failures \in 0 .. MaxFailures /\ expiries \in 0 .. MaxExpiries

(* Every variable has its type. *)
TypeOK == StoreType /\ FlagsType /\ CountsType /\ SlotsType /\ FaultsType

(* A settlement is credited at most once, however many invocations process it *)
(* and wherever a crash or an expired lock cuts in.                           *)
CreditedOnce == \A s \in 1 .. Settlements : credited[s] <= 1

Crediting(s) == \E l \in Slots : at[l] = s /\ pc[l] = "ledger"

(* Claimed, but the ledger call was never made or failed: later claims lose. *)
Abandoned == {s \in claimed : credited[s] = 0 /\ ~Crediting(s)}

(* The deposits behind the cursor that were not credited and never will be.   *)
Lost == {s \in Deposits : s <= payIndex /\ credited[s] = 0 /\ ~Crediting(s)}

(* A deposit is lost only by a failed ledger call of its own or by a crash,    *)
(* and a crash costs at most the deposit of each invocation: recycling, drops  *)
(* of the socket, expired locks and second listeners lose nothing.             *)
LostBoundedByFaults ==
  Cardinality(Lost) <= Cardinality(Slots) * crashes + failures

(* A crash between setNX and expire: this lock is held for good. *)
LockStuck ==
  \E s \in locks \ mortal : \A l \in Slots : ~(pc[l] = "expire" /\ at[l] = s)

(* A received invoice whose pointer leads nowhere, and that no invocation is   *)
(* past: each one that comes to it will throw "Invoice already paid".          *)
Wedged ==
  \E s \in records \ pointed :
    /\ payIndex < s
    /\ \A l \in Slots : at[l] = s => pc[l] \notin {"complete", "unlock", "check", "advance"}

(* The listener gets past every settlement, whatever is dropped, recycled or  *)
(* failing for a while, unless a lock was left that never expires or the      *)
(* listener is wedged.                                                        *)
CursorReachesAll ==
  \A s \in 1 .. Settlements : (settled >= s) ~> (payIndex >= s \/ LockStuck \/ Wedged)

=============================================================================
