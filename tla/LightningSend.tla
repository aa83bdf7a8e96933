---------------------------- MODULE LightningSend ----------------------------
(***************************************************************************)
(* An outgoing Lightning payment, from the request to the moment its debit *)
(* is kept (settled) or given back (reversed).                             *)
(*                                                                         *)
(* sendLightning() claims the invoice in the redis set `pending`, debits   *)
(* the user, stores the record, and leaves completeLightningInBackground() *)
(* to drive CLN's xpay, with a fallback to LND, to finalize() or           *)
(* reverse().  check() sweeps `pending` every few seconds and finalizes or *)
(* reverses what no driver finished, also after a restart.                 *)
(*                                                                         *)
(* A step is the code between two awaits.  Attempts are payment ids; two   *)
(* attempts may be at the same invoice.  The process keeps `inFlight` in   *)
(* memory and loses it, and every driver, in a crash; redis, the ledger    *)
(* and the Lightning nodes survive.  Time is counted in ticks of a minute. *)
(***************************************************************************)
EXTENDS Integers, FiniteSets

CONSTANTS
  Attempts,       \* payment ids, one per call of sendLightning
  Invoices,       \* bolt11 strings, after normalisation
  InvoiceOf,      \* the invoice an attempt is at
  Fallback,       \* attempts for which outLn.xpay may fall back to LND
  RetryFor,       \* ticks for which CLN may launch parts for an attempt
  CheckAge,       \* ticks before check() touches a payment
  Sweep,          \* the process that runs check()
  None,           \* no attempt, no invoice
  MaxCrashes,     \* bound: process crashes
  MaxDrops,       \* bound: losses of the RPC socket to CLN
  MaxStoreFails   \* bound: redis writes that fail

ASSUME SendAssumption ==
  /\ InvoiceOf \in [Attempts -> Invoices]
  /\ Fallback \subseteq Attempts
  /\ RetryFor \in [Attempts -> Nat]
  /\ CheckAge \in Nat \ {0}
  /\ Sweep \notin Attempts
  /\ None \notin Attempts \cup Invoices \cup {Sweep}
  /\ MaxCrashes \in Nat /\ MaxDrops \in Nat /\ MaxStoreFails \in Nat

VARIABLES
  pending,      \* redis: the set `pending`
  record,       \* redis: payment:<id>
  pointer,      \* redis: payment:<invoice>, the id it names
  reversing,    \* redis: the claims reversing:<id>
  refunded,     \* redis: the claims refunded:<id>
  debited,      \* ledger: attempts tbDebit has charged
  returned,     \* ledger: how often tbReverse gave the whole debit back
  feeBack,      \* ledger: how often tbRefund gave unused fee reserve back
  inFlight,     \* memory: invoices an outLn.xpay call is open for
  pc,           \* what each driver and the sweep will do next
  cur,          \* the payment the sweep is working on
  item,         \* the invoice the sweep is working on
  todo,         \* what is left of the sweep's snapshot of `pending`
  hasty,        \* history: attempts the sweep reverses while CLN may go on
  xpay,         \* CLN: the attempts whose xpay it is working on
  cln,          \* CLN: what listpays answers for an invoice
  lnd,          \* LND: what its payment list answers for an invoice
  delivered,    \* network: how often an invoice was paid
  age,          \* ticks since the attempt was debited
  crashes, drops, storeFails

store   == <<pending, record, pointer, reversing, refunded>>
ledger  == <<debited, returned, feeBack>>
sweep   == <<cur, item, todo, hasty>>
network == <<xpay, cln, lnd, delivered>>
faults  == <<crashes, drops, storeFails>>
vars    == <<store, ledger, inFlight, pc, sweep, network, age, faults>>

Procs == Attempts \cup {Sweep}

(* The payment a driver or the sweep is working on. *)
Payment(q) == IF q = Sweep THEN cur ELSE q
Invoice(q) == InvoiceOf[Payment(q)]

MaxAge == CHOOSE m \in {CheckAge} \cup {RetryFor[a] : a \in Attempts} :
            \A n \in {CheckAge} \cup {RetryFor[a] : a \in Attempts} : n <= m

DriverLabels ==
  {"start", "claim", "debit", "record", "store", "call", "release", "paying",
   "hung", "fallback", "lnd", "verify", "settle", "undo", "done"}
SweepLabels == {"idle", "next", "load", "drop", "query"}
SharedLabels ==
  {"fin", "finRead", "finCheck", "finSave", "finClaim", "finRefund",
   "finRecheck", "finResave", "rev", "revRead", "revLedger", "revClean"}

Status == {"none", "pending", "failed", "complete"}

(* No part of the payment is alive at the node that answers so. *)
Resolved(status) == status \in {"none", "failed"}

Goto(q, label) == pc' = [pc EXCEPT ![q] = label]

(* Mutant: nothing rearms check() after a payment was settled or reversed. *)
ReturnAsDriver(q) == Goto(q, "done")

(* Where finalize() and reverse() return to. *)
Return(q) == Goto(q, IF q = Sweep THEN "next" ELSE "done")

(* outLn.listpays: CLN's answer, or LND's when CLN has nothing alive. *)
ListPays(i) == IF Resolved(cln[i]) /\ Fallback # {} THEN lnd[i] ELSE cln[i]

Init ==
  /\ pending = {} /\ reversing = {} /\ refunded = {} /\ debited = {}
  /\ record = [a \in Attempts |-> "none"]
  /\ pointer = [i \in Invoices |-> None]
  /\ returned = [a \in Attempts |-> 0]
  /\ feeBack = [a \in Attempts |-> 0]
  /\ inFlight = {}
  /\ pc = [q \in Procs |-> IF q = Sweep THEN "idle" ELSE "start"]
  /\ cur = None /\ item = None /\ todo = {} /\ hasty = {}
  /\ xpay = {}
  /\ cln = [i \in Invoices |-> "none"]
  /\ lnd = [i \in Invoices |-> "none"]
  /\ delivered = [i \in Invoices |-> 0]
  /\ age = [a \in Attempts |-> 0]
  /\ crashes = 0 /\ drops = 0 /\ storeFails = 0

-----------------------------------------------------------------------------
(* sendLightning *)

(* The node already knows the invoice as paid or under way: refused. *)
Precheck(a) ==
  /\ pc[a] = "start"
  /\ Goto(a, IF Resolved(ListPays(InvoiceOf[a])) THEN "claim" ELSE "done")
  /\ UNCHANGED <<store, ledger, inFlight, sweep, network, age, faults>>

(* SADD claims the invoice, or tells that it is claimed. *)
Claim(a) ==
  /\ pc[a] = "claim"
  /\ pending' = pending \cup {InvoiceOf[a]}
  /\ Goto(a, IF InvoiceOf[a] \in pending THEN "done" ELSE "debit")
  /\ UNCHANGED <<record, pointer, reversing, refunded,
                 ledger, inFlight, sweep, network, age, faults>>

(* debit() up to the ledger: it charges the user, or it throws. *)
Debit(a) ==
  /\ pc[a] = "debit"
  /\ \/ debited' = debited \cup {a} /\ Goto(a, "record")
     \/ UNCHANGED debited /\ Goto(a, "release")
  /\ UNCHANGED <<store, returned, feeBack, inFlight, sweep, network, age, faults>>

(* debit() stores the pointer, then the record. *)
Record(a) ==
  /\ \/ /\ pc[a] = "record"
        /\ pointer' = [pointer EXCEPT ![InvoiceOf[a]] = a]
        /\ Goto(a, "store")
        /\ UNCHANGED record
     \/ /\ pc[a] = "store"
        /\ record' = [record EXCEPT ![a] = "open"]
        /\ Goto(a, "call")
        /\ UNCHANGED pointer
  /\ UNCHANGED <<pending, reversing, refunded, ledger, inFlight, sweep,
                 network, age, faults>>

(* A redis write of debit() fails: it throws with the ledger charged. *)
RecordFails(a) ==
  /\ pc[a] \in {"record", "store", "call"} /\ storeFails < MaxStoreFails
  /\ storeFails' = storeFails + 1
  /\ Goto(a, "release")
  /\ UNCHANGED <<store, ledger, inFlight, sweep, network, age, crashes, drops>>

(* debit() threw: the claim is released. *)
Release(a) ==
  /\ pc[a] = "release"
  /\ pending' = pending \ {InvoiceOf[a]}
  /\ Goto(a, "done")
  /\ UNCHANGED <<record, pointer, reversing, refunded,
                 ledger, inFlight, sweep, network, age, faults>>

-----------------------------------------------------------------------------
(* outLn.xpay *)

(* CLN still retries another attempt at the invoice: "already underway". *)
Underway(a) ==
  \E b \in xpay \ {a} : InvoiceOf[b] = InvoiceOf[a] /\ age[b] < RetryFor[b]

CallXpay(a) ==
  /\ pc[a] = "call"
  /\ inFlight' = inFlight \cup {InvoiceOf[a]}
  /\ xpay' = IF Underway(a) THEN xpay ELSE xpay \cup {a}
  /\ Goto(a, "paying")
  /\ UNCHANGED <<store, ledger, sweep, cln, lnd, delivered, age, faults>>

(* A paid answer goes to finalize(); without a preimage in it, and none from *)
(* listpays either, finalize() throws before it does anything.               *)
Paid(a) == Goto(a, "fin") \/ Goto(a, "done")

(* An invoice that was paid before is answered with its preimage, too. *)
XpayPays(a) ==
  /\ pc[a] = "paying" /\ a \in xpay /\ cln[InvoiceOf[a]] = "complete"
  /\ xpay' = xpay \ {a}
  /\ inFlight' = inFlight \ {InvoiceOf[a]}
  /\ Paid(a)
  /\ UNCHANGED <<store, ledger, sweep, cln, lnd, delivered, age, faults>>

(* xpay rejects, or reports failed parts: whatever became of its parts. *)
XpayThrows(a) ==
  /\ pc[a] = "paying"
  /\ xpay' = xpay \ {a}
  /\ \/ a \in Fallback /\ ~Underway(a) /\ Goto(a, "fallback") /\ UNCHANGED inFlight
     \/ Goto(a, "verify") /\ inFlight' = inFlight \ {InvoiceOf[a]}
  /\ UNCHANGED <<store, ledger, sweep, cln, lnd, delivered, age, faults>>

(* Mutant: LND is tried whatever became of CLN's parts. *)
CallLndBlindly(a) ==
  /\ pc[a] = "fallback"
  /\ lnd' = [lnd EXCEPT ![InvoiceOf[a]] =
              IF Resolved(@) /\ delivered[InvoiceOf[a]] = 0 THEN "pending" ELSE @]
  /\ Goto(a, "lnd")
  /\ UNCHANGED <<store, ledger, inFlight, sweep, xpay, cln, delivered, age, faults>>

(* clnPartsAllFailed decides about LND; when it cannot tell, it declines. *)
CallLnd(a) ==
  /\ pc[a] = "fallback" /\ Resolved(cln[InvoiceOf[a]])
  /\ lnd' = [lnd EXCEPT ![InvoiceOf[a]] =
              IF Resolved(@) /\ delivered[InvoiceOf[a]] = 0 THEN "pending" ELSE @]
  /\ Goto(a, "lnd")
  /\ UNCHANGED <<store, ledger, inFlight, sweep, xpay, cln, delivered, age, faults>>

DeclineLnd(a) ==
  /\ pc[a] = "fallback"
  /\ inFlight' = inFlight \ {InvoiceOf[a]}
  /\ Goto(a, "verify")
  /\ UNCHANGED <<store, ledger, sweep, network, age, faults>>

LndReturns(a) ==
  /\ pc[a] = "lnd"
  /\ inFlight' = inFlight \ {InvoiceOf[a]}
  /\ \/ lnd[InvoiceOf[a]] = "complete" /\ Paid(a)
     \/ Goto(a, "verify")
  /\ UNCHANGED <<store, ledger, sweep, network, age, faults>>

(* completeLightningInBackground, after an error: ask the nodes. *)
Verify(a) ==
  /\ pc[a] = "verify"
  /\ \/ ListPays(InvoiceOf[a]) = "complete" /\ Goto(a, "settle")
     \/ Resolved(ListPays(InvoiceOf[a])) /\ Goto(a, "undo")
     \/ ListPays(InvoiceOf[a]) = "pending" /\ Goto(a, "done")
     \/ Goto(a, "done")              \* listpays failed: left to check()
  /\ UNCHANGED <<store, ledger, inFlight, sweep, network, age, faults>>

(* The claim on the invoice goes before finalize() or reverse() runs. *)
Unclaim(a) ==
  /\ pc[a] \in {"settle", "undo"}
  /\ pending' = pending \ {InvoiceOf[a]}
  /\ Goto(a, IF pc[a] = "settle" THEN "fin" ELSE "rev")
  /\ UNCHANGED <<record, pointer, reversing, refunded,
                 ledger, inFlight, sweep, network, age, faults>>

-----------------------------------------------------------------------------
(* finalize, called by a driver or by the sweep *)

(* The preimage is there: the invoice leaves `pending`. *)
Finalize(q) ==
  /\ pc[q] = "fin"
  /\ pending' = pending \ {Invoice(q)}
  /\ Goto(q, "finRead")
  /\ UNCHANGED <<record, pointer, reversing, refunded,
                 ledger, inFlight, sweep, network, age, faults>>

(* No record: reversed already, the error is logged and nothing is saved. *)
FinalizeRead(q) ==
  /\ pc[q] = "finRead"
  /\ IF record[Payment(q)] = "none" THEN Return(q) ELSE Goto(q, "finCheck")
  /\ UNCHANGED <<store, ledger, inFlight, sweep, network, age, faults>>

(* The record is read again, and saved if it has no preimage; in the second *)
(* try, after a failed save, a missing or settled record ends it.           *)
FinalizeCheck(q) ==
  /\ pc[q] \in {"finCheck", "finRecheck"}
  /\ \/ record[Payment(q)] = "none" /\ Return(q)
     \/ /\ record[Payment(q)] = "open"
        /\ Goto(q, IF pc[q] = "finCheck" THEN "finSave" ELSE "finResave")
     \/ record[Payment(q)] = "settled" /\ pc[q] = "finCheck" /\ Goto(q, "finClaim")
     \/ record[Payment(q)] = "settled" /\ pc[q] = "finRecheck" /\ Return(q)
  /\ UNCHANGED <<store, ledger, inFlight, sweep, network, age, faults>>

FinalizeSave(q) ==
  /\ pc[q] \in {"finSave", "finResave"}
  /\ record' = [record EXCEPT ![Payment(q)] = "settled"]
  /\ IF pc[q] = "finSave" THEN Goto(q, "finClaim") ELSE Return(q)
  /\ UNCHANGED <<pending, pointer, reversing, refunded,
                 ledger, inFlight, sweep, network, age, faults>>

(* The save fails: one more try, without the refund; then it gives up. *)
FinalizeSaveFails(q) ==
  /\ pc[q] \in {"finSave", "finResave"} /\ storeFails < MaxStoreFails
  /\ storeFails' = storeFails + 1
  /\ IF pc[q] = "finSave" THEN Goto(q, "finRecheck") ELSE Return(q)
  /\ UNCHANGED <<store, ledger, inFlight, sweep, network, age, crashes, drops>>

(* Mutant: the claim on the refund is set without NX. *)
FinalizeClaimAlways(q) ==
  /\ pc[q] = "finClaim"
  /\ refunded' = refunded \cup {Payment(q)}
  /\ Goto(q, "finRefund")
  /\ UNCHANGED <<pending, record, pointer, reversing,
                 ledger, inFlight, sweep, network, age, faults>>

(* SET NX refunded:<id> *)
FinalizeClaim(q) ==
  /\ pc[q] = "finClaim"
  /\ refunded' = refunded \cup {Payment(q)}
  /\ IF Payment(q) \in refunded THEN Return(q) ELSE Goto(q, "finRefund")
  /\ UNCHANGED <<pending, record, pointer, reversing,
                 ledger, inFlight, sweep, network, age, faults>>

FinalizeRefund(q) ==
  /\ pc[q] = "finRefund"
  /\ feeBack' = [feeBack EXCEPT ![Payment(q)] = @ + 1]
  /\ Return(q)
  /\ UNCHANGED <<store, debited, returned, inFlight, sweep, network, age, faults>>

-----------------------------------------------------------------------------
(* reverse, called by a driver or by the sweep *)

(* Mutant: the claim on the reversal is set without NX. *)
ReverseAlways(q) ==
  /\ pc[q] = "rev"
  /\ reversing' = reversing \cup {Payment(q)}
  /\ Goto(q, "revRead")
  /\ UNCHANGED <<pending, record, pointer, refunded,
                 ledger, inFlight, sweep, network, age, faults>>

(* SET NX reversing:<id> *)
Reverse(q) ==
  /\ pc[q] = "rev"
  /\ reversing' = reversing \cup {Payment(q)}
  /\ IF Payment(q) \in reversing THEN Return(q) ELSE Goto(q, "revRead")
  /\ UNCHANGED <<pending, record, pointer, refunded,
                 ledger, inFlight, sweep, network, age, faults>>

(* The stored record, read after the sleep: a missing one throws, which    *)
(* releases the claim (and makes the sweep drop the entry); a settled one  *)
(* is left alone with the claim in place.                                  *)
ReverseRead(q) ==
  /\ pc[q] = "revRead"
  /\ \/ /\ record[Payment(q)] = "none"
        /\ reversing' = reversing \ {Payment(q)}
        /\ Goto(q, IF q = Sweep THEN "drop" ELSE "done")
     \/ record[Payment(q)] = "settled" /\ UNCHANGED reversing /\ Return(q)
     \/ record[Payment(q)] = "open" /\ UNCHANGED reversing /\ Goto(q, "revLedger")
  /\ UNCHANGED <<pending, record, pointer, refunded,
                 ledger, inFlight, sweep, network, age, faults>>

(* tbReverse *)
ReverseLedger(q) ==
  /\ pc[q] = "revLedger"
  /\ returned' = [returned EXCEPT ![Payment(q)] = @ + 1]
  /\ Goto(q, "revClean")
  /\ UNCHANGED <<store, debited, feeBack, inFlight, sweep, network, age, faults>>

(* The multi: record, claim on the invoice and pointer go, whosever they are. *)
ReverseClean(q) ==
  /\ pc[q] = "revClean"
  /\ record' = [record EXCEPT ![Payment(q)] = "none"]
  /\ pending' = pending \ {Invoice(q)}
  /\ pointer' = [pointer EXCEPT ![Invoice(q)] = None]
  /\ Return(q)
  /\ UNCHANGED <<reversing, refunded, ledger, inFlight, sweep, network, age, faults>>

(* A call fails, before tbReverse or after it: the catch releases the claim *)
(* and nothing is undone.                                                   *)
ReverseFails(q) ==
  /\ pc[q] \in {"revRead", "revLedger", "revClean"} /\ storeFails < MaxStoreFails
  /\ storeFails' = storeFails + 1
  /\ reversing' = reversing \ {Payment(q)}
  /\ Return(q)
  /\ UNCHANGED <<pending, record, pointer, refunded,
                 ledger, inFlight, sweep, network, age, crashes, drops>>

(* EX 300: a claim nobody is working under expires. *)
ClaimExpires(a) ==
  /\ a \in reversing
  /\ \A q \in Procs :
       pc[q] \in {"revRead", "revLedger", "revClean"} => Payment(q) # a
  /\ reversing' = reversing \ {a}
  /\ UNCHANGED <<pending, record, pointer, refunded,
                 ledger, inFlight, pc, sweep, network, age, faults>>

-----------------------------------------------------------------------------
(* check *)

SweepStart ==
  /\ pc[Sweep] = "idle"
  /\ todo' = pending
  /\ Goto(Sweep, "next")
  /\ UNCHANGED <<store, ledger, inFlight, cur, item, hasty, network, age, faults>>

SweepNext ==
  /\ pc[Sweep] = "next"
  /\ \/ \E i \in todo : item' = i /\ todo' = todo \ {i} /\ Goto(Sweep, "load")
     \/ todo = {} /\ item' = None /\ UNCHANGED todo /\ Goto(Sweep, "idle")
  /\ cur' = None
  /\ UNCHANGED <<store, ledger, inFlight, hasty, network, age, faults>>

(* Mutants: one of the two guards is missing. *)
StillDrivenByAge(a) == age[a] < CheckAge
StillDrivenByCall(a) == item \in inFlight

(* sendLightning may still be at work on the payment. *)
StillDriven(a) == age[a] < CheckAge \/ item \in inFlight

(* getPayment goes through the pointer. *)
SweepLoad ==
  /\ pc[Sweep] = "load"
  /\ LET a == pointer[item] IN
       IF a = None \/ (a # None /\ record[a] = "none")
       THEN UNCHANGED cur /\ Goto(Sweep, "drop")
       ELSE IF StillDriven(a)
       THEN UNCHANGED cur /\ Goto(Sweep, "next")
       ELSE cur' = a /\ Goto(Sweep, "query")
  /\ UNCHANGED <<store, ledger, inFlight, item, todo, hasty, network, age, faults>>

(* No record: the entry is taken for a stray and dropped. *)
SweepDrop ==
  /\ pc[Sweep] = "drop"
  /\ pending' = pending \ {item}
  /\ Goto(Sweep, "next")
  /\ UNCHANGED <<record, pointer, reversing, refunded,
                 ledger, inFlight, sweep, network, age, faults>>

(* Mutant: check() settles what was paid and leaves what failed. *)
SweepQuerySettles ==
  /\ pc[Sweep] = "query"
  /\ Goto(Sweep, IF ListPays(item) = "complete" THEN "fin" ELSE "next")
  /\ UNCHANGED <<store, ledger, inFlight, sweep, network, age, faults>>

(* CLN may launch another part for the attempt. *)
Launchable(a) == a \in xpay /\ age[a] < RetryFor[a]

(* The age check stands for the time CLN retries, whatever the client asked *)
(* for: between two of CLN's tries listpays answers that nothing is alive.  *)
SweepQuery ==
  /\ pc[Sweep] = "query"
  /\ \/ ListPays(item) = "complete" /\ Goto(Sweep, "fin") /\ UNCHANGED hasty
     \/ /\ Resolved(ListPays(item)) /\ Goto(Sweep, "rev")
        /\ hasty' = IF Launchable(cur) THEN hasty \cup {cur} ELSE hasty
     \/ ListPays(item) = "pending" /\ Goto(Sweep, "next") /\ UNCHANGED hasty
  /\ UNCHANGED <<store, ledger, inFlight, cur, item, todo, network, age, faults>>

(* listpays throws: the whole round ends. *)
SweepAborts ==
  /\ pc[Sweep] = "query"
  /\ Goto(Sweep, "idle")
  /\ cur' = None /\ item' = None /\ todo' = {}
  /\ UNCHANGED <<store, ledger, inFlight, hasty, network, age, faults>>

-----------------------------------------------------------------------------
(* The Lightning nodes, the network, time and faults *)

(* CLN sends out a part; between retries listpays shows all of them failed.  *)
(* A recipient refuses parts that set out after it was paid, it settles all  *)
(* that are under way by then.                                               *)
LaunchPart(a) ==
  /\ Launchable(a)
  /\ Resolved(cln[InvoiceOf[a]]) /\ delivered[InvoiceOf[a]] = 0
  /\ cln' = [cln EXCEPT ![InvoiceOf[a]] = "pending"]
  /\ UNCHANGED <<store, ledger, inFlight, pc, sweep, xpay, lnd, delivered, age, faults>>

ClnPart(i) ==
  /\ cln[i] = "pending"
  /\ \/ cln' = [cln EXCEPT ![i] = "failed"] /\ UNCHANGED delivered
     \/ /\ cln' = [cln EXCEPT ![i] = "complete"]
        /\ delivered' = [delivered EXCEPT ![i] = @ + 1]
  /\ UNCHANGED <<store, ledger, inFlight, pc, sweep, xpay, lnd, age, faults>>

LndPart(i) ==
  /\ lnd[i] = "pending"
  /\ \/ lnd' = [lnd EXCEPT ![i] = "failed"] /\ UNCHANGED delivered
     \/ /\ lnd' = [lnd EXCEPT ![i] = "complete"]
        /\ delivered' = [delivered EXCEPT ![i] = @ + 1]
  /\ UNCHANGED <<store, ledger, inFlight, pc, sweep, xpay, cln, age, faults>>

(* A minute passes; the redis writes between the debit and the xpay call take *)
(* less.                                                                      *)
Tick ==
  /\ \A a \in Attempts : pc[a] \notin {"record", "store", "call"}
  /\ age' = [a \in Attempts |->
              IF a \in debited /\ age[a] < MaxAge THEN age[a] + 1 ELSE age[a]]
  /\ age' # age
  /\ UNCHANGED <<store, ledger, inFlight, pc, sweep, network, faults>>

(* The socket to CLN is dropped: an open xpay call never settles, while CLN *)
(* goes on with it.                                                         *)
SocketDrops ==
  /\ drops < MaxDrops
  /\ \E a \in Attempts : pc[a] = "paying"
  /\ drops' = drops + 1
  /\ pc' = [q \in Procs |-> IF pc[q] = "paying" THEN "hung" ELSE pc[q]]
  /\ UNCHANGED <<store, ledger, inFlight, sweep, network, age, crashes, storeFails>>

(* The process dies and restarts: only what is outside of it is left. *)
Crash ==
  /\ crashes < MaxCrashes
  /\ crashes' = crashes + 1
  /\ inFlight' = {}
  /\ pc' = [q \in Procs |-> IF q = Sweep THEN "idle"
                            ELSE IF pc[q] = "start" THEN "start" ELSE "done"]
  /\ cur' = None /\ item' = None /\ todo' = {}
  /\ UNCHANGED <<store, ledger, hasty, network, age, drops, storeFails>>

-----------------------------------------------------------------------------
Driver(a) ==
  \/ Precheck(a) \/ Claim(a) \/ Debit(a) \/ Record(a) \/ RecordFails(a)
  \/ Release(a) \/ CallXpay(a) \/ XpayPays(a) \/ XpayThrows(a) \/ CallLnd(a) \/ DeclineLnd(a)
  \/ LndReturns(a) \/ Verify(a) \/ Unclaim(a)

FinalizeStep(q) ==
  \/ Finalize(q) \/ FinalizeRead(q) \/ FinalizeCheck(q)
  \/ FinalizeSave(q) \/ FinalizeSaveFails(q) \/ FinalizeClaim(q)
  \/ FinalizeRefund(q)

ReverseStep(q) ==
  \/ Reverse(q) \/ ReverseRead(q) \/ ReverseLedger(q) \/ ReverseClean(q)
  \/ ReverseFails(q)

SweepStep ==
  SweepStart \/ SweepNext \/ SweepLoad \/ SweepDrop \/ SweepQuery \/ SweepAborts

Network ==
  \/ \E a \in Attempts : LaunchPart(a) \/ ClaimExpires(a)
  \/ \E i \in Invoices : ClnPart(i) \/ LndPart(i)
  \/ Tick \/ SocketDrops \/ Crash

Next ==
  \/ \E a \in Attempts : Driver(a)
  \/ \E q \in Procs : FinalizeStep(q) \/ ReverseStep(q)
  \/ SweepStep
  \/ Network

Spec == Init /\ [][Next]_vars

(***************************************************************************)
(* Fairness.  A driver that was started runs on (xpay and payinvoice end   *)
(* by their timeouts), the check loop rearms itself in every round, parts  *)
(* are resolved by their HTLC timeouts, the EX of a claim runs out, and a  *)
(* node that fails to answer does so only for a while.  Nobody has to      *)
(* start an attempt, crash or lose a socket.                               *)
(***************************************************************************)
Fairness ==
  /\ \A a \in Attempts : WF_vars(pc[a] # "start" /\ Driver(a))
  /\ \A q \in Procs : WF_vars(FinalizeStep(q)) /\ WF_vars(ReverseStep(q))
  /\ WF_vars(SweepStart \/ SweepNext \/ SweepLoad \/ SweepDrop)
  /\ SF_vars(SweepQuery)
  /\ \A i \in Invoices : WF_vars(ClnPart(i)) /\ WF_vars(LndPart(i))
  /\ \A a \in Attempts : WF_vars(ClaimExpires(a))
  /\ WF_vars(Tick)

FairSpec == Spec /\ Fairness

-----------------------------------------------------------------------------
(* Properties *)

(* Every variable has its type. *)
TypeOK ==
  /\ pending \subseteq Invoices
  /\ record \in [Attempts -> {"none", "open", "settled"}]
  /\ pointer \in [Invoices -> Attempts \cup {None}]
  /\ reversing \subseteq Attempts /\ refunded \subseteq Attempts
  /\ debited \subseteq Attempts
  /\ returned \in [Attempts -> Nat] /\ feeBack \in [Attempts -> Nat]
  /\ inFlight \subseteq Invoices
  /\ pc \in [Procs -> DriverLabels \cup SweepLabels \cup SharedLabels]
  /\ \A a \in Attempts : pc[a] \notin SweepLabels
  /\ pc[Sweep] \notin DriverLabels
  /\ cur \in Attempts \cup {None} /\ item \in Invoices \cup {None}
  /\ todo \subseteq Invoices /\ hasty \subseteq Attempts
  /\ xpay \subseteq Attempts
  /\ cln \in [Invoices -> Status] /\ lnd \in [Invoices -> Status]
  /\ delivered \in [Invoices -> Nat] /\ age \in [Attempts -> Nat]
  /\ crashes \in 0 .. MaxCrashes /\ drops \in 0 .. MaxDrops
  /\ storeFails \in 0 .. MaxStoreFails

(* However many callers reverse() has for a payment (its driver and every  *)
(* round of check()), the ledger gives the debit back once, and once more  *)
(* at most for each crash and each failed call that got in its way.        *)
RefundsBoundedByFaults ==
  \A a \in Attempts : returned[a] <= 1 + crashes + storeFails

(* finalize() gives the unused fee reserve back at most once, whatever     *)
(* crashes and however often the driver and check() both settle a payment. *)
FeeRefundedOnce == \A a \in Attempts : feeBack[a] <= 1

(* An invoice is paid at most once: LND is only called when no part of     *)
(* CLN's is alive, and CLN does not start again behind it.                 *)
PaidOnce == \A i \in Invoices : delivered[i] <= 1

ChargedFor(i) == {a \in debited : InvoiceOf[a] = i /\ returned[a] = 0}

(* The client asked CLN to retry for longer than check() waits, and check() *)
(* gave the attempt up in the meantime.                                    *)
Rash(a) == a \in hasty /\ RetryFor[a] > CheckAge

(* Nobody gets an invoice paid and the money back: as often as an invoice  *)
(* was paid, a debit for it stands; but for the invoices of a rash attempt *)
(* (retryFor up to 300 s, routes/payments.ts 102; check() waits for 120 s, *)
(* payments.ts 2443, on the word of its comment that CLN is through then). *)
NoFreeDelivery ==
  \A i \in Invoices :
    \/ delivered[i] <= Cardinality(ChargedFor(i))
    \/ \E a \in Attempts : InvoiceOf[a] = i /\ Rash(a)

(* What check() can still resolve: an open record whose invoice is in      *)
(* `pending` and names it.                                                 *)
Tracked(a) ==
  record[a] = "open" /\ InvoiceOf[a] \in pending /\ pointer[InvoiceOf[a]] = a

(* A payment its driver has left open is settled or reversed in the end;   *)
(* after a crash or a failed write, too, if there is no further one, and   *)
(* unless check() has just taken its entry for a stray.                    *)
LeftToCheck(a) == Tracked(a) /\ pc[a] = "done" /\ pc[Sweep] # "drop"

TrackedResolves ==
  \A a \in Attempts, c \in 0 .. MaxCrashes, f \in 0 .. MaxStoreFails :
    (LeftToCheck(a) /\ crashes = c /\ storeFails = f)
      ~> (record[a] # "open" \/ crashes > c \/ storeFails > f)

(* The payment refines the abstract escrow: an amount is kept only for a   *)
(* paid invoice, it is returned only for an unpaid one, an invoice is only *)
(* paid while an amount is held for it, and neither end is ever left; a    *)
(* rash attempt is one that the escrow has abandoned.                      *)
ChargeOf(a) ==
  IF a \notin debited THEN "none"
  ELSE IF returned[a] > 0 THEN "returned"
  ELSE IF record[a] = "settled" THEN "kept" ELSE "held"

Account == INSTANCE Escrow WITH
  charge <- [a \in Attempts |-> ChargeOf(a)],
  paid <- {i \in Invoices : delivered[i] > 0},
  abandoned <- {a \in Attempts : Rash(a)}

Escrowed == Account!Spec

-----------------------------------------------------------------------------
(* A statement of the source that the code does not keep; a run shows how.  *)

(* "Invoice has already been paid" and "Payment is already underway": of    *)
(* the attempts at an invoice at most one is charged in the end.            *)
ChargedOnce ==
  \A a, b \in Attempts :
    (a # b /\ InvoiceOf[a] = InvoiceOf[b])
      => ~(record[a] = "settled" /\ record[b] = "settled")

=============================================================================
