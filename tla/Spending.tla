------------------------------- MODULE Spending -------------------------------
(***************************************************************************)
(* What stands between a request to spend and the ledger, and what follows *)
(* the ledger: debit() with its withdrawal lock, server limit, spend       *)
(* allowance, cumulative breaker and frozen balance; sendInternal() with   *)
(* credit(); the keysend and the invoice of a request that leaves the      *)
(* house; the budget of a Nostr Wallet Connect app; freezeCheck(), which   *)
(* writes the limit anew.  How a Lightning payment is driven and resolved  *)
(* is LightningSend's; here it settles or is reversed in one step.         *)
(*                                                                         *)
(* One user spends, through the API or through one app; internal requests  *)
(* pay one invoice of another user.  Each request asks for one unit.       *)
(***************************************************************************)
EXTENDS Integers, FiniteSets, FiniteSetsExt

CONSTANTS
  Requests,       \* requests to pay
  None,           \* nobody
  Opening,        \* what the user has on the ledger at first
  Wallet,         \* what the node can send at first
  Threshold,      \* what freezeCheck keeps out of the limit
  Fee,            \* fees reserved for an external payment
  Cap,            \* WITHDRAW_CUM_MAX_SAT
  Budget,         \* max_amount of the app
  Dormant,        \* the app was made, and paid last, over 30 days ago
  MaxDeposits,    \* bound: deposits to the user while requests run
  MaxCrashes,     \* bound: process crashes
  MaxDrops        \* bound: losses of the RPC socket under a keysend

ASSUME SpendingAssumption ==
  /\ IsFiniteSet(Requests) /\ None \notin Requests \cup Int
  /\ {Opening, Wallet, Threshold, Fee, Cap, Budget} \subseteq Nat
  /\ Threshold <= Wallet
  /\ Dormant \in BOOLEAN
  /\ {MaxDeposits, MaxCrashes, MaxDrops} \subseteq Nat

Amount == 1

VARIABLES
  balance,      \* ledger: the user's balance
  earned,       \* ledger: what the owner of the invoice was credited
  received,     \* redis: invoice.received
  tip,          \* redis: invoice.tip
  editing,      \* PUT /invoice has read the unpaid invoice and will write it
  creditLock,   \* redis: who holds lock:credit:<hash>
  record,       \* redis: payment:<id>
  pushed,       \* redis: <pubkey>:payments, what the app's budget counts
  limit,        \* redis: lightning:limit
  blacklisted,  \* redis: the user is in `blacklist`
  guard,        \* redis: nwc:guard:dormant-keysend
  quarantined,  \* redis: the app is in nwc:quarantined
  window,       \* file: withdraw-window.json, its sum
  tripped,      \* file: ALL.locked
  limitLock,    \* memory: who is inside withLimitLock
  budgetLock,   \* memory: who is inside withBudgetLock
  pc, kind, app,
  dead,         \* requests whose process has crashed
  remaining,    \* local: what checkBudget leaves the request
  frozen,       \* local: frozenBalance
  tipOf,        \* local: the tip that debit() captured
  seen,         \* local: the invoice as credit() read it
  charged,      \* ledger: what tbDebit took for the request
  paid,         \* ledger: transfers that tbCredit delivered
  wallet,       \* node: what it can send
  refresh,      \* freezeCheck: the balance it has read, or None
  crowd,        \* history: most requests between breaker and record at once
  deposits, crashes, drops

files   == <<window, tripped>>
invoice == <<received, tip, editing, creditLock>>
locks   == <<limitLock, budgetLock>>
policy  == <<blacklisted, guard, quarantined>>
request == <<kind, app, dead, remaining, frozen, tipOf, seen>>
node    == <<wallet, refresh>>
bounds  == <<deposits, crashes, drops>>
vars    == <<balance, earned, charged, paid, invoice, record, pushed, limit, policy,
             files, locks, pc, request, node, crowd, bounds>>

Kinds    == {"internal", "invoice", "keysend"}
External == {"invoice", "keysend"}
Labels   == {"start", "budget", "screen", "limit", "reserve", "load", "freeze",
             "check", "move", "count", "record", "credit", "lock", "creditMove",
             "creditSave", "keysend", "hung", "push", "done"}

(* Requests between the breaker's check and their entry in its file. *)
Uncounted ==
  {r \in Requests \ dead :
     kind[r] \in External /\ pc[r] \in {"freeze", "check", "move", "count"}}

OfKind(K) == {r \in Requests : kind[r] \in K}

(* What f has for the members of S together, unit by unit. *)
Units(f, S) == UNION {{r} \X (1 .. f[r]) : r \in S}
Sum(f, S)   == Cardinality(Units(f, S))

(* Every variable has its type. *)
TypeOK ==
  /\ balance \in Nat /\ earned \in Nat /\ paid \subseteq Requests /\ received \in Nat /\ tip \in {0, 1}
  /\ editing \in BOOLEAN /\ creditLock \in Requests \cup {None}
  /\ record \in [Requests -> {"none", "open", "settled", "reversed"}]
  /\ pushed \subseteq Requests
  /\ limit \in Int /\ window \in Nat
  /\ {blacklisted, guard, quarantined, tripped} \subseteq BOOLEAN
  /\ limitLock \in Requests \cup {None}
  /\ budgetLock \in Requests \cup {None}
  /\ pc \in [Requests -> Labels]
  /\ kind \in [Requests -> Kinds] /\ app \in [Requests -> BOOLEAN]
  /\ dead \subseteq Requests
  /\ remaining \in [Requests -> Nat \cup {None}] /\ frozen \in [Requests -> Nat]
  /\ tipOf \in [Requests -> {0, 1}] /\ seen \in [Requests -> Nat \X {0, 1}]
  /\ charged \in [Requests -> Nat]
  /\ wallet \in Int /\ refresh \in Int \cup {None}
  /\ crowd \in Nat
  /\ deposits \in 0 .. MaxDeposits /\ crashes \in 0 .. MaxCrashes
  /\ drops \in 0 .. MaxDrops

Init ==
  /\ balance = Opening /\ earned = 0 /\ paid = {} /\ received = 0 /\ tip = 0 /\ editing = FALSE
  /\ creditLock = None /\ limitLock = None /\ budgetLock = None
  /\ record = [r \in Requests |-> "none"]
  /\ pushed = {} /\ dead = {}
  /\ limit = Wallet - Threshold /\ wallet = Wallet /\ refresh = None
  /\ blacklisted \in BOOLEAN /\ quarantined = FALSE
  /\ window = 0 /\ tripped = FALSE
  /\ pc = [r \in Requests |-> "start"]
  /\ kind \in [Requests -> Kinds] /\ app \in [Requests -> BOOLEAN]
  /\ guard \in {FALSE} \cup {app[r] /\ kind[r] = "keysend" : r \in Requests}
  /\ remaining = [r \in Requests |-> None]
  /\ frozen = [r \in Requests |-> 0]
  /\ tipOf = [r \in Requests |-> 0] /\ seen = [r \in Requests |-> <<0, 0>>]
  /\ charged = [r \in Requests |-> 0]
  /\ crowd = 0 /\ deposits = 0 /\ crashes = 0 /\ drops = 0

At(r, label)   == r \notin dead /\ pc[r] = label
Goto(r, label) == pc' = [pc EXCEPT ![r] = label]

(* Mutant: an answer does not let the next event in. *)
LeaveHolding(r) == Goto(r, "done") /\ UNCHANGED budgetLock

(* The call throws or is over: an app's request leaves withBudgetLock. *)
Leave(r) ==
  /\ Goto(r, "done")
  /\ budgetLock' = IF budgetLock = r THEN None ELSE budgetLock

-----------------------------------------------------------------------------
(* Entry: an event of the app.  POST /payments calls debit() as it is. *)

DormantNow == Dormant /\ pushed = {}

(* The event handler: claimed once, and the app is fit to pay. *)
Receive(r) ==
  /\ At(r, "start") /\ app[r]
  /\ \/ quarantined /\ Goto(r, "done") /\ UNCHANGED quarantined
     \/ /\ ~quarantined
        /\ kind[r] = "keysend" /\ guard /\ DormantNow
        /\ quarantined' = TRUE /\ Goto(r, "done")
     \/ /\ ~quarantined
        /\ ~(kind[r] = "keysend" /\ guard /\ DormantNow)
        /\ Goto(r, "budget") /\ UNCHANGED quarantined
  /\ UNCHANGED <<balance, earned, paid, charged, invoice, record, pushed, limit,
                 blacklisted, guard, files, locks, request, node, crowd, bounds>>

(* What checkBudget counts: what was pushed and still has a record. *)
Spent == Sum(charged, {r \in pushed : record[r] # "reversed"})

(* Mutant: no withBudgetLock around the handlers. *)
CheckBudgetUnlocked(r) ==
  /\ At(r, "budget")
  /\ LET left == IF Spent > Budget THEN 0 ELSE Budget - Spent
     IN  IF Amount > left
         THEN Leave(r) /\ UNCHANGED remaining
         ELSE /\ Goto(r, "screen") /\ UNCHANGED budgetLock
              /\ remaining' = [remaining EXCEPT ![r] = left]
  /\ UNCHANGED <<balance, earned, paid, charged, invoice, record, pushed, limit, policy,
                 files, limitLock, kind, app, dead, frozen, tipOf,
                 seen, node, crowd, bounds>>

(* withBudgetLock and checkBudget: the app's requests go one at a time. *)
CheckBudget(r) ==
  /\ At(r, "budget") /\ budgetLock = None
  /\ LET left == IF Spent > Budget THEN 0 ELSE Budget - Spent
     IN  IF Amount > left
         THEN Goto(r, "done") /\ UNCHANGED <<budgetLock, remaining>>
         ELSE /\ Goto(r, "screen") /\ budgetLock' = r
              /\ remaining' = [remaining EXCEPT ![r] = left]
  /\ UNCHANGED <<balance, earned, paid, charged, invoice, record, pushed, limit, policy,
                 files, limitLock, kind, app, dead, frozen, tipOf,
                 seen, node, crowd, bounds>>

-----------------------------------------------------------------------------
(* debit() *)

(* The lists, switches and lock files, and the limit as it is right now.   *)
(* An operator may have set any switch: the request may be refused.        *)
Screen(r) ==
  /\ At(r, IF app[r] THEN "screen" ELSE "start")
  /\ \/ Leave(r)
     \/ /\ kind[r] \in External => ~tripped /\ Amount <= limit
        /\ Goto(r, IF kind[r] \in External THEN "limit" ELSE "load")
        /\ UNCHANGED budgetLock
  /\ UNCHANGED <<balance, earned, paid, charged, invoice, record, pushed, limit, policy,
                 files, limitLock, kind, app, dead, remaining, frozen,
                 tipOf, seen, node, crowd, bounds>>

(* Mutant: the limit is read without the lock. *)
ReadLimitUnlocked(r) ==
  /\ At(r, "limit")
  /\ IF Amount > limit THEN Leave(r)
     ELSE Goto(r, "reserve") /\ UNCHANGED budgetLock
  /\ UNCHANGED <<balance, earned, paid, charged, invoice, record, pushed, limit, policy,
                 files, limitLock, request, node, crowd, bounds>>

(* withLimitLock: the limit is read ... *)
ReadLimit(r) ==
  /\ At(r, "limit") /\ limitLock = None
  /\ IF Amount > limit
     THEN Leave(r) /\ UNCHANGED limitLock
     ELSE Goto(r, "reserve") /\ limitLock' = r /\ UNCHANGED budgetLock
  /\ UNCHANGED <<balance, earned, paid, charged, invoice, record, pushed, limit, policy,
                 files, request, node, crowd, bounds>>

(* ... and lowered. *)
Reserve(r) ==
  /\ At(r, "reserve")
  /\ limit' = limit - Amount
  /\ limitLock' = IF limitLock = r THEN None ELSE limitLock
  /\ Goto(r, "load")
  /\ UNCHANGED <<balance, earned, paid, charged, invoice, record, pushed, policy,
                 files, budgetLock, request, node, crowd, bounds>>

Total(r) == IF kind[r] = "internal" THEN Amount + tipOf[r] ELSE Amount + Fee

(* assertWithdrawBreaker *)
OverCap == window + Amount > Cap

(* Mutant: the breaker forgets the amount it is asked about. *)
LoadShort(r) ==
  /\ At(r, "load")
  /\ LET total   == IF kind[r] = "internal" THEN Amount + tip ELSE Amount + Fee
         already == kind[r] = "internal" /\ received >= Amount
         allowed == remaining[r] = None \/ total <= remaining[r]
         over    == kind[r] \in External /\ window > Cap
     IN  IF already \/ ~allowed \/ over
         THEN /\ Leave(r)
              /\ tripped' = (tripped \/ (~already /\ allowed /\ over))
              /\ UNCHANGED <<tipOf, crowd>>
         ELSE /\ Goto(r, IF blacklisted THEN "freeze" ELSE "check")
              /\ tipOf' = [tipOf EXCEPT ![r] = IF kind[r] = "internal" THEN tip ELSE 0]
              /\ crowd' = IF kind[r] \in External
                          THEN Max({crowd, Cardinality(Uncounted) + 1}) ELSE crowd
              /\ UNCHANGED <<tripped, budgetLock>>
  /\ UNCHANGED <<balance, earned, paid, charged, invoice, record, pushed, limit, policy,
                 window, limitLock, kind, app, dead, remaining, frozen,
                 seen, node, bounds>>

(* The invoice and its tip are read, the allowance and the breaker asked. *)
Load(r) ==
  /\ At(r, "load")
  /\ LET total   == IF kind[r] = "internal" THEN Amount + tip ELSE Amount + Fee
         already == kind[r] = "internal" /\ received >= Amount
         allowed == remaining[r] = None \/ total <= remaining[r]
         over    == kind[r] \in External /\ OverCap
     IN  IF already \/ ~allowed \/ over
         THEN /\ Leave(r)
              /\ tripped' = (tripped \/ (~already /\ allowed /\ over))
              /\ UNCHANGED <<tipOf, crowd>>
         ELSE /\ Goto(r, IF blacklisted THEN "freeze" ELSE "check")
              /\ tipOf' = [tipOf EXCEPT ![r] = IF kind[r] = "internal" THEN tip ELSE 0]
              /\ crowd' = IF kind[r] \in External
                          THEN Max({crowd, Cardinality(Uncounted) + 1}) ELSE crowd
              /\ UNCHANGED <<tripped, budgetLock>>
  /\ UNCHANGED <<balance, earned, paid, charged, invoice, record, pushed, limit, policy,
                 window, limitLock, kind, app, dead, remaining, frozen,
                 seen, node, bounds>>

(* A blacklisted user's balance is read to be kept out of reach. *)
ReadFrozen(r) ==
  /\ At(r, "freeze")
  /\ frozen' = [frozen EXCEPT ![r] = balance]
  /\ Goto(r, "check")
  /\ UNCHANGED <<balance, earned, paid, charged, invoice, record, pushed, limit, policy,
                 files, locks, kind, app, dead, remaining, tipOf, seen,
                 node, crowd, bounds>>

(* tbDebit looks at the balance ... *)
LedgerCheck(r) ==
  /\ At(r, "check")
  /\ IF balance - frozen[r] < Total(r) THEN Leave(r)
     ELSE Goto(r, "move") /\ UNCHANGED budgetLock
  /\ UNCHANGED <<balance, earned, paid, charged, invoice, record, pushed, limit, policy,
                 files, limitLock, request, node, crowd, bounds>>

(* ... and moves the money, if it is still there. *)
LedgerMove(r) ==
  /\ At(r, "move")
  /\ IF balance < Total(r)
     THEN Leave(r) /\ UNCHANGED <<balance, charged>>
     ELSE /\ balance' = balance - Total(r)
          /\ charged' = [charged EXCEPT ![r] = Total(r)]
          /\ Goto(r, IF kind[r] \in External THEN "count" ELSE "record")
          /\ UNCHANGED budgetLock
  /\ UNCHANGED <<earned, paid, invoice, record, pushed, limit, policy, files, limitLock,
                 request, node, crowd, bounds>>

(* recordWithdrawal *)
Count(r) ==
  /\ At(r, "count")
  /\ window' = window + Amount
  /\ Goto(r, "record")
  /\ UNCHANGED <<balance, earned, paid, charged, invoice, record, pushed, limit, policy,
                 tripped, locks, request, node, crowd, bounds>>

(* The payment record.  sendLightning returns here, while it is sent. *)
Record(r) ==
  /\ At(r, "record")
  /\ record' = [record EXCEPT ![r] = IF kind[r] = "internal" THEN "settled" ELSE "open"]
  /\ \/ kind[r] = "internal" /\ Goto(r, "credit")
     \/ kind[r] = "keysend" /\ Goto(r, "keysend")
     \/ kind[r] = "invoice" /\ Goto(r, IF app[r] THEN "push" ELSE "done")
  /\ UNCHANGED <<balance, earned, paid, charged, invoice, pushed, limit, policy, files,
                 locks, request, node, crowd, bounds>>

-----------------------------------------------------------------------------
(* sendInternal: credit() to the owner of the invoice *)

AfterCredit(r) == IF app[r] THEN "push" ELSE "done"

(* The invoice is read, and not read again under the lock. *)
CreditLoad(r) ==
  /\ At(r, "credit")
  /\ seen' = [seen EXCEPT ![r] = <<received, tip>>]
  /\ Goto(r, "lock")
  /\ UNCHANGED <<balance, earned, paid, charged, invoice, record, pushed, limit, policy,
                 files, locks, kind, app, dead, remaining, frozen,
                 tipOf, node, crowd, bounds>>

(* Mutant: the invoice is tested with this payment already counted. *)
CreditLockCounting(r) ==
  /\ At(r, "lock")
  /\ IF creditLock # None \/ seen[r][1] + Amount >= Amount
     THEN Leave(r) /\ UNCHANGED creditLock
     ELSE /\ creditLock' = r
          /\ Goto(r, "creditMove") /\ UNCHANGED budgetLock
  /\ UNCHANGED <<balance, earned, paid, charged, received, tip, editing, record, pushed, limit,
                 policy, files, limitLock, request, node, crowd, bounds>>

(* lock:credit, and the invoice's last check: who fails here has paid. *)
CreditLock(r) ==
  /\ At(r, "lock")
  /\ IF creditLock # None \/ seen[r][1] >= Amount
     THEN Leave(r) /\ UNCHANGED creditLock
     ELSE /\ creditLock' = r
          /\ Goto(r, "creditMove") /\ UNCHANGED budgetLock
  /\ UNCHANGED <<balance, earned, paid, charged, received, tip, editing, record, pushed, limit,
                 policy, files, limitLock, request, node, crowd, bounds>>

(* Mutant: the tip is taken from the invoice once more. *)
CreditLiveTip(r) ==
  /\ At(r, "creditMove")
  /\ earned' = earned + Amount + tip /\ paid' = paid \cup {r}
  /\ Goto(r, "creditSave")
  /\ UNCHANGED <<balance, charged, invoice, record, pushed, limit, policy, files,
                 locks, request, node, crowd, bounds>>

(* tbCredit, with the tip that the sender was charged. *)
CreditMove(r) ==
  /\ At(r, "creditMove")
  /\ earned' = earned + Amount + tipOf[r] /\ paid' = paid \cup {r}
  /\ Goto(r, "creditSave")
  /\ UNCHANGED <<balance, charged, invoice, record, pushed, limit, policy, files,
                 locks, request, node, crowd, bounds>>

(* The invoice as it was read, and the record, are stored; the lock goes. *)
CreditSave(r) ==
  /\ At(r, "creditSave")
  /\ received' = seen[r][1] + Amount + tipOf[r] /\ tip' = seen[r][2]
  /\ creditLock' = None
  /\ Goto(r, AfterCredit(r))
  /\ UNCHANGED <<balance, earned, paid, charged, editing, record, pushed, limit, policy,
                 files, locks, request, node, crowd, bounds>>

-----------------------------------------------------------------------------
(* External payments *)

(* The node pays, finalize() stores it; xpay and keysend alike. *)
Pays(r) ==
  /\ record[r] = "open"
  /\ record' = [record EXCEPT ![r] = "settled"]
  /\ wallet' = wallet - Amount

(* reverse(): the debit is given back and the record deleted. *)
GivesBack(r) ==
  /\ record[r] = "open"
  /\ record' = [record EXCEPT ![r] = "reversed"]
  /\ balance' = balance + charged[r]

(* An invoice is paid or fails, while its driver runs or by check(). *)
Resolve(r) ==
  /\ kind[r] = "invoice"
  /\ \/ Pays(r) /\ UNCHANGED balance
     \/ GivesBack(r) /\ UNCHANGED wallet
  /\ UNCHANGED <<earned, paid, charged, invoice, pushed, limit, policy, files, locks, pc,
                 request, refresh, crowd, bounds>>

(* ln.keysend returns: the request goes on to the app's list. *)
KeysendPays(r) ==
  /\ At(r, "keysend")
  /\ Pays(r)
  /\ Goto(r, AfterCredit(r))
  /\ UNCHANGED <<balance, earned, paid, charged, invoice, pushed, limit, policy, files,
                 locks, request, refresh, crowd, bounds>>

(* ln.keysend throws.  If listsendpays shows no part that may still pay,   *)
(* the debit is given back; else it stays, and nothing looks at it again.  *)
KeysendThrows(r) ==
  /\ At(r, "keysend")
  /\ \/ GivesBack(r)
     \/ UNCHANGED <<record, balance>>
  /\ Leave(r)
  /\ UNCHANGED <<earned, paid, charged, invoice, pushed, limit, policy, files, limitLock,
                 request, node, crowd, bounds>>

(* The socket is dropped under ln.keysend: the call never returns. *)
KeysendHangs(r) ==
  /\ At(r, "keysend") /\ drops < MaxDrops
  /\ drops' = drops + 1
  /\ Goto(r, "hung")
  /\ UNCHANGED <<balance, earned, paid, charged, invoice, record, pushed, limit, policy,
                 files, locks, request, node, crowd, deposits, crashes>>

(* What was left in flight is paid after all. *)
LatePay(r) ==
  /\ kind[r] = "keysend" /\ (r \in dead \/ pc[r] \in {"hung", "done"})
  /\ Pays(r)
  /\ UNCHANGED <<balance, earned, paid, charged, invoice, pushed, limit, policy, files,
                 locks, pc, request, refresh, crowd, bounds>>

(* The app's list gets the payment; up to 100 s for the preimage later the *)
(* app has its answer.                                                     *)
Push(r) ==
  /\ At(r, "push")
  /\ pushed' = pushed \cup {r}
  /\ Leave(r)
  /\ UNCHANGED <<balance, earned, paid, charged, invoice, record, limit, policy, files,
                 limitLock, request, node, crowd, bounds>>

-----------------------------------------------------------------------------
(* freezeCheck, every ten seconds: listfunds, then the limit is written. *)

RefreshRead ==
  /\ refresh = None /\ OfKind(External) # {}
  /\ refresh' = wallet
  /\ UNCHANGED <<balance, earned, paid, charged, invoice, record, pushed, limit, policy,
                 files, locks, pc, request, wallet, crowd, bounds>>

RefreshWrite ==
  /\ refresh # None /\ limitLock = None
  /\ limit' = IF refresh > Threshold THEN refresh - Threshold ELSE 0
  /\ refresh' = None
  /\ UNCHANGED <<balance, earned, paid, charged, invoice, record, pushed, policy, files,
                 locks, pc, request, wallet, crowd, bounds>>

-----------------------------------------------------------------------------
(* The world *)

(* Only what a blacklisted user may spend depends on when it comes. *)
Deposit ==
  /\ blacklisted /\ deposits < MaxDeposits
  /\ deposits' = deposits + 1
  /\ balance' = balance + 1
  /\ UNCHANGED <<earned, paid, charged, invoice, record, pushed, limit, policy, files,
                 locks, pc, request, node, crowd, crashes, drops>>

(* PUT /invoice, by anyone: the invoice is unpaid when it is read ... *)
EditRead ==
  /\ tip = 0 /\ received = 0 /\ ~editing /\ OfKind({"internal"}) # {}
  /\ editing' = TRUE
  /\ UNCHANGED <<balance, earned, paid, charged, received, tip, creditLock, record, pushed,
                 limit, policy, files, locks, pc, request, node, crowd, bounds>>

(* ... and is written as it was then, with the tip. *)
EditWrite ==
  /\ editing /\ editing' = FALSE
  /\ tip' = 1 /\ received' = 0
  /\ UNCHANGED <<balance, earned, paid, charged, creditLock, record, pushed, limit,
                 policy, files, locks, pc, request, node, crowd, bounds>>

(* lock:credit runs out 30 s after a process that left it. *)
CreditLockExpires ==
  /\ creditLock \in dead /\ creditLock' = None
  /\ UNCHANGED <<balance, earned, paid, charged, received, tip, editing, record, pushed, limit,
                 policy, files, locks, pc, request, node, crowd, bounds>>

Crash ==
  /\ crashes < MaxCrashes
  /\ crashes' = crashes + 1
  /\ dead' = dead \cup {r \in Requests : pc[r] \notin {"start", "done"}}
  /\ limitLock' = None /\ budgetLock' = None /\ refresh' = None
  /\ UNCHANGED <<balance, earned, paid, charged, invoice, record, pushed, limit, policy,
                 files, pc, kind, app, remaining, frozen, tipOf, seen,
                 wallet, crowd, deposits, drops>>

Step(r) ==
  \/ Receive(r) \/ CheckBudget(r) \/ Screen(r) \/ ReadLimit(r)
  \/ Reserve(r) \/ Load(r) \/ ReadFrozen(r) \/ LedgerCheck(r) \/ LedgerMove(r)
  \/ Count(r) \/ Record(r) \/ CreditLoad(r) \/ CreditLock(r) \/ CreditMove(r)
  \/ CreditSave(r) \/ KeysendPays(r) \/ KeysendThrows(r) \/ Push(r)

Next ==
  \/ \E r \in Requests : Step(r) \/ Resolve(r) \/ KeysendHangs(r) \/ LatePay(r)
  \/ RefreshRead \/ RefreshWrite
  \/ Deposit \/ EditRead \/ EditWrite \/ CreditLockExpires \/ Crash

Spec == Init /\ [][Next]_vars

(* A request that runs goes on; freezeCheck rearms itself. *)
Fairness ==
  /\ \A r \in Requests : WF_vars(pc[r] # "start" /\ Step(r))
  /\ WF_vars(RefreshWrite)

FairSpec == Spec /\ Fairness

-----------------------------------------------------------------------------
(* Properties *)

(* However many sends pass it at once, the limit of the hot wallet is      *)
(* never overdrawn: what it has reserved since freezeCheck wrote it is at  *)
(* most what was written (the drain behind withLimitLock, payments.ts 258).*)
LimitHolds == limit >= 0

ChargedIn(S)   == Sum(charged, S)
Kept(S)        == {r \in S : record[r] # "reversed"}

(* A transfer mints nothing: the owner of the invoice has at most what     *)
(* payers were charged for it, and the user has the rest, whatever happens *)
(* to the tip or to the request between debit() and credit().              *)
NothingMinted ==
  /\ earned <= ChargedIn(OfKind({"internal"}))
  /\ balance = Opening + deposits - ChargedIn(Kept(Requests))

(* What the budget does not see: a payment whose request died before the   *)
(* push, a keysend that threw while it was in flight (pay_keysend's catch),*)
(* and a transfer whose credit() was refused.                              *)
Unseen ==
  {r \in Requests : app[r] /\ r \notin pushed /\ (r \in dead \/ pc[r] \in {"done", "hung"})}

(* An app spends no more than its budget, fees and tips included, however  *)
(* many of its requests arrive at once, but for what the budget cannot see.*)
BudgetHolds ==
  ChargedIn(Kept({r \in Requests : app[r]} \ Unseen)) <= Budget

(* What has left the house passes the breaker's cap by no more than those  *)
(* withdrawals that were between its check and its file together with      *)
(* another one (withdraw-breaker.ts 124: "a ceiling rather than something  *)
(* noticed afterwards").                                                   *)
CapPassedByOverlapOnly ==
  LET withdrawn == {r \in OfKind(External) : charged[r] > 0 /\ record[r] # "none"}
  IN  Amount * Cardinality(withdrawn)
        <= Cap + (IF crowd > 0 THEN Amount * (crowd - 1) ELSE 0)

(* A request of an app gets its turn and an answer, unless the process     *)
(* dies or an earlier keysend of the app hangs on a dropped socket.        *)
AppsAnswered ==
  \A r \in Requests :
    (pc[r] = "budget")
      ~> (pc[r] = "done" \/ r \in dead \/ \E h \in Requests : pc[h] = "hung")

(* A payer's money goes to the owner of the invoice.  It is lost only with  *)
(* his process, or to another payer of the same invoice: debit() lets both  *)
(* pay and credit() turns one away, with no way back (payments.ts 624-628). *)
Lost(r) == kind[r] = "internal" /\ charged[r] > 0 /\ r \notin paid

LostOnlyToAnother ==
  \A r \in Requests : Lost(r) /\ pc[r] = "done" =>
    \E q \in Requests \ {r} : kind[q] = "internal" /\ charged[q] > 0

=============================================================================
