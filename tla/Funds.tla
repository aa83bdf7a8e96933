--------------------------------- MODULE Funds ---------------------------------
(***************************************************************************)
(* A fund: a ledger account of its own, reached by an id.  Its founder     *)
(* pays into it or authorizes others to charge him when they take from it; *)
(* whoever has the id takes, unless the fund has managers; and an          *)
(* LNURL-withdraw link pays a lightning invoice out of it.  Eviction of    *)
(* the founder closes the fund.                                            *)
(*                                                                         *)
(* One fund, one authorization of its founder, one withdraw token.  Every  *)
(* request moves one unit.                                                 *)
(***************************************************************************)
EXTENDS Integers, FiniteSets

CONSTANTS
  Requests,     \* requests that come to the fund
  None,         \* nobody
  Opening,      \* what the founder has at first
  Filled,       \* what the fund has at first
  MaxFaults,    \* bound: calls that throw
  MaxCrashes    \* bound: process crashes

ASSUME FundsAssumption ==
  /\ IsFiniteSet(Requests) /\ None \notin Requests
  /\ {Opening, Filled, MaxFaults, MaxCrashes} \subseteq Nat

VARIABLES
  founder,     \* ledger: the founder's balance
  fund,        \* ledger: the fund's balance
  out,         \* ledger and channels: what takers were credited or paid
  charged,     \* ledger: debits of the founder for the authorization
  auth,        \* redis: authorization:<id>
  claim,       \* redis: authorization:<id>:claimed
  managed,     \* redis: fund:<id>:managers is not empty
  disabled,    \* redis: fund:<id>:disabled
  token,       \* redis: lnurlw:<k1>
  pc, kind, role,
  dead,        \* requests whose process has crashed
  revoking,    \* DELETE of the authorization has read it and will delete it
  inflight,    \* withdrawals whose xpay has thrown and may still settle
  late,        \* those that were paid though the fund has its money back
  closed,      \* history: requests that came after the fund was disabled
  served,      \* history: requests that moved money out of the fund
  faults, crashes

money   == <<founder, fund, out, charged, late>>
redis   == <<auth, claim, token>>
gates   == <<managed, disabled>>
request == <<kind, role, dead, closed>>
bounds  == <<faults, crashes>>
vars    == <<money, redis, gates, pc, request, revoking, inflight, served, bounds>>

Kinds  == {"take", "give", "withdraw"}
Roles  == {"manager", "stranger", "whitelisted"}
Labels == {"start", "managers", "read", "claim", "charge", "fill", "mark", "release",
           "debit", "credit", "give", "giveFill", "token", "gate", "payDebit",
           "xpay", "note", "giveBack", "done"}

TypeOK ==
  /\ {founder, fund, out, charged, late, faults, crashes} \subseteq Nat
  /\ auth \in {"open", "claimed", "gone"} /\ claim \in Requests \cup {None}
  /\ token \in {"live", "used"} /\ {managed, disabled, revoking} \subseteq BOOLEAN
  /\ pc \in [Requests -> Labels]
  /\ kind \in [Requests -> Kinds] /\ role \in [Requests -> Roles]
  /\ {dead, inflight, closed, served} \subseteq SUBSET Requests

Init ==
  /\ founder = Opening /\ fund = Filled
  /\ out = 0 /\ charged = 0 /\ late = 0 /\ faults = 0 /\ crashes = 0
  /\ auth = "open" /\ claim = None /\ token = "live"
  /\ managed \in BOOLEAN /\ disabled = FALSE /\ revoking = FALSE
  /\ pc = [r \in Requests |-> "start"]
  /\ kind \in [Requests -> Kinds] /\ role \in [Requests -> Roles]
  /\ dead = {} /\ inflight = {} /\ closed = {} /\ served = {}

At(r, label)   == r \notin dead /\ pc[r] = label
Goto(r, label) == pc' = [pc EXCEPT ![r] = label]

-----------------------------------------------------------------------------
(* POST /take *)

Refused(r) == disabled /\ role[r] # "whitelisted"

(* The switches are read: fund:disabled and the fund's own. *)
TakeStart(r) ==
  /\ At(r, "start") /\ kind[r] = "take"
  /\ closed' = IF disabled THEN closed \cup {r} ELSE closed
  /\ Goto(r, IF Refused(r) THEN "done" ELSE "managers")
  /\ UNCHANGED <<money, redis, gates, kind, role, dead, revoking, inflight, served,
                 bounds>>

(* A fund with managers is theirs. *)
TakeManagers(r) ==
  /\ At(r, "managers")
  /\ Goto(r, IF managed /\ role[r] # "manager" THEN "done" ELSE "read")
  /\ UNCHANGED <<money, redis, gates, request, revoking, inflight, served, bounds>>

(* The authorization is looked up. *)
TakeRead(r) ==
  /\ At(r, "read")
  /\ Goto(r, IF auth = "open" THEN "claim" ELSE "debit")
  /\ UNCHANGED <<money, redis, gates, request, revoking, inflight, served, bounds>>

(* Mutant: the record that was read is the only claim (COINOS-3). *)
TakeClaimBlind(r) ==
  /\ At(r, "claim")
  /\ claim' = r /\ Goto(r, "charge")
  /\ UNCHANGED <<money, auth, token, gates, request, revoking, inflight, served,
                 bounds>>

(* SET NX: who is second takes without filling the fund. *)
TakeClaim(r) ==
  /\ At(r, "claim")
  /\ IF claim = None THEN claim' = r /\ Goto(r, "charge")
     ELSE Goto(r, "debit") /\ UNCHANGED claim
  /\ UNCHANGED <<money, auth, token, gates, request, revoking, inflight, served,
                 bounds>>

(* debit() of the founder: refused when he is short, frozen or over a limit. *)
TakeCharge(r) ==
  /\ At(r, "charge")
  /\ \/ /\ founder > 0 /\ founder' = founder - 1 /\ charged' = charged + 1
        /\ Goto(r, "fill")
     \/ Goto(r, "release") /\ UNCHANGED <<founder, charged>>
  /\ UNCHANGED <<fund, out, late, redis, gates, request, revoking, inflight, served,
                 bounds>>

(* tbFundCredit *)
TakeFill(r) ==
  /\ At(r, "fill")
  /\ fund' = fund + 1 /\ Goto(r, "mark")
  /\ UNCHANGED <<founder, out, charged, late, redis, gates, request, revoking,
                 inflight, served, bounds>>

(* The record, as it was read, is stored as claimed. *)
TakeMark(r) ==
  /\ At(r, "mark")
  /\ auth' = "claimed" /\ Goto(r, "debit")
  /\ UNCHANGED <<money, claim, token, gates, request, revoking, inflight, served,
                 bounds>>

(* A call of the funding block throws. *)
TakeFails(r) ==
  /\ r \notin dead /\ pc[r] \in {"charge", "fill", "mark"} /\ faults < MaxFaults
  /\ faults' = faults + 1 /\ Goto(r, "release")
  /\ UNCHANGED <<money, redis, gates, request, revoking, inflight, served, crashes>>

(* Mutant: a failed funding keeps the claim. *)
TakeReleaseNot(r) ==
  /\ At(r, "release")
  /\ Goto(r, "done")
  /\ UNCHANGED <<money, redis, gates, request, revoking, inflight, served, bounds>>

(* The catch lets the claim go, whatever had happened. *)
TakeRelease(r) ==
  /\ At(r, "release")
  /\ claim' = None /\ Goto(r, "done")
  /\ UNCHANGED <<money, auth, token, gates, request, revoking, inflight, served,
                 bounds>>

(* Mutant: the error that tbFundDebit returns is not looked at. *)
TakeDebitUnchecked(r) ==
  /\ At(r, "debit")
  /\ fund' = IF fund > 0 THEN fund - 1 ELSE fund
  /\ Goto(r, "credit")
  /\ UNCHANGED <<founder, out, charged, late, redis, gates, request, revoking,
                 inflight, served, bounds>>

(* tbFundDebit: the ledger refuses an empty fund. *)
TakeDebit(r) ==
  /\ At(r, "debit")
  /\ IF fund > 0 THEN fund' = fund - 1 /\ Goto(r, "credit")
     ELSE Goto(r, "done") /\ UNCHANGED fund
  /\ UNCHANGED <<founder, out, charged, late, redis, gates, request, revoking,
                 inflight, served, bounds>>

(* credit() of the taker, or its refusal, with the fund already debited. *)
TakeCredit(r) ==
  /\ At(r, "credit")
  /\ \/ out' = out + 1 /\ served' = served \cup {r} /\ UNCHANGED faults
     \/ faults < MaxFaults /\ faults' = faults + 1 /\ UNCHANGED <<out, served>>
  /\ Goto(r, "done")
  /\ UNCHANGED <<founder, fund, charged, late, redis, gates, request, revoking,
                 inflight, crashes>>

-----------------------------------------------------------------------------
(* POST /payments with a fund *)

(* The switches; a freeze keeps new funds from being made. *)
GiveStart(r) ==
  /\ At(r, "start") /\ kind[r] = "give"
  /\ closed' = IF disabled THEN closed \cup {r} ELSE closed
  /\ Goto(r, IF Refused(r) THEN "done" ELSE "give")
  /\ UNCHANGED <<money, redis, gates, kind, role, dead, revoking, inflight, served,
                 bounds>>

GiveDebit(r) ==
  /\ At(r, "give")
  /\ \/ founder > 0 /\ founder' = founder - 1 /\ Goto(r, "giveFill")
     \/ Goto(r, "done") /\ UNCHANGED founder
  /\ UNCHANGED <<fund, out, charged, late, redis, gates, request, revoking, inflight,
                 served, bounds>>

GiveFill(r) ==
  /\ At(r, "giveFill")
  /\ fund' = fund + 1 /\ Goto(r, "done")
  /\ UNCHANGED <<founder, out, charged, late, redis, gates, request, revoking,
                 inflight, served, bounds>>

-----------------------------------------------------------------------------
(* GET /lnurlw/:fundId/callback, by anyone with the token *)

PayStart(r) ==
  /\ At(r, "start") /\ kind[r] = "withdraw"
  /\ closed' = IF disabled THEN closed \cup {r} ELSE closed
  /\ Goto(r, IF token = "live" THEN "token" ELSE "done")
  /\ UNCHANGED <<money, redis, gates, kind, role, dead, revoking, inflight, served,
                 bounds>>

(* DEL: one caller gets the token. *)
PayToken(r) ==
  /\ At(r, "token")
  /\ token' = "used"
  /\ Goto(r, IF token = "live" THEN "gate" ELSE "done")
  /\ UNCHANGED <<money, auth, claim, gates, request, revoking, inflight, served,
                 bounds>>

(* Mutant: the stop controls are in debit() only. *)
PayGateOpen(r) ==
  /\ At(r, "gate")
  /\ Goto(r, IF fund > 0 THEN "payDebit" ELSE "done")
  /\ UNCHANGED <<money, redis, gates, request, revoking, inflight, served, bounds>>

(* The fund's balance and assertFundWithdrawable: the switches, the lock   *)
(* files and the cumulative breaker may refuse as well.                    *)
PayGate(r) ==
  /\ At(r, "gate")
  /\ \/ fund > 0 /\ ~disabled /\ Goto(r, "payDebit")
     \/ Goto(r, "done")
  /\ UNCHANGED <<money, redis, gates, request, revoking, inflight, served, bounds>>

PayDebit(r) ==
  /\ At(r, "payDebit")
  /\ IF fund > 0 THEN fund' = fund - 1 /\ Goto(r, "xpay")
     ELSE Goto(r, "done") /\ UNCHANGED fund
  /\ UNCHANGED <<founder, out, charged, late, redis, gates, request, revoking,
                 inflight, served, bounds>>

PaySettles(r) ==
  /\ At(r, "xpay")
  /\ out' = out + 1 /\ served' = served \cup {r} /\ Goto(r, "note")
  /\ UNCHANGED <<founder, fund, charged, late, redis, gates, request, revoking,
                 inflight, bounds>>

(* recordFundWithdrawal, and the payment on the fund's list. *)
PayNoted(r) ==
  /\ At(r, "note")
  /\ Goto(r, "done")
  /\ UNCHANGED <<money, redis, gates, request, revoking, inflight, served, bounds>>

(* One of the two throws, into the catch that takes the payment for failed. *)
PayNoteFails(r) ==
  /\ At(r, "note") /\ faults < MaxFaults
  /\ faults' = faults + 1 /\ late' = late + 1 /\ Goto(r, "giveBack")
  /\ UNCHANGED <<founder, fund, out, charged, redis, gates, request, revoking,
                 inflight, served, crashes>>

(* xpay throws: the payment has failed, or part of it is still in flight. *)
PayThrows(r) ==
  /\ At(r, "xpay")
  /\ inflight' \in {inflight, inflight \cup {r}}
  /\ Goto(r, "giveBack")
  /\ UNCHANGED <<money, redis, gates, request, revoking, served, bounds>>

(* The catch puts the money back. *)
PayGiveBack(r) ==
  /\ At(r, "giveBack")
  /\ fund' = fund + 1 /\ Goto(r, "done")
  /\ UNCHANGED <<founder, out, charged, late, redis, gates, request, revoking,
                 inflight, served, bounds>>

(* What was in flight is paid after all. *)
PaysLate(r) ==
  /\ r \in inflight
  /\ inflight' = inflight \ {r}
  /\ out' = out + 1 /\ late' = late + 1 /\ served' = served \cup {r}
  /\ UNCHANGED <<founder, fund, charged, redis, gates, pc, request, revoking, bounds>>

-----------------------------------------------------------------------------
(* The founder, the managers and the operator *)

(* DELETE of the authorization: it must be there and unclaimed ... *)
RevokeRead ==
  /\ auth = "open" /\ ~revoking /\ revoking' = TRUE
  /\ UNCHANGED <<money, redis, gates, pc, request, inflight, served, bounds>>

(* ... and is deleted, claimed since then or not. *)
RevokeDelete ==
  /\ revoking /\ revoking' = FALSE /\ auth' = "gone"
  /\ UNCHANGED <<money, claim, token, gates, pc, request, inflight, served, bounds>>

(* addManager: of a fund without managers, by anyone. *)
AddManager ==
  /\ ~managed /\ managed' = TRUE
  /\ UNCHANGED <<money, redis, disabled, pc, request, revoking, inflight, served,
                 bounds>>

(* deleteManager, of the last one. *)
DeleteManager ==
  /\ managed /\ managed' = FALSE
  /\ UNCHANGED <<money, redis, disabled, pc, request, revoking, inflight, served,
                 bounds>>

(* disableFoundedFunds: both commands go out in one tick. *)
Evict ==
  /\ ~disabled /\ disabled' = TRUE /\ managed' = FALSE
  /\ UNCHANGED <<money, redis, pc, request, revoking, inflight, served, bounds>>

Crash ==
  /\ crashes < MaxCrashes /\ crashes' = crashes + 1
  /\ dead' = dead \cup {r \in Requests : pc[r] \notin {"start", "done"}}
  /\ revoking' = FALSE
  /\ UNCHANGED <<money, redis, gates, pc, kind, role, closed, inflight, served,
                 faults>>

-----------------------------------------------------------------------------
Take(r) ==
  \/ TakeManagers(r) \/ TakeRead(r) \/ TakeClaim(r) \/ TakeCharge(r)
  \/ TakeFill(r) \/ TakeMark(r) \/ TakeRelease(r) \/ TakeDebit(r) \/ TakeCredit(r)

Give(r) == GiveDebit(r) \/ GiveFill(r)

Pay(r) ==
  \/ PayToken(r) \/ PayGate(r) \/ PayDebit(r) \/ PaySettles(r) \/ PayNoted(r)
  \/ PayNoteFails(r) \/ PayThrows(r) \/ PayGiveBack(r)

Next ==
  \/ \E r \in Requests :
       \/ TakeStart(r) \/ Take(r) \/ TakeFails(r)
       \/ GiveStart(r) \/ Give(r)
       \/ PayStart(r) \/ Pay(r) \/ PaysLate(r)
  \/ RevokeRead \/ RevokeDelete \/ AddManager \/ DeleteManager \/ Evict \/ Crash

Spec == Init /\ [][Next]_vars

(* A request that runs goes on. *)
Fairness == \A r \in Requests : WF_vars(Take(r))

FairSpec == Spec /\ Fairness

-----------------------------------------------------------------------------
(* Properties *)

(* What may be used once is used once: the authorization charges its       *)
(* founder once, and once more for each call that threw under a claim; the *)
(* withdraw token pays one invoice.                                        *)
UsedOnce ==
  /\ charged <= 1 + faults
  /\ Cardinality({r \in served : kind[r] = "withdraw"}) <= 1

(* The fund pays no more than was paid into it, but for the withdrawals    *)
(* that were paid although the fund has the money back: the catch of the   *)
(* callback takes whatever throws for a failed payment (lnurl.ts 388), an  *)
(* xpay with parts still in flight and a note of a payment that was made.  *)
FundCovered == founder + fund + out <= Opening + Filled + late

(* Nothing leaves the fund for a request that came after the eviction of   *)
(* its founder, unless it is a whitelisted operator's: the containment of  *)
(* auth.ts 94-107, which the withdraw link once lacked.                    *)
DisabledIsClosed == \A r \in closed \cap served : kind[r] = "take" /\ role[r] = "whitelisted"

(* A claim is not held for nothing: the authorization is marked, or the    *)
(* claim is let go for the next taker, unless its process has died.        *)
ClaimSettles ==
  \A r \in Requests :
    (claim = r) ~> (auth = "claimed" \/ auth = "gone" \/ claim # r \/ r \in dead)

=============================================================================
