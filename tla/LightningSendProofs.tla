------------------------- MODULE LightningSendProofs -------------------------
(***************************************************************************)
(* Theorems about LightningSend, for any sets of attempts and invoices and *)
(* any number of crashes, dropped sockets and failed writes.               *)
(***************************************************************************)
EXTENDS LightningSend, FiniteSetTheorems, TLAPS

(* What the sweep works on is known as soon as it works on something. *)
SweepInv ==
  /\ pc[Sweep] \notin {"idle", "next"} => item \in Invoices
  /\ pc[Sweep] \in {"query"} \cup SharedLabels => cur \in Attempts

TypeInv == TypeOK /\ SweepInv

Early == {"start", "claim", "debit", "record", "store"}
Busy  == {"revRead", "revLedger", "revClean"}
Faults == crashes + storeFails

(* Until its record is stored, nothing was given back for a payment and the *)
(* sweep knows nothing of it.                                               *)
FreshInv ==
  \A a \in Attempts :
    pc[a] \in Early => record[a] = "none" /\ returned[a] = 0 /\ cur # a

(* A reversal under way holds the claim, and there is one for a payment. *)
ClaimInv ==
  /\ \A q \in Procs : pc[q] \in Busy => Payment(q) \in reversing
  /\ \A q, r \in Procs :
       (pc[q] \in Busy /\ pc[r] \in Busy /\ Payment(q) = Payment(r)) => q = r

(* Whoever may still give the debit of a payment back, it was not given back *)
(* before, unless a fault cut the reversal off that did.                     *)
CountInv ==
  /\ RefundsBoundedByFaults
  /\ \A q \in Procs : pc[q] = "revLedger" => returned[Payment(q)] <= Faults
  /\ \A a \in Attempts :
       \/ record[a] # "open"
       \/ \E q \in Procs : pc[q] = "revClean" /\ Payment(q) = a
       \/ returned[a] <= Faults

ReverseInv == FreshInv /\ ClaimInv /\ CountInv

(* Whoever gives a fee back holds the claim on it, alone and for the first *)
(* time.                                                                   *)
FeeInv ==
  /\ FeeRefundedOnce
  /\ \A a \in Attempts : a \notin refunded => feeBack[a] = 0
  /\ \A q \in Procs :
       pc[q] = "finRefund" => Payment(q) \in refunded /\ feeBack[Payment(q)] = 0
  /\ \A q, r \in Procs :
       (pc[q] = "finRefund" /\ pc[r] = "finRefund" /\ Payment(q) = Payment(r)) => q = r

-----------------------------------------------------------------------------
(* Types *)

(* The initial state has the types. *)
LEMMA TypeInit == ASSUME Init PROVE TypeInv
BY SendAssumption DEF SendAssumption, Init, TypeInv, TypeOK, SweepInv, Procs, DriverLabels,
  SweepLabels, SharedLabels, Status

(* Every step keeps the types. *)
LEMMA TypeNext == ASSUME TypeInv, [Next]_vars PROVE TypeInv'
<1> USE SendAssumption DEF SendAssumption, TypeInv, TypeOK, SweepInv, Procs,
      DriverLabels, SweepLabels,
      SharedLabels, Status, store, ledger, sweep, network, faults, Goto, Return,
      Payment, Invoice
<1>1. ASSUME NEW a \in Attempts, Precheck(a) PROVE TypeInv'
  BY <1>1 DEF Precheck
<1>2. ASSUME NEW a \in Attempts, Claim(a) PROVE TypeInv'
  BY <1>2 DEF Claim
<1>3. ASSUME NEW a \in Attempts, Debit(a) PROVE TypeInv'
  BY <1>3 DEF Debit
<1>4. ASSUME NEW a \in Attempts, Record(a) PROVE TypeInv'
  BY <1>4 DEF Record
<1>5. ASSUME NEW a \in Attempts, RecordFails(a) PROVE TypeInv'
  BY <1>5 DEF RecordFails
<1>6. ASSUME NEW a \in Attempts, Release(a) PROVE TypeInv'
  BY <1>6 DEF Release
<1>7. ASSUME NEW a \in Attempts, CallXpay(a) PROVE TypeInv'
  BY <1>7 DEF CallXpay
<1>8. ASSUME NEW a \in Attempts, XpayPays(a) PROVE TypeInv'
  BY <1>8 DEF XpayPays, Paid
<1>9. ASSUME NEW a \in Attempts, XpayThrows(a) PROVE TypeInv'
  BY <1>9 DEF XpayThrows
<1>10. ASSUME NEW a \in Attempts, CallLnd(a) PROVE TypeInv'
  BY <1>10 DEF CallLnd
<1>11. ASSUME NEW a \in Attempts, DeclineLnd(a) PROVE TypeInv'
  BY <1>11 DEF DeclineLnd
<1>12. ASSUME NEW a \in Attempts, LndReturns(a) PROVE TypeInv'
  BY <1>12 DEF LndReturns, Paid
<1>13. ASSUME NEW a \in Attempts, Verify(a) PROVE TypeInv'
  BY <1>13 DEF Verify
<1>14. ASSUME NEW a \in Attempts, Unclaim(a) PROVE TypeInv'
  BY <1>14 DEF Unclaim
<1>15. ASSUME NEW q \in Procs, Finalize(q) PROVE TypeInv'
  BY <1>15 DEF Finalize
<1>16. ASSUME NEW q \in Procs, FinalizeRead(q) PROVE TypeInv'
  BY <1>16, SMTT(60) DEF FinalizeRead
<1>17. ASSUME NEW q \in Procs, FinalizeCheck(q) PROVE TypeInv'
  BY <1>17 DEF FinalizeCheck
<1>18. ASSUME NEW q \in Procs, FinalizeSave(q) PROVE TypeInv'
  BY <1>18 DEF FinalizeSave
<1>19. ASSUME NEW q \in Procs, FinalizeSaveFails(q) PROVE TypeInv'
  BY <1>19 DEF FinalizeSaveFails
<1>20. ASSUME NEW q \in Procs, FinalizeClaim(q) PROVE TypeInv'
  BY <1>20 DEF FinalizeClaim
<1>21. ASSUME NEW q \in Procs, FinalizeRefund(q) PROVE TypeInv'
  BY <1>21 DEF FinalizeRefund
<1>22. ASSUME NEW q \in Procs, Reverse(q) PROVE TypeInv'
  BY <1>22 DEF Reverse
<1>23. ASSUME NEW q \in Procs, ReverseRead(q) PROVE TypeInv'
  BY <1>23 DEF ReverseRead
<1>24. ASSUME NEW q \in Procs, ReverseLedger(q) PROVE TypeInv'
  BY <1>24 DEF ReverseLedger
<1>25. ASSUME NEW q \in Procs, ReverseClean(q) PROVE TypeInv'
  BY <1>25 DEF ReverseClean
<1>26. ASSUME NEW q \in Procs, ReverseFails(q) PROVE TypeInv'
  BY <1>26 DEF ReverseFails
<1>27. ASSUME SweepStart PROVE TypeInv'
  BY <1>27 DEF SweepStart
<1>28. ASSUME SweepNext PROVE TypeInv'
  BY <1>28 DEF SweepNext
<1>29. ASSUME SweepLoad PROVE TypeInv'
  BY <1>29 DEF SweepLoad
<1>30. ASSUME SweepDrop PROVE TypeInv'
  BY <1>30 DEF SweepDrop
<1>31. ASSUME SweepQuery PROVE TypeInv'
  BY <1>31 DEF SweepQuery, Launchable
<1>32. ASSUME SweepAborts PROVE TypeInv'
  BY <1>32 DEF SweepAborts
<1>33. ASSUME NEW a \in Attempts, LaunchPart(a) PROVE TypeInv'
  BY <1>33 DEF LaunchPart, Launchable
<1>34. ASSUME NEW a \in Attempts, ClaimExpires(a) PROVE TypeInv'
  BY <1>34 DEF ClaimExpires
<1>35. ASSUME NEW i \in Invoices, ClnPart(i) PROVE TypeInv'
  BY <1>35 DEF ClnPart
<1>36. ASSUME NEW i \in Invoices, LndPart(i) PROVE TypeInv'
  BY <1>36 DEF LndPart
<1>37. ASSUME Tick PROVE TypeInv'
  BY <1>37 DEF Tick
<1>38. ASSUME SocketDrops PROVE TypeInv'
  BY <1>38 DEF SocketDrops
<1>39. ASSUME Crash PROVE TypeInv'
  BY <1>39 DEF Crash
<1>40. CASE UNCHANGED vars
  BY <1>40 DEF vars
<1> QED
  BY <1>1, <1>2, <1>3, <1>4, <1>5, <1>6, <1>7, <1>8, <1>9, <1>10, <1>11,
     <1>12, <1>13, <1>14, <1>15, <1>16, <1>17, <1>18, <1>19, <1>20, <1>21,
     <1>22, <1>23, <1>24, <1>25, <1>26, <1>27, <1>28, <1>29, <1>30, <1>31,
     <1>32, <1>33, <1>34, <1>35, <1>36, <1>37, <1>38, <1>39, <1>40
     DEF Next, Driver, FinalizeStep, ReverseStep, SweepStep, Network

(* Every variable has its type in every reachable state. *)
THEOREM TypeCorrect == Spec => []TypeOK
<1>1. Init => TypeInv
  BY TypeInit
<1>2. TypeInv /\ [Next]_vars => TypeInv'
  BY TypeNext
<1>3. TypeInv => TypeOK
  BY DEF TypeInv
<1> QED
  BY <1>1, <1>2, <1>3, PTL DEF Spec

(* The typing that the other proofs use. *)
THEOREM TypeCorrectInv == Spec => []TypeInv
<1>1. Init => TypeInv
  BY TypeInit
<1>2. TypeInv /\ [Next]_vars => TypeInv'
  BY TypeNext
<1> QED
  BY <1>1, <1>2, PTL DEF Spec

-----------------------------------------------------------------------------
(* reverse() *)

(* Nothing is reversed, claimed or given back at first. *)
LEMMA ReverseInit == ASSUME Init PROVE ReverseInv
BY SendAssumption DEF SendAssumption, Init, ReverseInv, FreshInv, ClaimInv, CountInv,
  RefundsBoundedByFaults, Early, Busy, Faults, Procs, Payment

(* Every step keeps the claim on a reversal exclusive and the count bounded: *)
(* the steps that matter are Reverse (takes the claim), ReverseRead (finds    *)
(* the record open), ReverseLedger (counts), ReverseClean (deletes the        *)
(* record) and the faults that separate the last two.                         *)
LEMMA ReverseNext ==
  ASSUME TypeInv, TypeInv', ReverseInv, [Next]_vars PROVE ReverseInv'
<1> USE SendAssumption DEF SendAssumption, TypeInv, TypeOK, SweepInv, Procs,
      DriverLabels, SweepLabels,
      SharedLabels, Status,
      ReverseInv, FreshInv, ClaimInv, CountInv, RefundsBoundedByFaults, Early, Busy,
      Faults, store, ledger, sweep, network, faults, Goto, Return, Payment, Invoice
<1>1. ASSUME NEW a \in Attempts, Precheck(a) PROVE ReverseInv'
  BY <1>1 DEF Precheck
<1>2. ASSUME NEW a \in Attempts, Claim(a) PROVE ReverseInv'
  BY <1>2 DEF Claim
<1>3. ASSUME NEW a \in Attempts, Debit(a) PROVE ReverseInv'
  BY <1>3 DEF Debit
<1>4. ASSUME NEW a \in Attempts, Record(a) PROVE ReverseInv'
  BY <1>4 DEF Record
<1>5. ASSUME NEW a \in Attempts, RecordFails(a) PROVE ReverseInv'
  BY <1>5 DEF RecordFails
<1>6. ASSUME NEW a \in Attempts, Release(a) PROVE ReverseInv'
  BY <1>6 DEF Release
<1>7. ASSUME NEW a \in Attempts, CallXpay(a) PROVE ReverseInv'
  BY <1>7 DEF CallXpay
<1>8. ASSUME NEW a \in Attempts, XpayPays(a) PROVE ReverseInv'
  BY <1>8 DEF XpayPays, Paid
<1>9. ASSUME NEW a \in Attempts, XpayThrows(a) PROVE ReverseInv'
  BY <1>9 DEF XpayThrows
<1>10. ASSUME NEW a \in Attempts, CallLnd(a) PROVE ReverseInv'
  BY <1>10 DEF CallLnd
<1>11. ASSUME NEW a \in Attempts, DeclineLnd(a) PROVE ReverseInv'
  BY <1>11 DEF DeclineLnd
<1>12. ASSUME NEW a \in Attempts, LndReturns(a) PROVE ReverseInv'
  BY <1>12 DEF LndReturns, Paid
<1>13. ASSUME NEW a \in Attempts, Verify(a) PROVE ReverseInv'
  BY <1>13 DEF Verify
<1>14. ASSUME NEW a \in Attempts, Unclaim(a) PROVE ReverseInv'
  BY <1>14 DEF Unclaim
<1>15. ASSUME NEW q \in Procs, Finalize(q) PROVE ReverseInv'
  BY <1>15 DEF Finalize
<1>16. ASSUME NEW q \in Procs, FinalizeRead(q) PROVE ReverseInv'
  BY <1>16 DEF FinalizeRead
<1>17. ASSUME NEW q \in Procs, FinalizeCheck(q) PROVE ReverseInv'
  BY <1>17 DEF FinalizeCheck
<1>18. ASSUME NEW q \in Procs, FinalizeSave(q) PROVE ReverseInv'
  BY <1>18, SMTT(60) DEF FinalizeSave
<1>19. ASSUME NEW q \in Procs, FinalizeSaveFails(q) PROVE ReverseInv'
  BY <1>19 DEF FinalizeSaveFails
<1>20. ASSUME NEW q \in Procs, FinalizeClaim(q) PROVE ReverseInv'
  BY <1>20 DEF FinalizeClaim
<1>21. ASSUME NEW q \in Procs, FinalizeRefund(q) PROVE ReverseInv'
  BY <1>21 DEF FinalizeRefund
<1>22. ASSUME NEW q \in Procs, Reverse(q) PROVE ReverseInv'
  <2>1. FreshInv' /\ CountInv'
    BY <1>22 DEF Reverse
  <2>2. ClaimInv'
    <3>1. CASE Payment(q) \in reversing
      BY <1>22, <3>1 DEF Reverse
    <3>2. CASE Payment(q) \notin reversing
      BY <1>22, <3>2 DEF Reverse
    <3> QED
      BY <3>1, <3>2
  <2> QED
    BY <2>1, <2>2
<1>23. ASSUME NEW q \in Procs, ReverseRead(q) PROVE ReverseInv'
  BY <1>23 DEF ReverseRead
<1>24. ASSUME NEW q \in Procs, ReverseLedger(q) PROVE ReverseInv'
  BY <1>24 DEF ReverseLedger
<1>25. ASSUME NEW q \in Procs, ReverseClean(q) PROVE ReverseInv'
  BY <1>25 DEF ReverseClean
<1>26. ASSUME NEW q \in Procs, ReverseFails(q) PROVE ReverseInv'
  BY <1>26 DEF ReverseFails
<1>27. ASSUME SweepStart PROVE ReverseInv'
  BY <1>27 DEF SweepStart
<1>28. ASSUME SweepNext PROVE ReverseInv'
  BY <1>28 DEF SweepNext
<1>29. ASSUME SweepLoad PROVE ReverseInv'
  BY <1>29 DEF SweepLoad
<1>30. ASSUME SweepDrop PROVE ReverseInv'
  BY <1>30 DEF SweepDrop
<1>31. ASSUME SweepQuery PROVE ReverseInv'
  BY <1>31 DEF SweepQuery, Launchable
<1>32. ASSUME SweepAborts PROVE ReverseInv'
  BY <1>32 DEF SweepAborts
<1>33. ASSUME NEW a \in Attempts, LaunchPart(a) PROVE ReverseInv'
  BY <1>33 DEF LaunchPart, Launchable
<1>34. ASSUME NEW a \in Attempts, ClaimExpires(a) PROVE ReverseInv'
  BY <1>34 DEF ClaimExpires
<1>35. ASSUME NEW i \in Invoices, ClnPart(i) PROVE ReverseInv'
  BY <1>35 DEF ClnPart
<1>36. ASSUME NEW i \in Invoices, LndPart(i) PROVE ReverseInv'
  BY <1>36 DEF LndPart
<1>37. ASSUME Tick PROVE ReverseInv'
  BY <1>37 DEF Tick
<1>38. ASSUME SocketDrops PROVE ReverseInv'
  BY <1>38, ZenonT(60) DEF SocketDrops
<1>39. ASSUME Crash PROVE ReverseInv'
  BY <1>39 DEF Crash
<1>40. CASE UNCHANGED vars
  BY <1>40 DEF vars
<1> QED
  BY <1>1, <1>2, <1>3, <1>4, <1>5, <1>6, <1>7, <1>8, <1>9, <1>10, <1>11,
     <1>12, <1>13, <1>14, <1>15, <1>16, <1>17, <1>18, <1>19, <1>20, <1>21,
     <1>22, <1>23, <1>24, <1>25, <1>26, <1>27, <1>28, <1>29, <1>30, <1>31,
     <1>32, <1>33, <1>34, <1>35, <1>36, <1>37, <1>38, <1>39, <1>40
     DEF Next, Driver, FinalizeStep, ReverseStep, SweepStep, Network

(* The debit of a payment is given back once, and once more at most for each *)
(* crash and each failed call.                                               *)
THEOREM RefundsBounded == Spec => []RefundsBoundedByFaults
<1>1. Init => ReverseInv
  BY ReverseInit
<1>2. TypeInv /\ TypeInv' /\ ReverseInv /\ [Next]_vars => ReverseInv'
  BY ReverseNext
<1>3. ReverseInv => RefundsBoundedByFaults
  BY DEF ReverseInv, CountInv
<1>4. Spec => []TypeInv
  BY TypeCorrectInv
<1> QED
  BY <1>1, <1>2, <1>3, <1>4, PTL DEF Spec

-----------------------------------------------------------------------------
(* finalize() *)

(* No fee is refunded at first. *)
LEMMA FeeInit == ASSUME Init PROVE FeeInv
BY SendAssumption DEF SendAssumption, Init, FeeInv, FeeRefundedOnce, Procs

(* Every step keeps the claim on a fee refund exclusive. *)
LEMMA FeeNext ==
  ASSUME TypeInv, TypeInv', FeeInv, [Next]_vars PROVE FeeInv'
<1> USE SendAssumption DEF SendAssumption, TypeInv, TypeOK, SweepInv, Procs,
      DriverLabels, SweepLabels,
      SharedLabels, Status,
      FeeInv, FeeRefundedOnce, store, ledger, sweep, network, faults, Goto, Return, Payment, Invoice
<1>1. ASSUME NEW a \in Attempts, Precheck(a) PROVE FeeInv'
  BY <1>1 DEF Precheck
<1>2. ASSUME NEW a \in Attempts, Claim(a) PROVE FeeInv'
  BY <1>2 DEF Claim
<1>3. ASSUME NEW a \in Attempts, Debit(a) PROVE FeeInv'
  BY <1>3 DEF Debit
<1>4. ASSUME NEW a \in Attempts, Record(a) PROVE FeeInv'
  BY <1>4 DEF Record
<1>5. ASSUME NEW a \in Attempts, RecordFails(a) PROVE FeeInv'
  BY <1>5 DEF RecordFails
<1>6. ASSUME NEW a \in Attempts, Release(a) PROVE FeeInv'
  BY <1>6 DEF Release
<1>7. ASSUME NEW a \in Attempts, CallXpay(a) PROVE FeeInv'
  BY <1>7 DEF CallXpay
<1>8. ASSUME NEW a \in Attempts, XpayPays(a) PROVE FeeInv'
  BY <1>8 DEF XpayPays, Paid
<1>9. ASSUME NEW a \in Attempts, XpayThrows(a) PROVE FeeInv'
  BY <1>9 DEF XpayThrows
<1>10. ASSUME NEW a \in Attempts, CallLnd(a) PROVE FeeInv'
  BY <1>10 DEF CallLnd
<1>11. ASSUME NEW a \in Attempts, DeclineLnd(a) PROVE FeeInv'
  BY <1>11 DEF DeclineLnd
<1>12. ASSUME NEW a \in Attempts, LndReturns(a) PROVE FeeInv'
  BY <1>12 DEF LndReturns, Paid
<1>13. ASSUME NEW a \in Attempts, Verify(a) PROVE FeeInv'
  BY <1>13 DEF Verify
<1>14. ASSUME NEW a \in Attempts, Unclaim(a) PROVE FeeInv'
  BY <1>14 DEF Unclaim
<1>15. ASSUME NEW q \in Procs, Finalize(q) PROVE FeeInv'
  BY <1>15 DEF Finalize
<1>16. ASSUME NEW q \in Procs, FinalizeRead(q) PROVE FeeInv'
  BY <1>16 DEF FinalizeRead
<1>17. ASSUME NEW q \in Procs, FinalizeCheck(q) PROVE FeeInv'
  BY <1>17 DEF FinalizeCheck
<1>18. ASSUME NEW q \in Procs, FinalizeSave(q) PROVE FeeInv'
  BY <1>18 DEF FinalizeSave
<1>19. ASSUME NEW q \in Procs, FinalizeSaveFails(q) PROVE FeeInv'
  BY <1>19 DEF FinalizeSaveFails
<1>20. ASSUME NEW q \in Procs, FinalizeClaim(q) PROVE FeeInv'
  BY <1>20 DEF FinalizeClaim
<1>21. ASSUME NEW q \in Procs, FinalizeRefund(q) PROVE FeeInv'
  BY <1>21 DEF FinalizeRefund
<1>22. ASSUME NEW q \in Procs, Reverse(q) PROVE FeeInv'
  BY <1>22 DEF Reverse
<1>23. ASSUME NEW q \in Procs, ReverseRead(q) PROVE FeeInv'
  BY <1>23 DEF ReverseRead
<1>24. ASSUME NEW q \in Procs, ReverseLedger(q) PROVE FeeInv'
  BY <1>24 DEF ReverseLedger
<1>25. ASSUME NEW q \in Procs, ReverseClean(q) PROVE FeeInv'
  BY <1>25 DEF ReverseClean
<1>26. ASSUME NEW q \in Procs, ReverseFails(q) PROVE FeeInv'
  BY <1>26 DEF ReverseFails
<1>27. ASSUME SweepStart PROVE FeeInv'
  BY <1>27 DEF SweepStart
<1>28. ASSUME SweepNext PROVE FeeInv'
  BY <1>28 DEF SweepNext
<1>29. ASSUME SweepLoad PROVE FeeInv'
  BY <1>29 DEF SweepLoad
<1>30. ASSUME SweepDrop PROVE FeeInv'
  BY <1>30 DEF SweepDrop
<1>31. ASSUME SweepQuery PROVE FeeInv'
  BY <1>31 DEF SweepQuery, Launchable
<1>32. ASSUME SweepAborts PROVE FeeInv'
  BY <1>32 DEF SweepAborts
<1>33. ASSUME NEW a \in Attempts, LaunchPart(a) PROVE FeeInv'
  BY <1>33 DEF LaunchPart, Launchable
<1>34. ASSUME NEW a \in Attempts, ClaimExpires(a) PROVE FeeInv'
  BY <1>34 DEF ClaimExpires
<1>35. ASSUME NEW i \in Invoices, ClnPart(i) PROVE FeeInv'
  BY <1>35 DEF ClnPart
<1>36. ASSUME NEW i \in Invoices, LndPart(i) PROVE FeeInv'
  BY <1>36 DEF LndPart
<1>37. ASSUME Tick PROVE FeeInv'
  BY <1>37 DEF Tick
<1>38. ASSUME SocketDrops PROVE FeeInv'
  BY <1>38 DEF SocketDrops
<1>39. ASSUME Crash PROVE FeeInv'
  BY <1>39 DEF Crash
<1>40. CASE UNCHANGED vars
  BY <1>40 DEF vars
<1> QED
  BY <1>1, <1>2, <1>3, <1>4, <1>5, <1>6, <1>7, <1>8, <1>9, <1>10, <1>11,
     <1>12, <1>13, <1>14, <1>15, <1>16, <1>17, <1>18, <1>19, <1>20, <1>21,
     <1>22, <1>23, <1>24, <1>25, <1>26, <1>27, <1>28, <1>29, <1>30, <1>31,
     <1>32, <1>33, <1>34, <1>35, <1>36, <1>37, <1>38, <1>39, <1>40
     DEF Next, Driver, FinalizeStep, ReverseStep, SweepStep, Network

(* The unused fee reserve of a payment is given back at most once. *)
THEOREM FeeOnce == Spec => []FeeRefundedOnce
<1>1. Init => FeeInv
  BY FeeInit
<1>2. TypeInv /\ TypeInv' /\ FeeInv /\ [Next]_vars => FeeInv'
  BY FeeNext
<1>3. FeeInv => FeeRefundedOnce
  BY DEF FeeInv
<1>4. Spec => []TypeInv
  BY TypeCorrectInv
<1> QED
  BY <1>1, <1>2, <1>3, <1>4, PTL DEF Spec

-----------------------------------------------------------------------------
(* Deliveries *)

(* An attempt that may fall back to LND is the only one at its invoice. *)
Separate ==
  \A a \in Fallback, b \in Attempts : InvoiceOf[b] = InvoiceOf[a] => b = a

Before == Early \cup {"call"}
Within == {"paying", "hung", "fallback", "lnd"}

(* The debit of a payment was given back, or somebody is about to do it. *)
Ending(a) ==
  \/ returned[a] > 0 \/ pc[a] = "undo"
  \/ \E q \in Procs : pc[q] \in {"rev"} \cup Busy /\ Payment(q) = a

(* CLN will not launch another part for the payment. *)
Stopped(a) == age[a] >= RetryFor[a] \/ (a \notin xpay /\ pc[a] \notin Before)

(* What LND does for an invoice begins when CLN is through with it. *)
LndInv ==
  /\ \A a \in Attempts : pc[a] \in {"fallback", "lnd"} => a \in Fallback /\ a \notin xpay
  /\ \A i \in Invoices : lnd[i] # "none" =>
       /\ Resolved(cln[i])
       /\ \E a \in Fallback : InvoiceOf[a] = i /\ a \notin xpay /\ pc[a] \notin Before

(* One node has a part alive, and only as long as nothing was delivered. *)
PartInv ==
  \A i \in Invoices :
    /\ delivered[i] <= 1
    /\ cln[i] = "pending" \/ lnd[i] = "pending" => delivered[i] = 0
    /\ delivered[i] > 0 <=> cln[i] = "complete" \/ lnd[i] = "complete"

(* What was debited, and for how long. *)
DebitInv ==
  /\ IsFiniteSet(debited)
  /\ xpay \subseteq debited
  /\ \A a \in Attempts :
       /\ pc[a] \in {"start", "claim", "debit"} => a \notin debited
       /\ pc[a] \notin {"start", "claim", "debit", "release", "done"} => a \in debited
       /\ pc[a] \in Before => age[a] = 0
       /\ pc[a] \in {"verify", "undo"} => a \notin xpay

(* What check() knows of the payment it works on; what it gave up too early *)
(* is retried for longer than it waits.                                      *)
LoadInv ==
  /\ \A a \in hasty : Rash(a)
  /\ \A i \in Invoices : pointer[i] # None => InvoiceOf[pointer[i]] = i
  /\ \A a \in Fallback : pc[a] \in Within => InvoiceOf[a] \in inFlight
  /\ pc[Sweep] = "query" =>
       /\ InvoiceOf[cur] = item /\ age[cur] >= CheckAge
       /\ cur \in Fallback => pc[cur] \notin Before \cup Within

(* Whose debit goes back is not going to be paid for any more, unless check() *)
(* gave it up too early.                                                      *)
EndInv ==
  \A a \in Attempts : Ending(a) =>
    /\ Stopped(a) \/ a \in hasty
    /\ a \in Fallback => pc[a] \notin Before \cup Within

(* For what is under way or delivered a debit stands, or one that check()    *)
(* gave back too early.                                                      *)
StandInv ==
  \A i \in Invoices : ~(Resolved(cln[i]) /\ Resolved(lnd[i])) =>
    \E a \in debited : InvoiceOf[a] = i /\ (~Ending(a) \/ a \in hasty)

(* LND has nothing at first. *)
LEMMA LndInit == ASSUME Init PROVE LndInv
BY SendAssumption DEF SendAssumption, Init, LndInv, Procs, Resolved

(* Every step keeps LND behind CLN: LaunchPart cannot start CLN again for an *)
(* invoice that LND has, for the attempt that may fall back is alone at it   *)
(* and has left xpay for good.                                               *)
LEMMA LndNext == ASSUME Separate, TypeInv, LndInv, [Next]_vars PROVE LndInv'
<1> USE SendAssumption DEF SendAssumption, TypeInv, TypeOK, SweepInv, Procs,
      DriverLabels, SweepLabels, SharedLabels, Status, store, ledger, sweep, network,
      faults, Goto, Return, Payment, Invoice,
      Separate, LndInv, Resolved, Before, Early
<1>1. ASSUME NEW a \in Attempts, Precheck(a) PROVE LndInv'
  BY <1>1 DEF Precheck
<1>2. ASSUME NEW a \in Attempts, Claim(a) PROVE LndInv'
  BY <1>2 DEF Claim
<1>3. ASSUME NEW a \in Attempts, Debit(a) PROVE LndInv'
  BY <1>3 DEF Debit
<1>4. ASSUME NEW a \in Attempts, Record(a) PROVE LndInv'
  BY <1>4 DEF Record
<1>5. ASSUME NEW a \in Attempts, RecordFails(a) PROVE LndInv'
  BY <1>5 DEF RecordFails
<1>6. ASSUME NEW a \in Attempts, Release(a) PROVE LndInv'
  BY <1>6 DEF Release
<1>7. ASSUME NEW a \in Attempts, CallXpay(a) PROVE LndInv'
  BY <1>7 DEF CallXpay
<1>8. ASSUME NEW a \in Attempts, XpayPays(a) PROVE LndInv'
  BY <1>8 DEF XpayPays, Paid
<1>9. ASSUME NEW a \in Attempts, XpayThrows(a) PROVE LndInv'
  BY <1>9 DEF XpayThrows
<1>10. ASSUME NEW a \in Attempts, CallLnd(a) PROVE LndInv'
  BY <1>10 DEF CallLnd
<1>11. ASSUME NEW a \in Attempts, DeclineLnd(a) PROVE LndInv'
  BY <1>11 DEF DeclineLnd
<1>12. ASSUME NEW a \in Attempts, LndReturns(a) PROVE LndInv'
  BY <1>12 DEF LndReturns, Paid
<1>13. ASSUME NEW a \in Attempts, Verify(a) PROVE LndInv'
  BY <1>13 DEF Verify
<1>14. ASSUME NEW a \in Attempts, Unclaim(a) PROVE LndInv'
  BY <1>14 DEF Unclaim
<1>15. ASSUME NEW q \in Procs, Finalize(q) PROVE LndInv'
  BY <1>15 DEF Finalize
<1>16. ASSUME NEW q \in Procs, FinalizeRead(q) PROVE LndInv'
  <2>1. \A a \in Attempts : pc'[a] = pc[a] \/ pc'[a] \in SharedLabels \cup {"done"}
    BY <1>16 DEF FinalizeRead
  <2>2. UNCHANGED <<xpay, cln, lnd>>
    BY <1>16 DEF FinalizeRead
  <2> QED
    BY <2>1, <2>2, SMTT(60)
<1>17. ASSUME NEW q \in Procs, FinalizeCheck(q) PROVE LndInv'
  BY <1>17 DEF FinalizeCheck
<1>18. ASSUME NEW q \in Procs, FinalizeSave(q) PROVE LndInv'
  BY <1>18 DEF FinalizeSave
<1>19. ASSUME NEW q \in Procs, FinalizeSaveFails(q) PROVE LndInv'
  BY <1>19 DEF FinalizeSaveFails
<1>20. ASSUME NEW q \in Procs, FinalizeClaim(q) PROVE LndInv'
  BY <1>20, SMTT(60) DEF FinalizeClaim
<1>21. ASSUME NEW q \in Procs, FinalizeRefund(q) PROVE LndInv'
  BY <1>21 DEF FinalizeRefund
<1>22. ASSUME NEW q \in Procs, Reverse(q) PROVE LndInv'
  <2>1. \A a \in Attempts : pc'[a] = pc[a] \/ pc'[a] \in SharedLabels \cup {"done"}
    BY <1>22 DEF Reverse
  <2>2. UNCHANGED <<xpay, cln, lnd>>
    BY <1>22 DEF Reverse
  <2> QED
    BY <2>1, <2>2, SMTT(60)
<1>23. ASSUME NEW q \in Procs, ReverseRead(q) PROVE LndInv'
  BY <1>23 DEF ReverseRead
<1>24. ASSUME NEW q \in Procs, ReverseLedger(q) PROVE LndInv'
  BY <1>24 DEF ReverseLedger
<1>25. ASSUME NEW q \in Procs, ReverseClean(q) PROVE LndInv'
  BY <1>25 DEF ReverseClean
<1>26. ASSUME NEW q \in Procs, ReverseFails(q) PROVE LndInv'
  BY <1>26 DEF ReverseFails
<1>27. ASSUME SweepStart PROVE LndInv'
  BY <1>27 DEF SweepStart
<1>28. ASSUME SweepNext PROVE LndInv'
  BY <1>28 DEF SweepNext
<1>29. ASSUME SweepLoad PROVE LndInv'
  BY <1>29 DEF SweepLoad
<1>30. ASSUME SweepDrop PROVE LndInv'
  BY <1>30 DEF SweepDrop
<1>31. ASSUME SweepQuery PROVE LndInv'
  BY <1>31 DEF SweepQuery, Launchable
<1>32. ASSUME SweepAborts PROVE LndInv'
  BY <1>32 DEF SweepAborts
<1>33. ASSUME NEW a \in Attempts, LaunchPart(a) PROVE LndInv'
  BY <1>33 DEF LaunchPart, Launchable
<1>34. ASSUME NEW a \in Attempts, ClaimExpires(a) PROVE LndInv'
  BY <1>34 DEF ClaimExpires
<1>35. ASSUME NEW i \in Invoices, ClnPart(i) PROVE LndInv'
  BY <1>35 DEF ClnPart
<1>36. ASSUME NEW i \in Invoices, LndPart(i) PROVE LndInv'
  BY <1>36 DEF LndPart
<1>37. ASSUME Tick PROVE LndInv'
  BY <1>37 DEF Tick
<1>38. ASSUME SocketDrops PROVE LndInv'
  BY <1>38 DEF SocketDrops
<1>39. ASSUME Crash PROVE LndInv'
  BY <1>39 DEF Crash
<1>40. CASE UNCHANGED vars
  BY <1>40 DEF vars
<1> QED
  BY <1>1, <1>2, <1>3, <1>4, <1>5, <1>6, <1>7, <1>8, <1>9, <1>10, <1>11,
     <1>12, <1>13, <1>14, <1>15, <1>16, <1>17, <1>18, <1>19, <1>20, <1>21,
     <1>22, <1>23, <1>24, <1>25, <1>26, <1>27, <1>28, <1>29, <1>30, <1>31,
     <1>32, <1>33, <1>34, <1>35, <1>36, <1>37, <1>38, <1>39, <1>40
     DEF Next, Driver, FinalizeStep, ReverseStep, SweepStep, Network

(* Nothing is under way at first. *)
LEMMA PartInit == ASSUME Init PROVE PartInv
BY DEF Init, PartInv

(* Every step keeps the parts of an invoice at one node, and the network pays *)
(* it once.                                                                   *)
LEMMA PartNext == ASSUME TypeInv, LndInv, PartInv, [Next]_vars PROVE PartInv'
<1> USE SendAssumption DEF SendAssumption, TypeInv, TypeOK, SweepInv, Procs,
      DriverLabels, SweepLabels, SharedLabels, Status, store, ledger, sweep, network,
      faults, Goto, Return, Payment, Invoice,
      LndInv, PartInv, Resolved, Before, Early
<1>1. ASSUME NEW a \in Attempts, Precheck(a) PROVE PartInv'
  BY <1>1 DEF Precheck
<1>2. ASSUME NEW a \in Attempts, Claim(a) PROVE PartInv'
  BY <1>2 DEF Claim
<1>3. ASSUME NEW a \in Attempts, Debit(a) PROVE PartInv'
  BY <1>3 DEF Debit
<1>4. ASSUME NEW a \in Attempts, Record(a) PROVE PartInv'
  BY <1>4 DEF Record
<1>5. ASSUME NEW a \in Attempts, RecordFails(a) PROVE PartInv'
  BY <1>5 DEF RecordFails
<1>6. ASSUME NEW a \in Attempts, Release(a) PROVE PartInv'
  BY <1>6 DEF Release
<1>7. ASSUME NEW a \in Attempts, CallXpay(a) PROVE PartInv'
  BY <1>7 DEF CallXpay
<1>8. ASSUME NEW a \in Attempts, XpayPays(a) PROVE PartInv'
  BY <1>8 DEF XpayPays, Paid
<1>9. ASSUME NEW a \in Attempts, XpayThrows(a) PROVE PartInv'
  BY <1>9 DEF XpayThrows
<1>10. ASSUME NEW a \in Attempts, CallLnd(a) PROVE PartInv'
  BY <1>10 DEF CallLnd
<1>11. ASSUME NEW a \in Attempts, DeclineLnd(a) PROVE PartInv'
  BY <1>11 DEF DeclineLnd
<1>12. ASSUME NEW a \in Attempts, LndReturns(a) PROVE PartInv'
  BY <1>12 DEF LndReturns, Paid
<1>13. ASSUME NEW a \in Attempts, Verify(a) PROVE PartInv'
  BY <1>13 DEF Verify
<1>14. ASSUME NEW a \in Attempts, Unclaim(a) PROVE PartInv'
  BY <1>14 DEF Unclaim
<1>15. ASSUME NEW q \in Procs, Finalize(q) PROVE PartInv'
  BY <1>15 DEF Finalize
<1>16. ASSUME NEW q \in Procs, FinalizeRead(q) PROVE PartInv'
  BY <1>16 DEF FinalizeRead
<1>17. ASSUME NEW q \in Procs, FinalizeCheck(q) PROVE PartInv'
  BY <1>17 DEF FinalizeCheck
<1>18. ASSUME NEW q \in Procs, FinalizeSave(q) PROVE PartInv'
  BY <1>18 DEF FinalizeSave
<1>19. ASSUME NEW q \in Procs, FinalizeSaveFails(q) PROVE PartInv'
  BY <1>19 DEF FinalizeSaveFails
<1>20. ASSUME NEW q \in Procs, FinalizeClaim(q) PROVE PartInv'
  BY <1>20 DEF FinalizeClaim
<1>21. ASSUME NEW q \in Procs, FinalizeRefund(q) PROVE PartInv'
  BY <1>21 DEF FinalizeRefund
<1>22. ASSUME NEW q \in Procs, Reverse(q) PROVE PartInv'
  BY <1>22 DEF Reverse
<1>23. ASSUME NEW q \in Procs, ReverseRead(q) PROVE PartInv'
  BY <1>23 DEF ReverseRead
<1>24. ASSUME NEW q \in Procs, ReverseLedger(q) PROVE PartInv'
  BY <1>24 DEF ReverseLedger
<1>25. ASSUME NEW q \in Procs, ReverseClean(q) PROVE PartInv'
  BY <1>25 DEF ReverseClean
<1>26. ASSUME NEW q \in Procs, ReverseFails(q) PROVE PartInv'
  BY <1>26 DEF ReverseFails
<1>27. ASSUME SweepStart PROVE PartInv'
  BY <1>27 DEF SweepStart
<1>28. ASSUME SweepNext PROVE PartInv'
  BY <1>28 DEF SweepNext
<1>29. ASSUME SweepLoad PROVE PartInv'
  BY <1>29 DEF SweepLoad
<1>30. ASSUME SweepDrop PROVE PartInv'
  BY <1>30 DEF SweepDrop
<1>31. ASSUME SweepQuery PROVE PartInv'
  BY <1>31 DEF SweepQuery, Launchable
<1>32. ASSUME SweepAborts PROVE PartInv'
  BY <1>32 DEF SweepAborts
<1>33. ASSUME NEW a \in Attempts, LaunchPart(a) PROVE PartInv'
  BY <1>33 DEF LaunchPart, Launchable
<1>34. ASSUME NEW a \in Attempts, ClaimExpires(a) PROVE PartInv'
  BY <1>34 DEF ClaimExpires
<1>35. ASSUME NEW i \in Invoices, ClnPart(i) PROVE PartInv'
  BY <1>35 DEF ClnPart
<1>36. ASSUME NEW i \in Invoices, LndPart(i) PROVE PartInv'
  BY <1>36 DEF LndPart
<1>37. ASSUME Tick PROVE PartInv'
  BY <1>37 DEF Tick
<1>38. ASSUME SocketDrops PROVE PartInv'
  BY <1>38 DEF SocketDrops
<1>39. ASSUME Crash PROVE PartInv'
  BY <1>39 DEF Crash
<1>40. CASE UNCHANGED vars
  BY <1>40 DEF vars
<1> QED
  BY <1>1, <1>2, <1>3, <1>4, <1>5, <1>6, <1>7, <1>8, <1>9, <1>10, <1>11,
     <1>12, <1>13, <1>14, <1>15, <1>16, <1>17, <1>18, <1>19, <1>20, <1>21,
     <1>22, <1>23, <1>24, <1>25, <1>26, <1>27, <1>28, <1>29, <1>30, <1>31,
     <1>32, <1>33, <1>34, <1>35, <1>36, <1>37, <1>38, <1>39, <1>40
     DEF Next, Driver, FinalizeStep, ReverseStep, SweepStep, Network

(* An invoice is paid once. *)
THEOREM PaidAtMostOnce == ASSUME Separate PROVE Spec => []PaidOnce
<1>1. Init => LndInv /\ PartInv
  BY LndInit, PartInit
<1>2. TypeInv /\ LndInv /\ PartInv /\ [Next]_vars => LndInv' /\ PartInv'
  BY Separate, LndNext, PartNext
<1>3. PartInv => PaidOnce
  BY DEF PartInv, PaidOnce
<1>4. Spec => []TypeInv
  BY TypeCorrectInv
<1> QED
  BY <1>1, <1>2, <1>3, <1>4, PTL DEF Spec

(* Nothing is debited at first. *)
LEMMA DebitInit == ASSUME Init PROVE DebitInv
BY SendAssumption, FS_EmptySet DEF SendAssumption, Init, DebitInv, Procs, Before, Early

(* Every step keeps to what was debited; only Debit adds to it, and time only *)
(* passes for a payment that is past its xpay call.                           *)
LEMMA DebitNext ==
  ASSUME TypeInv, LndInv, DebitInv, [Next]_vars PROVE DebitInv'
<1> USE SendAssumption DEF SendAssumption, TypeInv, TypeOK, SweepInv, Procs,
      DriverLabels, SweepLabels, SharedLabels, Status, store, ledger, sweep, network,
      faults, Goto, Return, Payment, Invoice,
      LndInv, DebitInv, Before, Early
<1>1. ASSUME NEW a \in Attempts, Precheck(a) PROVE DebitInv'
  BY <1>1 DEF Precheck
<1>2. ASSUME NEW a \in Attempts, Claim(a) PROVE DebitInv'
  BY <1>2 DEF Claim
<1>3. ASSUME NEW a \in Attempts, Debit(a) PROVE DebitInv'
  <2>1. IsFiniteSet(debited')
    BY <1>3, FS_AddElement DEF Debit
  <2> QED
    BY <1>3, <2>1 DEF Debit
<1>4. ASSUME NEW a \in Attempts, Record(a) PROVE DebitInv'
  BY <1>4 DEF Record
<1>5. ASSUME NEW a \in Attempts, RecordFails(a) PROVE DebitInv'
  BY <1>5 DEF RecordFails
<1>6. ASSUME NEW a \in Attempts, Release(a) PROVE DebitInv'
  BY <1>6 DEF Release
<1>7. ASSUME NEW a \in Attempts, CallXpay(a) PROVE DebitInv'
  BY <1>7 DEF CallXpay
<1>8. ASSUME NEW a \in Attempts, XpayPays(a) PROVE DebitInv'
  BY <1>8 DEF XpayPays, Paid
<1>9. ASSUME NEW a \in Attempts, XpayThrows(a) PROVE DebitInv'
  BY <1>9 DEF XpayThrows
<1>10. ASSUME NEW a \in Attempts, CallLnd(a) PROVE DebitInv'
  BY <1>10 DEF CallLnd
<1>11. ASSUME NEW a \in Attempts, DeclineLnd(a) PROVE DebitInv'
  BY <1>11 DEF DeclineLnd
<1>12. ASSUME NEW a \in Attempts, LndReturns(a) PROVE DebitInv'
  BY <1>12 DEF LndReturns, Paid
<1>13. ASSUME NEW a \in Attempts, Verify(a) PROVE DebitInv'
  BY <1>13 DEF Verify
<1>14. ASSUME NEW a \in Attempts, Unclaim(a) PROVE DebitInv'
  BY <1>14 DEF Unclaim
<1>15. ASSUME NEW q \in Procs, Finalize(q) PROVE DebitInv'
  BY <1>15 DEF Finalize
<1>16. ASSUME NEW q \in Procs, FinalizeRead(q) PROVE DebitInv'
  BY <1>16 DEF FinalizeRead
<1>17. ASSUME NEW q \in Procs, FinalizeCheck(q) PROVE DebitInv'
  BY <1>17 DEF FinalizeCheck
<1>18. ASSUME NEW q \in Procs, FinalizeSave(q) PROVE DebitInv'
  BY <1>18 DEF FinalizeSave
<1>19. ASSUME NEW q \in Procs, FinalizeSaveFails(q) PROVE DebitInv'
  BY <1>19 DEF FinalizeSaveFails
<1>20. ASSUME NEW q \in Procs, FinalizeClaim(q) PROVE DebitInv'
  BY <1>20 DEF FinalizeClaim
<1>21. ASSUME NEW q \in Procs, FinalizeRefund(q) PROVE DebitInv'
  BY <1>21 DEF FinalizeRefund
<1>22. ASSUME NEW q \in Procs, Reverse(q) PROVE DebitInv'
  BY <1>22 DEF Reverse
<1>23. ASSUME NEW q \in Procs, ReverseRead(q) PROVE DebitInv'
  BY <1>23 DEF ReverseRead
<1>24. ASSUME NEW q \in Procs, ReverseLedger(q) PROVE DebitInv'
  BY <1>24 DEF ReverseLedger
<1>25. ASSUME NEW q \in Procs, ReverseClean(q) PROVE DebitInv'
  BY <1>25 DEF ReverseClean
<1>26. ASSUME NEW q \in Procs, ReverseFails(q) PROVE DebitInv'
  BY <1>26 DEF ReverseFails
<1>27. ASSUME SweepStart PROVE DebitInv'
  BY <1>27 DEF SweepStart
<1>28. ASSUME SweepNext PROVE DebitInv'
  BY <1>28 DEF SweepNext
<1>29. ASSUME SweepLoad PROVE DebitInv'
  BY <1>29 DEF SweepLoad
<1>30. ASSUME SweepDrop PROVE DebitInv'
  BY <1>30 DEF SweepDrop
<1>31. ASSUME SweepQuery PROVE DebitInv'
  BY <1>31 DEF SweepQuery, Launchable
<1>32. ASSUME SweepAborts PROVE DebitInv'
  BY <1>32 DEF SweepAborts
<1>33. ASSUME NEW a \in Attempts, LaunchPart(a) PROVE DebitInv'
  BY <1>33 DEF LaunchPart, Launchable
<1>34. ASSUME NEW a \in Attempts, ClaimExpires(a) PROVE DebitInv'
  BY <1>34 DEF ClaimExpires
<1>35. ASSUME NEW i \in Invoices, ClnPart(i) PROVE DebitInv'
  BY <1>35 DEF ClnPart
<1>36. ASSUME NEW i \in Invoices, LndPart(i) PROVE DebitInv'
  BY <1>36 DEF LndPart
<1>37. ASSUME Tick PROVE DebitInv'
  BY <1>37 DEF Tick
<1>38. ASSUME SocketDrops PROVE DebitInv'
  BY <1>38 DEF SocketDrops
<1>39. ASSUME Crash PROVE DebitInv'
  BY <1>39 DEF Crash
<1>40. CASE UNCHANGED vars
  BY <1>40 DEF vars
<1> QED
  BY <1>1, <1>2, <1>3, <1>4, <1>5, <1>6, <1>7, <1>8, <1>9, <1>10, <1>11,
     <1>12, <1>13, <1>14, <1>15, <1>16, <1>17, <1>18, <1>19, <1>20, <1>21,
     <1>22, <1>23, <1>24, <1>25, <1>26, <1>27, <1>28, <1>29, <1>30, <1>31,
     <1>32, <1>33, <1>34, <1>35, <1>36, <1>37, <1>38, <1>39, <1>40
     DEF Next, Driver, FinalizeStep, ReverseStep, SweepStep, Network

(* check() works on nothing at first. *)
LEMMA LoadInit == ASSUME Init PROVE LoadInv
BY SendAssumption DEF SendAssumption, Init, LoadInv, Procs, Within

(* Every step keeps what check() knows of the payment it works on: it is old *)
(* enough, and no call of outLn.xpay is open for it.                          *)
LEMMA LoadNext ==
  ASSUME Separate, TypeInv, ReverseInv, DebitInv, LoadInv, [Next]_vars
  PROVE LoadInv'
<1> USE SendAssumption DEF SendAssumption, TypeInv, TypeOK, SweepInv, Procs,
      DriverLabels, SweepLabels, SharedLabels, Status, store, ledger, sweep, network,
      faults, Goto, Return, Payment, Invoice,
      Separate, FreshInv, ReverseInv, DebitInv, LoadInv, StillDriven, Rash, Before,
      Early, Within
<1>1. ASSUME NEW a \in Attempts, Precheck(a) PROVE LoadInv'
  BY <1>1 DEF Precheck
<1>2. ASSUME NEW a \in Attempts, Claim(a) PROVE LoadInv'
  BY <1>2 DEF Claim
<1>3. ASSUME NEW a \in Attempts, Debit(a) PROVE LoadInv'
  BY <1>3 DEF Debit
<1>4. ASSUME NEW a \in Attempts, Record(a) PROVE LoadInv'
  BY <1>4 DEF Record
<1>5. ASSUME NEW a \in Attempts, RecordFails(a) PROVE LoadInv'
  BY <1>5 DEF RecordFails
<1>6. ASSUME NEW a \in Attempts, Release(a) PROVE LoadInv'
  BY <1>6 DEF Release
<1>7. ASSUME NEW a \in Attempts, CallXpay(a) PROVE LoadInv'
  BY <1>7 DEF CallXpay
<1>8. ASSUME NEW a \in Attempts, XpayPays(a) PROVE LoadInv'
  BY <1>8 DEF XpayPays, Paid
<1>9. ASSUME NEW a \in Attempts, XpayThrows(a) PROVE LoadInv'
  BY <1>9 DEF XpayThrows
<1>10. ASSUME NEW a \in Attempts, CallLnd(a) PROVE LoadInv'
  BY <1>10 DEF CallLnd
<1>11. ASSUME NEW a \in Attempts, DeclineLnd(a) PROVE LoadInv'
  BY <1>11 DEF DeclineLnd
<1>12. ASSUME NEW a \in Attempts, LndReturns(a) PROVE LoadInv'
  BY <1>12 DEF LndReturns, Paid
<1>13. ASSUME NEW a \in Attempts, Verify(a) PROVE LoadInv'
  BY <1>13 DEF Verify
<1>14. ASSUME NEW a \in Attempts, Unclaim(a) PROVE LoadInv'
  BY <1>14 DEF Unclaim
<1>15. ASSUME NEW q \in Procs, Finalize(q) PROVE LoadInv'
  BY <1>15 DEF Finalize
<1>16. ASSUME NEW q \in Procs, FinalizeRead(q) PROVE LoadInv'
  BY <1>16 DEF FinalizeRead
<1>17. ASSUME NEW q \in Procs, FinalizeCheck(q) PROVE LoadInv'
  BY <1>17 DEF FinalizeCheck
<1>18. ASSUME NEW q \in Procs, FinalizeSave(q) PROVE LoadInv'
  BY <1>18 DEF FinalizeSave
<1>19. ASSUME NEW q \in Procs, FinalizeSaveFails(q) PROVE LoadInv'
  BY <1>19 DEF FinalizeSaveFails
<1>20. ASSUME NEW q \in Procs, FinalizeClaim(q) PROVE LoadInv'
  BY <1>20 DEF FinalizeClaim
<1>21. ASSUME NEW q \in Procs, FinalizeRefund(q) PROVE LoadInv'
  BY <1>21 DEF FinalizeRefund
<1>22. ASSUME NEW q \in Procs, Reverse(q) PROVE LoadInv'
  BY <1>22 DEF Reverse
<1>23. ASSUME NEW q \in Procs, ReverseRead(q) PROVE LoadInv'
  BY <1>23 DEF ReverseRead
<1>24. ASSUME NEW q \in Procs, ReverseLedger(q) PROVE LoadInv'
  BY <1>24 DEF ReverseLedger
<1>25. ASSUME NEW q \in Procs, ReverseClean(q) PROVE LoadInv'
  BY <1>25 DEF ReverseClean
<1>26. ASSUME NEW q \in Procs, ReverseFails(q) PROVE LoadInv'
  BY <1>26 DEF ReverseFails
<1>27. ASSUME SweepStart PROVE LoadInv'
  BY <1>27 DEF SweepStart
<1>28. ASSUME SweepNext PROVE LoadInv'
  BY <1>28 DEF SweepNext
<1>29. ASSUME SweepLoad PROVE LoadInv'
  BY <1>29 DEF SweepLoad
<1>30. ASSUME SweepDrop PROVE LoadInv'
  BY <1>30 DEF SweepDrop
<1>31. ASSUME SweepQuery PROVE LoadInv'
  BY <1>31 DEF SweepQuery, Launchable
<1>32. ASSUME SweepAborts PROVE LoadInv'
  BY <1>32 DEF SweepAborts
<1>33. ASSUME NEW a \in Attempts, LaunchPart(a) PROVE LoadInv'
  BY <1>33 DEF LaunchPart, Launchable
<1>34. ASSUME NEW a \in Attempts, ClaimExpires(a) PROVE LoadInv'
  BY <1>34 DEF ClaimExpires
<1>35. ASSUME NEW i \in Invoices, ClnPart(i) PROVE LoadInv'
  BY <1>35 DEF ClnPart
<1>36. ASSUME NEW i \in Invoices, LndPart(i) PROVE LoadInv'
  BY <1>36 DEF LndPart
<1>37. ASSUME Tick PROVE LoadInv'
  BY <1>37 DEF Tick
<1>38. ASSUME SocketDrops PROVE LoadInv'
  BY <1>38 DEF SocketDrops
<1>39. ASSUME Crash PROVE LoadInv'
  BY <1>39 DEF Crash
<1>40. CASE UNCHANGED vars
  BY <1>40 DEF vars
<1> QED
  BY <1>1, <1>2, <1>3, <1>4, <1>5, <1>6, <1>7, <1>8, <1>9, <1>10, <1>11,
     <1>12, <1>13, <1>14, <1>15, <1>16, <1>17, <1>18, <1>19, <1>20, <1>21,
     <1>22, <1>23, <1>24, <1>25, <1>26, <1>27, <1>28, <1>29, <1>30, <1>31,
     <1>32, <1>33, <1>34, <1>35, <1>36, <1>37, <1>38, <1>39, <1>40
     DEF Next, Driver, FinalizeStep, ReverseStep, SweepStep, Network

(* No debit goes back at first. *)
LEMMA EndInit == ASSUME Init PROVE EndInv
<1>1. \A q \in Procs : pc[q] \in {"idle", "start"}
  BY DEF Init
<1>2. \A a \in Attempts : ~Ending(a)
  BY <1>1 DEF Init, Ending, Busy, Procs
<1> QED
  BY <1>2 DEF EndInv

(* Every step keeps it: reverse() is only entered after outLn.xpay returned,  *)
(* or by check() for a payment that is older than CLN's retries.               *)
LEMMA EndNext ==
  ASSUME Separate, TypeInv, ReverseInv, DebitInv, LoadInv, EndInv, [Next]_vars
  PROVE EndInv'
<1> USE SendAssumption DEF SendAssumption, TypeInv, TypeOK, SweepInv, Procs,
      DriverLabels, SweepLabels, SharedLabels, Status, store, ledger, sweep, network,
      faults, Goto, Return, Payment, Invoice,
      FreshInv, ReverseInv, DebitInv, LoadInv, EndInv, Ending, Stopped, Before,
      Early, Within, Busy
<1>1. ASSUME NEW a \in Attempts, Precheck(a) PROVE EndInv'
  BY <1>1 DEF Precheck
<1>2. ASSUME NEW a \in Attempts, Claim(a) PROVE EndInv'
  BY <1>2 DEF Claim
<1>3. ASSUME NEW a \in Attempts, Debit(a) PROVE EndInv'
  BY <1>3 DEF Debit
<1>4. ASSUME NEW a \in Attempts, Record(a) PROVE EndInv'
  BY <1>4 DEF Record
<1>5. ASSUME NEW a \in Attempts, RecordFails(a) PROVE EndInv'
  BY <1>5 DEF RecordFails
<1>6. ASSUME NEW a \in Attempts, Release(a) PROVE EndInv'
  BY <1>6 DEF Release
<1>7. ASSUME NEW a \in Attempts, CallXpay(a) PROVE EndInv'
  BY <1>7 DEF CallXpay
<1>8. ASSUME NEW a \in Attempts, XpayPays(a) PROVE EndInv'
  BY <1>8 DEF XpayPays, Paid
<1>9. ASSUME NEW a \in Attempts, XpayThrows(a) PROVE EndInv'
  BY <1>9 DEF XpayThrows
<1>10. ASSUME NEW a \in Attempts, CallLnd(a) PROVE EndInv'
  BY <1>10 DEF CallLnd
<1>11. ASSUME NEW a \in Attempts, DeclineLnd(a) PROVE EndInv'
  BY <1>11 DEF DeclineLnd
<1>12. ASSUME NEW a \in Attempts, LndReturns(a) PROVE EndInv'
  BY <1>12 DEF LndReturns, Paid
<1>13. ASSUME NEW a \in Attempts, Verify(a) PROVE EndInv'
  BY <1>13 DEF Verify
<1>14. ASSUME NEW a \in Attempts, Unclaim(a) PROVE EndInv'
  BY <1>14 DEF Unclaim
<1>15. ASSUME NEW q \in Procs, Finalize(q) PROVE EndInv'
  BY <1>15 DEF Finalize
<1>16. ASSUME NEW q \in Procs, FinalizeRead(q) PROVE EndInv'
  BY <1>16 DEF FinalizeRead
<1>17. ASSUME NEW q \in Procs, FinalizeCheck(q) PROVE EndInv'
  BY <1>17 DEF FinalizeCheck
<1>18. ASSUME NEW q \in Procs, FinalizeSave(q) PROVE EndInv'
  BY <1>18 DEF FinalizeSave
<1>19. ASSUME NEW q \in Procs, FinalizeSaveFails(q) PROVE EndInv'
  BY <1>19 DEF FinalizeSaveFails
<1>20. ASSUME NEW q \in Procs, FinalizeClaim(q) PROVE EndInv'
  BY <1>20 DEF FinalizeClaim
<1>21. ASSUME NEW q \in Procs, FinalizeRefund(q) PROVE EndInv'
  BY <1>21 DEF FinalizeRefund
<1>22. ASSUME NEW q \in Procs, Reverse(q) PROVE EndInv'
  BY <1>22 DEF Reverse
<1>23. ASSUME NEW q \in Procs, ReverseRead(q) PROVE EndInv'
  BY <1>23 DEF ReverseRead
<1>24. ASSUME NEW q \in Procs, ReverseLedger(q) PROVE EndInv'
  BY <1>24 DEF ReverseLedger
<1>25. ASSUME NEW q \in Procs, ReverseClean(q) PROVE EndInv'
  BY <1>25 DEF ReverseClean
<1>26. ASSUME NEW q \in Procs, ReverseFails(q) PROVE EndInv'
  BY <1>26 DEF ReverseFails
<1>27. ASSUME SweepStart PROVE EndInv'
  BY <1>27 DEF SweepStart
<1>28. ASSUME SweepNext PROVE EndInv'
  BY <1>28 DEF SweepNext
<1>29. ASSUME SweepLoad PROVE EndInv'
  BY <1>29 DEF SweepLoad
<1>30. ASSUME SweepDrop PROVE EndInv'
  BY <1>30 DEF SweepDrop
<1>31. ASSUME SweepQuery PROVE EndInv'
  BY <1>31 DEF SweepQuery, Launchable
<1>32. ASSUME SweepAborts PROVE EndInv'
  BY <1>32 DEF SweepAborts
<1>33. ASSUME NEW a \in Attempts, LaunchPart(a) PROVE EndInv'
  BY <1>33 DEF LaunchPart, Launchable
<1>34. ASSUME NEW a \in Attempts, ClaimExpires(a) PROVE EndInv'
  BY <1>34 DEF ClaimExpires
<1>35. ASSUME NEW i \in Invoices, ClnPart(i) PROVE EndInv'
  BY <1>35 DEF ClnPart
<1>36. ASSUME NEW i \in Invoices, LndPart(i) PROVE EndInv'
  BY <1>36 DEF LndPart
<1>37. ASSUME Tick PROVE EndInv'
  BY <1>37 DEF Tick
<1>38. ASSUME SocketDrops PROVE EndInv'
  <2>1. \A q \in Procs : pc'[q] = pc[q] \/ (pc[q] = "paying" /\ pc'[q] = "hung")
    BY <1>38 DEF SocketDrops
  <2>2. \A a \in Attempts : Ending(a)' => Ending(a)
    BY <2>1, <1>38, ZenonT(60) DEF SocketDrops
  <2>3. \A a \in Attempts : Stopped(a) \/ a \in hasty => (Stopped(a) \/ a \in hasty)'
    BY <2>1, <1>38 DEF SocketDrops
  <2>4. \A a \in Attempts : pc[a] \notin Before \cup Within => pc'[a] \notin Before \cup Within
    BY <2>1
  <2> QED
    BY <2>2, <2>3, <2>4
<1>39. ASSUME Crash PROVE EndInv'
  BY <1>39 DEF Crash
<1>40. CASE UNCHANGED vars
  BY <1>40 DEF vars
<1> QED
  BY <1>1, <1>2, <1>3, <1>4, <1>5, <1>6, <1>7, <1>8, <1>9, <1>10, <1>11,
     <1>12, <1>13, <1>14, <1>15, <1>16, <1>17, <1>18, <1>19, <1>20, <1>21,
     <1>22, <1>23, <1>24, <1>25, <1>26, <1>27, <1>28, <1>29, <1>30, <1>31,
     <1>32, <1>33, <1>34, <1>35, <1>36, <1>37, <1>38, <1>39, <1>40
     DEF Next, Driver, FinalizeStep, ReverseStep, SweepStep, Network

(* Nothing is under way at first. *)
LEMMA StandInit == ASSUME Init PROVE StandInv
BY DEF Init, StandInv, Resolved

(* Every step keeps it: neither node has anything alive when a driver or     *)
(* check() decides to reverse, and EndInv says that nothing starts any more. *)
LEMMA StandNext ==
  ASSUME Separate, TypeInv, ReverseInv, LndInv, DebitInv, LoadInv, EndInv,
         StandInv, [Next]_vars
  PROVE StandInv'
<1> USE SendAssumption DEF SendAssumption, TypeInv, TypeOK, SweepInv, Procs,
      DriverLabels, SweepLabels, SharedLabels, Status, store, ledger, sweep, network,
      faults, Goto, Return, Payment, Invoice,
      FreshInv, ReverseInv, LndInv, DebitInv, LoadInv, EndInv, StandInv, Ending, Stopped, Before,
      Early, Within, Busy, ListPays, Resolved
<1>1. ASSUME NEW a \in Attempts, Precheck(a) PROVE StandInv'
  BY <1>1 DEF Precheck
<1>2. ASSUME NEW a \in Attempts, Claim(a) PROVE StandInv'
  BY <1>2 DEF Claim
<1>3. ASSUME NEW a \in Attempts, Debit(a) PROVE StandInv'
  BY <1>3 DEF Debit
<1>4. ASSUME NEW a \in Attempts, Record(a) PROVE StandInv'
  BY <1>4 DEF Record
<1>5. ASSUME NEW a \in Attempts, RecordFails(a) PROVE StandInv'
  BY <1>5 DEF RecordFails
<1>6. ASSUME NEW a \in Attempts, Release(a) PROVE StandInv'
  BY <1>6 DEF Release
<1>7. ASSUME NEW a \in Attempts, CallXpay(a) PROVE StandInv'
  BY <1>7 DEF CallXpay
<1>8. ASSUME NEW a \in Attempts, XpayPays(a) PROVE StandInv'
  BY <1>8 DEF XpayPays, Paid
<1>9. ASSUME NEW a \in Attempts, XpayThrows(a) PROVE StandInv'
  BY <1>9, SMTT(60) DEF XpayThrows
<1>10. ASSUME NEW a \in Attempts, CallLnd(a) PROVE StandInv'
  BY <1>10 DEF CallLnd
<1>11. ASSUME NEW a \in Attempts, DeclineLnd(a) PROVE StandInv'
  BY <1>11 DEF DeclineLnd
<1>12. ASSUME NEW a \in Attempts, LndReturns(a) PROVE StandInv'
  BY <1>12 DEF LndReturns, Paid
<1>13. ASSUME NEW a \in Attempts, Verify(a) PROVE StandInv'
  BY <1>13 DEF Verify
<1>14. ASSUME NEW a \in Attempts, Unclaim(a) PROVE StandInv'
  BY <1>14 DEF Unclaim
<1>15. ASSUME NEW q \in Procs, Finalize(q) PROVE StandInv'
  BY <1>15 DEF Finalize
<1>16. ASSUME NEW q \in Procs, FinalizeRead(q) PROVE StandInv'
  BY <1>16 DEF FinalizeRead
<1>17. ASSUME NEW q \in Procs, FinalizeCheck(q) PROVE StandInv'
  BY <1>17 DEF FinalizeCheck
<1>18. ASSUME NEW q \in Procs, FinalizeSave(q) PROVE StandInv'
  BY <1>18 DEF FinalizeSave
<1>19. ASSUME NEW q \in Procs, FinalizeSaveFails(q) PROVE StandInv'
  BY <1>19 DEF FinalizeSaveFails
<1>20. ASSUME NEW q \in Procs, FinalizeClaim(q) PROVE StandInv'
  BY <1>20 DEF FinalizeClaim
<1>21. ASSUME NEW q \in Procs, FinalizeRefund(q) PROVE StandInv'
  BY <1>21 DEF FinalizeRefund
<1>22. ASSUME NEW q \in Procs, Reverse(q) PROVE StandInv'
  BY <1>22 DEF Reverse
<1>23. ASSUME NEW q \in Procs, ReverseRead(q) PROVE StandInv'
  BY <1>23 DEF ReverseRead
<1>24. ASSUME NEW q \in Procs, ReverseLedger(q) PROVE StandInv'
  BY <1>24 DEF ReverseLedger
<1>25. ASSUME NEW q \in Procs, ReverseClean(q) PROVE StandInv'
  BY <1>25 DEF ReverseClean
<1>26. ASSUME NEW q \in Procs, ReverseFails(q) PROVE StandInv'
  BY <1>26 DEF ReverseFails
<1>27. ASSUME SweepStart PROVE StandInv'
  BY <1>27 DEF SweepStart
<1>28. ASSUME SweepNext PROVE StandInv'
  BY <1>28 DEF SweepNext
<1>29. ASSUME SweepLoad PROVE StandInv'
  BY <1>29 DEF SweepLoad
<1>30. ASSUME SweepDrop PROVE StandInv'
  BY <1>30 DEF SweepDrop
<1>31. ASSUME SweepQuery PROVE StandInv'
  BY <1>31 DEF SweepQuery, Launchable
<1>32. ASSUME SweepAborts PROVE StandInv'
  BY <1>32 DEF SweepAborts
<1>33. ASSUME NEW a \in Attempts, LaunchPart(a) PROVE StandInv'
  BY <1>33 DEF LaunchPart, Launchable
<1>34. ASSUME NEW a \in Attempts, ClaimExpires(a) PROVE StandInv'
  BY <1>34 DEF ClaimExpires
<1>35. ASSUME NEW i \in Invoices, ClnPart(i) PROVE StandInv'
  BY <1>35 DEF ClnPart
<1>36. ASSUME NEW i \in Invoices, LndPart(i) PROVE StandInv'
  BY <1>36 DEF LndPart
<1>37. ASSUME Tick PROVE StandInv'
  BY <1>37 DEF Tick
<1>38. ASSUME SocketDrops PROVE StandInv'
  <2>1. \A q \in Procs : pc'[q] = pc[q] \/ (pc[q] = "paying" /\ pc'[q] = "hung")
    BY <1>38 DEF SocketDrops
  <2>2. \A a \in Attempts : Ending(a)' => Ending(a)
    <3>1. UNCHANGED <<returned, cur>>
      BY <1>38 DEF SocketDrops
    <3>2. \A q \in Procs : pc'[q] \in {"undo", "rev"} \cup Busy => pc'[q] = pc[q]
      BY <2>1
    <3> QED
      BY <3>1, <3>2
  <2>3. UNCHANGED <<cln, lnd, debited, hasty>>
    BY <1>38 DEF SocketDrops
  <2> QED
    BY <2>2, <2>3
<1>39. ASSUME Crash PROVE StandInv'
  <2>1. \A q \in Procs : pc'[q] \in {"idle", "start", "done"}
    BY <1>39 DEF Crash
  <2>2. \A a \in Attempts : Ending(a)' => Ending(a)
    BY <2>1, <1>39 DEF Crash
  <2>3. UNCHANGED <<cln, lnd, debited, hasty>>
    BY <1>39 DEF Crash
  <2> QED
    BY <2>2, <2>3
<1>40. CASE UNCHANGED vars
  BY <1>40 DEF vars
<1> QED
  BY <1>1, <1>2, <1>3, <1>4, <1>5, <1>6, <1>7, <1>8, <1>9, <1>10, <1>11,
     <1>12, <1>13, <1>14, <1>15, <1>16, <1>17, <1>18, <1>19, <1>20, <1>21,
     <1>22, <1>23, <1>24, <1>25, <1>26, <1>27, <1>28, <1>29, <1>30, <1>31,
     <1>32, <1>33, <1>34, <1>35, <1>36, <1>37, <1>38, <1>39, <1>40
     DEF Next, Driver, FinalizeStep, ReverseStep, SweepStep, Network

(* Everything that is known about deliveries. *)
DeliveryInv ==
  /\ ReverseInv /\ LndInv /\ PartInv /\ DebitInv /\ LoadInv /\ EndInv /\ StandInv

(* It holds at first. *)
LEMMA DeliveryInit == ASSUME Init PROVE DeliveryInv
BY ReverseInit, LndInit, PartInit, DebitInit, LoadInit, EndInit, StandInit DEF DeliveryInv

(* Every step keeps it. *)
LEMMA DeliveryNext ==
  ASSUME Separate, TypeInv, TypeInv', DeliveryInv, [Next]_vars
  PROVE DeliveryInv'
BY ReverseNext, LndNext, PartNext, DebitNext, LoadNext, EndNext, StandNext
  DEF DeliveryInv

(* A debit that stands for an invoice is counted. *)
LEMMA ChargeCounts ==
  ASSUME DebitInv, NEW i \in Invoices, NEW a \in ChargedFor(i)
  PROVE Cardinality(ChargedFor(i)) \in Nat /\ Cardinality(ChargedFor(i)) >= 1
<1>1. ChargedFor(i) \subseteq debited
  BY DEF ChargedFor
<1>2. IsFiniteSet(ChargedFor(i))
  BY <1>1, FS_Subset DEF DebitInv
<1>3. Cardinality(ChargedFor(i)) \in Nat
  BY <1>2, FS_CardinalityType
<1>4. Cardinality(ChargedFor(i)) # 0
  BY <1>2, FS_EmptySet
<1> QED
  BY <1>3, <1>4

(* What was delivered is covered by a debit that stands. *)
LEMMA DeliveryCovered == ASSUME TypeInv, DeliveryInv PROVE NoFreeDelivery
<1> SUFFICES ASSUME NEW i \in Invoices,
                    ~(\E a \in Attempts : InvoiceOf[a] = i /\ Rash(a))
             PROVE delivered[i] <= Cardinality(ChargedFor(i))
  BY DEF NoFreeDelivery
<1>1. delivered[i] \in Nat /\ delivered[i] <= 1
  BY DEF TypeInv, TypeOK, DeliveryInv, PartInv
<1>2. CASE delivered[i] = 0
  <2>1. IsFiniteSet(ChargedFor(i))
    BY FS_Subset DEF DeliveryInv, DebitInv, ChargedFor
  <2> QED
    BY <1>2, <2>1, FS_CardinalityType
<1>3. CASE delivered[i] = 1
  <2>1. ~(Resolved(cln[i]) /\ Resolved(lnd[i]))
    BY <1>3 DEF DeliveryInv, PartInv, Resolved
  <2>2. PICK a \in debited : InvoiceOf[a] = i /\ (~Ending(a) \/ a \in hasty)
    BY <2>1 DEF DeliveryInv, StandInv
  <2>3. a \in Attempts /\ a \notin hasty
    BY <2>2 DEF TypeInv, TypeOK, DeliveryInv, LoadInv
  <2>5. returned[a] = 0
    BY <2>2, <2>3 DEF TypeInv, TypeOK, Ending
  <2>4. a \in ChargedFor(i)
    BY <2>2, <2>3, <2>5 DEF ChargedFor
  <2> QED
    BY <1>3, <2>4, ChargeCounts DEF DeliveryInv
<1> QED
  BY <1>1, <1>2, <1>3

(* Nobody gets an invoice paid and the money back, unless CLN was told to     *)
(* retry for longer than check() waits and check() gave the payment up by then. *)
THEOREM NothingDeliveredFree == ASSUME Separate PROVE Spec => []NoFreeDelivery
<1>1. Init => DeliveryInv
  BY DeliveryInit
<1>2. TypeInv /\ TypeInv' /\ DeliveryInv /\ [Next]_vars => DeliveryInv'
  BY Separate, DeliveryNext
<1>3. TypeInv /\ DeliveryInv => NoFreeDelivery
  BY DeliveryCovered
<1>4. Spec => []TypeInv
  BY TypeCorrectInv
<1> QED
  BY <1>1, <1>2, <1>3, <1>4, PTL DEF Spec

-----------------------------------------------------------------------------
(* The abstract escrow *)

(* No two attempts are at the same invoice. *)
Alone == \A a, b \in Attempts : InvoiceOf[a] = InvoiceOf[b] => a = b

(* The payment was made when somebody settles it, and only what was debited *)
(* has a record, is worked on by check() or goes back.                       *)
Settling == {"settle", "fin", "finRead", "finCheck", "finSave", "finClaim",
             "finRefund", "finRecheck", "finResave"}

FlowInv ==
  /\ \A a \in Attempts :
       /\ record[a] # "none" \/ returned[a] > 0 => a \in debited
       /\ record[a] = "settled" => delivered[InvoiceOf[a]] > 0
  /\ pc[Sweep] \in {"query"} \cup SharedLabels => cur \in debited
  /\ \A q \in Procs : pc[q] \in Settling => delivered[Invoice(q)] > 0

(* Nobody is at work at first. *)
LEMMA FlowInit == ASSUME Init PROVE FlowInv
BY SendAssumption DEF SendAssumption, Init, FlowInv, Settling, SharedLabels, Procs

(* Every step keeps it: finalize() is only entered with an answer that the  *)
(* invoice is paid, from xpay, LND or listpays.                              *)
LEMMA FlowNext ==
  ASSUME TypeInv, ReverseInv, PartInv, DebitInv, LoadInv, FlowInv, [Next]_vars
  PROVE FlowInv'
<1> USE SendAssumption DEF SendAssumption, TypeInv, TypeOK, SweepInv, Procs,
      DriverLabels, SweepLabels, SharedLabels, Status, store, ledger, sweep, network,
      faults, Goto, Return, Payment, Invoice,
      FreshInv, ReverseInv, PartInv, DebitInv, LoadInv, FlowInv, Settling, ListPays,
      Before, Early
<1>1. ASSUME NEW a \in Attempts, Precheck(a) PROVE FlowInv'
  BY <1>1 DEF Precheck
<1>2. ASSUME NEW a \in Attempts, Claim(a) PROVE FlowInv'
  BY <1>2 DEF Claim
<1>3. ASSUME NEW a \in Attempts, Debit(a) PROVE FlowInv'
  BY <1>3 DEF Debit
<1>4. ASSUME NEW a \in Attempts, Record(a) PROVE FlowInv'
  BY <1>4 DEF Record
<1>5. ASSUME NEW a \in Attempts, RecordFails(a) PROVE FlowInv'
  BY <1>5 DEF RecordFails
<1>6. ASSUME NEW a \in Attempts, Release(a) PROVE FlowInv'
  BY <1>6 DEF Release
<1>7. ASSUME NEW a \in Attempts, CallXpay(a) PROVE FlowInv'
  BY <1>7 DEF CallXpay
<1>8. ASSUME NEW a \in Attempts, XpayPays(a) PROVE FlowInv'
  BY <1>8 DEF XpayPays, Paid
<1>9. ASSUME NEW a \in Attempts, XpayThrows(a) PROVE FlowInv'
  BY <1>9 DEF XpayThrows
<1>10. ASSUME NEW a \in Attempts, CallLnd(a) PROVE FlowInv'
  BY <1>10 DEF CallLnd
<1>11. ASSUME NEW a \in Attempts, DeclineLnd(a) PROVE FlowInv'
  BY <1>11 DEF DeclineLnd
<1>12. ASSUME NEW a \in Attempts, LndReturns(a) PROVE FlowInv'
  BY <1>12 DEF LndReturns, Paid
<1>13. ASSUME NEW a \in Attempts, Verify(a) PROVE FlowInv'
  BY <1>13 DEF Verify
<1>14. ASSUME NEW a \in Attempts, Unclaim(a) PROVE FlowInv'
  BY <1>14 DEF Unclaim
<1>15. ASSUME NEW q \in Procs, Finalize(q) PROVE FlowInv'
  BY <1>15 DEF Finalize
<1>16. ASSUME NEW q \in Procs, FinalizeRead(q) PROVE FlowInv'
  BY <1>16 DEF FinalizeRead
<1>17. ASSUME NEW q \in Procs, FinalizeCheck(q) PROVE FlowInv'
  BY <1>17 DEF FinalizeCheck
<1>18. ASSUME NEW q \in Procs, FinalizeSave(q) PROVE FlowInv'
  BY <1>18 DEF FinalizeSave
<1>19. ASSUME NEW q \in Procs, FinalizeSaveFails(q) PROVE FlowInv'
  BY <1>19 DEF FinalizeSaveFails
<1>20. ASSUME NEW q \in Procs, FinalizeClaim(q) PROVE FlowInv'
  BY <1>20 DEF FinalizeClaim
<1>21. ASSUME NEW q \in Procs, FinalizeRefund(q) PROVE FlowInv'
  BY <1>21 DEF FinalizeRefund
<1>22. ASSUME NEW q \in Procs, Reverse(q) PROVE FlowInv'
  BY <1>22 DEF Reverse
<1>23. ASSUME NEW q \in Procs, ReverseRead(q) PROVE FlowInv'
  BY <1>23 DEF ReverseRead
<1>24. ASSUME NEW q \in Procs, ReverseLedger(q) PROVE FlowInv'
  BY <1>24 DEF ReverseLedger
<1>25. ASSUME NEW q \in Procs, ReverseClean(q) PROVE FlowInv'
  BY <1>25 DEF ReverseClean
<1>26. ASSUME NEW q \in Procs, ReverseFails(q) PROVE FlowInv'
  BY <1>26 DEF ReverseFails
<1>27. ASSUME SweepStart PROVE FlowInv'
  BY <1>27 DEF SweepStart
<1>28. ASSUME SweepNext PROVE FlowInv'
  BY <1>28 DEF SweepNext
<1>29. ASSUME SweepLoad PROVE FlowInv'
  BY <1>29 DEF SweepLoad
<1>30. ASSUME SweepDrop PROVE FlowInv'
  BY <1>30 DEF SweepDrop
<1>31. ASSUME SweepQuery PROVE FlowInv'
  BY <1>31 DEF SweepQuery, Launchable
<1>32. ASSUME SweepAborts PROVE FlowInv'
  BY <1>32 DEF SweepAborts
<1>33. ASSUME NEW a \in Attempts, LaunchPart(a) PROVE FlowInv'
  BY <1>33 DEF LaunchPart, Launchable
<1>34. ASSUME NEW a \in Attempts, ClaimExpires(a) PROVE FlowInv'
  BY <1>34 DEF ClaimExpires
<1>35. ASSUME NEW i \in Invoices, ClnPart(i) PROVE FlowInv'
  BY <1>35 DEF ClnPart
<1>36. ASSUME NEW i \in Invoices, LndPart(i) PROVE FlowInv'
  BY <1>36 DEF LndPart
<1>37. ASSUME Tick PROVE FlowInv'
  BY <1>37 DEF Tick
<1>38. ASSUME SocketDrops PROVE FlowInv'
  BY <1>38 DEF SocketDrops
<1>39. ASSUME Crash PROVE FlowInv'
  BY <1>39 DEF Crash
<1>40. CASE UNCHANGED vars
  BY <1>40 DEF vars
<1> QED
  BY <1>1, <1>2, <1>3, <1>4, <1>5, <1>6, <1>7, <1>8, <1>9, <1>10, <1>11,
     <1>12, <1>13, <1>14, <1>15, <1>16, <1>17, <1>18, <1>19, <1>20, <1>21,
     <1>22, <1>23, <1>24, <1>25, <1>26, <1>27, <1>28, <1>29, <1>30, <1>31,
     <1>32, <1>33, <1>34, <1>35, <1>36, <1>37, <1>38, <1>39, <1>40
     DEF Next, Driver, FinalizeStep, ReverseStep, SweepStep, Network

(* Where attempts are alone at their invoices, check() asks about a payment *)
(* only when no call for it is open; what it gave up too early has nobody   *)
(* else at work, so that nobody settles it while its debit goes back.       *)
HastyInv ==
  /\ \A a \in Attempts :
       /\ pc[a] \in Within => InvoiceOf[a] \in inFlight
       /\ a \in xpay => pc[a] \in {"paying", "hung", "done"}
       /\ a \in hasty => pc[a] = "done"
  /\ pc[Sweep] = "query" => pc[cur] \notin Before \cup Within
  /\ pc[Sweep] \in {"revLedger", "revClean"} /\ cur \in hasty => record[cur] # "settled"

(* Nothing is given up at first. *)
LEMMA HastyInit == ASSUME Init PROVE HastyInv
BY SendAssumption DEF SendAssumption, Init, HastyInv, Within, Procs

(* Every step keeps it. *)
LEMMA HastyNext ==
  ASSUME Alone, TypeInv, ReverseInv, PartInv, DebitInv, LoadInv, FlowInv, HastyInv,
         [Next]_vars
  PROVE HastyInv'
<1> USE SendAssumption DEF SendAssumption, TypeInv, TypeOK, SweepInv, Procs,
      DriverLabels, SweepLabels, SharedLabels, Status, store, ledger, sweep, network,
      faults, Goto, Return, Payment, Invoice,
      Alone, FreshInv, ReverseInv, DebitInv, LoadInv, HastyInv, StillDriven, Settling,
      Before, Early, Within
<1>0. \A a \in Attempts : record[a] = "settled" => delivered[InvoiceOf[a]] > 0
  BY DEF FlowInv
<1>1. ASSUME NEW a \in Attempts, Precheck(a) PROVE HastyInv'
  BY <1>1 DEF Precheck
<1>2. ASSUME NEW a \in Attempts, Claim(a) PROVE HastyInv'
  BY <1>2 DEF Claim
<1>3. ASSUME NEW a \in Attempts, Debit(a) PROVE HastyInv'
  BY <1>3 DEF Debit
<1>4. ASSUME NEW a \in Attempts, Record(a) PROVE HastyInv'
  BY <1>4 DEF Record
<1>5. ASSUME NEW a \in Attempts, RecordFails(a) PROVE HastyInv'
  BY <1>5 DEF RecordFails
<1>6. ASSUME NEW a \in Attempts, Release(a) PROVE HastyInv'
  BY <1>6 DEF Release
<1>7. ASSUME NEW a \in Attempts, CallXpay(a) PROVE HastyInv'
  BY <1>7 DEF CallXpay
<1>8. ASSUME NEW a \in Attempts, XpayPays(a) PROVE HastyInv'
  BY <1>8 DEF XpayPays, Paid
<1>9. ASSUME NEW a \in Attempts, XpayThrows(a) PROVE HastyInv'
  BY <1>9 DEF XpayThrows
<1>10. ASSUME NEW a \in Attempts, CallLnd(a) PROVE HastyInv'
  BY <1>10 DEF CallLnd
<1>11. ASSUME NEW a \in Attempts, DeclineLnd(a) PROVE HastyInv'
  BY <1>11 DEF DeclineLnd
<1>12. ASSUME NEW a \in Attempts, LndReturns(a) PROVE HastyInv'
  BY <1>12 DEF LndReturns, Paid
<1>13. ASSUME NEW a \in Attempts, Verify(a) PROVE HastyInv'
  BY <1>13 DEF Verify
<1>14. ASSUME NEW a \in Attempts, Unclaim(a) PROVE HastyInv'
  BY <1>14 DEF Unclaim
<1>15. ASSUME NEW q \in Procs, Finalize(q) PROVE HastyInv'
  BY <1>15 DEF Finalize
<1>16. ASSUME NEW q \in Procs, FinalizeRead(q) PROVE HastyInv'
  BY <1>16 DEF FinalizeRead
<1>17. ASSUME NEW q \in Procs, FinalizeCheck(q) PROVE HastyInv'
  BY <1>17 DEF FinalizeCheck
<1>18. ASSUME NEW q \in Procs, FinalizeSave(q) PROVE HastyInv'
  BY <1>18 DEF FinalizeSave
<1>19. ASSUME NEW q \in Procs, FinalizeSaveFails(q) PROVE HastyInv'
  BY <1>19 DEF FinalizeSaveFails
<1>20. ASSUME NEW q \in Procs, FinalizeClaim(q) PROVE HastyInv'
  BY <1>20 DEF FinalizeClaim
<1>21. ASSUME NEW q \in Procs, FinalizeRefund(q) PROVE HastyInv'
  BY <1>21 DEF FinalizeRefund
<1>22. ASSUME NEW q \in Procs, Reverse(q) PROVE HastyInv'
  BY <1>22 DEF Reverse
<1>23. ASSUME NEW q \in Procs, ReverseRead(q) PROVE HastyInv'
  BY <1>23, <1>0 DEF ReverseRead
<1>24. ASSUME NEW q \in Procs, ReverseLedger(q) PROVE HastyInv'
  BY <1>24 DEF ReverseLedger
<1>25. ASSUME NEW q \in Procs, ReverseClean(q) PROVE HastyInv'
  BY <1>25 DEF ReverseClean
<1>26. ASSUME NEW q \in Procs, ReverseFails(q) PROVE HastyInv'
  BY <1>26 DEF ReverseFails
<1>27. ASSUME SweepStart PROVE HastyInv'
  BY <1>27 DEF SweepStart
<1>28. ASSUME SweepNext PROVE HastyInv'
  BY <1>28 DEF SweepNext
<1>29. ASSUME SweepLoad PROVE HastyInv'
  BY <1>29 DEF SweepLoad
<1>30. ASSUME SweepDrop PROVE HastyInv'
  BY <1>30 DEF SweepDrop
<1>31. ASSUME SweepQuery PROVE HastyInv'
  BY <1>31 DEF SweepQuery, Launchable
<1>32. ASSUME SweepAborts PROVE HastyInv'
  BY <1>32 DEF SweepAborts
<1>33. ASSUME NEW a \in Attempts, LaunchPart(a) PROVE HastyInv'
  BY <1>33 DEF LaunchPart, Launchable
<1>34. ASSUME NEW a \in Attempts, ClaimExpires(a) PROVE HastyInv'
  BY <1>34 DEF ClaimExpires
<1>35. ASSUME NEW i \in Invoices, ClnPart(i) PROVE HastyInv'
  BY <1>35 DEF ClnPart
<1>36. ASSUME NEW i \in Invoices, LndPart(i) PROVE HastyInv'
  BY <1>36 DEF LndPart
<1>37. ASSUME Tick PROVE HastyInv'
  BY <1>37 DEF Tick
<1>38. ASSUME SocketDrops PROVE HastyInv'
  BY <1>38 DEF SocketDrops
<1>39. ASSUME Crash PROVE HastyInv'
  BY <1>39 DEF Crash
<1>40. CASE UNCHANGED vars
  BY <1>40 DEF vars
<1> QED
  BY <1>1, <1>2, <1>3, <1>4, <1>5, <1>6, <1>7, <1>8, <1>9, <1>10, <1>11,
     <1>12, <1>13, <1>14, <1>15, <1>16, <1>17, <1>18, <1>19, <1>20, <1>21,
     <1>22, <1>23, <1>24, <1>25, <1>26, <1>27, <1>28, <1>29, <1>30, <1>31,
     <1>32, <1>33, <1>34, <1>35, <1>36, <1>37, <1>38, <1>39, <1>40
     DEF Next, Driver, FinalizeStep, ReverseStep, SweepStep, Network

(* The books that the escrow reads. *)
Books == <<debited, returned, record, delivered, hasty>>
Charge == [a \in Attempts |-> ChargeOf(a)]
PaidFor == {i \in Invoices : delivered[i] > 0}
Abandoned == {a \in Attempts : Rash(a)}
Mapped == <<Charge, PaidFor, Abandoned>>

EscrowInv == TypeInv /\ DeliveryInv /\ FlowInv /\ HastyInv

(* A step that does not touch the books is none of the escrow's. *)
LEMMA BooksAlone == ASSUME UNCHANGED Books PROVE UNCHANGED Mapped
BY DEF Books, Mapped, Charge, PaidFor, Abandoned, Rash, ChargeOf

(* The charge of an attempt after a step. *)
LEMMA ChargeAfter ==
  Charge' = [b \in Attempts |->
    IF b \notin debited' THEN "none"
    ELSE IF returned'[b] > 0 THEN "returned"
    ELSE IF record'[b] = "settled" THEN "kept" ELSE "held"]
BY DEF Charge, ChargeOf

(* A charge that changes alone. *)
LEMMA ChargeSet ==
  ASSUME NEW a \in Attempts, NEW c, Charge'[a] = c,
         \A b \in Attempts \ {a} : Charge'[b] = Charge[b]
  PROVE Charge' = [Charge EXCEPT ![a] = c]
BY DEF Charge

(* What check() gave up too early is what the escrow has abandoned. *)
LEMMA HastyAbandoned ==
  /\ UNCHANGED hasty => UNCHANGED Abandoned
  /\ EscrowInv => hasty \subseteq Abandoned
BY DEF Abandoned, Rash, EscrowInv, TypeInv, TypeOK, DeliveryInv, LoadInv

(* The initial states map to the initial state. *)
LEMMA EscrowInit == ASSUME Init PROVE Account!Init
BY DEF Init, Account!Init, ChargeOf, Rash

(* Debit is Hold. *)
LEMMA DebitHolds ==
  ASSUME EscrowInv, NEW a \in Attempts, Debit(a)
  PROVE Account!Hold(a) \/ UNCHANGED Mapped
<1> USE DEF EscrowInv, DeliveryInv, ReverseInv, TypeInv, TypeOK
<1>1. returned[a] = 0 /\ a \notin debited /\ record[a] = "none"
  BY DEF Debit, FreshInv, DebitInv, Early
<1>2. CASE debited' = debited \cup {a}
  <2>1. UNCHANGED <<returned, record, delivered, hasty>>
    BY DEF Debit, store, sweep, network
  <2>2. PaidFor' = PaidFor /\ Abandoned' = Abandoned
    BY <2>1, HastyAbandoned DEF PaidFor
  <2>3. Charge' = [Charge EXCEPT ![a] = "held"]
    <3>1. Charge'[a] = "held"
      BY <1>1, <1>2, <2>1, ChargeAfter
    <3>2. \A b \in Attempts \ {a} : Charge'[b] = Charge[b]
      BY <1>1, <1>2, <2>1, ChargeAfter DEF Charge, ChargeOf
    <3> QED
      BY <3>1, <3>2, ChargeSet
  <2>4. Charge[a] = "none"
    BY <1>1 DEF Charge, ChargeOf
  <2> QED
    BY <2>2, <2>3, <2>4 DEF Account!Hold, Charge, PaidFor, Abandoned
<1>3. CASE UNCHANGED debited
  <2>1. UNCHANGED Books
    BY <1>3 DEF Debit, store, sweep, network, Books
  <2> QED
    BY <2>1, BooksAlone
<1> QED
  BY <1>2, <1>3 DEF Debit

(* To store the record is nothing to the escrow. *)
LEMMA RecordHolds ==
  ASSUME EscrowInv, NEW a \in Attempts, Record(a) PROVE UNCHANGED Mapped
<1> USE DEF EscrowInv, DeliveryInv, ReverseInv, TypeInv, TypeOK
<1>1. UNCHANGED <<debited, returned, delivered, hasty>>
  BY DEF Record, ledger, sweep, network
<1>2. \A b \in Attempts : record[b] = "settled" <=> record'[b] = "settled"
  <2>1. CASE pc[a] = "record"
    BY <2>1 DEF Record
  <2>2. CASE pc[a] = "store"
    BY <2>2 DEF Record, FreshInv, Early
  <2> QED
    BY <2>1, <2>2 DEF Record
<1> QED
  BY <1>1, <1>2, ChargeAfter, HastyAbandoned DEF Charge, ChargeOf, PaidFor, Mapped

(* Where no other attempt is at an invoice, the debit for what is under way or *)
(* delivered is the attempt's own, and it stands unless check() gave it up too *)
(* early.                                                                       *)
LEMMA OwnDebit ==
  ASSUME Alone, EscrowInv, NEW a \in Attempts,
         ~(Resolved(cln[InvoiceOf[a]]) /\ Resolved(lnd[InvoiceOf[a]]))
  PROVE a \in debited /\ (a \in hasty \/ (~Ending(a) /\ returned[a] = 0))
<1>1. PICK b \in debited : InvoiceOf[b] = InvoiceOf[a] /\ (~Ending(b) \/ b \in hasty)
  BY SendAssumption DEF SendAssumption, EscrowInv, DeliveryInv, StandInv
<1>2. b = a
  BY <1>1 DEF Alone, EscrowInv, TypeInv, TypeOK
<1> QED
  BY <1>1, <1>2 DEF Ending, EscrowInv, TypeInv, TypeOK

(* A paid invoice keeps a debit from going back, with the same exception. *)
LEMMA PaidStands ==
  ASSUME Alone, EscrowInv, NEW a \in Attempts, delivered[InvoiceOf[a]] > 0
  PROVE a \in debited /\ (a \in hasty \/ (~Ending(a) /\ returned[a] = 0))
<1>1. ~(Resolved(cln[InvoiceOf[a]]) /\ Resolved(lnd[InvoiceOf[a]]))
  BY SendAssumption DEF SendAssumption, EscrowInv, DeliveryInv, PartInv, Resolved
<1> QED
  BY <1>1, OwnDebit

(* To save the preimage is Keep. *)
LEMMA SaveKeeps ==
  ASSUME Alone, EscrowInv, NEW q \in Procs, FinalizeSave(q)
  PROVE (\E a \in Attempts : Account!Keep(a)) \/ UNCHANGED Mapped
<1> USE DEF EscrowInv, TypeInv, TypeOK
<1> DEFINE a == Payment(q)
<1>1. a \in Attempts
  BY DEF Payment, SweepInv, SharedLabels, FinalizeSave, Procs
<1>2. delivered[InvoiceOf[a]] > 0
  BY DEF FlowInv, Settling, Invoice, FinalizeSave
<1>3. a \in debited
  BY <1>1, <1>2, PaidStands
<1>4. /\ UNCHANGED <<debited, returned, delivered, hasty>>
      /\ record' = [record EXCEPT ![a] = "settled"]
  BY DEF FinalizeSave, ledger, sweep, network
<1>5. PaidFor' = PaidFor /\ Abandoned' = Abandoned
  BY <1>4, HastyAbandoned DEF PaidFor
<1>6. CASE Charge[a] = "held"
  <2>1. returned[a] = 0
    BY <1>1, <1>3, <1>6 DEF Charge, ChargeOf
  <2>2. Charge' = [Charge EXCEPT ![a] = "kept"]
    <3>1. Charge'[a] = "kept"
      BY <1>1, <1>3, <1>4, <2>1, ChargeAfter
    <3>2. \A b \in Attempts \ {a} : Charge'[b] = Charge[b]
      BY <1>1, <1>3, <1>4, ChargeAfter DEF Charge, ChargeOf
    <3> QED
      BY <3>1, <3>2, <1>1, ChargeSet
  <2>3. InvoiceOf[a] \in PaidFor
    BY <1>1, <1>2, SendAssumption DEF SendAssumption, PaidFor
  <2>4. \A b \in Attempts \ {a} : InvoiceOf[b] # InvoiceOf[a]
    BY <1>1 DEF Alone
  <2>5. Account!Keep(a)
    BY <1>5, <1>6, <2>2, <2>3, <2>4
      DEF Account!Keep, Account!KeptByAnother, Charge, PaidFor, Abandoned
  <2> QED
    BY <1>1, <2>5
<1>7. CASE Charge[a] # "held"
  <2>1. returned[a] > 0 \/ record[a] = "settled"
    BY <1>1, <1>3, <1>7 DEF Charge, ChargeOf
  <2>2. \A b \in Attempts : Charge'[b] = Charge[b]
    BY <1>1, <1>3, <1>4, <2>1, ChargeAfter DEF Charge, ChargeOf
  <2>3. Charge' = Charge
    BY <2>2 DEF Charge
  <2> QED
    BY <2>3, <1>5 DEF Mapped
<1> QED
  BY <1>6, <1>7

(* Who gives a debit back works on a payment that was not made, or that      *)
(* check() gave up too early.                                                 *)
LEMMA BusyUnpaid ==
  ASSUME Alone, EscrowInv, NEW q \in Procs, pc[q] \in {"revLedger", "revClean"}
  PROVE /\ Payment(q) \in debited /\ Payment(q) \in Attempts
        /\ delivered[InvoiceOf[Payment(q)]] = 0 \/ Payment(q) \in hasty
        /\ record[Payment(q)] # "settled"
<1> USE DEF EscrowInv, TypeInv, TypeOK
<1> DEFINE a == Payment(q)
<1>1. a \in Attempts
  BY DEF Payment, SweepInv, SharedLabels, Procs
<1>2. Ending(a)
  BY DEF Ending, Busy
<1>3. CASE a \in hasty
  <2>1. q = Sweep
    BY <1>1, <1>3 DEF HastyInv, Payment, Procs
  <2> QED
    BY <2>1, <1>1, <1>3 DEF HastyInv, FlowInv, Payment, SharedLabels
<1>4. CASE a \notin hasty
  <2>1. ~(delivered[InvoiceOf[a]] > 0)
    BY <1>1, <1>2, <1>4, PaidStands
  <2>2. delivered[InvoiceOf[a]] = 0
    BY <1>1, <2>1, SendAssumption DEF SendAssumption
  <2>3. record[a] # "settled"
    BY <1>1, <2>1 DEF FlowInv
  <2>4. a \in debited
    <3>1. CASE q = Sweep
      BY <3>1 DEF FlowInv, Payment, SharedLabels
    <3>2. CASE q # Sweep
      BY <3>2 DEF DeliveryInv, DebitInv, Payment, Procs
    <3> QED
      BY <3>1, <3>2
  <2> QED
    BY <1>1, <2>2, <2>3, <2>4
<1> QED
  BY <1>3, <1>4

(* tbReverse is GiveBack, the first time. *)
LEMMA LedgerGivesBack ==
  ASSUME Alone, EscrowInv, NEW q \in Procs, ReverseLedger(q)
  PROVE (\E a \in Attempts : Account!GiveBack(a)) \/ UNCHANGED Mapped
<1> USE DEF EscrowInv, TypeInv, TypeOK
<1> DEFINE a == Payment(q)
<1>1. /\ a \in debited /\ a \in Attempts /\ record[a] # "settled"
      /\ delivered[InvoiceOf[a]] = 0 \/ a \in hasty
  BY BusyUnpaid DEF ReverseLedger
<1>2. /\ UNCHANGED <<debited, record, delivered, hasty>>
      /\ returned' = [returned EXCEPT ![a] = returned[a] + 1]
  BY DEF ReverseLedger, store, sweep, network
<1>3. PaidFor' = PaidFor /\ Abandoned' = Abandoned
  BY <1>2, HastyAbandoned DEF PaidFor
<1>4. returned[a] \in Nat
  BY <1>1
<1>5. Charge' = [Charge EXCEPT ![a] = "returned"]
  <2>1. Charge'[a] = "returned"
    BY <1>1, <1>2, <1>4, ChargeAfter
  <2>2. \A b \in Attempts \ {a} : Charge'[b] = Charge[b]
    BY <1>1, <1>2, <1>4, ChargeAfter DEF Charge, ChargeOf
  <2> QED
    BY <2>1, <2>2, <1>1, ChargeSet
<1>6. CASE returned[a] > 0
  <2>1. Charge[a] = "returned"
    BY <1>1, <1>6 DEF Charge, ChargeOf
  <2>2. Charge' = Charge
    BY <1>5, <2>1 DEF Charge
  <2> QED
    BY <2>2, <1>3 DEF Mapped
<1>7. CASE returned[a] = 0
  <2>1. Charge[a] = "held"
    BY <1>1, <1>7 DEF Charge, ChargeOf
  <2>2. InvoiceOf[a] \notin PaidFor \/ a \in Abandoned
    BY <1>1, HastyAbandoned DEF PaidFor
  <2>3. Account!GiveBack(a)
    BY <1>3, <1>5, <2>1, <2>2 DEF Account!GiveBack, Charge, PaidFor, Abandoned
  <2> QED
    BY <1>1, <2>3
<1> QED
  BY <1>4, <1>6, <1>7

(* The record goes when the debit is back, which is nothing to the escrow. *)
LEMMA CleanReturned ==
  ASSUME Alone, EscrowInv, NEW q \in Procs, ReverseClean(q)
  PROVE UNCHANGED Mapped
<1>1. Payment(q) \in Attempts /\ record[Payment(q)] # "settled"
  BY BusyUnpaid DEF ReverseClean
<1>2. /\ UNCHANGED <<debited, returned, delivered, hasty>>
      /\ record' = [record EXCEPT ![Payment(q)] = "none"]
  BY DEF ReverseClean, ledger, sweep, network
<1> QED
  BY <1>1, <1>2, ChargeAfter, HastyAbandoned
    DEF Charge, ChargeOf, PaidFor, Mapped, EscrowInv, TypeInv, TypeOK

(* A part that arrives is Pay, and one that fails is nothing to the escrow. *)
LEMMA PartPays ==
  ASSUME Alone, EscrowInv, NEW i \in Invoices, ClnPart(i) \/ LndPart(i)
  PROVE (\E a \in Attempts : Account!Pay(a)) \/ UNCHANGED Mapped
<1> USE DEF EscrowInv, TypeInv, TypeOK
<1>1. UNCHANGED <<debited, returned, record, hasty>>
  BY DEF ClnPart, LndPart, ledger, store, sweep
<1>2. CASE UNCHANGED delivered
  <2>1. UNCHANGED Books
    BY <1>1, <1>2 DEF Books
  <2> QED
    BY <2>1, BooksAlone
<1>3. CASE delivered' = [delivered EXCEPT ![i] = delivered[i] + 1]
  <2>1. ~(Resolved(cln[i]) /\ Resolved(lnd[i])) /\ delivered[i] = 0
    BY DEF ClnPart, LndPart, DeliveryInv, PartInv, Resolved
  <2>2. PICK a \in debited : InvoiceOf[a] = i /\ (~Ending(a) \/ a \in hasty)
    BY <2>1 DEF DeliveryInv, StandInv
  <2>3. a \in Attempts
    BY <2>2
  <2>4. record[a] # "settled"
    BY <2>1, <2>2, <2>3 DEF FlowInv
  <2>5. Charge[a] = "held" \/ a \in Abandoned
    BY <2>2, <2>3, <2>4, HastyAbandoned DEF Charge, ChargeOf, Ending
  <2>6. PaidFor' = PaidFor \cup {i} /\ Abandoned' = Abandoned
    BY <1>1, <1>3, <2>1, HastyAbandoned DEF PaidFor
  <2>7. Charge' = Charge
    BY <1>1, ChargeAfter DEF Charge, ChargeOf
  <2>8. i \notin PaidFor
    BY <2>1 DEF PaidFor
  <2>9. Account!Pay(a)
    BY <2>2, <2>5, <2>6, <2>7, <2>8 DEF Account!Pay, Charge, PaidFor, Abandoned
  <2> QED
    BY <2>3, <2>9
<1> QED
  BY <1>2, <1>3 DEF ClnPart, LndPart

(* To give a payment up too early is Abandon, the first time: nothing is alive *)
(* of it at either node, and its debit was not given back before.               *)
LEMMA QueryAbandons ==
  ASSUME Alone, EscrowInv, SweepQuery
  PROVE (\E a \in Attempts : Account!Abandon(a)) \/ UNCHANGED Mapped
<1> USE DEF EscrowInv, TypeInv, TypeOK
<1>1. UNCHANGED <<debited, returned, record, delivered>>
  BY DEF SweepQuery, store, ledger, network
<1>2. CASE UNCHANGED hasty
  <2>1. UNCHANGED Books
    BY <1>1, <1>2 DEF Books
  <2> QED
    BY <2>1, BooksAlone
<1>3. CASE hasty' # hasty
  <2>1. /\ hasty' = hasty \cup {cur} /\ cur \notin hasty
        /\ Resolved(ListPays(item)) /\ Launchable(cur)
    BY <1>3 DEF SweepQuery
  <2>2. cur \in Attempts /\ cur \in debited /\ item \in Invoices /\ InvoiceOf[cur] = item
    BY DEF SweepQuery, SweepInv, FlowInv, DeliveryInv, LoadInv
  <2>3. delivered[item] = 0
    <3>1. Resolved(cln[item]) /\ Resolved(lnd[item])
      BY <2>1, <2>2, SendAssumption
        DEF SendAssumption, ListPays, Resolved, DeliveryInv, LndInv
    <3> QED
      BY <2>2, <3>1 DEF DeliveryInv, PartInv, Resolved
  <2>4. returned[cur] = 0
    BY <2>1, <2>2, SendAssumption
      DEF SendAssumption, DeliveryInv, EndInv, Ending, Stopped, Launchable
  <2>5. record[cur] # "settled"
    BY <2>2, <2>3 DEF FlowInv
  <2>6. Charge[cur] = "held" /\ InvoiceOf[cur] \notin PaidFor
    BY <2>2, <2>3, <2>4, <2>5 DEF Charge, ChargeOf, PaidFor
  <2>7. RetryFor[cur] > CheckAge
    <3>1. age[cur] >= CheckAge /\ age[cur] < RetryFor[cur]
      BY <2>1 DEF SweepQuery, DeliveryInv, LoadInv, Launchable
    <3> QED
      BY <2>2, <3>1, SendAssumption DEF SendAssumption
  <2>8. Abandoned' = Abandoned \cup {cur}
    BY <2>1, <2>2, <2>7 DEF Abandoned, Rash
  <2>9. Charge' = Charge /\ PaidFor' = PaidFor
    BY <1>1, ChargeAfter DEF Charge, ChargeOf, PaidFor
  <2>10. Account!Abandon(cur)
    BY <2>6, <2>8, <2>9 DEF Account!Abandon, Charge, PaidFor, Abandoned
  <2> QED
    BY <2>2, <2>10
<1> QED
  BY <1>2, <1>3

(* Every step is a step of the escrow, or none of its business. *)
LEMMA EscrowNext ==
  ASSUME Alone, EscrowInv, [Next]_vars
  PROVE Account!Next \/ UNCHANGED Mapped
<1> USE DEF Books, store, ledger, sweep, network, faults, Goto, Return
<1> DEFINE Done == Account!Next \/ UNCHANGED Mapped
<1>1. ASSUME NEW a \in Attempts, Debit(a) PROVE Done
  BY <1>1, DebitHolds DEF Account!Next
<1>2. ASSUME NEW a \in Attempts, Record(a) PROVE Done
  BY <1>2, RecordHolds
<1>3. ASSUME NEW q \in Procs, FinalizeSave(q) PROVE Done
  BY <1>3, SaveKeeps DEF Account!Next
<1>4. ASSUME NEW q \in Procs, ReverseLedger(q) PROVE Done
  BY <1>4, LedgerGivesBack DEF Account!Next
<1>5. ASSUME NEW q \in Procs, ReverseClean(q) PROVE Done
  BY <1>5, CleanReturned
<1>6. ASSUME NEW i \in Invoices, ClnPart(i) PROVE Done
  BY <1>6, PartPays DEF Account!Next
<1>7. ASSUME NEW i \in Invoices, LndPart(i) PROVE Done
  BY <1>7, PartPays DEF Account!Next
<1>8. ASSUME NEW a \in Attempts, Precheck(a) PROVE UNCHANGED Books
  BY <1>8 DEF Precheck
<1>9. ASSUME NEW a \in Attempts, Claim(a) PROVE UNCHANGED Books
  BY <1>9 DEF Claim
<1>10. ASSUME NEW a \in Attempts, RecordFails(a) PROVE UNCHANGED Books
  BY <1>10 DEF RecordFails
<1>11. ASSUME NEW a \in Attempts, Release(a) PROVE UNCHANGED Books
  BY <1>11 DEF Release
<1>12. ASSUME NEW a \in Attempts, CallXpay(a) PROVE UNCHANGED Books
  BY <1>12 DEF CallXpay
<1>13. ASSUME NEW a \in Attempts, XpayPays(a) PROVE UNCHANGED Books
  BY <1>13 DEF XpayPays
<1>14. ASSUME NEW a \in Attempts, XpayThrows(a) PROVE UNCHANGED Books
  BY <1>14 DEF XpayThrows
<1>15. ASSUME NEW a \in Attempts, CallLnd(a) PROVE UNCHANGED Books
  BY <1>15 DEF CallLnd
<1>16. ASSUME NEW a \in Attempts, DeclineLnd(a) PROVE UNCHANGED Books
  BY <1>16 DEF DeclineLnd
<1>17. ASSUME NEW a \in Attempts, LndReturns(a) PROVE UNCHANGED Books
  BY <1>17 DEF LndReturns
<1>18. ASSUME NEW a \in Attempts, Verify(a) PROVE UNCHANGED Books
  BY <1>18 DEF Verify
<1>19. ASSUME NEW a \in Attempts, Unclaim(a) PROVE UNCHANGED Books
  BY <1>19 DEF Unclaim
<1>20. ASSUME NEW q \in Procs, Finalize(q) PROVE UNCHANGED Books
  BY <1>20 DEF Finalize
<1>21. ASSUME NEW q \in Procs, FinalizeRead(q) PROVE UNCHANGED Books
  BY <1>21 DEF FinalizeRead
<1>22. ASSUME NEW q \in Procs, FinalizeCheck(q) PROVE UNCHANGED Books
  BY <1>22 DEF FinalizeCheck
<1>23. ASSUME NEW q \in Procs, FinalizeSaveFails(q) PROVE UNCHANGED Books
  BY <1>23 DEF FinalizeSaveFails
<1>24. ASSUME NEW q \in Procs, FinalizeClaim(q) PROVE UNCHANGED Books
  BY <1>24 DEF FinalizeClaim
<1>25. ASSUME NEW q \in Procs, FinalizeRefund(q) PROVE UNCHANGED Books
  BY <1>25 DEF FinalizeRefund
<1>26. ASSUME NEW q \in Procs, Reverse(q) PROVE UNCHANGED Books
  BY <1>26 DEF Reverse
<1>27. ASSUME NEW q \in Procs, ReverseRead(q) PROVE UNCHANGED Books
  BY <1>27 DEF ReverseRead
<1>28. ASSUME NEW q \in Procs, ReverseFails(q) PROVE UNCHANGED Books
  BY <1>28 DEF ReverseFails
<1>29. ASSUME SweepStart PROVE UNCHANGED Books
  BY <1>29 DEF SweepStart
<1>30. ASSUME SweepNext PROVE UNCHANGED Books
  BY <1>30 DEF SweepNext
<1>31. ASSUME SweepLoad PROVE UNCHANGED Books
  BY <1>31 DEF SweepLoad
<1>32. ASSUME SweepDrop PROVE UNCHANGED Books
  BY <1>32 DEF SweepDrop
<1>33. ASSUME SweepQuery PROVE Done
  BY <1>33, QueryAbandons DEF Account!Next
<1>34. ASSUME SweepAborts PROVE UNCHANGED Books
  BY <1>34 DEF SweepAborts
<1>35. ASSUME NEW a \in Attempts, LaunchPart(a) PROVE UNCHANGED Books
  BY <1>35 DEF LaunchPart
<1>36. ASSUME NEW a \in Attempts, ClaimExpires(a) PROVE UNCHANGED Books
  BY <1>36 DEF ClaimExpires
<1>37. ASSUME Tick PROVE UNCHANGED Books
  BY <1>37 DEF Tick
<1>38. ASSUME SocketDrops PROVE UNCHANGED Books
  BY <1>38 DEF SocketDrops
<1>39. ASSUME Crash PROVE UNCHANGED Books
  BY <1>39 DEF Crash
<1>40. ASSUME UNCHANGED vars PROVE Done
  <2>1. UNCHANGED Books
    BY <1>40 DEF vars
  <2> QED
    BY <2>1, BooksAlone
<1>41. UNCHANGED Books => Done
  BY BooksAlone
<1> HIDE DEF Done, Books
<1>42. ASSUME NEW a \in Attempts, Driver(a) PROVE Done
  BY <1>42, <1>41, <1>8, <1>9, <1>1, <1>2, <1>10, <1>11, <1>12, <1>13, <1>14, <1>15, <1>16,
     <1>17, <1>18, <1>19 DEF Driver
<1>43. ASSUME NEW q \in Procs, FinalizeStep(q) PROVE Done
  BY <1>43, <1>41, <1>20, <1>21, <1>22, <1>3, <1>23, <1>24, <1>25 DEF FinalizeStep
<1>44. ASSUME NEW q \in Procs, ReverseStep(q) PROVE Done
  BY <1>44, <1>41, <1>26, <1>27, <1>4, <1>5, <1>28 DEF ReverseStep
<1>45. ASSUME SweepStep PROVE Done
  BY <1>45, <1>41, <1>29, <1>30, <1>31, <1>32, <1>33, <1>34 DEF SweepStep
<1>46. ASSUME Network PROVE Done
  BY <1>46, <1>41, <1>35, <1>36, <1>6, <1>7, <1>37, <1>38, <1>39 DEF Network
<1>47. Done
  BY <1>40, <1>41, <1>42, <1>43, <1>44, <1>45, <1>46 DEF Next
<1> QED
  BY <1>47 DEF Done

(* A payment refines the escrow: where no two attempts are at one invoice, its *)
(* amount is kept only when the invoice was paid and returned only when it was *)
(* not, and no invoice is paid but from an amount that is held; the one         *)
(* exception are attempts CLN was told to retry for longer than check() waits,  *)
(* which the escrow abandons.                                                   *)
THEOREM RefinesEscrow == ASSUME Alone PROVE Spec => Escrowed
<1> USE DEF EscrowInv
<1>1. Separate
  BY SendAssumption DEF SendAssumption, Alone, Separate
<1>2. Init => DeliveryInv /\ FlowInv /\ HastyInv
  BY DeliveryInit, FlowInit, HastyInit
<1>3. TypeInv /\ TypeInv' /\ DeliveryInv /\ FlowInv /\ HastyInv /\ [Next]_vars
        => DeliveryInv' /\ FlowInv' /\ HastyInv'
  BY <1>1, Alone, DeliveryNext, FlowNext, HastyNext DEF DeliveryInv
<1>4. Init => Account!Init
  BY EscrowInit
<1>5. TypeInv /\ DeliveryInv /\ FlowInv /\ HastyInv /\ [Next]_vars
        => [Account!Next]_<<[a \in Attempts |-> ChargeOf(a)],
                            {i \in Invoices : delivered[i] > 0}, {a \in Attempts : Rash(a)}>>
  BY Alone, EscrowNext DEF Mapped, Charge, PaidFor, Abandoned
<1>6. Spec => []TypeInv
  BY TypeCorrectInv
<1> QED
  BY <1>2, <1>3, <1>4, <1>5, <1>6, PTL DEF Spec, Escrowed, Account!Spec
=============================================================================
