------------------------------ MODULE IncomingProofs ------------------------------
(***************************************************************************)
(* Theorems about what comes in.  The listener, LightningReceive: for any  *)
(* number of its invocations, of settlements, crashes, failures, drops,    *)
(* recyclings and expired locks.  Invoices and preimages, Preimages: no    *)
(* sale that fails loses a merchant's preimage, by an inductive invariant  *)
(* about the queue, the sales that hold a preimage and what the node saw;  *)
(* and what a payer is handed leads home, by one about accounts and the    *)
(* copies of them that calls hold, and one about the codes of invoices.    *)
(***************************************************************************)
EXTENDS LightningReceive, Preimages, FiniteSetTheorems, TLAPS

-----------------------------------------------------------------------------
(* The listener *)

(* What an invocation processes is a settlement. *)
ProcessingInv == \A l \in Slots : pc[l] \in Processing => at[l] # 0

TypeInv == TypeOK /\ ProcessingInv

(* Only the winner of the claim makes the ledger call, and makes it once. *)
ClaimInv ==
  /\ \A s \in 1 .. Settlements : s \notin claimed => credited[s] = 0
  /\ \A l \in Slots :
       pc[l] = "ledger" => at[l] \in claimed /\ credited[at[l]] = 0

OneWinner ==
  \A l, m \in Slots :
    (pc[l] = "ledger" /\ pc[m] = "ledger" /\ at[l] = at[m]) => l = m

CreditInv == CreditedOnce /\ ClaimInv /\ OneWinner

(* Every deposit behind the cursor, and behind what an invocation read or *)
(* will make the cursor, was claimed.                                     *)
CursorInv ==
  \A s \in Deposits : s <= payIndex => s \in claimed

ListenerInv ==
  \A l \in Slots, s \in Deposits :
    /\ pc[l] \in {"wait", "advance"} /\ s <= at[l] => s \in claimed
    /\ pc[l] \in Processing /\ s < at[l] => s \in claimed

PassInv == CursorInv /\ ListenerInv

-----------------------------------------------------------------------------
(* Types *)

(* The initial state has the types. *)
LEMMA TypeInit == ASSUME ReceiveInit PROVE TypeInv
<1> USE ReceiveAssumption DEF ReceiveAssumption, ReceiveInit, StoreType, FlagsType, CountsType,
      SlotsType, FaultsType, ProcessingInv, Labels, Processing, Unseen
<1>1. StoreType
  OBVIOUS
<1>2. FlagsType
  OBVIOUS
<1>3. CountsType
  OBVIOUS
<1>4. SlotsType /\ FaultsType /\ ProcessingInv
  OBVIOUS
<1> QED
  BY <1>1, <1>2, <1>3, <1>4 DEF TypeInv, TypeOK

(* What an invocation processes is in range. *)
LEMMA AtSettlement ==
  ASSUME TypeInv, NEW l \in Slots, pc[l] \in Processing
  PROVE  at[l] \in 1 .. Settlements
BY ReceiveAssumption DEF ReceiveAssumption, TypeInv, TypeOK, SlotsType, ProcessingInv

(* Every step keeps the types. *)
LEMMA TypeNext == ASSUME TypeInv, [ReceiveNext]_receiveVars PROVE TypeInv'
<1> USE ReceiveAssumption DEF ReceiveAssumption, TypeInv, TypeOK, StoreType, FlagsType, CountsType,
      SlotsType, FaultsType, ProcessingInv, Labels, Processing,
      Unseen, store, listener, slots, faults, Proceed, Armed
<1>1. ASSUME NEW l \in Slots, ReadCursor(l) PROVE TypeInv'
  <2>1. StoreType'
    BY <1>1 DEF ReadCursor
  <2>2. FlagsType'
    BY <1>1 DEF ReadCursor
  <2>3. CountsType'
    BY <1>1 DEF ReadCursor
  <2>4. SlotsType'
    BY <1>1 DEF ReadCursor
  <2>5. FaultsType'
    BY <1>1 DEF ReadCursor
  <2>6. ProcessingInv'
    BY <1>1 DEF ReadCursor
  <2> QED
    BY <2>1, <2>2, <2>3, <2>4, <2>5, <2>6
<1>2. ASSUME NEW l \in Slots, Resolve(l) PROVE TypeInv'
  <2>1. at[l] + 1 \in 1 .. Settlements
    BY <1>2 DEF Resolve
  <2>2. at' = at \/ at' = [at EXCEPT ![l] = at[l] + 1]
    BY <1>2 DEF Resolve
  <2>3. pc' \in [Slots -> Labels]
    BY <1>2 DEF Resolve
  <2>4. pc'[l] = "free" \/ at'[l] = at[l] + 1
    BY <1>2 DEF Resolve
  <2>5. \A m \in Slots \ {l} : pc'[m] = pc[m] /\ at'[m] = at[m]
    BY <1>2 DEF Resolve
  <2>6. StoreType'
    BY <1>2 DEF Resolve
  <2>7. FlagsType'
    BY <1>2 DEF Resolve
  <2>8. CountsType' /\ FaultsType'
    BY <1>2 DEF Resolve
  <2>9. SlotsType'
    <3>1. at' \in [Slots -> 0 .. Settlements]
      <4>1. at[l] + 1 \in 0 .. Settlements
        BY <2>1
      <4>2. at \in [Slots -> 0 .. Settlements]
        OBVIOUS
      <4> HIDE DEF TypeInv
      <4> QED
        BY <2>2, <4>1, <4>2
    <3>2. UNCHANGED <<myEpoch, paid>>
      BY <1>2 DEF Resolve
    <3> QED
      BY <2>3, <3>1, <3>2
  <2>10. ASSUME NEW m \in Slots, pc'[m] \in Processing PROVE at'[m] # 0
    <3>1. CASE m = l
      <4>1. pc'[l] # "free"
        BY <2>10, <3>1
      <4> QED
        BY <2>1, <2>4, <3>1, <4>1
    <3>2. CASE m # l
      BY <2>5, <2>10, <3>2
    <3> QED
      BY <3>1, <3>2
  <2> QED
    BY <2>6, <2>7, <2>8, <2>9, <2>10
<1>3. ASSUME NEW l \in Slots, Lookup(l) PROVE TypeInv'
  <2>1. StoreType'
    BY <1>3 DEF Lookup
  <2>2. FlagsType'
    BY <1>3 DEF Lookup
  <2>3. CountsType'
    BY <1>3 DEF Lookup
  <2>4. SlotsType'
    BY <1>3 DEF Lookup
  <2>5. FaultsType'
    BY <1>3 DEF Lookup
  <2>6. ProcessingInv'
    BY <1>3 DEF Lookup
  <2> QED
    BY <2>1, <2>2, <2>3, <2>4, <2>5, <2>6
<1>4. ASSUME NEW l \in Slots, Load(l) PROVE TypeInv'
  <2>1. StoreType'
    BY <1>4 DEF Load
  <2>2. FlagsType'
    BY <1>4 DEF Load
  <2>3. CountsType'
    BY <1>4 DEF Load
  <2>4. SlotsType'
    BY <1>4 DEF Load
  <2>5. FaultsType'
    BY <1>4 DEF Load
  <2>6. ProcessingInv'
    BY <1>4 DEF Load
  <2> QED
    BY <2>1, <2>2, <2>3, <2>4, <2>5, <2>6
<1>5. ASSUME NEW l \in Slots, Lock(l) PROVE TypeInv'
  <2>1. at[l] \in 1 .. Settlements
    BY <1>5, AtSettlement DEF Lock
  <2>2. StoreType'
    BY <1>5, <2>1 DEF Lock
  <2>3. FlagsType'
    BY <1>5, <2>1 DEF Lock
  <2>4. CountsType'
    BY <1>5, <2>1 DEF Lock
  <2>5. SlotsType'
    BY <1>5, <2>1 DEF Lock
  <2>6. FaultsType'
    BY <1>5, <2>1 DEF Lock
  <2>7. ProcessingInv'
    BY <1>5, <2>1 DEF Lock
  <2> QED
    BY <2>2, <2>3, <2>4, <2>5, <2>6, <2>7
<1>6. ASSUME NEW l \in Slots, ExpireLock(l) PROVE TypeInv'
  <2>1. StoreType'
    BY <1>6 DEF ExpireLock
  <2>2. FlagsType'
    BY <1>6 DEF ExpireLock
  <2>3. CountsType'
    BY <1>6 DEF ExpireLock
  <2>4. SlotsType'
    BY <1>6 DEF ExpireLock
  <2>5. FaultsType'
    BY <1>6 DEF ExpireLock
  <2>6. ProcessingInv'
    BY <1>6 DEF ExpireLock
  <2> QED
    BY <2>1, <2>2, <2>3, <2>4, <2>5, <2>6
<1>7. ASSUME NEW l \in Slots, ClaimCredit(l) PROVE TypeInv'
  <2>1. at[l] \in 1 .. Settlements
    BY <1>7, AtSettlement DEF ClaimCredit
  <2>2. StoreType'
    BY <1>7, <2>1 DEF ClaimCredit
  <2>3. FlagsType'
    BY <1>7, <2>1 DEF ClaimCredit
  <2>4. CountsType'
    BY <1>7, <2>1 DEF ClaimCredit
  <2>5. SlotsType'
    BY <1>7, <2>1 DEF ClaimCredit
  <2>6. FaultsType'
    BY <1>7, <2>1 DEF ClaimCredit
  <2>7. ProcessingInv'
    BY <1>7, <2>1 DEF ClaimCredit
  <2> QED
    BY <2>2, <2>3, <2>4, <2>5, <2>6, <2>7
<1>8. ASSUME NEW l \in Slots, CreditLedger(l) PROVE TypeInv'
  <2>1. at[l] \in 1 .. Settlements
    BY <1>8, AtSettlement DEF CreditLedger
  <2>2. StoreType'
    BY <1>8, <2>1, SMTT(60) DEF CreditLedger
  <2>3. FlagsType'
    BY <1>8, <2>1 DEF CreditLedger
  <2>4. CountsType'
    BY <1>8, <2>1 DEF CreditLedger
  <2>5. SlotsType'
    BY <1>8, <2>1 DEF CreditLedger
  <2>6. FaultsType'
    BY <1>8, <2>1 DEF CreditLedger
  <2>7. ProcessingInv'
    BY <1>8, <2>1 DEF CreditLedger
  <2> QED
    BY <2>2, <2>3, <2>4, <2>5, <2>6, <2>7
<1>9. ASSUME NEW l \in Slots, SaveRecord(l) PROVE TypeInv'
  <2>1. at[l] \in 1 .. Settlements
    BY <1>9, AtSettlement DEF SaveRecord
  <2>2. StoreType'
    BY <1>9, <2>1 DEF SaveRecord
  <2>3. FlagsType'
    BY <1>9, <2>1 DEF SaveRecord
  <2>4. CountsType'
    BY <1>9, <2>1 DEF SaveRecord
  <2>5. SlotsType'
    BY <1>9, <2>1 DEF SaveRecord
  <2>6. FaultsType'
    BY <1>9, <2>1 DEF SaveRecord
  <2>7. ProcessingInv'
    BY <1>9, <2>1 DEF SaveRecord
  <2> QED
    BY <2>2, <2>3, <2>4, <2>5, <2>6, <2>7
<1>10. ASSUME NEW l \in Slots, Complete(l) PROVE TypeInv'
  BY <1>10 DEF Complete
<1>11. ASSUME NEW l \in Slots, Unlock(l) PROVE TypeInv'
  <2>1. StoreType'
    BY <1>11 DEF Unlock
  <2>2. FlagsType'
    BY <1>11 DEF Unlock
  <2>3. CountsType'
    BY <1>11 DEF Unlock
  <2>4. SlotsType'
    BY <1>11 DEF Unlock
  <2>5. FaultsType'
    BY <1>11 DEF Unlock
  <2>6. ProcessingInv'
    BY <1>11 DEF Unlock
  <2> QED
    BY <2>1, <2>2, <2>3, <2>4, <2>5, <2>6
<1>12. ASSUME NEW l \in Slots, CheckPersisted(l) PROVE TypeInv'
  <2>1. StoreType'
    BY <1>12 DEF CheckPersisted
  <2>2. FlagsType'
    BY <1>12 DEF CheckPersisted
  <2>3. CountsType'
    BY <1>12 DEF CheckPersisted
  <2>4. SlotsType'
    BY <1>12 DEF CheckPersisted
  <2>5. FaultsType'
    BY <1>12 DEF CheckPersisted
  <2>6. ProcessingInv'
    BY <1>12 DEF CheckPersisted
  <2> QED
    BY <2>1, <2>2, <2>3, <2>4, <2>5, <2>6
<1>13. ASSUME NEW l \in Slots, Advance(l) PROVE TypeInv'
  <2>1. at[l] \in 1 .. Settlements
    BY <1>13, AtSettlement DEF Advance, Rearm
  <2>2. StoreType'
    BY <1>13, <2>1 DEF Advance, Rearm
  <2>3. FlagsType'
    BY <1>13, <2>1 DEF Advance, Rearm
  <2>4. CountsType'
    BY <1>13, <2>1 DEF Advance, Rearm
  <2>5. SlotsType'
    BY <1>13, <2>1 DEF Advance, Rearm
  <2>6. FaultsType'
    BY <1>13, <2>1 DEF Advance, Rearm
  <2>7. ProcessingInv'
    BY <1>13, <2>1 DEF Advance, Rearm
  <2> QED
    BY <2>2, <2>3, <2>4, <2>5, <2>6, <2>7
<1>14. ASSUME NEW l \in Slots, Fail(l) PROVE TypeInv'
  <2>1. StoreType'
    BY <1>14 DEF Fail, Rearm
  <2>2. FlagsType'
    BY <1>14 DEF Fail, Rearm
  <2>3. CountsType'
    BY <1>14 DEF Fail, Rearm
  <2>4. SlotsType'
    BY <1>14 DEF Fail, Rearm
  <2>5. FaultsType'
    BY <1>14 DEF Fail, Rearm
  <2>6. ProcessingInv'
    BY <1>14 DEF Fail, Rearm
  <2> QED
    BY <2>1, <2>2, <2>3, <2>4, <2>5, <2>6
<1>15. ASSUME NEW l \in Slots, WaitTimesOut(l) PROVE TypeInv'
  <2>1. StoreType'
    BY <1>15 DEF WaitTimesOut, Rearm
  <2>2. FlagsType'
    BY <1>15 DEF WaitTimesOut, Rearm
  <2>3. CountsType'
    BY <1>15 DEF WaitTimesOut, Rearm
  <2>4. SlotsType'
    BY <1>15 DEF WaitTimesOut, Rearm
  <2>5. FaultsType'
    BY <1>15 DEF WaitTimesOut, Rearm
  <2>6. ProcessingInv'
    BY <1>15 DEF WaitTimesOut, Rearm
  <2> QED
    BY <2>1, <2>2, <2>3, <2>4, <2>5, <2>6
<1>16. ASSUME NEW l \in Slots, CallFails(l) PROVE TypeInv'
  BY <1>16, SMTT(60) DEF CallFails
<1>17. ASSUME TimerFires PROVE TypeInv'
  <2>1. StoreType'
    BY <1>17 DEF TimerFires, Listen
  <2>2. FlagsType'
    BY <1>17 DEF TimerFires, Listen
  <2>3. CountsType'
    BY <1>17 DEF TimerFires, Listen
  <2>4. SlotsType'
    BY <1>17, ZenonT(60) DEF TimerFires, Listen
  <2>5. FaultsType'
    BY <1>17 DEF TimerFires, Listen
  <2>6. ProcessingInv'
    BY <1>17 DEF TimerFires, Listen
  <2> QED
    BY <2>1, <2>2, <2>3, <2>4, <2>5, <2>6
<1>18. ASSUME RecycleFires PROVE TypeInv'
  <2>1. StoreType'
    BY <1>18 DEF RecycleFires, Listen
  <2>2. FlagsType'
    BY <1>18 DEF RecycleFires, Listen
  <2>3. CountsType'
    BY <1>18 DEF RecycleFires, Listen
  <2>4. SlotsType'
    BY <1>18, ZenonT(60) DEF RecycleFires, Listen
  <2>5. FaultsType'
    BY <1>18 DEF RecycleFires, Listen
  <2>6. ProcessingInv'
    BY <1>18 DEF RecycleFires, Listen
  <2> QED
    BY <2>1, <2>2, <2>3, <2>4, <2>5, <2>6
<1>19. ASSUME WatchRead PROVE TypeInv'
  BY <1>19, SMTT(60) DEF WatchRead
<1>20. ASSUME WatchForcesRestart PROVE TypeInv'
  <2>1. StoreType'
    BY <1>20 DEF WatchForcesRestart, Dropped
  <2>2. FlagsType'
    BY <1>20 DEF WatchForcesRestart, Dropped
  <2>3. CountsType'
    BY <1>20 DEF WatchForcesRestart, Dropped
  <2>4. SlotsType'
    BY <1>20 DEF WatchForcesRestart, Dropped
  <2>5. FaultsType'
    BY <1>20 DEF WatchForcesRestart, Dropped
  <2>6. ProcessingInv'
    BY <1>20 DEF WatchForcesRestart, Dropped
  <2> QED
    BY <2>1, <2>2, <2>3, <2>4, <2>5, <2>6
<1>21. ASSUME WatchRestarts PROVE TypeInv'
  <2>1. StoreType'
    BY <1>21 DEF WatchRestarts, Listen
  <2>2. FlagsType'
    BY <1>21 DEF WatchRestarts, Listen
  <2>3. CountsType'
    BY <1>21 DEF WatchRestarts, Listen
  <2>4. SlotsType'
    BY <1>21, ZenonT(60) DEF WatchRestarts, Listen
  <2>5. FaultsType'
    BY <1>21 DEF WatchRestarts, Listen
  <2>6. ProcessingInv'
    BY <1>21 DEF WatchRestarts, Listen
  <2> QED
    BY <2>1, <2>2, <2>3, <2>4, <2>5, <2>6
<1>22. ASSUME WatchRecycles PROVE TypeInv'
  <2>1. StoreType'
    BY <1>22 DEF WatchRecycles, Dropped
  <2>2. FlagsType'
    BY <1>22 DEF WatchRecycles, Dropped
  <2>3. CountsType'
    BY <1>22 DEF WatchRecycles, Dropped
  <2>4. SlotsType'
    BY <1>22 DEF WatchRecycles, Dropped
  <2>5. FaultsType'
    BY <1>22 DEF WatchRecycles, Dropped
  <2>6. ProcessingInv'
    BY <1>22 DEF WatchRecycles, Dropped
  <2> QED
    BY <2>1, <2>2, <2>3, <2>4, <2>5, <2>6
<1>23. ASSUME Settle PROVE TypeInv'
  BY <1>23 DEF Settle
<1>24. ASSUME SocketDrops PROVE TypeInv'
  <2>1. StoreType'
    BY <1>24 DEF SocketDrops, Dropped
  <2>2. FlagsType'
    BY <1>24 DEF SocketDrops, Dropped
  <2>3. CountsType'
    BY <1>24 DEF SocketDrops, Dropped
  <2>4. SlotsType'
    BY <1>24 DEF SocketDrops, Dropped
  <2>5. FaultsType'
    BY <1>24 DEF SocketDrops, Dropped
  <2>6. ProcessingInv'
    BY <1>24 DEF SocketDrops, Dropped
  <2> QED
    BY <2>1, <2>2, <2>3, <2>4, <2>5, <2>6
<1>25. ASSUME LockExpires PROVE TypeInv'
  <2>1. StoreType'
    BY <1>25 DEF LockExpires
  <2>2. FlagsType'
    BY <1>25 DEF LockExpires
  <2>3. CountsType'
    BY <1>25 DEF LockExpires
  <2>4. SlotsType'
    BY <1>25 DEF LockExpires
  <2>5. FaultsType'
    BY <1>25 DEF LockExpires
  <2>6. ProcessingInv'
    BY <1>25 DEF LockExpires
  <2> QED
    BY <2>1, <2>2, <2>3, <2>4, <2>5, <2>6
<1>26. ASSUME Crash PROVE TypeInv'
  <2>1. StoreType'
    BY <1>26 DEF Crash
  <2>2. FlagsType'
    BY <1>26 DEF Crash
  <2>3. CountsType'
    BY <1>26 DEF Crash
  <2>4. SlotsType'
    BY <1>26 DEF Crash
  <2>5. FaultsType'
    BY <1>26 DEF Crash
  <2>6. ProcessingInv'
    BY <1>26 DEF Crash
  <2> QED
    BY <2>1, <2>2, <2>3, <2>4, <2>5, <2>6
<1>27. CASE UNCHANGED receiveVars
  BY <1>27 DEF receiveVars
<1> QED
  BY <1>1, <1>2, <1>3, <1>4, <1>5, <1>6, <1>7, <1>8, <1>9, <1>10, <1>11,
     <1>12, <1>13, <1>14, <1>15, <1>16, <1>17, <1>18, <1>19, <1>20, <1>21, <1>22,
     <1>23, <1>24, <1>25, <1>26, <1>27
  DEF ReceiveNext, ListenStep, Watchdog

(* The strengthened type invariant, for the theorems below. *)
LEMMA TypeInvariant == ReceiveSpec => []TypeInv
<1>1. ReceiveInit => TypeInv
  BY TypeInit
<1>2. TypeInv /\ [ReceiveNext]_receiveVars => TypeInv'
  BY TypeNext
<1> QED
  BY <1>1, <1>2, PTL DEF ReceiveSpec

(* Every variable keeps its type. *)
THEOREM TypeCorrect == ReceiveSpec => []TypeOK
<1>1. TypeInv => TypeOK
  BY DEF TypeInv
<1> QED
  BY <1>1, TypeInvariant, PTL

-----------------------------------------------------------------------------
(* One credit for a settlement *)

(* Nothing is credited or claimed at first. *)
LEMMA CreditInit == ASSUME ReceiveInit PROVE CreditInv
BY DEF ReceiveInit, CreditInv, CreditedOnce, ClaimInv, OneWinner

(* No step credits a settlement again. *)
LEMMA CreditNext == ASSUME TypeInv, CreditInv, [ReceiveNext]_receiveVars PROVE CreditInv'
<1> USE ReceiveAssumption DEF ReceiveAssumption, TypeInv, TypeOK, StoreType, FlagsType, CountsType,
      SlotsType, FaultsType, ProcessingInv, Labels, Processing,
      store, listener, slots, faults, Proceed, CreditInv, CreditedOnce, ClaimInv, OneWinner
<1>1. ASSUME NEW l \in Slots, ReadCursor(l) PROVE CreditInv'
  BY <1>1 DEF ReadCursor
<1>2. ASSUME NEW l \in Slots, Resolve(l) PROVE CreditInv'
  <2>1. \A m \in Slots : pc'[m] = "ledger" => pc[m] = "ledger" /\ at'[m] = at[m]
    BY <1>2 DEF Resolve
  <2>2. CreditedOnce'
    BY <1>2, <2>1, SMTT(30) DEF Resolve
  <2>3. ClaimInv'
    BY <1>2, <2>1, SMTT(30) DEF Resolve
  <2>4. OneWinner'
    BY <1>2, <2>1, SMTT(30) DEF Resolve
  <2> QED
    BY <2>2, <2>3, <2>4
<1>3. ASSUME NEW l \in Slots, Lookup(l) PROVE CreditInv'
  BY <1>3 DEF Lookup
<1>4. ASSUME NEW l \in Slots, Load(l) PROVE CreditInv'
  BY <1>4 DEF Load
<1>5. ASSUME NEW l \in Slots, Lock(l) PROVE CreditInv'
  BY <1>5 DEF Lock
<1>6. ASSUME NEW l \in Slots, ExpireLock(l) PROVE CreditInv'
  BY <1>6 DEF ExpireLock
<1>7. ASSUME NEW l \in Slots, ClaimCredit(l) PROVE CreditInv'
  <2>1. at[l] \in 1 .. Settlements
    BY <1>7, AtSettlement DEF ClaimCredit
  <2>2. CreditedOnce'
    BY <1>7, <2>1 DEF ClaimCredit
  <2>3. ClaimInv'
    BY <1>7, <2>1 DEF ClaimCredit
  <2>4. OneWinner'
    BY <1>7, <2>1 DEF ClaimCredit
  <2> QED
    BY <2>2, <2>3, <2>4
<1>8. ASSUME NEW l \in Slots, CreditLedger(l) PROVE CreditInv'
  <2>1. at[l] \in 1 .. Settlements
    BY <1>8, AtSettlement DEF CreditLedger
  <2>2. CreditedOnce'
    BY <1>8, <2>1 DEF CreditLedger
  <2>3. ClaimInv'
    BY <1>8, <2>1 DEF CreditLedger
  <2>4. OneWinner'
    BY <1>8, <2>1 DEF CreditLedger
  <2> QED
    BY <2>2, <2>3, <2>4
<1>9. ASSUME NEW l \in Slots, SaveRecord(l) PROVE CreditInv'
  BY <1>9 DEF SaveRecord
<1>10. ASSUME NEW l \in Slots, Complete(l) PROVE CreditInv'
  BY <1>10 DEF Complete
<1>11. ASSUME NEW l \in Slots, Unlock(l) PROVE CreditInv'
  BY <1>11 DEF Unlock
<1>12. ASSUME NEW l \in Slots, CheckPersisted(l) PROVE CreditInv'
  BY <1>12 DEF CheckPersisted
<1>13. ASSUME NEW l \in Slots, Advance(l) PROVE CreditInv'
  BY <1>13 DEF Advance, Rearm
<1>14. ASSUME NEW l \in Slots, Fail(l) PROVE CreditInv'
  BY <1>14 DEF Fail, Rearm
<1>15. ASSUME NEW l \in Slots, WaitTimesOut(l) PROVE CreditInv'
  BY <1>15 DEF WaitTimesOut, Rearm
<1>16. ASSUME NEW l \in Slots, CallFails(l) PROVE CreditInv'
  BY <1>16 DEF CallFails
<1>17. ASSUME TimerFires PROVE CreditInv'
  <2>1. CreditedOnce'
    BY <1>17 DEF TimerFires, Listen
  <2>2. ClaimInv'
    BY <1>17 DEF TimerFires, Listen
  <2>3. OneWinner'
    BY <1>17 DEF TimerFires, Listen
  <2> QED
    BY <2>1, <2>2, <2>3
<1>18. ASSUME RecycleFires PROVE CreditInv'
  <2>1. CreditedOnce'
    BY <1>18 DEF RecycleFires, Listen
  <2>2. ClaimInv'
    BY <1>18 DEF RecycleFires, Listen
  <2>3. OneWinner'
    BY <1>18 DEF RecycleFires, Listen
  <2> QED
    BY <2>1, <2>2, <2>3
<1>19. ASSUME WatchRead PROVE CreditInv'
  BY <1>19 DEF WatchRead
<1>20. ASSUME WatchForcesRestart PROVE CreditInv'
  BY <1>20 DEF WatchForcesRestart, Dropped
<1>21. ASSUME WatchRestarts PROVE CreditInv'
  <2>1. CreditedOnce'
    BY <1>21 DEF WatchRestarts, Listen
  <2>2. ClaimInv'
    BY <1>21 DEF WatchRestarts, Listen
  <2>3. OneWinner'
    BY <1>21 DEF WatchRestarts, Listen
  <2> QED
    BY <2>1, <2>2, <2>3
<1>22. ASSUME WatchRecycles PROVE CreditInv'
  BY <1>22 DEF WatchRecycles, Dropped
<1>23. ASSUME Settle PROVE CreditInv'
  BY <1>23 DEF Settle
<1>24. ASSUME SocketDrops PROVE CreditInv'
  BY <1>24 DEF SocketDrops, Dropped
<1>25. ASSUME LockExpires PROVE CreditInv'
  BY <1>25 DEF LockExpires
<1>26. ASSUME Crash PROVE CreditInv'
  BY <1>26 DEF Crash
<1>27. CASE UNCHANGED receiveVars
  BY <1>27 DEF receiveVars
<1> QED
  BY <1>1, <1>2, <1>3, <1>4, <1>5, <1>6, <1>7, <1>8, <1>9, <1>10, <1>11,
     <1>12, <1>13, <1>14, <1>15, <1>16, <1>17, <1>18, <1>19, <1>20, <1>21, <1>22,
     <1>23, <1>24, <1>25, <1>26, <1>27
  DEF ReceiveNext, ListenStep, Watchdog

(* credited:<preimage> is claimed by one invocation, ever; it alone makes the *)
(* ledger call, once.  So no settlement is credited twice, whatever listeners *)
(* overlap, locks expire or crashes intervene.                                *)
THEOREM CreditOnce == ReceiveSpec => []CreditedOnce
<1>1. ReceiveInit => CreditInv
  BY CreditInit
<1>2. TypeInv /\ CreditInv /\ [ReceiveNext]_receiveVars => CreditInv'
  BY CreditNext
<1>3. CreditInv => CreditedOnce
  BY DEF CreditInv
<1> QED
  BY <1>1, <1>2, <1>3, TypeInvariant, PTL DEF ReceiveSpec

-----------------------------------------------------------------------------
(* The cursor passes no deposit that was not claimed *)

(* The cursor is behind every deposit at first. *)
LEMMA PassInit == ASSUME ReceiveInit PROVE PassInv
BY ReceiveAssumption DEF ReceiveAssumption, ReceiveInit, PassInv, CursorInv, ListenerInv, Processing, Labels

(* The cursor moves past a deposit only when it was claimed. *)
LEMMA PassNext == ASSUME TypeInv, PassInv, [ReceiveNext]_receiveVars PROVE PassInv'
<1> USE ReceiveAssumption DEF ReceiveAssumption, TypeInv, TypeOK, StoreType, FlagsType, CountsType,
      SlotsType, FaultsType, ProcessingInv, Labels, Processing,
      store, listener, slots, faults, Proceed, PassInv, CursorInv, ListenerInv
<1>1. ASSUME NEW l \in Slots, ReadCursor(l) PROVE PassInv'
  <2>1. CursorInv'
    BY <1>1 DEF ReadCursor
  <2>2. ListenerInv'
    BY <1>1 DEF ReadCursor
  <2> QED
    BY <2>1, <2>2
<1>2. ASSUME NEW l \in Slots, Resolve(l) PROVE PassInv'
  <2>1. CursorInv'
    BY <1>2 DEF Resolve
  <2>2. ListenerInv'
    <3> SUFFICES ASSUME NEW m \in Slots, NEW s \in Deposits
                 PROVE  /\ pc'[m] \in {"wait", "advance"} /\ s <= at'[m] => s \in claimed'
                        /\ pc'[m] \in Processing /\ s < at'[m] => s \in claimed'
      OBVIOUS
    <3>1. CASE m # l
      <4>1. pc'[m] = pc[m] /\ at'[m] = at[m] /\ claimed' = claimed
        BY <1>2, <3>1 DEF Resolve
      <4> QED
        BY <4>1
    <3>2. CASE m = l /\ myEpoch[l] = listenerEpoch
      <4>1. /\ pc[l] = "wait" /\ pc'[l] = "lookup" /\ at'[l] = at[l] + 1 /\ claimed' = claimed
        BY <1>2, <3>2 DEF Resolve
      <4>2. s < at[l] + 1 => s <= at[l]
        OBVIOUS
      <4> QED
        BY <3>2, <4>1, <4>2
    <3>3. CASE m = l /\ myEpoch[l] # listenerEpoch
      <4>1. pc'[l] = "free"
        BY <1>2, <3>3 DEF Resolve
      <4> QED
        BY <3>3, <4>1
    <3> QED
      BY <3>1, <3>2, <3>3
  <2> QED
    BY <2>1, <2>2
<1>3. ASSUME NEW l \in Slots, Lookup(l) PROVE PassInv'
  <2>1. CursorInv'
    BY <1>3 DEF Lookup
  <2>2. ListenerInv'
    BY <1>3 DEF Lookup
  <2> QED
    BY <2>1, <2>2
<1>4. ASSUME NEW l \in Slots, Load(l) PROVE PassInv'
  BY <1>4 DEF Load
<1>5. ASSUME NEW l \in Slots, Lock(l) PROVE PassInv'
  BY <1>5 DEF Lock
<1>6. ASSUME NEW l \in Slots, ExpireLock(l) PROVE PassInv'
  BY <1>6 DEF ExpireLock
<1>7. ASSUME NEW l \in Slots, ClaimCredit(l) PROVE PassInv'
  <2>1. CursorInv'
    BY <1>7 DEF ClaimCredit
  <2>2. ListenerInv'
    BY <1>7 DEF ClaimCredit
  <2> QED
    BY <2>1, <2>2
<1>8. ASSUME NEW l \in Slots, CreditLedger(l) PROVE PassInv'
  BY <1>8 DEF CreditLedger
<1>9. ASSUME NEW l \in Slots, SaveRecord(l) PROVE PassInv'
  BY <1>9 DEF SaveRecord
<1>10. ASSUME NEW l \in Slots, Complete(l) PROVE PassInv'
  BY <1>10 DEF Complete
<1>11. ASSUME NEW l \in Slots, Unlock(l) PROVE PassInv'
  BY <1>11 DEF Unlock
<1>12. ASSUME NEW l \in Slots, CheckPersisted(l) PROVE PassInv'
  <2>1. CursorInv'
    BY <1>12 DEF CheckPersisted
  <2>2. ListenerInv'
    BY <1>12 DEF CheckPersisted
  <2> QED
    BY <2>1, <2>2
<1>13. ASSUME NEW l \in Slots, Advance(l) PROVE PassInv'
  BY <1>13 DEF Advance, Rearm
<1>14. ASSUME NEW l \in Slots, Fail(l) PROVE PassInv'
  BY <1>14 DEF Fail, Rearm
<1>15. ASSUME NEW l \in Slots, WaitTimesOut(l) PROVE PassInv'
  BY <1>15 DEF WaitTimesOut, Rearm
<1>16. ASSUME NEW l \in Slots, CallFails(l) PROVE PassInv'
  BY <1>16 DEF CallFails
<1>17. ASSUME TimerFires PROVE PassInv'
  <2>1. CursorInv'
    BY <1>17 DEF TimerFires, Listen
  <2>2. ListenerInv'
    BY <1>17 DEF TimerFires, Listen
  <2> QED
    BY <2>1, <2>2
<1>18. ASSUME RecycleFires PROVE PassInv'
  <2>1. CursorInv'
    BY <1>18 DEF RecycleFires, Listen
  <2>2. ListenerInv'
    BY <1>18 DEF RecycleFires, Listen
  <2> QED
    BY <2>1, <2>2
<1>19. ASSUME WatchRead PROVE PassInv'
  BY <1>19 DEF WatchRead
<1>20. ASSUME WatchForcesRestart PROVE PassInv'
  BY <1>20 DEF WatchForcesRestart, Dropped
<1>21. ASSUME WatchRestarts PROVE PassInv'
  <2>1. CursorInv'
    BY <1>21 DEF WatchRestarts, Listen
  <2>2. ListenerInv'
    BY <1>21 DEF WatchRestarts, Listen
  <2> QED
    BY <2>1, <2>2
<1>22. ASSUME WatchRecycles PROVE PassInv'
  BY <1>22 DEF WatchRecycles, Dropped
<1>23. ASSUME Settle PROVE PassInv'
  BY <1>23 DEF Settle
<1>24. ASSUME SocketDrops PROVE PassInv'
  BY <1>24 DEF SocketDrops, Dropped
<1>25. ASSUME LockExpires PROVE PassInv'
  BY <1>25 DEF LockExpires
<1>26. ASSUME Crash PROVE PassInv'
  BY <1>26 DEF Crash
<1>27. CASE UNCHANGED receiveVars
  BY <1>27 DEF receiveVars
<1> QED
  BY <1>1, <1>2, <1>3, <1>4, <1>5, <1>6, <1>7, <1>8, <1>9, <1>10, <1>11,
     <1>12, <1>13, <1>14, <1>15, <1>16, <1>17, <1>18, <1>19, <1>20, <1>21, <1>22,
     <1>23, <1>24, <1>25, <1>26, <1>27
  DEF ReceiveNext, ListenStep, Watchdog

(* The invariant of the cursor. *)
LEMMA PassInvariant == ReceiveSpec => []PassInv
<1>1. ReceiveInit => PassInv
  BY PassInit
<1>2. TypeInv /\ PassInv /\ [ReceiveNext]_receiveVars => PassInv'
  BY PassNext
<1> QED
  BY <1>1, <1>2, TypeInvariant, PTL DEF ReceiveSpec

-----------------------------------------------------------------------------
(* Lost deposits *)

(* What a step may add to the claims that were abandoned. *)
NothingLost ==
  /\ Abandoned' \subseteq Abandoned
  /\ crashes' = crashes /\ failures' \in {failures, failures + 1}

CallLoses ==
  \E l \in Slots : Abandoned' \subseteq Abandoned \cup {at[l]}
                   /\ failures' = failures + 1 /\ crashes' = crashes

CrashLoses ==
  /\ Abandoned' \subseteq Abandoned \cup {at[l] : l \in Slots}
  /\ crashes' = crashes + 1 /\ failures' = failures

Growth == NothingLost \/ CallLoses \/ CrashLoses

LossInv == Cardinality(Abandoned) <= Cardinality(Slots) * crashes + failures

(* Only a failed call or a crash abandons a claim, one of its own each. *)
LEMMA GrowthNext == ASSUME TypeInv, [ReceiveNext]_receiveVars PROVE Growth
<1> USE ReceiveAssumption DEF ReceiveAssumption, TypeInv, TypeOK, StoreType, SlotsType,
      FaultsType, ProcessingInv, Labels, Processing, store, listener, slots, faults,
      Proceed, Growth, NothingLost, CallLoses, CrashLoses, Abandoned, Crediting
<1>1. ASSUME NEW l \in Slots, ReadCursor(l) PROVE Growth
  BY <1>1 DEF ReadCursor
<1>2. ASSUME NEW l \in Slots, Resolve(l) PROVE Growth
  BY <1>2 DEF Resolve
<1>3. ASSUME NEW l \in Slots, Lookup(l) PROVE Growth
  BY <1>3 DEF Lookup
<1>4. ASSUME NEW l \in Slots, Load(l) PROVE Growth
  BY <1>4 DEF Load
<1>5. ASSUME NEW l \in Slots, Lock(l) PROVE Growth
  BY <1>5 DEF Lock
<1>6. ASSUME NEW l \in Slots, ExpireLock(l) PROVE Growth
  BY <1>6 DEF ExpireLock
<1>7. ASSUME NEW l \in Slots, ClaimCredit(l) PROVE Growth
  BY <1>7 DEF ClaimCredit
<1>8. ASSUME NEW l \in Slots, CreditLedger(l) PROVE Growth
  BY <1>8 DEF CreditLedger
<1>9. ASSUME NEW l \in Slots, SaveRecord(l) PROVE Growth
  BY <1>9 DEF SaveRecord
<1>10. ASSUME NEW l \in Slots, Complete(l) PROVE Growth
  BY <1>10 DEF Complete
<1>11. ASSUME NEW l \in Slots, Unlock(l) PROVE Growth
  BY <1>11 DEF Unlock
<1>12. ASSUME NEW l \in Slots, CheckPersisted(l) PROVE Growth
  BY <1>12 DEF CheckPersisted
<1>13. ASSUME NEW l \in Slots, Advance(l) PROVE Growth
  BY <1>13 DEF Advance, Rearm
<1>14. ASSUME NEW l \in Slots, Fail(l) PROVE Growth
  BY <1>14 DEF Fail, Rearm
<1>15. ASSUME NEW l \in Slots, WaitTimesOut(l) PROVE Growth
  BY <1>15 DEF WaitTimesOut, Rearm
<1>16. ASSUME NEW l \in Slots, CallFails(l) PROVE Growth
  BY <1>16 DEF CallFails
<1>17. ASSUME TimerFires PROVE Growth
  BY <1>17 DEF TimerFires, Listen
<1>18. ASSUME RecycleFires PROVE Growth
  BY <1>18 DEF RecycleFires, Listen
<1>19. ASSUME WatchRead PROVE Growth
  BY <1>19 DEF WatchRead
<1>20. ASSUME WatchForcesRestart PROVE Growth
  BY <1>20 DEF WatchForcesRestart, Dropped
<1>21. ASSUME WatchRestarts PROVE Growth
  BY <1>21 DEF WatchRestarts, Listen
<1>22. ASSUME WatchRecycles PROVE Growth
  BY <1>22 DEF WatchRecycles, Dropped
<1>23. ASSUME Settle PROVE Growth
  BY <1>23 DEF Settle
<1>24. ASSUME SocketDrops PROVE Growth
  BY <1>24 DEF SocketDrops, Dropped
<1>25. ASSUME LockExpires PROVE Growth
  BY <1>25 DEF LockExpires
<1>26. ASSUME Crash PROVE Growth
  BY <1>26 DEF Crash
<1>27. CASE UNCHANGED receiveVars
  BY <1>27 DEF receiveVars
<1> QED
  BY <1>1, <1>2, <1>3, <1>4, <1>5, <1>6, <1>7, <1>8, <1>9, <1>10, <1>11,
     <1>12, <1>13, <1>14, <1>15, <1>16, <1>17, <1>18, <1>19, <1>20, <1>21, <1>22,
     <1>23, <1>24, <1>25, <1>26, <1>27
  DEF ReceiveNext, ListenStep, Watchdog

(* The claims are among finitely many. *)
LEMMA AbandonedFinite == ASSUME TypeInv PROVE IsFiniteSet(Abandoned)
<1>1. IsFiniteSet(1 .. Settlements)
  BY FS_Interval, ReceiveAssumption DEF ReceiveAssumption
<1>2. Abandoned \subseteq 1 .. Settlements
  BY DEF TypeInv, TypeOK, StoreType, Abandoned
<1> QED
  BY <1>1, <1>2, FS_Subset

(* Slots work on at most as many settlements as there are slots. *)
LEMMA SlotsBound ==
  ASSUME TypeInv
  PROVE  /\ IsFiniteSet({at[l] : l \in Slots})
         /\ Cardinality({at[l] : l \in Slots}) <= Cardinality(Slots)
<1> DEFINE T == {at[l] : l \in Slots}
<1>1. at \in Surjection(Slots, T)
  BY DEF TypeInv, TypeOK, SlotsType, Surjection
<1>2. IsFiniteSet(Slots)
  BY ReceiveAssumption DEF ReceiveAssumption
<1> QED
  BY <1>1, <1>2, FS_Surjection

(* Every step keeps the bound. *)
LEMMA LossNext == ASSUME TypeInv, TypeInv', LossInv, [ReceiveNext]_receiveVars PROVE LossInv'
<1>1. /\ IsFiniteSet(Abandoned) /\ IsFiniteSet(Abandoned')
      /\ Cardinality(Abandoned) \in Nat /\ Cardinality(Abandoned') \in Nat
  <2>1. IsFiniteSet(Abandoned)
    BY AbandonedFinite
  <2>2. IsFiniteSet(Abandoned')
    <3>1. Abandoned' \subseteq 1 .. Settlements
      BY DEF TypeInv, TypeOK, StoreType, Abandoned
    <3>2. IsFiniteSet(1 .. Settlements)
      BY FS_Interval, ReceiveAssumption DEF ReceiveAssumption
    <3> QED
      BY <3>1, <3>2, FS_Subset
  <2> QED
    BY <2>1, <2>2, FS_CardinalityType
<1>2. Cardinality(Slots) \in Nat /\ crashes \in Nat /\ failures \in Nat
  BY FS_CardinalityType, ReceiveAssumption
  DEF ReceiveAssumption, TypeInv, TypeOK, FaultsType
<1>3. CASE NothingLost
  <2>1. Cardinality(Abandoned') <= Cardinality(Abandoned)
    BY <1>1, <1>3, FS_Subset DEF NothingLost
  <2> QED
    BY <2>1, <1>1, <1>2, <1>3 DEF NothingLost, LossInv
<1>4. CASE CallLoses
  <2>1. PICK l \in Slots : Abandoned' \subseteq Abandoned \cup {at[l]}
    BY <1>4 DEF CallLoses
  <2>2. /\ IsFiniteSet(Abandoned \cup {at[l]})
        /\ Cardinality(Abandoned \cup {at[l]}) <= Cardinality(Abandoned) + 1
    BY <1>1, FS_AddElement
  <2>3. Cardinality(Abandoned') <= Cardinality(Abandoned \cup {at[l]})
    BY <2>1, <2>2, FS_Subset
  <2>4. Cardinality(Abandoned \cup {at[l]}) \in Nat
    BY <2>2, FS_CardinalityType
  <2> QED
    BY <1>1, <1>2, <1>4, <2>2, <2>3, <2>4 DEF CallLoses, LossInv
<1>5. CASE CrashLoses
  <2> DEFINE T == {at[l] : l \in Slots}
  <2>1. /\ IsFiniteSet(T) /\ Cardinality(T) <= Cardinality(Slots)
        /\ Cardinality(T) \in Nat
    BY SlotsBound, FS_CardinalityType
  <2>2. /\ IsFiniteSet(Abandoned \cup T) /\ Cardinality(Abandoned \cup T) \in Nat
        /\ Cardinality(Abandoned \cap T) \in Nat
    BY <1>1, <2>1, FS_Union, FS_Intersection, FS_CardinalityType
  <2>3. Cardinality(Abandoned \cup T)
          = Cardinality(Abandoned) + Cardinality(T) - Cardinality(Abandoned \cap T)
    BY <1>1, <2>1, FS_Union
  <2>4. Cardinality(Abandoned') <= Cardinality(Abandoned \cup T)
    BY <1>5, <2>2, FS_Subset DEF CrashLoses
  <2>5. Cardinality(Slots) * (crashes + 1) = Cardinality(Slots) * crashes + Cardinality(Slots)
    BY <1>2
  <2>6. Cardinality(Slots) * crashes \in Nat
    BY <1>2
  <2>7. crashes' = crashes + 1 /\ failures' = failures
    BY <1>5 DEF CrashLoses
  <2>8. Cardinality(Abandoned) <= Cardinality(Slots) * crashes + failures
    BY DEF LossInv
  <2>9. Cardinality(Abandoned') <= Cardinality(Slots) * crashes + Cardinality(Slots) + failures
    BY <1>1, <1>2, <2>1, <2>2, <2>3, <2>4, <2>6, <2>8
  <2> QED
    BY <2>5, <2>7, <2>9 DEF LossInv
<1> QED
  BY <1>3, <1>4, <1>5, GrowthNext DEF Growth

(* A deposit behind the cursor that was not credited, and is not being        *)
(* credited, was claimed by an invocation that crashed or whose ledger call   *)
(* failed: the lost deposits are no more than the failures and, for each      *)
(* crash, the invocations.  Overlapping listeners, dropped sockets, recycled  *)
(* listeners and expired locks lose nothing.                                  *)
THEOREM LossBounded == ReceiveSpec => []LostBoundedByFaults
<1>1. ReceiveInit => LossInv
  <2> SUFFICES ASSUME ReceiveInit PROVE LossInv
    OBVIOUS
  <2>1. Abandoned = {} /\ crashes = 0 /\ failures = 0
    BY DEF ReceiveInit, Abandoned
  <2>2. Cardinality(Slots) \in Nat
    BY FS_CardinalityType, ReceiveAssumption DEF ReceiveAssumption
  <2> QED
    BY <2>1, <2>2, FS_EmptySet DEF LossInv
<1>2. TypeInv /\ TypeInv' /\ LossInv /\ [ReceiveNext]_receiveVars => LossInv'
  BY LossNext
<1>3. TypeInv /\ PassInv /\ LossInv => LostBoundedByFaults
  <2> SUFFICES ASSUME TypeInv, PassInv, LossInv PROVE LostBoundedByFaults
    OBVIOUS
  <2>1. Lost \subseteq Abandoned
    BY DEF Lost, Abandoned, PassInv, CursorInv
  <2>2. /\ IsFiniteSet(Lost) /\ Cardinality(Lost) <= Cardinality(Abandoned)
    BY <2>1, AbandonedFinite, FS_Subset
  <2>3. /\ Cardinality(Lost) \in Nat /\ Cardinality(Abandoned) \in Nat
        /\ Cardinality(Slots) \in Nat /\ crashes \in Nat /\ failures \in Nat
    BY <2>2, AbandonedFinite, FS_CardinalityType, ReceiveAssumption
    DEF ReceiveAssumption, TypeInv, TypeOK, FaultsType
  <2> QED
    BY <2>2, <2>3 DEF LossInv, LostBoundedByFaults
<1> QED
  BY <1>1, <1>2, <1>3, TypeInvariant, PassInvariant, PTL DEF ReceiveSpec

-----------------------------------------------------------------------------
(* Merchants' preimages *)

Fields == {"op", "pc", "user", "acct", "copy", "key", "id", "of", "over", "code", "secret"}

(* The steps at which a call holds a preimage: between its check and the queue, *)
(* and between the queue and what is kept for the invoice.                      *)
Sells(r) == r.op = "sell" /\ r.pc \in {"invoice", "return", "keep"}
Queues(r) == r.op = "add" /\ r.pc = "push"

Carried(p) == \E c \in Calls : Sells(call[c]) /\ call[c].secret = p
Keeping(p) == \E c \in Calls : Sells(call[c]) /\ call[c].pc = "keep" /\ call[c].secret = p

CallInv   == DOMAIN call = Calls /\ \A c \in Calls : DOMAIN call[c] = Fields
QueueInv  == queue \in Seq(Secrets)
SecretInv == \A c \in Calls : Sells(call[c]) \/ Queues(call[c]) => call[c].secret \in Secrets

(* What is queued stays in the queue, in a sale or behind an invoice. *)
KeptInv == \A p \in added : p \in ToSet(queue) \cup kept \cup gone \/ Carried(p)

(* A preimage that the node has seen, and therefore refuses, is behind an      *)
(* invoice or about to be: that is why a refused preimage may be dropped.      *)
SeenInv == \A p \in seen \cap Secrets : p \in kept \cup gone \/ Keeping(p)

SaleInv == CallInv /\ QueueInv /\ SecretInv /\ KeptInv /\ SeenInv

(* A step of a call that holds no preimage before or after it. *)
Aside(c) ==
  /\ call' = [call EXCEPT ![c] = call'[c]] /\ DOMAIN call'[c] = Fields
  /\ ~Sells(call[c]) /\ ~Queues(call[c]) /\ ~Sells(call'[c]) /\ ~Queues(call'[c])

-----------------------------------------------------------------------------
(* Records of calls *)

LEMMA IdleFields == DOMAIN Idle = Fields /\ Idle.op = None /\ Idle.pc = "start"
BY DEF Idle, Fields

LEMMA DoneFields ==
  ASSUME NEW c \in Calls
  PROVE  DOMAIN Done(c) = Fields /\ Done(c).pc = "done"
BY DEF Done, Idle, Fields

LEMMA GotoIs ==
  ASSUME CallInv, NEW c \in Calls, NEW x, Goto(c, x)
  PROVE  /\ call' = [call EXCEPT ![c] = [call[c] EXCEPT !.pc = x]]
         /\ DOMAIN [call[c] EXCEPT !.pc = x] = Fields
         /\ [call[c] EXCEPT !.pc = x].pc = x
         /\ [call[c] EXCEPT !.pc = x].op = call[c].op
         /\ [call[c] EXCEPT !.pc = x].secret = call[c].secret
<1>1. call' = [call EXCEPT ![c] = [call[c] EXCEPT !.pc = x]]
  BY DEF Goto, Become
<1>2. DOMAIN call[c] = Fields
  BY DEF CallInv
<1> QED
  BY <1>1, <1>2 DEF Fields

(* Becoming a record made from Idle or from the call's own. *)
LEMMA BecomeAside ==
  ASSUME CallInv, NEW c \in Calls, NEW r, call' = [call EXCEPT ![c] = r], DOMAIN r = Fields,
         ~Sells(call[c]), ~Queues(call[c]), r.pc \notin {"invoice", "return", "keep", "push"}
  PROVE  Aside(c)
<1>1. call'[c] = r
  BY DEF CallInv
<1> QED
  BY <1>1 DEF Aside, Sells, Queues

LEMMA EndAside ==
  ASSUME CallInv, NEW c \in Calls, End(c), ~Sells(call[c]), ~Queues(call[c])
  PROVE  Aside(c)
<1>1. call' = [call EXCEPT ![c] = Done(c)]
  BY DEF End, Become
<1> QED
  BY <1>1, DoneFields, BecomeAside

LEMMA GotoAside ==
  ASSUME CallInv, NEW c \in Calls, NEW x, Goto(c, x), ~Sells(call[c]), ~Queues(call[c]),
         x \notin {"invoice", "return", "keep", "push"}
  PROVE  Aside(c)
<1>1. [call[c] EXCEPT !.pc = x].pc = x /\ DOMAIN [call[c] EXCEPT !.pc = x] = Fields
  BY GotoIs
<1>2. call' = [call EXCEPT ![c] = [call[c] EXCEPT !.pc = x]]
  BY GotoIs
<1> HIDE DEF Fields
<1> QED
  BY <1>1, <1>2, BecomeAside

LEMMA DomainOf ==
  ASSUME CallInv, NEW c \in Calls
  PROVE  DOMAIN call[c] = Fields
BY DEF CallInv

LEMMA MakingIs ==
  ASSUME NEW r0, DOMAIN r0 = Fields, NEW u, NEW a, NEW asks, asks \subseteq {"mint", "offer"},
         NEW r \in Making(r0, u, a, asks)
  PROVE  DOMAIN r = Fields /\ r.pc \in {"derive", "mint", "offer", "done"}
<1>1. CASE r = [r0 EXCEPT !.pc = "derive", !.user = u, !.acct = a, !.copy = account[a]]
  BY <1>1 DEF Fields
<1>2. CASE \E ask \in asks : r = [r0 EXCEPT !.pc = ask, !.user = u]
  BY <1>2 DEF Fields
<1>3. CASE r = [Idle EXCEPT !.op = r0.op, !.pc = "done"]
  BY <1>3 DEF Idle, Fields
<1> QED
  BY <1>1, <1>2, <1>3 DEF Making

(* It is of the user that it is made for, and keeps what names the invoice. *)
LEMMA MakingOf ==
  ASSUME NEW r0, DOMAIN r0 = Fields, NEW u, NEW a, NEW asks,
         NEW r \in Making(r0, u, a, asks), r.pc # "done"
  PROVE  /\ r.op = r0.op /\ r.id = r0.id /\ r.of = r0.of /\ r.over = r0.over
         /\ r.user = u /\ r.acct \in {r0.acct, a}
<1>1. CASE r = [r0 EXCEPT !.pc = "derive", !.user = u, !.acct = a, !.copy = account[a]]
  BY <1>1 DEF Fields
<1>2. CASE \E ask \in asks : r = [r0 EXCEPT !.pc = ask, !.user = u]
  BY <1>2 DEF Fields
<1>3. r # [Idle EXCEPT !.op = r0.op, !.pc = "done"]
  BY DEF Idle
<1> QED
  BY <1>1, <1>2, <1>3 DEF Making

-----------------------------------------------------------------------------
(* Steps of other calls *)

(* No step on vaults is one of a call that holds a preimage. *)
LEMMA VaultsAside ==
  ASSUME CallInv, VaultsNext
  PROVE  call' = call \/ \E c \in Calls : Aside(c)
<1>1. ASSUME NEW c \in Calls, CreateBegin(c) PROVE Aside(c)
  <2>1. ~Sells(call[c]) /\ ~Queues(call[c])
    BY <1>1 DEF CreateBegin, At, Sells, Queues
  <2>2. call' = [call EXCEPT ![c] = call'[c]]
    BY <1>1 DEF CreateBegin, Become, Idle, CallInv
  <2>3. DOMAIN call'[c] = Fields
    BY <1>1 DEF CreateBegin, Become, Idle, CallInv, Fields
  <2>4. call'[c].pc \notin {"invoice", "return", "keep", "push"}
    BY <1>1 DEF CreateBegin, Become, Idle, CallInv, Fields
  <2> QED
    BY <2>1, <2>2, <2>3, <2>4 DEF Aside, Sells, Queues
<1>2. ASSUME NEW c \in Calls, CreateStore(c) PROVE Aside(c)
  <2>1. ~Sells(call[c]) /\ ~Queues(call[c])
    BY <1>2 DEF CreateStore, At, Sells, Queues
  <2>2. call' = [call EXCEPT ![c] = call'[c]]
    BY <1>2 DEF CreateStore, Wear, Done, Idle, CallInv
  <2>3. DOMAIN call'[c] = Fields
    BY <1>2 DEF CreateStore, Wear, Done, Idle, CallInv, Fields
  <2>4. call'[c].pc \notin {"invoice", "return", "keep", "push"}
    BY <1>2 DEF CreateStore, Wear, Done, Idle, CallInv, Fields
  <2> QED
    BY <2>1, <2>2, <2>3, <2>4 DEF Aside, Sells, Queues
<1>3. ASSUME NEW c \in Calls, UpdateBegin(c) PROVE Aside(c)
  <2>1. ~Sells(call[c]) /\ ~Queues(call[c])
    BY <1>3 DEF UpdateBegin, At, Sells, Queues
  <2>2. call' = [call EXCEPT ![c] = call'[c]]
    BY <1>3 DEF UpdateBegin, Become, Idle, CallInv
  <2>3. DOMAIN call'[c] = Fields
    BY <1>3 DEF UpdateBegin, Become, Idle, CallInv, Fields
  <2>4. call'[c].pc \notin {"invoice", "return", "keep", "push"}
    BY <1>3 DEF UpdateBegin, Become, Idle, CallInv, Fields
  <2> QED
    BY <2>1, <2>2, <2>3, <2>4 DEF Aside, Sells, Queues
<1>4. ASSUME NEW c \in Calls, UpdateStore(c) PROVE Aside(c)
  <2>1. ~Sells(call[c]) /\ ~Queues(call[c])
    BY <1>4 DEF UpdateStore, At, Sells, Queues
  <2>2. call' = [call EXCEPT ![c] = call'[c]]
    BY <1>4 DEF UpdateStore, Wear, Done, Idle, CallInv
  <2>3. DOMAIN call'[c] = Fields
    BY <1>4 DEF UpdateStore, Wear, Done, Idle, CallInv, Fields
  <2>4. call'[c].pc \notin {"invoice", "return", "keep", "push"}
    BY <1>4 DEF UpdateStore, Wear, Done, Idle, CallInv, Fields
  <2> QED
    BY <2>1, <2>2, <2>3, <2>4 DEF Aside, Sells, Queues
<1>5. ASSUME NEW c \in Calls, DeleteBegin(c) PROVE Aside(c)
  <2>1. ~Sells(call[c]) /\ ~Queues(call[c])
    BY <1>5 DEF DeleteBegin, At, Sells, Queues
  <2>2. call' = [call EXCEPT ![c] = call'[c]]
    BY <1>5 DEF DeleteBegin, Become, Idle, CallInv
  <2>3. DOMAIN call'[c] = Fields
    BY <1>5 DEF DeleteBegin, Become, Idle, CallInv, Fields
  <2>4. call'[c].pc \notin {"invoice", "return", "keep", "push"}
    BY <1>5 DEF DeleteBegin, Become, Idle, CallInv, Fields
  <2> QED
    BY <2>1, <2>2, <2>3, <2>4 DEF Aside, Sells, Queues
<1>6. ASSUME NEW c \in Calls, DeleteStore(c) PROVE Aside(c)
  <2>1. call[c].pc \notin {"invoice", "return", "keep", "push"} \/ call[c].op \notin {"sell", "add"}
    BY <1>6 DEF DeleteStore, At
  <2>2. End(c)
    BY <1>6 DEF DeleteStore
  <2> QED
    BY <2>1, <2>2, EndAside DEF Sells, Queues
<1>7. ASSUME NEW c \in Calls, ImportBegin(c) PROVE Aside(c)
  <2>1. ~Sells(call[c]) /\ ~Queues(call[c])
    BY <1>7 DEF ImportBegin, At, Sells, Queues
  <2>2. call' = [call EXCEPT ![c] = call'[c]]
    BY <1>7 DEF ImportBegin, Become, Idle, CallInv
  <2>3. DOMAIN call'[c] = Fields
    BY <1>7 DEF ImportBegin, Become, Idle, CallInv, Fields
  <2>4. call'[c].pc \notin {"invoice", "return", "keep", "push"}
    BY <1>7 DEF ImportBegin, Become, Idle, CallInv, Fields
  <2> QED
    BY <2>1, <2>2, <2>3, <2>4 DEF Aside, Sells, Queues
<1>8. ASSUME NEW c \in Calls, ImportSync(c) PROVE Aside(c)
  <2>1. ~Sells(call[c]) /\ ~Queues(call[c])
    BY <1>8 DEF ImportSync, At, Sells, Queues
  <2>2. CASE Goto(c, "stamp")
    BY <2>1, <2>2, GotoAside
  <2>3. CASE End(c)
    BY <2>1, <2>3, EndAside
  <2>4. CASE Become(c, [call[c] EXCEPT !.pc = "stamp", !.copy.next = reached[call[c].copy.key]])
    <3>1. DOMAIN [call[c] EXCEPT !.pc = "stamp", !.copy.next = reached[call[c].copy.key]] = Fields
      BY DEF CallInv
    <3>2. [call[c] EXCEPT !.pc = "stamp", !.copy.next = reached[call[c].copy.key]].pc = "stamp"
      BY DEF CallInv, Fields
    <3> QED
      BY <2>1, <2>4, <3>1, <3>2, BecomeAside DEF Become
  <2> QED
    BY <1>8, <2>2, <2>3, <2>4 DEF ImportSync
<1>9. ASSUME NEW c \in Calls, ImportStamp(c) PROVE Aside(c)
  <2>1. call[c].pc \notin {"invoice", "return", "keep", "push"} \/ call[c].op \notin {"sell", "add"}
    BY <1>9 DEF ImportStamp, At
  <2>2. End(c)
    BY <1>9 DEF ImportStamp
  <2> QED
    BY <2>1, <2>2, EndAside DEF Sells, Queues
<1>10. ASSUME NEW c \in Calls, MigrateBegin(c) PROVE Aside(c)
  <2>1. ~Sells(call[c]) /\ ~Queues(call[c])
    BY <1>10 DEF MigrateBegin, At, Sells, Queues
  <2>2. call' = [call EXCEPT ![c] = call'[c]]
    BY <1>10 DEF MigrateBegin, Become, Idle, CallInv
  <2>3. DOMAIN call'[c] = Fields
    BY <1>10 DEF MigrateBegin, Become, Idle, CallInv, Fields
  <2>4. call'[c].pc \notin {"invoice", "return", "keep", "push"}
    BY <1>10 DEF MigrateBegin, Become, Idle, CallInv, Fields
  <2> QED
    BY <2>1, <2>2, <2>3, <2>4 DEF Aside, Sells, Queues
<1>11. ASSUME NEW c \in Calls, MigrateStore(c) PROVE Aside(c)
  <2>1. ~Sells(call[c]) /\ ~Queues(call[c])
    BY <1>11 DEF MigrateStore, At, Sells, Queues
  <2>2. call' = [call EXCEPT ![c] = call'[c]]
    BY <1>11 DEF MigrateStore, Wear, Done, Idle, CallInv
  <2>3. DOMAIN call'[c] = Fields
    BY <1>11 DEF MigrateStore, Wear, Done, Idle, CallInv, Fields
  <2>4. call'[c].pc \notin {"invoice", "return", "keep", "push"}
    BY <1>11 DEF MigrateStore, Wear, Done, Idle, CallInv, Fields
  <2> QED
    BY <2>1, <2>2, <2>3, <2>4 DEF Aside, Sells, Queues
<1>12. ASSUME NEW k \in Keys, Reach(k) PROVE call' = call
  BY <1>12 DEF Reach
<1> QED
  BY <1>1, <1>2, <1>3, <1>4, <1>5, <1>6, <1>7, <1>8, <1>9, <1>10, <1>11, <1>12 DEF VaultsNext

(* Nor is one of generate() before it has asked the node. *)
LEMMA InvoicesAside ==
  ASSUME CallInv, InvoicesNext
  PROVE  \E c \in Calls : Aside(c)
<1>1. ASSUME NEW c \in Calls, GenBegin(c) PROVE Aside(c)
  <2>0. PICK n : \E u \in Users, a \in Accounts \cup {None} :
          \E r \in Making([Idle EXCEPT !.op = "generate", !.id = n.id, !.over = n.over], u, a,
                         {"mint", "offer"}) : Become(c, r)
    BY <1>1 DEF GenBegin
  <2> DEFINE r0 == [Idle EXCEPT !.op = "generate", !.id = n.id, !.over = n.over]
  <2>1. PICK u, a : \E r \in Making(r0, u, a, {"mint", "offer"}) : Become(c, r)
    BY <2>0
  <2>2. PICK r \in Making(r0, u, a, {"mint", "offer"}) : call' = [call EXCEPT ![c] = r]
    BY <2>1 DEF Become
  <2>3. ~Sells(call[c]) /\ ~Queues(call[c])
    BY <1>1 DEF GenBegin, Sells, Queues
  <2>4. DOMAIN r0 = Fields
    BY DEF Idle, Fields
  <2> HIDE DEF r0
  <2> QED
    BY <2>2, <2>3, <2>4, MakingIs, BecomeAside
<1>2. ASSUME NEW c \in Calls, PutBegin(c) PROVE Aside(c)
  <2>1. PICK i \in Calls :
          \E r \in Making([Idle EXCEPT !.op = "put", !.id = invoice[i].id, !.of = i],
                          invoice[i].owner, invoice[i].acct,
                          IF invoice[i].code.kind = "offer" THEN {"offer"} ELSE {"mint"}) : Become(c, r)
    BY <1>2 DEF PutBegin
  <2> DEFINE r0 == [Idle EXCEPT !.op = "put", !.id = invoice[i].id, !.of = i]
             asks == IF invoice[i].code.kind = "offer" THEN {"offer"} ELSE {"mint"}
  <2>2. PICK r \in Making(r0, invoice[i].owner, invoice[i].acct, asks) : call' = [call EXCEPT ![c] = r]
    BY <2>1 DEF Become
  <2>3. ~Sells(call[c]) /\ ~Queues(call[c])
    BY <1>2 DEF PutBegin, Sells, Queues
  <2>4. DOMAIN r0 = Fields /\ asks \subseteq {"mint", "offer"}
    BY DEF Idle, Fields
  <2> HIDE DEF r0, asks
  <2>5. PICK u, x : r \in Making(r0, u, x, asks)
    BY <2>2
  <2>6. DOMAIN r = Fields /\ r.pc \in {"derive", "mint", "offer", "done"}
    BY <2>4, <2>5, MakingIs
  <2> QED
    BY <2>2, <2>3, <2>6, BecomeAside
<1>3. ASSUME NEW c \in Calls, StandingBegin(c) PROVE Aside(c)
  <2>1. ~Sells(call[c]) /\ ~Queues(call[c])
    BY <1>3 DEF StandingBegin, Sells, Queues
  <2>2. CASE Become(c, [Done(c) EXCEPT !.op = "standing"])
    <3>1. DOMAIN [Done(c) EXCEPT !.op = "standing"] = Fields
      BY DoneFields
    <3>2. [Done(c) EXCEPT !.op = "standing"].pc = "done"
      BY DoneFields DEF Fields
    <3> QED
      BY <2>1, <2>2, <3>1, <3>2, BecomeAside DEF Become
  <2>3. ASSUME NEW u, Become(c, [Idle EXCEPT !.op = "standing", !.pc = "offer", !.user = u, !.id = c])
        PROVE  Aside(c)
    <3>1. /\ DOMAIN [Idle EXCEPT !.op = "standing", !.pc = "offer", !.user = u, !.id = c] = Fields
          /\ [Idle EXCEPT !.op = "standing", !.pc = "offer", !.user = u, !.id = c].pc = "offer"
      BY DEF Idle, Fields
    <3> QED
      BY <2>1, <2>3, <3>1, BecomeAside DEF Become
  <2> QED
    BY <1>3, <2>2, <2>3 DEF StandingBegin
<1>4. ASSUME NEW c \in Calls, GenDerive(c) PROVE Aside(c)
  <2>1. ~Sells(call[c]) /\ ~Queues(call[c])
    BY <1>4 DEF GenDerive, At, Sells, Queues
  <2>2. call' = [call EXCEPT ![c] = call'[c]]
    BY <1>4 DEF GenDerive, Become, CallInv
  <2>3. DOMAIN call'[c] = Fields
    BY <1>4 DEF GenDerive, Become, CallInv, Fields
  <2>4. call'[c].pc \notin {"invoice", "return", "keep", "push"}
    BY <1>4 DEF GenDerive, Become, CallInv, Fields
  <2> QED
    BY <2>1, <2>2, <2>3, <2>4 DEF Aside, Sells, Queues
<1>5. ASSUME NEW c \in Calls, GenMint(c) PROVE Aside(c)
  <2>1. ~Sells(call[c]) /\ ~Queues(call[c])
    BY <1>5 DEF GenMint, At, Sells, Queues
  <2>2. call' = [call EXCEPT ![c] = call'[c]]
    BY <1>5 DEF GenMint, End, Become, Done, Idle, CallInv
  <2>3. DOMAIN call'[c] = Fields
    BY <1>5 DEF GenMint, End, Become, Done, Idle, CallInv, Fields
  <2>4. call'[c].pc \notin {"invoice", "return", "keep", "push"}
    BY <1>5, ZenonT(60) DEF GenMint, End, Become, Done, Idle, CallInv, Fields
  <2> QED
    BY <2>1, <2>2, <2>3, <2>4 DEF Aside, Sells, Queues
<1>6. ASSUME NEW c \in Calls, GenOffer(c) PROVE Aside(c)
  <2>1. ~Sells(call[c]) /\ ~Queues(call[c])
    BY <1>6 DEF GenOffer, Sells, Queues
  <2>2. CASE End(c)
    BY <2>1, <2>2, EndAside
  <2>3. ASSUME NEW code, call' = [call EXCEPT ![c] = [call[c] EXCEPT !.pc = "point", !.code = code]]
        PROVE  Aside(c)
    <3> DEFINE r == [call[c] EXCEPT !.pc = "point", !.code = code]
    <3>1. DOMAIN call[c] = Fields
      BY DEF CallInv
    <3>2. DOMAIN r = Fields /\ r.pc = "point"
      BY <3>1 DEF Fields
    <3>3. call' = [call EXCEPT ![c] = r]
      BY <2>3
    <3> HIDE DEF r
    <3> QED
      BY <2>1, <3>2, <3>3, BecomeAside
  <2> QED
    BY <1>6, <2>2, <2>3 DEF GenOffer
<1>7. ASSUME NEW c \in Calls, GenPoint(c) PROVE Aside(c)
  <2>1. call[c].pc \notin {"invoice", "return", "keep", "push"} /\ Goto(c, "record")
    BY <1>7 DEF GenPoint
  <2> QED
    BY <2>1, GotoAside DEF Sells, Queues
<1>8. ASSUME NEW c \in Calls, GenRecord(c) PROVE Aside(c)
  <2>1. call[c].pc \notin {"invoice", "return", "keep", "push"} /\ Goto(c, "hand")
    BY <1>8 DEF GenRecord
  <2> QED
    BY <2>1, GotoAside DEF Sells, Queues
<1>9. ASSUME NEW c \in Calls, GenHand(c) PROVE Aside(c)
  <2>1. call[c].pc \notin {"invoice", "return", "keep", "push"} \/ call[c].op \notin {"sell", "add"}
    BY <1>9 DEF GenHand, At
  <2>2. End(c)
    BY <1>9 DEF GenHand
  <2> QED
    BY <2>1, <2>2, EndAside DEF Sells, Queues
<1> QED
  BY <1>1, <1>2, <1>3, <1>4, <1>5, <1>6, <1>7, <1>8, <1>9 DEF InvoicesNext

-----------------------------------------------------------------------------
(* The invariant *)

LEMMA CarriedStays ==
  ASSUME CallInv, NEW c \in Calls, Aside(c), NEW p
  PROVE  /\ Carried(p) => Carried(p)'
         /\ Keeping(p) => Keeping(p)'
<1>1. \A d \in Calls : Sells(call[d]) => d # c
  BY DEF Aside
<1>2. \A d \in Calls \ {c} : call'[d] = call[d]
  BY DEF Aside, CallInv
<1> QED
  BY <1>1, <1>2 DEF Carried, Keeping

(* A step of another call that leaves the queue alone keeps everything. *)
LEMMA AsideKeeps ==
  ASSUME SaleInv, call' = call \/ \E c \in Calls : Aside(c),
         UNCHANGED <<queue, kept, redeemed, added, gone>>,
         seen' \cap Secrets = seen \cap Secrets
  PROVE  SaleInv'
<1>1. CASE call' = call
  BY <1>1 DEF SaleInv, CallInv, QueueInv, SecretInv, KeptInv, SeenInv, Carried, Keeping
<1>2. ASSUME NEW c \in Calls, Aside(c) PROVE SaleInv'
  <2>1. CallInv'
    BY <1>2 DEF SaleInv, CallInv, Aside
  <2>2. QueueInv'
    BY DEF SaleInv, QueueInv
  <2>3. SecretInv'
    <3>1. \A d \in Calls \ {c} : call'[d] = call[d]
      BY <1>2 DEF SaleInv, CallInv, Aside
    <3> QED
      BY <1>2, <3>1 DEF SaleInv, SecretInv, Aside
  <2>4. KeptInv'
    BY <1>2, CarriedStays DEF SaleInv, KeptInv
  <2>5. SeenInv'
    BY <1>2, CarriedStays DEF SaleInv, SeenInv
  <2> QED
    BY <2>1, <2>2, <2>3, <2>4, <2>5 DEF SaleInv
<1> QED
  BY <1>1, <1>2

LEMMA VaultsKeep ==
  ASSUME SaleInv, VaultsNext, UNCHANGED <<invoices, seen, queue, kept, redeemed, added, gone, restarts>>
  PROVE  SaleInv'
BY VaultsAside, AsideKeeps DEF SaleInv

(* The node makes no other invoice with a merchant's preimage. *)
LEMMA SeenSecrets ==
  ASSUME InvoicesNext
  PROVE  seen' \cap Secrets = seen \cap Secrets
<1>1. ASSUME NEW c \in Calls, GenMint(c) PROVE seen' \cap Secrets = seen \cap Secrets
  BY <1>1 DEF GenMint
<1>2. ASSUME NEW c \in Calls,
             GenBegin(c) \/ PutBegin(c) \/ StandingBegin(c) \/ GenDerive(c) \/ GenOffer(c)
               \/ GenPoint(c) \/ GenRecord(c) \/ GenHand(c)
      PROVE  seen' = seen
  BY <1>2 DEF GenBegin, PutBegin, StandingBegin, GenDerive, GenOffer, GenPoint, GenRecord, GenHand,
              invoices
<1> QED
  BY <1>1, <1>2 DEF InvoicesNext

LEMMA InvoicesKeep ==
  ASSUME SaleInv, InvoicesNext, UNCHANGED <<queue, kept, redeemed, added, gone, restarts>>
  PROVE  SaleInv'
BY InvoicesAside, SeenSecrets, AsideKeeps DEF SaleInv

-----------------------------------------------------------------------------
(* Queueing and selling *)

LEMMA Appended ==
  ASSUME QueueInv, NEW p \in Secrets
  PROVE  Append(queue, p) \in Seq(Secrets) /\ ToSet(Append(queue, p)) = ToSet(queue) \cup {p}
<1>1. Append(queue, p) \in Seq(Secrets)
  BY DEF QueueInv
<1>2. /\ Len(Append(queue, p)) = Len(queue) + 1 /\ Append(queue, p)[Len(queue) + 1] = p
      /\ \A i \in 1..Len(queue) : Append(queue, p)[i] = queue[i]
      /\ Len(queue) \in Nat /\ DOMAIN queue = 1..Len(queue)
      /\ DOMAIN Append(queue, p) = 1..(Len(queue) + 1)
  BY DEF QueueInv
<1>3. ToSet(Append(queue, p)) \subseteq ToSet(queue) \cup {p}
  BY <1>2 DEF ToSet
<1>4. ToSet(queue) \cup {p} \subseteq ToSet(Append(queue, p))
  BY <1>2 DEF ToSet
<1> QED
  BY <1>1, <1>3, <1>4

LEMMA PutBack ==
  ASSUME QueueInv, NEW p \in Secrets
  PROVE  <<p>> \o queue \in Seq(Secrets) /\ ToSet(<<p>> \o queue) = ToSet(queue) \cup {p}
<1> DEFINE q == <<p>> \o queue
<1>1. q \in Seq(Secrets)
  BY DEF QueueInv
<1>2. /\ Len(queue) \in Nat /\ DOMAIN queue = 1..Len(queue)
      /\ DOMAIN q = 1..(Len(queue) + 1) /\ q[1] = p
      /\ \A i \in 1..Len(queue) : q[i + 1] = queue[i]
  BY DEF QueueInv
<1> HIDE DEF q
<1>3. ToSet(q) \subseteq ToSet(queue) \cup {p}
  <2>1. ASSUME NEW i \in 1..(Len(queue) + 1) PROVE q[i] \in ToSet(queue) \cup {p}
    <3>1. CASE i = 1
      BY <1>2, <3>1
    <3>2. CASE i # 1
      <4>1. i - 1 \in 1..Len(queue) /\ q[(i - 1) + 1] = queue[i - 1] /\ (i - 1) + 1 = i
        BY <1>2, <3>2
      <4> QED
        BY <1>2, <4>1 DEF ToSet
    <3> QED
      BY <3>1, <3>2
  <2> QED
    BY <1>2, <2>1 DEF ToSet
<1>4. ToSet(queue) \cup {p} \subseteq ToSet(q)
  <2>1. p \in ToSet(q)
    BY <1>2 DEF ToSet
  <2>2. ASSUME NEW i \in 1..Len(queue) PROVE queue[i] \in ToSet(q)
    BY <1>2, i + 1 \in DOMAIN q DEF ToSet
  <2> QED
    BY <1>2, <2>1, <2>2 DEF ToSet
<1> QED
  BY <1>1, <1>3, <1>4 DEF q

LEMMA Popped ==
  ASSUME QueueInv, queue # <<>>
  PROVE  /\ Head(queue) \in Secrets /\ Tail(queue) \in Seq(Secrets)
         /\ ToSet(queue) = ToSet(Tail(queue)) \cup {Head(queue)}
<1>1. Head(queue) \in Secrets /\ Tail(queue) \in Seq(Secrets)
  BY DEF QueueInv
<1>2. /\ Len(queue) \in Nat /\ Len(queue) > 0 /\ DOMAIN queue = 1..Len(queue) /\ Head(queue) = queue[1]
      /\ DOMAIN Tail(queue) = 1..(Len(queue) - 1)
      /\ \A i \in 1..(Len(queue) - 1) : Tail(queue)[i] = queue[i + 1]
  BY DEF QueueInv
<1>3. ToSet(queue) \subseteq ToSet(Tail(queue)) \cup {Head(queue)}
  <2>1. ASSUME NEW i \in 1..Len(queue) PROVE queue[i] \in ToSet(Tail(queue)) \cup {Head(queue)}
    <3>1. CASE i = 1
      BY <1>2, <3>1
    <3>2. CASE i # 1
      <4>1. i - 1 \in 1..(Len(queue) - 1) /\ Tail(queue)[i - 1] = queue[(i - 1) + 1] /\ (i - 1) + 1 = i
        BY <1>2, <3>2
      <4> QED
        BY <1>2, <4>1 DEF ToSet
    <3> QED
      BY <3>1, <3>2
  <2> QED
    BY <1>2, <2>1 DEF ToSet
<1>4. ToSet(Tail(queue)) \cup {Head(queue)} \subseteq ToSet(queue)
  BY <1>2 DEF ToSet
<1> QED
  BY <1>1, <1>3, <1>4

-----------------------------------------------------------------------------
(* Steps of additions and sales *)

LEMMA OneCall ==
  ASSUME CallInv, NEW c \in Calls, NEW r, Become(c, r), DOMAIN r = Fields
  PROVE  call'[c] = r /\ (\A d \in Calls \ {c} : call'[d] = call[d]) /\ CallInv'
BY DEF CallInv, Become

LEMMA OneMoves ==
  ASSUME CallInv, NEW c \in Calls, NEW x, Goto(c, x)
  PROVE  /\ call'[c].pc = x /\ call'[c].op = call[c].op /\ call'[c].secret = call[c].secret
         /\ \A d \in Calls \ {c} : call'[d] = call[d]
         /\ CallInv'
<1> DEFINE r == [call[c] EXCEPT !.pc = x]
<1>1. DOMAIN r = Fields /\ r.pc = x /\ r.op = call[c].op /\ r.secret = call[c].secret
  BY GotoIs
<1>2. Become(c, r)
  BY DEF Goto
<1> HIDE DEF r
<1> QED
  BY <1>1, <1>2, OneCall

LEMMA OneEnds ==
  ASSUME CallInv, NEW c \in Calls, End(c)
  PROVE  ~Sells(call'[c]) /\ ~Queues(call'[c]) /\ (\A d \in Calls \ {c} : call'[d] = call[d]) /\ CallInv'
<1>1. Become(c, Done(c))
  BY DEF End
<1> QED
  BY <1>1, OneCall, DoneFields DEF Sells, Queues

LEMMA OthersCarry ==
  ASSUME NEW c \in Calls, NEW p, \A d \in Calls \ {c} : call'[d] = call[d]
  PROVE  /\ Carried(p) => Carried(p)' \/ (Sells(call[c]) /\ p = call[c].secret)
         /\ Keeping(p) => Keeping(p)' \/ (Sells(call[c]) /\ call[c].pc = "keep")
BY DEF Carried, Keeping

LEMMA OthersSecret ==
  ASSUME SecretInv, NEW c \in Calls, \A d \in Calls \ {c} : call'[d] = call[d],
         Sells(call'[c]) \/ Queues(call'[c]) => call'[c].secret \in Secrets
  PROVE  SecretInv'
BY DEF SecretInv

LEMMA AddBeginKeeps ==
  ASSUME SaleInv, NEW c \in Calls, AddBegin(c)
  PROVE  SaleInv'
<1>1. PICK p \in Secrets : Become(c, [Idle EXCEPT !.op = "add", !.pc = "push", !.secret = p])
  BY DEF AddBegin
<1>2. /\ UNCHANGED <<queue, kept, added, gone, seen>>
      /\ ~Sells(call[c])
  BY DEF AddBegin, Sells
<1> DEFINE r == [Idle EXCEPT !.op = "add", !.pc = "push", !.secret = p]
<1>3. DOMAIN r = Fields /\ r.op = "add" /\ r.secret = p
  BY DEF Idle, Fields
<1> HIDE DEF r
<1>4. call'[c] = r /\ (\A d \in Calls \ {c} : call'[d] = call[d]) /\ CallInv'
  BY <1>1, <1>3, OneCall DEF SaleInv, r
<1>5. SecretInv'
  BY <1>3, <1>4, OthersSecret DEF SaleInv
<1>6. KeptInv' /\ SeenInv'
  BY <1>2, <1>4, OthersCarry DEF SaleInv, KeptInv, SeenInv
<1> QED
  BY <1>2, <1>4, <1>5, <1>6 DEF SaleInv, QueueInv

LEMMA AddPushKeeps ==
  ASSUME SaleInv, NEW c \in Calls, AddPush(c)
  PROVE  SaleInv'
<1> DEFINE p == call[c].secret
<1>1. /\ queue' = Append(queue, p) /\ added' = added \cup {p} /\ gone' = gone \ ({p} \ seen)
      /\ UNCHANGED <<seen, kept>> /\ Queues(call[c]) /\ ~Sells(call[c]) /\ End(c)
  BY DEF AddPush, At, Sells, Queues
<1>2. p \in Secrets
  BY <1>1 DEF SaleInv, SecretInv
<1> HIDE DEF p
<1>3. queue' \in Seq(Secrets) /\ ToSet(queue') = ToSet(queue) \cup {p}
  BY <1>1, <1>2, Appended DEF SaleInv
<1>4. ~Sells(call'[c]) /\ ~Queues(call'[c]) /\ (\A d \in Calls \ {c} : call'[d] = call[d]) /\ CallInv'
  BY <1>1, OneEnds DEF SaleInv
<1>5. SecretInv'
  BY <1>4, OthersSecret DEF SaleInv
<1>6. KeptInv'
  BY <1>1, <1>3, <1>4, OthersCarry DEF SaleInv, KeptInv
<1>7. SeenInv'
  BY <1>1, <1>4, OthersCarry DEF SaleInv, SeenInv
<1> QED
  BY <1>3, <1>4, <1>5, <1>6, <1>7 DEF SaleInv, QueueInv

LEMMA SellBeginKeeps ==
  ASSUME SaleInv, NEW c \in Calls, SellBegin(c)
  PROVE  SaleInv'
<1>0. PICK n : Become(c, [Idle EXCEPT !.op = "sell", !.pc = "pop", !.user = Merchant, !.id = n.id,
                                     !.over = n.over])
  BY DEF SellBegin
<1> DEFINE r == [Idle EXCEPT !.op = "sell", !.pc = "pop", !.user = Merchant, !.id = n.id, !.over = n.over]
<1>1. Become(c, r) /\ UNCHANGED <<queue, kept, added, gone, seen>> /\ ~Sells(call[c])
  BY <1>0 DEF SellBegin, Sells
<1>2. DOMAIN r = Fields /\ ~Sells(r) /\ ~Queues(r)
  BY DEF Idle, Fields, Sells, Queues
<1> HIDE DEF r
<1>3. call'[c] = r /\ (\A d \in Calls \ {c} : call'[d] = call[d]) /\ CallInv'
  BY <1>1, <1>2, OneCall DEF SaleInv
<1>4. SecretInv'
  BY <1>2, <1>3, OthersSecret DEF SaleInv
<1>5. KeptInv' /\ SeenInv'
  BY <1>1, <1>3, OthersCarry DEF SaleInv, KeptInv, SeenInv
<1> QED
  BY <1>1, <1>3, <1>4, <1>5 DEF SaleInv, QueueInv

LEMMA SellPopKeeps ==
  ASSUME SaleInv, NEW c \in Calls, SellPop(c)
  PROVE  SaleInv'
<1>1. UNCHANGED <<kept, added, gone, seen>> /\ ~Sells(call[c])
  BY DEF SellPop, At, Sells
<1>2. CASE queue = <<>>
  <2>1. End(c) /\ queue' = queue
    BY <1>2 DEF SellPop
  <2>2. ~Sells(call'[c]) /\ ~Queues(call'[c]) /\ (\A d \in Calls \ {c} : call'[d] = call[d]) /\ CallInv'
    BY <2>1, OneEnds DEF SaleInv
  <2>3. SecretInv'
    BY <2>2, OthersSecret DEF SaleInv
  <2>4. KeptInv' /\ SeenInv'
    BY <1>1, <2>1, <2>2, OthersCarry DEF SaleInv, KeptInv, SeenInv
  <2> QED
    BY <2>1, <2>2, <2>3, <2>4 DEF SaleInv, QueueInv
<1>3. CASE queue # <<>>
  <2>0. PICK p : p = Head(queue)
    OBVIOUS
  <2> DEFINE r == [call[c] EXCEPT !.pc = "invoice", !.secret = p]
  <2>1. Become(c, r) /\ queue' = Tail(queue) /\ call[c].op = "sell"
    BY <1>3, <2>0 DEF SellPop, At
  <2>2. DOMAIN r = Fields /\ Sells(r) /\ r.secret = p
    BY <2>1, DomainOf DEF SaleInv, Sells, Fields
  <2>3. p \in Secrets /\ queue' \in Seq(Secrets) /\ ToSet(queue) = ToSet(queue') \cup {p}
    BY <1>3, <2>0, <2>1, Popped DEF SaleInv
  <2> HIDE DEF r
  <2>4. call'[c] = r /\ (\A d \in Calls \ {c} : call'[d] = call[d]) /\ CallInv'
    BY <2>1, <2>2, OneCall DEF SaleInv
  <2>5. SecretInv'
    BY <2>2, <2>3, <2>4, OthersSecret DEF SaleInv
  <2>6. Carried(p)'
    BY <2>2, <2>4 DEF Carried
  <2>7. KeptInv' /\ SeenInv'
    BY <1>1, <2>3, <2>4, <2>6, OthersCarry DEF SaleInv, KeptInv, SeenInv
  <2> QED
    BY <2>3, <2>4, <2>5, <2>7 DEF SaleInv, QueueInv
<1> QED
  BY <1>2, <1>3

LEMMA SellInvoiceKeeps ==
  ASSUME SaleInv, NEW c \in Calls, SellInvoice(c)
  PROVE  SaleInv'
<1>0. PICK p : p = call[c].secret
  OBVIOUS
<1>1. UNCHANGED <<queue, kept, added>> /\ Sells(call[c]) /\ call[c].op = "sell" /\ call[c].pc = "invoice"
  BY DEF SellInvoice, At, Sells
<1>2. p \in Secrets
  BY <1>0, <1>1 DEF SaleInv, SecretInv
<1>3. PICK x \in {"keep", "pop", "return"} :
        /\ Goto(c, x)
        /\ x = "keep" => p \notin seen /\ seen' = seen \cup {p} /\ gone' = gone
        /\ x = "pop" => p \in seen /\ seen' = seen /\ gone' = gone
        /\ x = "return" => \/ seen' = seen /\ gone' = gone
                           \/ seen' = seen \cup {p} /\ gone' = gone \cup {p}
  BY <1>0 DEF SellInvoice
<1>4. /\ call'[c].pc = x /\ call'[c].op = "sell" /\ call'[c].secret = p
      /\ \A d \in Calls \ {c} : call'[d] = call[d]
      /\ CallInv'
  BY <1>0, <1>1, <1>3, OneMoves DEF SaleInv
<1>5. SecretInv'
  BY <1>2, <1>4, OthersSecret DEF SaleInv
<1>6. \A q : /\ Carried(q) => Carried(q)' \/ q = p
             /\ Keeping(q) => Keeping(q)'
  BY <1>0, <1>1, <1>4, OthersCarry
<1>7. CASE x = "keep"
  <2>1. Carried(p)' /\ Keeping(p)'
    BY <1>4, <1>7 DEF Carried, Keeping, Sells
  <2> QED
    BY <1>1, <1>3, <1>4, <1>5, <1>6, <1>7, <2>1 DEF SaleInv, QueueInv, KeptInv, SeenInv
<1>8. CASE x = "pop"
  <2>1. p \in kept \cup gone \/ Keeping(p)
    BY <1>2, <1>3, <1>8 DEF SaleInv, SeenInv
  <2>2. Keeping(p)' => Carried(p)'
    BY DEF Keeping, Carried
  <2> QED
    BY <1>1, <1>3, <1>4, <1>5, <1>6, <1>8, <2>1, <2>2 DEF SaleInv, QueueInv, KeptInv, SeenInv
<1>9. CASE x = "return"
  <2>1. Carried(p)'
    BY <1>4, <1>9 DEF Carried, Sells
  <2> QED
    BY <1>1, <1>3, <1>4, <1>5, <1>6, <1>9, <2>1 DEF SaleInv, QueueInv, KeptInv, SeenInv
<1> QED
  BY <1>7, <1>8, <1>9

LEMMA SellReturnKeeps ==
  ASSUME SaleInv, NEW c \in Calls, SellReturn(c)
  PROVE  SaleInv'
<1> DEFINE p == call[c].secret
<1>1. /\ queue' = <<p>> \o queue /\ UNCHANGED <<kept, added, gone, seen>> /\ End(c)
      /\ Sells(call[c]) /\ call[c].pc = "return"
  BY DEF SellReturn, At, Sells
<1>2. p \in Secrets
  BY <1>1 DEF SaleInv, SecretInv
<1>3. queue' \in Seq(Secrets) /\ ToSet(queue') = ToSet(queue) \cup {p}
  BY <1>1, <1>2, PutBack DEF SaleInv
<1>4. ~Sells(call'[c]) /\ ~Queues(call'[c]) /\ (\A d \in Calls \ {c} : call'[d] = call[d]) /\ CallInv'
  BY <1>1, OneEnds DEF SaleInv
<1>5. SecretInv'
  BY <1>4, OthersSecret DEF SaleInv
<1>6. \A q : (Carried(q) => Carried(q)' \/ q = p) /\ (Keeping(q) => Keeping(q)')
  BY <1>1, <1>4, OthersCarry
<1> HIDE DEF p
<1>7. KeptInv' /\ SeenInv'
  BY <1>1, <1>3, <1>6 DEF SaleInv, KeptInv, SeenInv
<1> QED
  BY <1>3, <1>4, <1>5, <1>7 DEF SaleInv, QueueInv

LEMMA SellKeepKeeps ==
  ASSUME SaleInv, NEW c \in Calls, SellKeep(c)
  PROVE  SaleInv'
<1> DEFINE p == call[c].secret
           r == [call[c] EXCEPT !.pc = "point", !.secret = None,
                                !.code = [kind |-> "minted", key |-> p, n |-> 0]]
<1>1. kept' = kept \cup {p} /\ UNCHANGED <<queue, added, gone, seen>> /\ Become(c, r) /\ Sells(call[c])
  BY DEF SellKeep, At, Sells
<1>2. DOMAIN r = Fields /\ ~Sells(r) /\ ~Queues(r)
  BY DomainOf DEF SaleInv, Sells, Queues, Fields
<1>3. call'[c] = r /\ (\A d \in Calls \ {c} : call'[d] = call[d]) /\ CallInv'
  BY <1>1, <1>2, OneCall DEF SaleInv
<1> HIDE DEF r
<1>4. SecretInv'
  BY <1>2, <1>3, OthersSecret DEF SaleInv
<1>5. \A q : Carried(q) => Carried(q)' \/ q = p
  BY <1>3, OthersCarry
<1>6. \A q : Keeping(q) => Keeping(q)' \/ q = p
  BY <1>3 DEF Keeping
<1> HIDE DEF p
<1>7. KeptInv' /\ SeenInv'
  BY <1>1, <1>5, <1>6 DEF SaleInv, KeptInv, SeenInv
<1> QED
  BY <1>1, <1>3, <1>4, <1>7 DEF SaleInv, QueueInv

(* A restart loses what sales held, and counts it. *)
LEMMA RestartKeeps ==
  ASSUME SaleInv, Restart
  PROVE  SaleInv'
<1>1. /\ UNCHANGED <<queue, kept, added, seen>>
      /\ gone' = gone \cup ({call[c].secret : c \in {d \in Active : call[d].op = "sell"}} \ {None})
      /\ call' = [c \in Calls |-> IF c \in Active THEN Done(c) ELSE call[c]]
  BY DEF Restart
<1>2. \A c \in Calls : ~Sells(call'[c]) /\ ~Queues(call'[c])
  BY <1>1, DoneFields DEF Active, Sells, Queues
<1>3. CallInv'
  BY <1>1, DoneFields DEF SaleInv, CallInv
<1>4. SecretInv'
  BY <1>2 DEF SecretInv
<1>5. \A p \in Secrets : Carried(p) => p \in gone'
  <2>1. ASSUME NEW p \in Secrets, Carried(p) PROVE p \in gone'
    <3>1. PICK c \in Calls : Sells(call[c]) /\ call[c].secret = p
      BY <2>1 DEF Carried
    <3>2. c \in Active /\ call[c].op = "sell"
      BY <3>1 DEF Active, Sells
    <3>3. p # None
      BY InvoicesAssumption
    <3> QED
      BY <1>1, <3>1, <3>2, <3>3
  <2> QED
    BY <2>1
<1>6. \A p : Carried(p) => p \in Secrets
  BY DEF SaleInv, SecretInv, Carried
<1>7. \A p : Keeping(p) => Carried(p)
  BY DEF Keeping, Carried
<1>8. gone \subseteq gone'
  BY <1>1
<1>9. KeptInv' /\ SeenInv'
  BY <1>1, <1>5, <1>6, <1>7, <1>8 DEF SaleInv, KeptInv, SeenInv
<1> QED
  BY <1>1, <1>3, <1>4, <1>9 DEF SaleInv, QueueInv

LEMMA OutsideKeeps ==
  ASSUME SaleInv, Clear \/ \E p \in Secrets : SettleSale(p) \/ Expire(p)
  PROVE  SaleInv'
<1>1. call' = call /\ added' = added /\ seen' = seen
  BY DEF Clear, SettleSale, Expire
<1>2. CallInv' /\ SecretInv'
  BY <1>1 DEF SaleInv, CallInv, SecretInv
<1>3. \A q : Carried(q)' = Carried(q) /\ Keeping(q)' = Keeping(q)
  BY <1>1 DEF Carried, Keeping
<1>4. CASE Clear
  <2>1. queue' = <<>> /\ gone' = gone \cup ToSet(queue) /\ kept' = kept
    BY <1>4 DEF Clear
  <2>2. QueueInv'
    BY <2>1 DEF QueueInv
  <2>3. KeptInv' /\ SeenInv'
    BY <1>1, <1>3, <2>1 DEF SaleInv, KeptInv, SeenInv
  <2> QED
    BY <1>2, <2>2, <2>3 DEF SaleInv
<1>5. ASSUME NEW p \in Secrets, SettleSale(p) \/ Expire(p) PROVE SaleInv'
  <2>1. queue' = queue /\ gone \cup kept \subseteq gone' \cup kept'
    BY <1>5 DEF SettleSale, Expire
  <2>2. QueueInv'
    BY <2>1 DEF SaleInv, QueueInv
  <2>3. KeptInv' /\ SeenInv'
    BY <1>1, <1>3, <2>1 DEF SaleInv, KeptInv, SeenInv
  <2> QED
    BY <1>2, <2>2, <2>3 DEF SaleInv
<1> QED
  BY <1>4, <1>5

LEMMA SaleInit == Init => SaleInv
<1> SUFFICES ASSUME Init PROVE SaleInv
  OBVIOUS
<1>1. call = [c \in Calls |-> Idle] /\ queue = <<>> /\ seen = {} /\ added = {}
  BY DEF Init, VaultsInit, PreimagesInit
<1>2. CallInv
  BY <1>1, IdleFields DEF CallInv
<1>3. \A c \in Calls : ~Sells(call[c]) /\ ~Queues(call[c])
  BY <1>1, IdleFields DEF Sells, Queues
<1> QED
  BY <1>1, <1>2, <1>3 DEF SaleInv, QueueInv, SecretInv, KeptInv, SeenInv

LEMMA SaleNext == SaleInv /\ [Next]_vars => SaleInv'
<1> SUFFICES ASSUME SaleInv, [Next]_vars PROVE SaleInv'
  OBVIOUS
<1>1. ASSUME VaultsNext, UNCHANGED <<invoices, seen, queue, kept, redeemed, added, gone, restarts>>
      PROVE  SaleInv'
  BY <1>1, VaultsKeep
<1>2. ASSUME InvoicesNext, UNCHANGED <<queue, kept, redeemed, added, gone, restarts>>
      PROVE  SaleInv'
  BY <1>2, InvoicesKeep
<1>3. ASSUME PreimagesNext PROVE SaleInv'
  BY <1>3, AddBeginKeeps, AddPushKeeps, SellBeginKeeps, SellPopKeeps, SellInvoiceKeeps,
     SellReturnKeeps, SellKeepKeeps, RestartKeeps, OutsideKeeps DEF PreimagesNext
<1>4. CASE UNCHANGED vars
  BY <1>4, AsideKeeps DEF vars
<1> QED
  BY <1>1, <1>2, <1>3, <1>4 DEF Next

-----------------------------------------------------------------------------
(* Accounts, invoices and codes: what holds of them *)

(* What is known of an account, and of the copy of it that a call holds. *)
Proper(r) == r \in AccountRecords /\ (r.key \in Keys \/ r.desc \in Keys)

VaultTyped ==
  /\ account \in [Accounts -> AccountRecords \cup {None}] /\ reached \in [Keys -> 0..MaxIndex]
  /\ \A a \in Accounts : account[a] # None => Proper(account[a])

Holding(r) == r.copy # None /\ r.pc \notin {"start", "done"}

(* A call that is to store an account: the copy that it holds, the keys. *)
HoldsTyped(r) ==
  /\ Holding(r) => Proper(r.copy) /\ r.acct \in Accounts /\ r.key \in Keys \cup {None}
  /\ r.pc \in {"derive", "sync", "stamp"} => Holding(r) /\ r.copy.key \in Keys
  /\ r.pc = "store" /\ r.op \in {"account", "migrate"} => Holding(r)
  /\ r.pc = "store" /\ r.op = "migrate" => r.copy.key = None
  /\ r.pc = "store" /\ r.op = "create" =>
       ~Holding(r) /\ r.acct \in Accounts /\ r.key \in Keys /\ r.user \in Users
HoldTyped == \A c \in Calls : HoldsTyped(call[c])

(* A key that is not spoiled is held by one call at most. *)
SoleInv == \A c, d \in Calls : c # d => Held(call[c]) \cap Held(call[d]) \subseteq spoiled

(* An account that is to be created is known to its creator alone. *)
CreateInv ==
  \A c \in Calls : call[c].op = "create" /\ call[c].pc = "store" =>
    /\ account[call[c].acct] = None
    /\ \A d \in Calls \ {c} : call[d].acct # call[c].acct

Has(a, k)   == account[a] # None /\ account[a].key = k
Copies(c, k) == Holding(call[c]) /\ call[c].copy.key = k

Coded(r) == r.pc \in {"point", "record", "hand"}

(* The codes of invoices that are made, recorded or handed out. *)
InUse ==
  {call[c].code : c \in {d \in Calls : Coded(call[d])}}
    \cup {invoice[i].code : i \in {j \in Calls : invoice[j] # None}}
    \cup {x.code : x \in handed}

(* A key that is not spoiled is of one account, which is the one that a holder *)
(* of the key will store; its addresses that are in use have been counted.     *)
KeyInv(k) ==
  /\ \A a \in Accounts : Has(a, k) => k \in worn
  /\ \A c \in Calls : Copies(c, k) => k \in worn
  /\ \A a, b \in Accounts : Has(a, k) /\ Has(b, k) => a = b
  /\ \A c \in Calls, a \in Accounts : Copies(c, k) /\ Has(a, k) => a = call[c].acct
  /\ \A c \in Calls : k \in Held(call[c]) /\ Has(call[c].acct, k) => call[c].copy.key = k
  /\ \A x \in InUse : x.kind = "address" /\ x.key = k =>
       /\ k \in worn
       /\ \A a \in Accounts : Has(a, k) => x.n < account[a].next
       /\ \A c \in Calls : Copies(c, k) => x.n < call[c].copy.next

KeysInv == \A k \in Keys \ spoiled : KeyInv(k)

VaultInv == VaultTyped /\ HoldTyped /\ SoleInv /\ CreateInv /\ KeysInv

(* There is an invoice of the user, or one whose id a caller gave to another. *)
Recorded(i, u) == i \in Calls /\ invoice[i] # None /\ (invoice[i].owner = u \/ i \in named)

(* A call makes an invoice for the user whose it is, or will be, unless the id *)
(* is its caller's choice.                                                     *)
Owned(c, r) ==
  /\ r.user \in Users /\ r.acct \in Accounts \cup {None} /\ r.over \in named \cup {None}
  /\ r.op = "put" => Recorded(r.id, r.user) /\ Recorded(r.of, r.user)
  /\ r.op # "put" =>
       /\ r.id \in Calls /\ r.id \in named \cup {c}
       /\ invoice[r.id] = None \/ invoice[r.id].owner = r.user \/ r.id \in named

RecordTyped ==
  /\ invoice \in [Calls -> InvoiceRecords \cup {None}]
  /\ ptr \in [Codes -> Calls \cup {None}] /\ standing \in [Users -> Calls \cup {None}]
  /\ named \subseteq Calls \cup Codes
  /\ \A c \in Calls : Coded(call[c]) => call[c].code \in Codes
  /\ \A x \in handed : x.code \in Codes

(* A record tells of an invoice of its owner, a standing offer of its user's. *)
BackInv ==
  /\ \A i \in Calls : invoice[i] # None => Recorded(invoice[i].id, invoice[i].owner)
  /\ \A u \in Users : standing[u] # None => Recorded(standing[u], u)

OwnInv ==
  \A c \in Calls :
    /\ call[c].pc = "start" => invoice[c] = None /\ c \notin named
    /\ Busy(call[c]) => Owned(c, call[c])
    /\ call[c].pc = "hand" => invoice[call[c].id] # None

RecordInv == RecordTyped /\ BackInv /\ OwnInv

(* What the node made, it has seen, and made for one call. *)
SeenOnce ==
  /\ \A x \in InUse : x.kind = "minted" => x.key \in seen
  /\ \A c \in Calls : call[c].pc = "keep" =>
       /\ call[c].secret \in seen
       /\ \A x \in InUse : ~(x.kind = "minted" /\ x.key = call[c].secret)
       /\ \A d \in Calls \ {c} : call[d].pc = "keep" => call[d].secret # call[c].secret

Leads(x, u, i) ==
  /\ ptr[x] # None /\ Recorded(ptr[x], u)
  /\ x.kind = "address" => ptr[x] = i

(* A code that nothing the property excepts has touched. *)
Clean(x) == x.key \notin spoiled /\ x \notin named

(* A code that was handed out leads to an invoice of its user, unless a caller *)
(* named the one that was asked for.                                          *)
Told(x) ==
  Leads(x.code, x.owner, x.id) \/ (x.of \in named /\ \E u : Leads(x.code, u, x.id))

(* A code leads where it should from the moment that it is recorded; until *)
(* then it is of one call alone.                                            *)
LeadInv ==
  /\ \A i \in Calls : invoice[i] # None /\ Clean(invoice[i].code) =>
       Leads(invoice[i].code, invoice[i].owner, invoice[i].id)
  /\ \A x \in handed : Clean(x.code) => Told(x)
  /\ \A c \in Calls : call[c].pc = "hand" /\ Clean(call[c].code) =>
       Leads(call[c].code, call[c].user, call[c].id)
  /\ \A c \in Calls : call[c].pc = "record" /\ Clean(call[c].code) =>
       ptr[call[c].code] = call[c].id

FreshInv ==
  \A c \in Calls : call[c].pc \in {"point", "record"} /\ Clean(call[c].code) =>
    /\ \A d \in Calls \ {c} : Coded(call[d]) => call[d].code # call[c].code
    /\ \A i \in Calls : invoice[i] # None => invoice[i].code # call[c].code
    /\ \A x \in handed : x.code # call[c].code

MadeInv == RecordInv /\ SeenOnce /\ LeadInv /\ FreshInv

CodesInv == VaultInv /\ MadeInv

-----------------------------------------------------------------------------
(* Records and codes *)

(* The other calls stay as they are. *)
Alone(c) == \A d \in Calls \ {c} : call'[d] = call[d]

LEMMA NoneApart ==
  /\ None \notin Calls /\ None \notin Users /\ None \notin Keys /\ None \notin Accounts
  /\ \A r \in InvoiceRecords : r # None
  /\ \A r \in AccountRecords : r # None
BY VaultsAssumption, InvoicesAssumption DEF VaultsAssumption, InvoicesAssumption

(* Who has the same invoice in hand has it for the same user, or its id was named. *)
LEMMA SameOwner ==
  ASSUME OwnInv, NEW c \in Calls, NEW d \in Calls, Busy(call[c]), Busy(call[d]),
         call[c].id = call[d].id
  PROVE  call[c].user = call[d].user \/ call[c].id \in named
BY NoneApart DEF OwnInv, Owned, Recorded

LEMMA CleanWas ==
  ASSUME named \subseteq named', spoiled \subseteq spoiled'
  PROVE  \A x : Clean(x)' => Clean(x)
BY DEF Clean

LEMMA InUseOf ==
  /\ \A c \in Calls : Coded(call[c]) => call[c].code \in InUse
  /\ \A i \in Calls : invoice[i] # None => invoice[i].code \in InUse
  /\ \A x \in handed : x.code \in InUse
BY DEF InUse

(* A step of a call that has no code before its end, or ends; its caller may *)
(* name invoices and codes that there are.                                   *)
LEMMA NameMade ==
  ASSUME MadeInv, NEW c \in Calls, Alone(c),
         call'[c].pc \notin {"start", "point", "record", "hand", "keep"},
         Busy(call'[c]) => Owned(c, call[c])',
         UNCHANGED <<invoice, ptr, standing, handed>>, spoiled \subseteq spoiled', seen \subseteq seen',
         named \subseteq named', named' \subseteq Calls \cup Codes,
         \A d \in Calls : call'[d].pc = "start" => d \notin named'
  PROVE  MadeInv'
<1>0. \A x : Clean(x)' => Clean(x)
  BY CleanWas
<1>1. /\ \A d \in Calls : call'[d].pc \in {"start", "point", "record", "hand", "keep"} => call'[d] = call[d]
      /\ \A d \in Calls : Coded(call'[d]) => call'[d] = call[d] /\ Coded(call[d])
  BY DEF Alone, Coded
<1>2. RecordTyped'
  BY <1>1 DEF MadeInv, RecordInv, RecordTyped
<1>3. \A i, u : Recorded(i, u) => Recorded(i, u)'
  BY DEF Recorded
<1>4. BackInv'
  BY <1>3 DEF MadeInv, RecordInv, BackInv
<1>5. OwnInv'
  <2>1. ASSUME NEW d \in Calls, Busy(call'[d]) PROVE Owned(d, call[d])'
    <3>1. CASE d = c
      BY <2>1, <3>1
    <3>2. CASE d # c
      <4>1. call'[d] = call[d] /\ Owned(d, call[d])
        BY <2>1, <3>2 DEF MadeInv, RecordInv, OwnInv, Alone
      <4> QED
        BY <1>3, <4>1 DEF Owned
    <3> QED
      BY <3>1, <3>2
  <2> QED
    BY <1>1, <2>1 DEF MadeInv, RecordInv, OwnInv
<1>6. InUse' \subseteq InUse
  BY <1>1, InUseOf DEF InUse
<1>7. SeenOnce'
  BY <1>1, <1>6 DEF MadeInv, SeenOnce
<1>8. \A x, u, i : Leads(x, u, i) => Leads(x, u, i)'
  BY <1>3 DEF Leads
<1>9. \A x : Told(x) => Told(x)'
  BY <1>8 DEF Told
<1>10. LeadInv'
  BY <1>0, <1>1, <1>8, <1>9 DEF MadeInv, LeadInv
<1>11. FreshInv'
  BY <1>0, <1>1 DEF MadeInv, FreshInv, Coded
<1> QED
  BY <1>2, <1>4, <1>5, <1>7, <1>10, <1>11 DEF MadeInv, RecordInv

LEMMA QuietMade ==
  ASSUME MadeInv, NEW c \in Calls, Alone(c),
         call'[c].pc \notin {"start", "point", "record", "hand", "keep"},
         Busy(call'[c]) => Owned(c, call'[c]),
         UNCHANGED invoices, spoiled \subseteq spoiled', seen \subseteq seen'
  PROVE  MadeInv'
<1>1. UNCHANGED <<invoice, ptr, standing, handed, named>>
  BY DEF invoices
<1>2. Busy(call'[c]) => Owned(c, call[c])'
  BY <1>1 DEF Owned, Recorded
<1>3. named \subseteq Calls \cup Codes /\ \A d \in Calls : call'[d].pc = "start" => d \notin named
  BY DEF MadeInv, RecordInv, RecordTyped, OwnInv, Alone
<1> QED
  BY <1>1, <1>2, <1>3, NameMade

(* A call gets a code that none has, unless it is spoiled. *)
LEMMA CodeMade ==
  ASSUME MadeInv, NEW c \in Calls, Alone(c), ~Coded(call[c]),
         call'[c].pc = "point", Owned(c, call'[c]), call'[c].code \in Codes,
         ~Clean(call[c].code)' \/ call'[c].code \notin InUse,
         call'[c].code.kind = "minted" =>
           /\ call'[c].code.key \in seen'
           /\ \A d \in Calls \ {c} : call[d].pc = "keep" => call[d].secret # call'[c].code.key,
         UNCHANGED invoices, spoiled \subseteq spoiled', seen \subseteq seen'
  PROVE  MadeInv'
<1>1. UNCHANGED <<invoice, ptr, standing, handed, named>>
  BY DEF invoices
<1>0. \A x : Clean(x)' => Clean(x)
  BY <1>1, CleanWas
<1>2. RecordTyped'
  BY <1>1 DEF MadeInv, RecordInv, RecordTyped, Coded, Alone
<1>3. BackInv'
  BY <1>1 DEF MadeInv, RecordInv, BackInv, Recorded
<1>4. OwnInv'
  BY <1>1 DEF MadeInv, RecordInv, OwnInv, Owned, Recorded, Alone, Busy
<1>5. InUse' \subseteq InUse \cup {call'[c].code}
  BY <1>1 DEF InUse, Coded, Alone
<1>6. SeenOnce'
  BY <1>5 DEF MadeInv, SeenOnce, Alone
<1>9. \A d \in Calls : call'[d].pc \in {"record", "hand"} => call'[d] = call[d]
  BY DEF Alone
<1>10. \A x, u, i : Leads(x, u, i) => Leads(x, u, i)'
  BY <1>1 DEF Leads, Recorded
<1>11. \A x : Told(x) => Told(x)'
  BY <1>1, <1>10 DEF Told
<1>7. LeadInv'
  BY <1>0, <1>1, <1>9, <1>10, <1>11 DEF MadeInv, LeadInv
<1>8. FreshInv'
  BY <1>0, <1>1, InUseOf DEF MadeInv, FreshInv, Alone, Coded
<1> QED
  BY <1>2, <1>3, <1>4, <1>6, <1>7, <1>8 DEF MadeInv, RecordInv

(* The pointer is set. *)
LEMMA PointMade ==
  ASSUME MadeInv, CallInv, NEW c \in Calls, GenPoint(c) PROVE MadeInv'
<1>1. /\ call[c].pc = "point" /\ call'[c] = [call[c] EXCEPT !.pc = "record"] /\ Alone(c)
      /\ ptr' = [ptr EXCEPT ![call[c].code] = call[c].id]
      /\ UNCHANGED <<invoice, standing, named, seen, handed>>
  BY GotoIs DEF GenPoint, CallInv, Alone
<1>2. \A x : Clean(x)' => Clean(x)
  <2>1. spoiled \subseteq spoiled'
    BY DEF GenPoint, Goto, Become
  <2> QED
    BY <1>1, <2>1, CleanWas
<1>3. /\ call'[c].pc = "record" /\ call'[c].code = call[c].code /\ call'[c].id = call[c].id
      /\ call'[c].user = call[c].user /\ call'[c].op = call[c].op /\ call'[c].of = call[c].of
      /\ call'[c].acct = call[c].acct /\ call'[c].over = call[c].over
  BY <1>1, DomainOf DEF Fields
<1>4. call[c].code \in Codes /\ call[c].id \in Calls
  BY <1>1 DEF MadeInv, RecordInv, RecordTyped, OwnInv, Owned, Recorded, Busy, Coded
<1>5. /\ \A x \in Codes \ {call[c].code} : ptr'[x] = ptr[x]
      /\ ptr'[call[c].code] = call[c].id
  BY <1>1, <1>4 DEF MadeInv, RecordInv, RecordTyped
<1>6. RecordTyped'
  BY <1>1, <1>3, <1>4 DEF MadeInv, RecordInv, RecordTyped, Coded, Alone
<1>7. BackInv'
  BY <1>1 DEF MadeInv, RecordInv, BackInv, Recorded
<1>14. ASSUME NEW d \in Calls
       PROVE  /\ call'[d].code = call[d].code /\ (Coded(call'[d]) <=> Coded(call[d]))
              /\ call'[d].pc = call[d].pc \/ (call'[d].pc = "record" /\ call[d].pc = "point")
              /\ call'[d].pc = "keep" => d # c /\ call'[d] = call[d]
  BY <1>1, <1>3 DEF Alone, Coded
<1>8. OwnInv'
  <2>1. ASSUME NEW d \in Calls
        PROVE  /\ call'[d].pc = "start" => invoice'[d] = None /\ d \notin named'
               /\ call'[d].pc = "hand" => invoice'[call'[d].id] # None
    BY <1>1, <1>3, <1>14 DEF MadeInv, RecordInv, OwnInv, Alone
  <2>2. ASSUME NEW d \in Calls, Busy(call'[d]) PROVE Owned(d, call[d])'
    <3>1. Busy(call[d]) /\ Owned(d, call[d])
      BY <1>1, <1>3, <2>2 DEF MadeInv, RecordInv, OwnInv, Busy, Alone
    <3>2. /\ call'[d].user = call[d].user /\ call'[d].op = call[d].op /\ call'[d].of = call[d].of
          /\ call'[d].id = call[d].id /\ call'[d].acct = call[d].acct /\ call'[d].over = call[d].over
      BY <1>1, <1>3 DEF Alone
    <3> QED
      BY <1>1, <3>1, <3>2 DEF Owned, Recorded
  <2> QED
    BY <2>1, <2>2 DEF OwnInv
<1>9. InUse' \subseteq InUse
  BY <1>1, <1>14 DEF InUse
<1>10. SeenOnce'
  BY <1>1, <1>9, <1>14 DEF MadeInv, SeenOnce
<1>11. \A x \in Codes : \A u, i : x # call[c].code /\ Leads(x, u, i) => Leads(x, u, i)'
  BY <1>1, <1>5 DEF Leads, Recorded
<1>12. LeadInv'
  <2>1. Clean(call[c].code) =>
          /\ \A i \in Calls : invoice[i] # None => invoice[i].code # call[c].code
          /\ \A x \in handed : x.code # call[c].code
          /\ \A d \in Calls \ {c} : Coded(call[d]) => call[d].code # call[c].code
    BY <1>1 DEF MadeInv, FreshInv
  <2>2. ASSUME NEW i \in Calls, invoice'[i] # None, Clean(invoice[i].code)'
        PROVE  Leads(invoice[i].code, invoice[i].owner, invoice[i].id)'
    <3>0. invoice[i] # None /\ Clean(invoice[i].code)
      BY <1>1, <1>2, <2>2
    <3>1. /\ invoice[i].code \in Codes /\ invoice[i].code # call[c].code
          /\ Leads(invoice[i].code, invoice[i].owner, invoice[i].id)
      BY <2>1, <3>0 DEF MadeInv, RecordInv, RecordTyped, LeadInv, InvoiceRecords
    <3> QED
      BY <1>1, <1>11, <3>1
  <2>3. ASSUME NEW x \in handed', Clean(x.code)' PROVE Told(x)'
    <3>1. x.code \in Codes /\ x.code # call[c].code /\ Told(x)
      BY <1>1, <1>2, <2>1, <2>3 DEF MadeInv, RecordInv, RecordTyped, LeadInv
    <3> QED
      BY <1>1, <1>11, <3>1 DEF Told
  <2>4. ASSUME NEW d \in Calls, call'[d].pc = "hand", Clean(call[d].code)'
        PROVE  Leads(call[d].code, call[d].user, call[d].id)'
    <3>1. d # c /\ call'[d] = call[d]
      BY <1>1, <1>3, <2>4 DEF Alone
    <3>2. /\ call[d].code \in Codes /\ call[d].code # call[c].code
          /\ Leads(call[d].code, call[d].user, call[d].id)
      BY <1>2, <2>1, <2>4, <3>1 DEF MadeInv, RecordInv, RecordTyped, LeadInv, Coded
    <3> QED
      BY <1>11, <3>1, <3>2
  <2>5. ASSUME NEW d \in Calls, call'[d].pc = "record", Clean(call[d].code)'
        PROVE  ptr'[call'[d].code] = call'[d].id
    <3>1. CASE d = c
      BY <1>3, <1>5, <3>1
    <3>2. CASE d # c
      <4>1. call'[d] = call[d] /\ call[d].code \in Codes /\ call[d].code # call[c].code
        BY <1>1, <1>2, <2>1, <2>5, <3>2 DEF MadeInv, RecordInv, RecordTyped, Coded, Alone
      <4> QED
        BY <1>2, <1>5, <2>5, <4>1 DEF MadeInv, LeadInv
    <3> QED
      BY <3>1, <3>2
  <2> QED
    BY <2>2, <2>3, <2>4, <2>5 DEF LeadInv
<1>13. FreshInv'
  <2> SUFFICES ASSUME NEW d \in Calls, call'[d].pc \in {"point", "record"},
                      Clean(call[d].code)'
               PROVE  /\ \A e \in Calls \ {d} : Coded(call'[e]) => call'[e].code # call'[d].code
                      /\ \A i \in Calls : invoice'[i] # None => invoice'[i].code # call'[d].code
                      /\ \A x \in handed' : x.code # call'[d].code
    BY DEF FreshInv
  <2>1. call[d].pc \in {"point", "record"} /\ Clean(call[d].code)
    BY <1>2, <1>14
  <2> QED
    BY <1>1, <1>14, <2>1 DEF MadeInv, FreshInv
<1> QED
  BY <1>6, <1>7, <1>8, <1>10, <1>12, <1>13 DEF MadeInv, RecordInv

(* A record of the owner's own is stored where there is none or one of the  *)
(* owner's, or whose id was named: what led to an invoice of a user still    *)
(* does.                                                                     *)
LEMMA LeadsStays ==
  ASSUME RecordTyped, NEW i \in Calls, NEW r \in InvoiceRecords,
         invoice' = [invoice EXCEPT ![i] = r], UNCHANGED named,
         \A x \in Codes : Clean(x) => ptr'[x] = ptr[x],
         invoice[i] = None \/ invoice[i].owner = r.owner \/ i \in named
  PROVE  /\ invoice'[i] = r /\ \A j \in Calls \ {i} : invoice'[j] = invoice[j]
         /\ \A j, u : Recorded(j, u) => Recorded(j, u)'
         /\ \A x \in Codes : \A u, j : Clean(x) /\ Leads(x, u, j) => Leads(x, u, j)'
<1>1. invoice'[i] = r /\ \A j \in Calls \ {i} : invoice'[j] = invoice[j]
  BY DEF RecordTyped
<1>2. r # None
  BY NoneApart
<1>3. \A j, u : Recorded(j, u) => Recorded(j, u)'
  BY <1>1, <1>2 DEF Recorded
<1>4. ASSUME NEW x \in Codes, NEW u, NEW j, Clean(x), Leads(x, u, j) PROVE Leads(x, u, j)'
  <2>1. ptr'[x] = ptr[x]
    BY <1>4
  <2> QED
    BY <1>3, <1>4, <2>1 DEF Leads
<1> QED
  BY <1>1, <1>3, <1>4

LEMMA RecordIs ==
  ASSUME RecordInv, NEW c \in Calls, Busy(call[c]), call[c].code \in Codes
  PROVE  /\ Record(c) \in InvoiceRecords /\ Record(c).id = call[c].id
         /\ Record(c).owner = call[c].user /\ Record(c).code = call[c].code
BY DEF RecordInv, OwnInv, Owned, Recorded, Record, InvoiceRecords

(* The record is stored. *)
LEMMA RecordMade ==
  ASSUME MadeInv, CallInv, NEW c \in Calls, GenRecord(c) PROVE MadeInv'
<1>0. PICK i, r : i = call[c].id /\ r = Record(c)
  OBVIOUS
<1>1. /\ call[c].pc = "record" /\ call'[c] = [call[c] EXCEPT !.pc = "hand"] /\ Alone(c)
      /\ invoice' = [invoice EXCEPT ![i] = r]
      /\ ptr' = [x \in Codes |-> IF x = call[c].over THEN i ELSE ptr[x]]
      /\ UNCHANGED <<standing, named, seen, handed>>
  BY <1>0, GotoIs DEF GenRecord, CallInv, Alone
<1>2. \A x : Clean(x)' => Clean(x)
  <2>1. spoiled \subseteq spoiled'
    BY DEF GenRecord, Goto, Become
  <2> QED
    BY <1>1, <2>1, CleanWas
<1>3. /\ call'[c].pc = "hand" /\ call'[c].code = call[c].code /\ call'[c].id = call[c].id
      /\ call'[c].user = call[c].user /\ call'[c].op = call[c].op /\ call'[c].of = call[c].of
      /\ call'[c].acct = call[c].acct /\ call'[c].over = call[c].over
  BY <1>1, DomainOf DEF Fields
<1>4. /\ call[c].code \in Codes /\ i \in Calls /\ Busy(call[c]) /\ Owned(c, call[c])
      /\ invoice[i] = None \/ invoice[i].owner = call[c].user \/ i \in named
  BY <1>0, <1>1 DEF MadeInv, RecordInv, RecordTyped, OwnInv, Owned, Recorded, Busy, Coded
<1>5. /\ r \in InvoiceRecords /\ r.id = i /\ r.owner = call[c].user /\ r.code = call[c].code
      /\ r # None
  BY <1>0, <1>4, RecordIs, NoneApart DEF MadeInv
<1>15. \A x \in Codes : Clean(x) => ptr'[x] = ptr[x]
  <2>1. call[c].over \in named \cup {None} /\ None \notin Codes
    BY <1>4, InvoicesAssumption DEF Owned, InvoicesAssumption
  <2> QED
    BY <1>1, <2>1 DEF Clean
<1>6. /\ invoice'[i] = r /\ \A j \in Calls \ {i} : invoice'[j] = invoice[j]
      /\ \A j, u : Recorded(j, u) => Recorded(j, u)'
      /\ \A x \in Codes : \A u, j : Clean(x) /\ Leads(x, u, j) => Leads(x, u, j)'
  <2>1. RecordTyped /\ UNCHANGED named
    BY <1>1 DEF MadeInv, RecordInv
  <2>2. invoice[i] = None \/ invoice[i].owner = r.owner \/ i \in named
    BY <1>4, <1>5
  <2>3. /\ i \in Calls /\ r \in InvoiceRecords /\ invoice' = [invoice EXCEPT ![i] = r]
    BY <1>1, <1>4, <1>5
  <2> QED
    BY <1>15, <2>1, <2>2, <2>3, LeadsStays
<1>7. ASSUME NEW d \in Calls
      PROVE  /\ call'[d].code = call[d].code /\ call'[d].id = call[d].id
             /\ call'[d].user = call[d].user /\ call'[d].op = call[d].op
             /\ call'[d].of = call[d].of /\ call'[d].acct = call[d].acct
             /\ call'[d].over = call[d].over
             /\ (Coded(call'[d]) <=> Coded(call[d])) /\ (Busy(call'[d]) <=> Busy(call[d]))
             /\ d # c => call'[d] = call[d]
  BY <1>1, <1>3 DEF Alone, Coded, Busy
<1>8. RecordTyped'
  <2>1. ptr' \in [Codes -> Calls \cup {None}]
    BY <1>1, <1>4 DEF MadeInv, RecordInv, RecordTyped
  <2>2. invoice' \in [Calls -> InvoiceRecords \cup {None}]
    BY <1>1, <1>4, <1>5 DEF MadeInv, RecordInv, RecordTyped
  <2> QED
    BY <1>1, <1>7, <2>1, <2>2 DEF MadeInv, RecordInv, RecordTyped
<1>9. BackInv'
  <2>1. Recorded(i, r.owner)'
    BY <1>4, <1>5, <1>6 DEF Recorded
  <2>2. ASSUME NEW j \in Calls, invoice'[j] # None PROVE Recorded(invoice[j].id, invoice[j].owner)'
    <3>1. CASE j = i
      BY <1>5, <1>6, <2>1, <3>1
    <3>2. CASE j # i
      BY <1>6, <2>2, <3>2 DEF MadeInv, RecordInv, BackInv
    <3> QED
      BY <3>1, <3>2
  <2>3. ASSUME NEW u \in Users, standing'[u] # None PROVE Recorded(standing[u], u)'
    BY <1>1, <1>6, <2>3 DEF MadeInv, RecordInv, BackInv
  <2> QED
    BY <2>2, <2>3 DEF BackInv
<1>10. OwnInv'
  <2>1. ASSUME NEW d \in Calls, call'[d].pc = "start" PROVE invoice'[d] = None /\ d \notin named'
    <3>1. d # c /\ invoice[d] = None /\ d \notin named
      BY <1>3, <1>7, <2>1 DEF MadeInv, RecordInv, OwnInv
    <3>2. i # d
      BY <1>0, <1>4, <3>1 DEF Owned, Recorded
    <3> QED
      BY <1>1, <1>6, <3>1, <3>2
  <2>2. ASSUME NEW d \in Calls, Busy(call'[d]) PROVE Owned(d, call[d])'
    <3>1. Busy(call[d]) /\ Owned(d, call[d])
      BY <1>7, <2>2 DEF MadeInv, RecordInv, OwnInv
    <3>2. CASE call[d].op = "put"
      BY <1>1, <1>6, <1>7, <3>1, <3>2 DEF Owned
    <3>3. CASE call[d].op # "put" /\ i = call[d].id
      <4>1. call[c].user = call[d].user \/ i \in named
        BY <1>0, <1>4, <3>1, <3>3, SameOwner DEF MadeInv, RecordInv
      <4> QED
        BY <1>1, <1>5, <1>6, <1>7, <3>1, <3>3, <4>1 DEF Owned
    <3>4. CASE call[d].op # "put" /\ i # call[d].id
      BY <1>1, <1>6, <1>7, <3>1, <3>4 DEF Owned
    <3> QED
      BY <3>2, <3>3, <3>4
  <2>3. ASSUME NEW d \in Calls, call'[d].pc = "hand" PROVE invoice'[call'[d].id] # None
    <3>1. CASE d = c
      BY <1>0, <1>5, <1>6, <1>7, <3>1
    <3>2. CASE d # c
      <4>1. invoice[call[d].id] # None /\ Owned(d, call[d])
        BY <1>7, <2>3, <3>2 DEF MadeInv, RecordInv, OwnInv, Busy
      <4>2. call[d].id \in Calls
        BY <4>1 DEF Owned, Recorded
      <4> QED
        BY <1>5, <1>6, <1>7, <4>1, <4>2
    <3> QED
      BY <3>1, <3>2
  <2> QED
    BY <2>1, <2>2, <2>3 DEF OwnInv
<1>11. InUse' \subseteq InUse
  <2>1. call[c].code \in InUse
    BY <1>1, InUseOf DEF Coded
  <2>2. \A j \in Calls : invoice'[j] # None => invoice'[j].code \in InUse
    BY <1>5, <1>6, <2>1, InUseOf
  <2>3. \A d \in Calls : Coded(call'[d]) => call'[d].code \in InUse
    BY <1>7, InUseOf
  <2> QED
    BY <1>1, <2>2, <2>3, InUseOf DEF InUse
<1>12. SeenOnce'
  <2>1. \A d \in Calls : call'[d].pc = "keep" => d # c /\ call'[d] = call[d]
    BY <1>3, <1>7
  <2> QED
    BY <1>1, <1>11, <2>1 DEF MadeInv, SeenOnce
<1>13. LeadInv'
  <2>1. Clean(call[c].code) => Leads(call[c].code, call[c].user, i)'
    <3> SUFFICES ASSUME Clean(call[c].code) PROVE Leads(call[c].code, call[c].user, i)'
      BY <1>1, <1>4
    <3>1. ptr[call[c].code] = i
      BY <1>0, <1>1 DEF MadeInv, LeadInv
    <3>2. ptr'[call[c].code] = i
      BY <1>4, <1>15, <3>1
    <3>3. call'[c].code = call[c].code /\ call'[c].user = call[c].user
      BY <1>3
    <3> QED
      BY <1>4, <1>5, <1>6, <3>2, <3>3, NoneApart DEF Leads, Recorded
  <2>6. call'[c].code = call[c].code
    BY <1>3
  <2>2. ASSUME NEW j \in Calls, invoice'[j] # None, Clean(invoice[j].code)'
        PROVE  Leads(invoice[j].code, invoice[j].owner, invoice[j].id)'
    <3>1. CASE j = i
      BY <1>2, <1>5, <1>6, <1>7, <2>1, <2>2, <3>1
    <3>2. CASE j # i
      <4>1. invoice'[j] = invoice[j] /\ Clean(invoice[j].code) /\ invoice[j] # None
        BY <1>2, <1>6, <2>2, <3>2
      <4>2. invoice[j].code \in Codes /\ Leads(invoice[j].code, invoice[j].owner, invoice[j].id)
        BY <4>1 DEF MadeInv, LeadInv, RecordInv, RecordTyped, InvoiceRecords
      <4> QED
        BY <1>6, <4>1, <4>2
    <3> QED
      BY <3>1, <3>2
  <2>3. ASSUME NEW x \in handed', Clean(x.code)' PROVE Told(x)'
    <3>1. x.code \in Codes /\ Clean(x.code) /\ Told(x)
      BY <1>1, <1>2, <2>3 DEF MadeInv, LeadInv, RecordInv, RecordTyped
    <3> QED
      BY <1>1, <1>6, <3>1 DEF Told
  <2>4. ASSUME NEW d \in Calls, call'[d].pc = "hand", Clean(call[d].code)'
        PROVE  Leads(call[d].code, call[d].user, call[d].id)'
    <3>1. CASE d = c
      BY <1>0, <1>2, <1>7, <2>1, <2>4, <3>1
    <3>2. CASE d # c
      <4>1. call'[d] = call[d] /\ Clean(call[d].code) /\ call[d].code \in Codes
        BY <1>2, <1>7, <2>4, <3>2 DEF MadeInv, RecordInv, RecordTyped, Coded
      <4>2. Leads(call[d].code, call[d].user, call[d].id)
        BY <2>4, <4>1 DEF MadeInv, LeadInv
      <4> QED
        BY <1>6, <4>1, <4>2
    <3> QED
      BY <3>1, <3>2
  <2>5. ASSUME NEW d \in Calls, call'[d].pc = "record", Clean(call[d].code)'
        PROVE  ptr'[call'[d].code] = call'[d].id
    <3>1. d # c /\ call'[d] = call[d] /\ Clean(call[d].code) /\ call[d].code \in Codes
      BY <1>2, <1>3, <1>7, <2>5 DEF MadeInv, RecordInv, RecordTyped, Coded
    <3> QED
      BY <1>15, <2>5, <3>1 DEF MadeInv, LeadInv
  <2> QED
    BY <2>2, <2>3, <2>4, <2>5 DEF LeadInv
<1>14. FreshInv'
  <2> SUFFICES ASSUME NEW d \in Calls, call'[d].pc \in {"point", "record"},
                      Clean(call[d].code)'
               PROVE  /\ \A e \in Calls \ {d} : Coded(call'[e]) => call'[e].code # call'[d].code
                      /\ \A j \in Calls : invoice'[j] # None => invoice'[j].code # call'[d].code
                      /\ \A x \in handed' : x.code # call'[d].code
    BY DEF FreshInv
  <2>1. /\ d # c /\ call[d].pc \in {"point", "record"} /\ Clean(call[d].code)
        /\ call'[d] = call[d]
    BY <1>2, <1>3, <1>7
  <2>2. /\ \A e \in Calls \ {d} : Coded(call[e]) => call[e].code # call[d].code
        /\ \A j \in Calls : invoice[j] # None => invoice[j].code # call[d].code
        /\ \A x \in handed : x.code # call[d].code
    BY <2>1 DEF MadeInv, FreshInv
  <2>3. r.code # call[d].code
    BY <1>1, <1>5, <2>1, <2>2 DEF Coded
  <2> QED
    BY <1>1, <1>6, <1>7, <2>1, <2>2, <2>3
<1> QED
  BY <1>8, <1>9, <1>10, <1>12, <1>13, <1>14 DEF MadeInv, RecordInv

(* A record that is returned is handed out and, by update() and for a standing *)
(* offer, stored.                                                              *)
LEMMA ReturnMade ==
  ASSUME MadeInv, NEW c \in Calls, Alone(c), Busy(call[c]), call'[c].pc = "done",
         NEW r \in InvoiceRecords, r.owner = call[c].user, Recorded(r.id, r.owner), r.code \in InUse,
         Clean(r.code) =>
           /\ Leads(r.code, r.owner, r.id)
           /\ \A d \in Calls \ {c} : call[d].pc \in {"point", "record"} => call[d].code # r.code,
         Return(c, r), UNCHANGED <<ptr, named, seen>>, spoiled \subseteq spoiled'
  PROVE  MadeInv'
<1>0. \A x : Clean(x)' => Clean(x)
  BY CleanWas
<1>1. Owned(c, call[c]) /\ r # None
  BY NoneApart DEF MadeInv, RecordInv, OwnInv
<1>2. /\ \A j \in Calls : invoice'[j] = invoice[j] \/ (invoice'[j] = r /\ Recorded(j, r.owner))
      /\ \A j, u : Recorded(j, u) => Recorded(j, u)'
      /\ \A x \in Codes : \A u, j : Clean(x) /\ Leads(x, u, j) => Leads(x, u, j)'
      /\ invoice' \in [Calls -> InvoiceRecords \cup {None}]
  <2>1. CASE call[c].op = "put"
    <3>1. /\ invoice' = [invoice EXCEPT ![call[c].of] = r] /\ Recorded(call[c].of, r.owner)
          /\ call[c].of \in Calls
      BY <1>1, <2>1 DEF Return, Owned, Recorded
    <3>2. (invoice[call[c].of].owner = r.owner \/ call[c].of \in named) /\ RecordTyped
      BY <3>1 DEF Recorded, MadeInv, RecordInv
    <3>3. /\ invoice'[call[c].of] = r /\ \A j \in Calls \ {call[c].of} : invoice'[j] = invoice[j]
          /\ \A j, u : Recorded(j, u) => Recorded(j, u)'
          /\ \A x \in Codes : \A u, j : Clean(x) /\ Leads(x, u, j) => Leads(x, u, j)'
      BY <3>1, <3>2, LeadsStays
    <3> QED
      BY <3>1, <3>2, <3>3 DEF RecordTyped
  <2>2. CASE call[c].op # "put"
    <3>1. invoice' = invoice
      BY <2>2 DEF Return
    <3> QED
      BY <3>1 DEF Recorded, Leads, MadeInv, RecordInv, RecordTyped
  <2> QED
    BY <2>1, <2>2
<1>3. /\ handed' = handed \cup {[code |-> r.code, id |-> r.id, owner |-> r.owner, of |-> r.id]}
      /\ standing' \in [Users -> Calls \cup {None}]
      /\ \A u \in Users : standing'[u] = standing[u] \/ (standing'[u] = r.id /\ u = r.owner)
  BY <1>1 DEF Return, Hand, Owned, Recorded, MadeInv, RecordInv, RecordTyped
<1>4. ASSUME NEW d \in Calls, call'[d].pc # "done" PROVE d # c /\ call'[d] = call[d]
  BY <1>4 DEF Alone
<1>5. r.code \in Codes /\ r.id \in Calls
  BY DEF InvoiceRecords
<1>6. RecordTyped'
  BY <1>2, <1>3, <1>4, <1>5 DEF MadeInv, RecordInv, RecordTyped, Coded
<1>7. BackInv'
  <2>1. ASSUME NEW j \in Calls, invoice'[j] # None PROVE Recorded(invoice[j].id, invoice[j].owner)'
    BY <1>2, <2>1 DEF MadeInv, RecordInv, BackInv
  <2>2. ASSUME NEW u \in Users, standing'[u] # None PROVE Recorded(standing[u], u)'
    BY <1>2, <1>3, <2>2 DEF MadeInv, RecordInv, BackInv
  <2> QED
    BY <2>1, <2>2 DEF BackInv
<1>8. OwnInv'
  <2>1. ASSUME NEW d \in Calls, call'[d].pc = "start" PROVE invoice'[d] = None /\ d \notin named'
    <3>1. invoice[d] = None /\ d \notin named
      BY <1>4, <2>1 DEF MadeInv, RecordInv, OwnInv
    <3> QED
      BY <1>2, <3>1 DEF Recorded
  <2>2. ASSUME NEW d \in Calls, Busy(call'[d]) PROVE Owned(d, call[d])'
    <3>1. call'[d] = call[d] /\ Owned(d, call[d])
      BY <1>4, <2>2 DEF MadeInv, RecordInv, OwnInv, Busy
    <3>2. CASE call[d].op = "put"
      BY <1>2, <3>1, <3>2 DEF Owned
    <3>3. CASE call[d].op # "put"
      <4>0. call[d].id \in Calls
        BY <3>1, <3>3 DEF Owned
      <4>1. LET i == call[d].id
            IN  invoice'[i] = None \/ invoice'[i].owner = call[d].user \/ i \in named
        BY <1>1, <1>2, <3>1, <3>3, <4>0 DEF Owned, Recorded
      <4> QED
        BY <3>1, <3>3, <4>1 DEF Owned
    <3> QED
      BY <3>2, <3>3
  <2>3. ASSUME NEW d \in Calls, call'[d].pc = "hand" PROVE invoice'[call'[d].id] # None
    <3>1. /\ call'[d] = call[d] /\ invoice[call[d].id] # None /\ Owned(d, call[d])
      BY <1>4, <2>3 DEF MadeInv, RecordInv, OwnInv, Busy
    <3>2. call[d].id \in Calls
      BY <3>1 DEF Owned, Recorded
    <3> QED
      BY <1>1, <1>2, <3>1, <3>2
  <2> QED
    BY <2>1, <2>2, <2>3 DEF OwnInv
<1>9. InUse' \subseteq InUse
  <2>1. \A j \in Calls : invoice'[j] # None => invoice'[j].code \in InUse
    BY <1>2, InUseOf
  <2>2. \A d \in Calls : Coded(call'[d]) => call'[d].code \in InUse
    BY <1>4, InUseOf DEF Coded
  <2>3. \A x \in handed' : x.code \in InUse
    BY <1>3, InUseOf
  <2> QED
    BY <2>1, <2>2, <2>3 DEF InUse
<1>10. SeenOnce'
  <2>1. \A d \in Calls : call'[d].pc = "keep" => d # c /\ call'[d] = call[d]
    BY <1>4
  <2> QED
    BY <1>9, <2>1 DEF MadeInv, SeenOnce
<1>11. LeadInv'
  <2>1. ASSUME NEW j \in Calls, invoice'[j] # None, Clean(invoice[j].code)'
        PROVE  Leads(invoice[j].code, invoice[j].owner, invoice[j].id)'
    <3>1. CASE invoice'[j] = invoice[j]
      <4>1. invoice[j] # None /\ Clean(invoice[j].code)
        BY <1>0, <2>1, <3>1
      <4>2. invoice[j].code \in Codes /\ Leads(invoice[j].code, invoice[j].owner, invoice[j].id)
        BY <4>1 DEF MadeInv, LeadInv, RecordInv, RecordTyped, InvoiceRecords
      <4> QED
        BY <1>2, <3>1, <4>1, <4>2
    <3>2. CASE invoice'[j] = r
      BY <1>0, <1>2, <1>5, <2>1, <3>2
    <3> QED
      BY <1>2, <3>1, <3>2
  <2>2. ASSUME NEW x \in handed', Clean(x.code)' PROVE Told(x)'
    <3>1. CASE x \in handed
      <4>1. x.code \in Codes /\ Clean(x.code) /\ Told(x)
        BY <1>0, <2>2, <3>1 DEF MadeInv, LeadInv, RecordInv, RecordTyped
      <4> QED
        BY <1>2, <4>1 DEF Told
    <3>2. CASE x = [code |-> r.code, id |-> r.id, owner |-> r.owner, of |-> r.id]
      <4>1. x.code = r.code /\ x.owner = r.owner /\ x.id = r.id
        BY <3>2
      <4> QED
        BY <1>0, <1>2, <1>5, <2>2, <4>1 DEF Told
    <3> QED
      BY <1>3, <3>1, <3>2
  <2>3. ASSUME NEW d \in Calls, call'[d].pc = "hand", Clean(call[d].code)'
        PROVE  Leads(call[d].code, call[d].user, call[d].id)'
    <3>1. call'[d] = call[d] /\ Clean(call[d].code) /\ call[d].code \in Codes
      BY <1>0, <1>4, <2>3 DEF MadeInv, RecordInv, RecordTyped, Coded
    <3>2. Leads(call[d].code, call[d].user, call[d].id)
      BY <2>3, <3>1 DEF MadeInv, LeadInv
    <3> QED
      BY <1>2, <3>1, <3>2
  <2>4. ASSUME NEW d \in Calls, call'[d].pc = "record", Clean(call[d].code)'
        PROVE  ptr'[call'[d].code] = call'[d].id
    BY <1>0, <1>4, <2>4 DEF MadeInv, LeadInv
  <2> QED
    BY <2>1, <2>2, <2>3, <2>4 DEF LeadInv
<1>12. FreshInv'
  <2> SUFFICES ASSUME NEW d \in Calls, call'[d].pc \in {"point", "record"},
                      Clean(call[d].code)'
               PROVE  /\ \A e \in Calls \ {d} : Coded(call'[e]) => call'[e].code # call'[d].code
                      /\ \A j \in Calls : invoice'[j] # None => invoice'[j].code # call'[d].code
                      /\ \A x \in handed' : x.code # call'[d].code
    BY DEF FreshInv
  <2>1. /\ d # c /\ call[d].pc \in {"point", "record"} /\ Clean(call[d].code)
        /\ call'[d] = call[d]
    BY <1>0, <1>4
  <2>2. /\ \A e \in Calls \ {d} : Coded(call[e]) => call[e].code # call[d].code
        /\ \A j \in Calls : invoice[j] # None => invoice[j].code # call[d].code
        /\ \A x \in handed : x.code # call[d].code
    BY <2>1 DEF MadeInv, FreshInv
  <2>3. r.code # call[d].code
    BY <2>1
  <2>4. \A e \in Calls : Coded(call'[e]) => call'[e] = call[e]
    BY <1>4 DEF Coded
  <2> QED
    BY <1>2, <1>3, <2>1, <2>2, <2>3, <2>4
<1> QED
  BY <1>6, <1>7, <1>8, <1>10, <1>11, <1>12 DEF MadeInv, RecordInv

LEMMA DoneIs ==
  ASSUME CallInv, NEW c \in Calls, End(c)
  PROVE  /\ call'[c] = Done(c) /\ call'[c].pc = "done" /\ Alone(c) /\ spoiled \subseteq spoiled'
BY DEF End, Become, CallInv, Alone, Done, Idle

LEMMA HandMade ==
  ASSUME MadeInv, CallInv, NEW c \in Calls, GenHand(c) PROVE MadeInv'
<1>0. PICK r : r = Record(c)
  OBVIOUS
<1>1. /\ call[c].pc = "hand" /\ End(c) /\ Return(c, r) /\ UNCHANGED <<ptr, named, seen>>
  BY <1>0 DEF GenHand, vaults
<1>2. Busy(call[c]) /\ Coded(call[c]) /\ call[c].code \in Codes /\ call[c].code \in InUse
  BY <1>1, InUseOf DEF Busy, Coded, MadeInv, RecordInv, RecordTyped
<1>3. r \in InvoiceRecords /\ r.id = call[c].id /\ r.owner = call[c].user /\ r.code = call[c].code
  BY <1>0, <1>2, RecordIs DEF MadeInv
<1>4. Recorded(r.id, r.owner)
  BY <1>1, <1>2, <1>3 DEF MadeInv, RecordInv, OwnInv, Owned, Recorded
<1>5. Clean(r.code) =>
        /\ Leads(r.code, r.owner, r.id)
        /\ \A d \in Calls \ {c} : call[d].pc \in {"point", "record"} => call[d].code # r.code
  BY <1>1, <1>2, <1>3 DEF MadeInv, LeadInv, FreshInv
<1> QED
  BY <1>1, <1>2, <1>3, <1>4, <1>5, DoneIs, ReturnMade

(* An offer is new, or the record of it is returned. *)
LEMMA OfferMade ==
  ASSUME MadeInv, CallInv, NEW c \in Calls, GenOffer(c) PROVE MadeInv'
<1>1. PICK o \in Offers :
        LET code == [kind |-> "offer", key |-> o, n |-> 0]
            i    == ptr[code]
        IN  IF i = None \/ invoice[i] = None
              THEN /\ call' = [call EXCEPT ![c] = [call[c] EXCEPT !.pc = "point", !.code = code]]
                   /\ spoiled' = spoiled \cup {x \in {o} : Offering(o) # {}}
                   /\ UNCHANGED <<invoice, standing, handed>>
            ELSE IF invoice[i].owner # call[c].user
              THEN End(c) /\ UNCHANGED <<invoice, standing, handed>>
            ELSE End(c) /\ Return(c, invoice[i])
  BY DEF GenOffer
<1>2. PICK code : code = [kind |-> "offer", key |-> o, n |-> 0]
  OBVIOUS
<1>3. code \in Codes /\ code.key = o /\ code.kind = "offer"
  BY <1>2 DEF Codes
<1>4. /\ call[c].pc = "offer" /\ Busy(call[c]) /\ UNCHANGED <<ptr, named, seen>> /\ Owned(c, call[c])
  BY DEF GenOffer, Busy, MadeInv, RecordInv, OwnInv
<1>5. CASE ptr[code] = None \/ invoice[ptr[code]] = None
  <2>1. /\ call' = [call EXCEPT ![c] = [call[c] EXCEPT !.pc = "point", !.code = code]]
        /\ spoiled' = spoiled \cup {x \in {o} : Offering(o) # {}}
        /\ UNCHANGED invoices
    BY <1>1, <1>2, <1>4, <1>5 DEF invoices
  <2>2. /\ call'[c] = [call[c] EXCEPT !.pc = "point", !.code = code] /\ Alone(c)
    BY <2>1 DEF CallInv, Alone
  <2>3. /\ call'[c].pc = "point" /\ call'[c].code = code /\ call'[c].id = call[c].id
        /\ call'[c].user = call[c].user /\ call'[c].op = call[c].op /\ call'[c].of = call[c].of
        /\ call'[c].acct = call[c].acct
        /\ call'[c].over = call[c].over
    BY <2>2, DomainOf DEF Fields
  <2>4. ~Clean(call[c].code)' \/ code \notin InUse
    <3> SUFFICES ASSUME Clean(call[c].code)', code \in InUse PROVE FALSE
      BY <1>3
    <3>0. o \notin spoiled' /\ code \notin named' /\ named' = named
      BY <1>3, <1>4, <2>3 DEF Clean
    <3>1. Clean(code) /\ Offering(o) = {}
      BY <1>3, <2>1, <3>0 DEF Clean
    <3>2. \A u, i : ~Leads(code, u, i)
      BY <1>5 DEF Leads, Recorded
    <3>3. \A d \in Calls : call[d].pc \in {"point", "record"} => call[d].code # code
      BY <1>2, <3>1 DEF Offering, Active
    <3>4. \A d \in Calls : call[d].pc = "hand" => call[d].code # code
      BY <1>3, <3>1, <3>2 DEF MadeInv, LeadInv
    <3>5. \A j \in Calls : invoice[j] # None => invoice[j].code # code
      BY <1>3, <3>1, <3>2 DEF MadeInv, LeadInv
    <3>6. \A x \in handed : x.code # code
      BY <1>3, <3>1, <3>2 DEF MadeInv, LeadInv, Told
    <3> QED
      BY <3>3, <3>4, <3>5, <3>6 DEF InUse, Coded
  <2>5. Owned(c, call'[c]) /\ ~Coded(call[c])
    BY <1>4, <2>3 DEF Owned, Recorded, Coded
  <2> QED
    BY <1>3, <1>4, <2>1, <2>2, <2>3, <2>4, <2>5, CodeMade
<1>6. CASE ~(ptr[code] = None \/ invoice[ptr[code]] = None) /\ invoice[ptr[code]].owner # call[c].user
  <2>1. End(c) /\ UNCHANGED invoices
    BY <1>1, <1>2, <1>4, <1>6 DEF invoices
  <2>2. call'[c].pc = "done" /\ Alone(c) /\ spoiled \subseteq spoiled'
    BY <2>1, DoneIs
  <2> QED
    BY <1>4, <2>1, <2>2, QuietMade DEF Busy
<1>7. CASE ~(ptr[code] = None \/ invoice[ptr[code]] = None) /\ invoice[ptr[code]].owner = call[c].user
  <2>1. PICK i : i = ptr[code]
    OBVIOUS
  <2>2. i \in Calls /\ invoice[i] # None /\ invoice[i].owner = call[c].user
    BY <1>3, <1>7, <2>1 DEF MadeInv, RecordInv, RecordTyped
  <2>3. PICK r : r = invoice[i]
    OBVIOUS
  <2>4. End(c) /\ Return(c, r)
    BY <1>1, <1>2, <1>7, <2>1, <2>3
  <2>5. /\ r \in InvoiceRecords /\ r.owner = call[c].user /\ Recorded(r.id, r.owner) /\ r.code \in InUse
    BY <2>2, <2>3, InUseOf DEF MadeInv, RecordInv, RecordTyped, BackInv
  <2>6. Clean(r.code) =>
          /\ Leads(r.code, r.owner, r.id)
          /\ \A d \in Calls \ {c} : call[d].pc \in {"point", "record"} => call[d].code # r.code
    BY <2>2, <2>3 DEF MadeInv, LeadInv, FreshInv
  <2>7. call'[c].pc = "done" /\ Alone(c) /\ spoiled \subseteq spoiled'
    BY <2>4, DoneIs
  <2> QED
    BY <1>4, <2>4, <2>5, <2>6, <2>7, ReturnMade
<1> QED
  BY <1>5, <1>6, <1>7

-----------------------------------------------------------------------------
(* Steps of other kinds of calls *)

(* A step of a call that works on an account. *)
Works(c) ==
  Alone(c) /\ call'[c].pc \in {"store", "sync", "stamp", "done"} /\ spoiled \subseteq spoiled'

LEMMA VaultsWork ==
  ASSUME CallInv, VaultsNext
  PROVE  (\E c \in Calls : Works(c)) \/ UNCHANGED <<call, spoiled>>
<1>1. ASSUME NEW c \in Calls, CreateBegin(c) PROVE Works(c)
  BY <1>1 DEF CreateBegin, Become, Idle, CallInv, Works, Alone
<1>2. ASSUME NEW c \in Calls, CreateStore(c) PROVE Works(c)
  BY <1>2 DEF CreateStore, Wear, Done, Idle, CallInv, Works, Alone
<1>3. ASSUME NEW c \in Calls, UpdateBegin(c) PROVE Works(c)
  BY <1>3 DEF UpdateBegin, Become, Idle, CallInv, Works, Alone
<1>4. ASSUME NEW c \in Calls, UpdateStore(c) PROVE Works(c)
  <2>1. PICK new : Wear(call[c].acct, new.key,
                        IF call[c].key = None THEN Done(c)
                        ELSE [call[c] EXCEPT !.op = "import", !.pc = "sync", !.copy = new, !.key = None], c)
    BY <1>4 DEF UpdateStore
  <2>2. [call[c] EXCEPT !.op = "import", !.pc = "sync", !.copy = new, !.key = None].pc = "sync"
    BY DomainOf DEF Fields
  <2>3. Done(c).pc = "done"
    BY DoneFields
  <2> QED
    BY <2>1, <2>2, <2>3 DEF Wear, CallInv, Works, Alone
<1>5. ASSUME NEW c \in Calls, DeleteBegin(c) PROVE Works(c)
  BY <1>5 DEF DeleteBegin, Become, Idle, CallInv, Works, Alone
<1>6. ASSUME NEW c \in Calls, DeleteStore(c) PROVE Works(c)
  BY <1>6 DEF DeleteStore, End, Become, Done, Idle, CallInv, Works, Alone
<1>7. ASSUME NEW c \in Calls, ImportBegin(c) PROVE Works(c)
  BY <1>7 DEF ImportBegin, Become, Idle, CallInv, Works, Alone
<1>8. ASSUME NEW c \in Calls, ImportSync(c) PROVE Works(c)
  <2>1. CASE Goto(c, "stamp")
    <3>1. call'[c].pc = "stamp" /\ Alone(c)
      BY <2>1, OneMoves DEF Alone
    <3>2. spoiled \subseteq spoiled'
      BY <2>1 DEF Goto, Become
    <3> QED
      BY <3>1, <3>2 DEF Works
  <2>2. CASE End(c)
    BY <2>2, DoneIs DEF Works
  <2>3. CASE Become(c, [call[c] EXCEPT !.pc = "stamp", !.copy.next = reached[call[c].copy.key]])
    <3>1. [call[c] EXCEPT !.pc = "stamp", !.copy.next = reached[call[c].copy.key]].pc = "stamp"
      BY DomainOf DEF Fields
    <3> QED
      BY <2>3, <3>1 DEF Become, CallInv, Works, Alone
  <2> QED
    BY <1>8, <2>1, <2>2, <2>3 DEF ImportSync
<1>9. ASSUME NEW c \in Calls, ImportStamp(c) PROVE Works(c)
  BY <1>9 DEF ImportStamp, End, Become, Done, Idle, CallInv, Works, Alone
<1>10. ASSUME NEW c \in Calls, MigrateBegin(c) PROVE Works(c)
  BY <1>10 DEF MigrateBegin, Become, Idle, CallInv, Works, Alone
<1>11. ASSUME NEW c \in Calls, MigrateStore(c) PROVE Works(c)
  BY <1>11 DEF MigrateStore, Wear, Done, Idle, CallInv, Works, Alone
<1>12. ASSUME NEW k \in Keys, Reach(k) PROVE UNCHANGED <<call, spoiled>>
  BY <1>12 DEF Reach
<1> QED
  BY <1>1, <1>2, <1>3, <1>4, <1>5, <1>6, <1>7, <1>8, <1>9, <1>10, <1>11, <1>12 DEF VaultsNext

LEMMA SameMade ==
  ASSUME MadeInv, UNCHANGED <<call, spoiled, invoices, seen>> PROVE MadeInv'
<1>1. UNCHANGED <<invoice, ptr, standing, handed, named>>
  BY DEF invoices
<1>2. InUse' = InUse
  BY <1>1 DEF InUse, Coded
<1> QED
  BY <1>1, <1>2 DEF MadeInv, RecordInv, RecordTyped, BackInv, OwnInv, Owned, Recorded, SeenOnce, LeadInv,
     Leads, Told, Clean, FreshInv, Coded, Busy

LEMMA VaultsMade ==
  ASSUME MadeInv, CallInv, VaultsNext, UNCHANGED <<invoices, seen>> PROVE MadeInv'
BY VaultsWork, SameMade, QuietMade DEF Works, Busy

(* A call that asks the node for an invoice gets one that is new, or ends. *)
LEMMA MintMade ==
  ASSUME MadeInv, CallInv, NEW c \in Calls, GenMint(c) PROVE MadeInv'
<1>1. /\ call[c].pc = "mint" /\ Busy(call[c]) /\ Owned(c, call[c]) /\ UNCHANGED invoices
  BY DEF GenMint, Busy, MadeInv, RecordInv, OwnInv
<1>2. ASSUME NEW h \in Hashes \ (seen \cup Secrets), seen' = seen \cup {h},
             Become(c, [call[c] EXCEPT !.pc = "point", !.code = [kind |-> "minted", key |-> h, n |-> 0]])
      PROVE  MadeInv'
  <2>1. PICK code : code = [kind |-> "minted", key |-> h, n |-> 0]
    OBVIOUS
  <2>2. code \in Codes /\ code.key = h /\ code.kind = "minted"
    BY <2>1 DEF Codes
  <2>3. /\ call'[c] = [call[c] EXCEPT !.pc = "point", !.code = code] /\ Alone(c)
        /\ spoiled \subseteq spoiled'
    BY <1>2, <2>1 DEF Become, CallInv, Alone
  <2>4. /\ call'[c].pc = "point" /\ call'[c].code = code /\ call'[c].id = call[c].id
        /\ call'[c].user = call[c].user /\ call'[c].op = call[c].op /\ call'[c].of = call[c].of
        /\ call'[c].acct = call[c].acct
        /\ call'[c].over = call[c].over
    BY <2>3, DomainOf DEF Fields
  <2>5. Owned(c, call'[c]) /\ ~Coded(call[c])
    BY <1>1, <2>4 DEF Owned, Coded
  <2>6. code \notin InUse /\ \A d \in Calls \ {c} : call[d].pc = "keep" => call[d].secret # h
    BY <2>2 DEF MadeInv, SeenOnce
  <2> QED
    BY <1>1, <1>2, <2>2, <2>3, <2>4, <2>5, <2>6, CodeMade
<1>3. CASE End(c) /\ UNCHANGED seen
  BY <1>1, <1>3, DoneIs, QuietMade DEF Busy
<1> QED
  BY <1>2, <1>3 DEF GenMint

(* An address of a key that is not spoiled is new. *)
LEMMA DeriveMade ==
  ASSUME MadeInv, VaultInv, CallInv, NEW c \in Calls, GenDerive(c) PROVE MadeInv'
<1>1. /\ call[c].pc = "derive" /\ Busy(call[c]) /\ Owned(c, call[c]) /\ UNCHANGED <<invoices, seen>>
      /\ call[c].copy.next < MaxIndex
  BY DEF GenDerive, Busy, MadeInv, RecordInv, OwnInv
<1>2. PICK k, n : k = call[c].copy.key /\ n = call[c].copy.next
  OBVIOUS
<1>3. k \in Keys /\ n \in 0..MaxIndex /\ Copies(c, k)
  BY <1>1, <1>2 DEF VaultInv, HoldTyped, HoldsTyped, Proper, AccountRecords, Copies, Holding
<1>4. PICK code : code = [kind |-> "address", key |-> k, n |-> n]
  OBVIOUS
<1>5. code \in Codes /\ code.key = k /\ code.kind = "address" /\ code.n = n
  BY <1>3, <1>4 DEF Codes
<1>6. /\ call'[c] = [call[c] EXCEPT !.pc = "point", !.copy = None, !.code = code] /\ Alone(c)
      /\ spoiled \subseteq spoiled'
  BY <1>2, <1>4 DEF GenDerive, Become, CallInv, Alone
<1>7. /\ call'[c].pc = "point" /\ call'[c].code = code /\ call'[c].id = call[c].id
      /\ call'[c].user = call[c].user /\ call'[c].op = call[c].op /\ call'[c].of = call[c].of
      /\ call'[c].acct = call[c].acct /\ call'[c].over = call[c].over
  BY <1>6, DomainOf DEF Fields
<1>8. Owned(c, call'[c]) /\ ~Coded(call[c])
  BY <1>1, <1>7 DEF Owned, Coded
<1>9. ~Clean(call[c].code)' \/ code \notin InUse
  <2> SUFFICES ASSUME k \notin spoiled, code \in InUse PROVE FALSE
    BY <1>5, <1>6, <1>7 DEF Clean
  <2>1. code.n < call[c].copy.next
    BY <1>3, <1>5 DEF VaultInv, KeysInv, KeyInv
  <2> QED
    BY <1>2, <1>3, <1>5, <2>1
<1> QED
  BY <1>1, <1>5, <1>6, <1>7, <1>8, <1>9, CodeMade

(* The standing offer of a user is handed out again, or made. *)
LEMMA StandingMade ==
  ASSUME MadeInv, CallInv, NEW c \in Calls, StandingBegin(c) PROVE MadeInv'
<1>1. PICK u \in Users :
        IF standing[u] # None /\ invoice[standing[u]] # None
          THEN /\ Become(c, [Done(c) EXCEPT !.op = "standing"])
               /\ Hand(invoice[standing[u]], u, standing[u])
          ELSE /\ Become(c, [Idle EXCEPT !.op = "standing", !.pc = "offer", !.user = u, !.id = c])
               /\ UNCHANGED handed
  BY DEF StandingBegin
<1>2. call[c].pc = "start" /\ UNCHANGED <<invoice, ptr, standing, named, seen>>
  BY DEF StandingBegin
<1>3. CASE standing[u] # None /\ invoice[standing[u]] # None
  <2>1. PICK r, i : r = invoice[standing[u]] /\ i = standing[u]
    OBVIOUS
  <2>2. /\ call'[c].pc = "done" /\ Alone(c) /\ spoiled \subseteq spoiled'
        /\ handed' = handed \cup {[code |-> r.code, id |-> r.id, owner |-> u, of |-> i]}
    BY <1>1, <1>3, <2>1 DEF Become, CallInv, Alone, Hand, Done, Idle
  <2>0. \A x : Clean(x)' => Clean(x)
    BY <1>2, <2>2, CleanWas
  <2>3. /\ r.owner = u \/ i \in named
        /\ r.code \in InUse /\ r.code \in Codes
        /\ Clean(r.code) => Leads(r.code, r.owner, r.id)
        /\ \A d \in Calls : call[d].pc \in {"point", "record"} /\ Clean(call[d].code)
             => r.code # call[d].code
    BY <1>3, <2>1, InUseOf DEF MadeInv, RecordInv, BackInv, Recorded, LeadInv, FreshInv, RecordTyped,
       InvoiceRecords
  <2>4. ASSUME NEW d \in Calls, call'[d].pc # "done" PROVE d # c /\ call'[d] = call[d]
    BY <2>2, <2>4 DEF Alone
  <2>5. RecordTyped'
    BY <1>2, <2>2, <2>3, <2>4 DEF MadeInv, RecordInv, RecordTyped, Coded
  <2>6. BackInv'
    BY <1>2 DEF MadeInv, RecordInv, BackInv, Recorded
  <2>13. \A d \in Calls : Busy(call'[d]) => call'[d] = call[d] /\ Busy(call[d])
    BY <2>4 DEF Busy
  <2>7. OwnInv'
    BY <1>2, <2>4, <2>13 DEF MadeInv, RecordInv, OwnInv, Owned, Recorded
  <2>8. InUse' \subseteq InUse
    <3>1. \A d \in Calls : Coded(call'[d]) => call'[d].code \in InUse
      BY <2>4, InUseOf DEF Coded
    <3>2. \A x \in handed' : x.code \in InUse
      BY <2>2, <2>3, InUseOf
    <3> QED
      BY <1>2, <3>1, <3>2, InUseOf DEF InUse
  <2>9. SeenOnce'
    <3>1. \A d \in Calls : call'[d].pc = "keep" => call'[d] = call[d]
      BY <2>4
    <3> QED
      BY <1>2, <2>8, <3>1 DEF MadeInv, SeenOnce
  <2>10. \A x, v, j : Leads(x, v, j) => Leads(x, v, j)'
    BY <1>2 DEF Leads, Recorded
  <2>11. LeadInv'
    <3>1. ASSUME NEW j \in Calls, invoice'[j] # None, Clean(invoice[j].code)'
          PROVE  Leads(invoice[j].code, invoice[j].owner, invoice[j].id)'
      BY <1>2, <2>0, <2>10, <3>1 DEF MadeInv, LeadInv
    <3>2. ASSUME NEW x \in handed', Clean(x.code)' PROVE Told(x)'
      <4>1. CASE x \in handed
        <5>1. Told(x)
          BY <2>0, <3>2, <4>1 DEF MadeInv, LeadInv
        <5> QED
          BY <1>2, <2>10, <5>1 DEF Told
      <4>2. CASE x = [code |-> r.code, id |-> r.id, owner |-> u, of |-> i]
        <5>1. x.code = r.code /\ x.id = r.id /\ x.owner = u /\ x.of = i
          BY <4>2
        <5>2. Leads(r.code, r.owner, r.id)'
          BY <2>0, <2>3, <2>10, <3>2, <5>1
        <5> QED
          BY <1>2, <2>3, <5>1, <5>2 DEF Told
      <4> QED
        BY <2>2, <4>1, <4>2
    <3>3. ASSUME NEW d \in Calls, call'[d].pc = "hand", Clean(call[d].code)'
          PROVE  Leads(call[d].code, call[d].user, call[d].id)'
      BY <2>0, <2>4, <2>10, <3>3 DEF MadeInv, LeadInv
    <3>4. ASSUME NEW d \in Calls, call'[d].pc = "record", Clean(call[d].code)'
          PROVE  ptr'[call'[d].code] = call'[d].id
      BY <1>2, <2>0, <2>4, <3>4 DEF MadeInv, LeadInv
    <3> QED
      BY <3>1, <3>2, <3>3, <3>4 DEF LeadInv
  <2>12. FreshInv'
    <3>1. \A d \in Calls : Coded(call'[d]) => call'[d] = call[d] /\ d # c
      BY <2>4 DEF Coded
    <3> QED
      BY <1>2, <2>0, <2>2, <2>3, <3>1 DEF MadeInv, FreshInv, Coded
  <2> QED
    BY <2>5, <2>6, <2>7, <2>9, <2>11, <2>12 DEF MadeInv, RecordInv
<1>4. CASE ~(standing[u] # None /\ invoice[standing[u]] # None)
  <2>1. /\ call'[c] = [Idle EXCEPT !.op = "standing", !.pc = "offer", !.user = u, !.id = c]
        /\ Alone(c) /\ spoiled \subseteq spoiled' /\ UNCHANGED invoices
    BY <1>1, <1>2, <1>4 DEF Become, CallInv, Alone, invoices
  <2>2. /\ call'[c].pc = "offer" /\ call'[c].op = "standing" /\ call'[c].user = u /\ call'[c].id = c
        /\ call'[c].acct = None /\ call'[c].over = None
    BY <2>1 DEF Idle
  <2>3. Owned(c, call'[c])
    BY <1>2, <2>2 DEF Owned, MadeInv, RecordInv, OwnInv
  <2> QED
    BY <1>2, <2>1, <2>2, <2>3, QuietMade
<1> QED
  BY <1>3, <1>4

(* A call to generate() begins. *)
LEMMA BegunMade ==
  ASSUME MadeInv, CallInv, NEW c \in Calls, call[c].pc = "start", NEW r0, DOMAIN r0 = Fields, NEW u \in Users,
         r0.acct = None, r0.over \in named' \cup {None},
         r0.op = "put" => (Recorded(r0.id, u) /\ Recorded(r0.of, u))',
         r0.op # "put" =>
           /\ r0.id \in Calls /\ r0.id \in named' \cup {c}
           /\ invoice[r0.id] = None \/ invoice[r0.id].owner = u \/ r0.id \in named',
         NEW a \in Accounts \cup {None}, NEW asks, asks \subseteq {"mint", "offer"}, NEW r \in Making(r0, u, a, asks),
         Become(c, r), UNCHANGED <<invoice, ptr, standing, handed, seen>>,
         named \subseteq named', named' \subseteq Calls \cup Codes,
         \A d \in Calls \ {c} : call[d].pc = "start" => d \notin named'
  PROVE  MadeInv'
<1>1. /\ r.pc \in {"derive", "mint", "offer", "done"}
      /\ r.pc # "done" => /\ r.op = r0.op /\ r.id = r0.id /\ r.of = r0.of /\ r.over = r0.over
                          /\ r.user = u /\ r.acct \in Accounts \cup {None}
  <2>1. r.pc \in {"derive", "mint", "offer", "done"}
    BY MakingIs
  <2>2. CASE r.pc # "done"
    <3>1. /\ r.op = r0.op /\ r.id = r0.id /\ r.of = r0.of /\ r.over = r0.over
          /\ r.user = u /\ r.acct \in {r0.acct, a}
      BY <2>2, MakingOf
    <3> QED
      BY <2>1, <3>1
  <2> QED
    BY <2>1, <2>2
<1>2. call'[c] = r /\ Alone(c) /\ spoiled \subseteq spoiled'
  BY DEF Become, CallInv, Alone
<1>3. Busy(call'[c]) => Owned(c, call[c])'
  <2> SUFFICES ASSUME Busy(call'[c]) PROVE Owned(c, r)'
    BY <1>2
  <2>1. r.pc # "done"
    BY <1>2 DEF Busy
  <2> QED
    BY <1>1, <2>1 DEF Owned
<1>4. \A d \in Calls : call'[d].pc = "start" => d \notin named'
  BY <1>1, <1>2 DEF Alone
<1> QED
  BY <1>1, <1>2, <1>3, <1>4, NameMade

(* What a caller may name for the call c. *)
LEMMA NamingIs ==
  ASSUME MadeInv, NEW c \in Calls, call[c].pc = "start", NEW n \in Naming(c), Name(c, n)
  PROVE  /\ UNCHANGED <<invoice, ptr, standing, handed>>
         /\ named \subseteq named' /\ named' \subseteq Calls \cup Codes
         /\ n.id \in Calls /\ n.id \in named' \cup {c} /\ n.over \in named' \cup {None}
         /\ invoice[n.id] = None \/ n.id \in named'
         /\ \A d \in Calls \ {c} : call[d].pc = "start" => d \notin named'
<1>1. /\ named' = named \cup (({n.id} \ {c}) \cup ({n.over} \ {None}))
      /\ UNCHANGED <<invoice, ptr, standing, handed>>
  BY DEF Name
<1>2. named \subseteq Calls \cup Codes /\ invoice[c] = None
  BY DEF MadeInv, RecordInv, RecordTyped, OwnInv
<1>3. \A d \in Calls : call[d].pc = "start" => d \notin named /\ invoice[d] = None
  BY DEF MadeInv, RecordInv, OwnInv
<1>4. CASE n \in {[id |-> i, over |-> None] : i \in {c} \cup {j \in Calls : invoice[j] # None}
                    \cup {call[d].id : d \in {e \in Calls : Busy(call[e]) /\ call[e].op \in {"generate", "sell"}}}}
  <2>1. PICK i \in {c} \cup {j \in Calls : invoice[j] # None}
                  \cup {call[d].id : d \in {e \in Calls : Busy(call[e]) /\ call[e].op \in {"generate", "sell"}}} :
          n = [id |-> i, over |-> None]
    BY <1>4
  <2>2. n.id = i /\ n.over = None
    BY <2>1
  <2>3. i \in Calls /\ \A d \in Calls \ {c} : call[d].pc = "start" => d # i
    <3>1. CASE i \in {c} \cup {j \in Calls : invoice[j] # None}
      BY <1>3, <3>1
    <3>2. ASSUME NEW e \in Calls, Busy(call[e]), call[e].op \in {"generate", "sell"}, i = call[e].id
          PROVE  i \in Calls /\ \A d \in Calls \ {c} : call[d].pc = "start" => d # i
      <4>1. i \in Calls /\ i \in named \cup {e} /\ call[e].pc # "start"
        BY <3>2 DEF MadeInv, RecordInv, OwnInv, Owned, Busy
      <4> QED
        BY <1>3, <4>1
    <3> QED
      BY <2>1, <3>1, <3>2
  <2> QED
    BY <1>1, <1>2, <1>3, <2>2, <2>3
<1>5. CASE n \in {[id |-> c, over |-> x.code] : x \in handed}
  <2>1. PICK x \in handed : n = [id |-> c, over |-> x.code]
    BY <1>5
  <2>2. n.id = c /\ n.over = x.code /\ x.code \in Codes
    BY <2>1 DEF MadeInv, RecordInv, RecordTyped
  <2>3. \A d \in Calls : d # x.code
    BY <2>2, InvoicesAssumption DEF InvoicesAssumption
  <2> QED
    BY <1>1, <1>2, <1>3, <2>2, <2>3
<1> QED
  BY <1>4, <1>5 DEF Naming

LEMMA GenBegunMade ==
  ASSUME MadeInv, CallInv, NEW c \in Calls, GenBegin(c) PROVE MadeInv'
<1>1. PICK u \in Users, a \in Accounts \cup {None}, n \in Naming(c) :
        /\ Name(c, n)
        /\ \E r \in Making([Idle EXCEPT !.op = "generate", !.id = n.id, !.over = n.over], u, a,
                           {"mint", "offer"}) : Become(c, r)
  BY DEF GenBegin
<1> DEFINE r0 == [Idle EXCEPT !.op = "generate", !.id = n.id, !.over = n.over]
<1>2. /\ DOMAIN r0 = Fields /\ r0.op = "generate" /\ r0.id = n.id /\ r0.over = n.over /\ r0.acct = None
  BY DEF Idle, Fields
<1>3. call[c].pc = "start" /\ seen' = seen
  BY DEF GenBegin
<1>4. \E r \in Making(r0, u, a, {"mint", "offer"}) : Become(c, r)
  BY <1>1
<1>5. /\ UNCHANGED <<invoice, ptr, standing, handed>>
      /\ named \subseteq named' /\ named' \subseteq Calls \cup Codes
      /\ n.id \in Calls /\ n.id \in named' \cup {c} /\ n.over \in named' \cup {None}
      /\ invoice[n.id] = None \/ n.id \in named'
      /\ \A d \in Calls \ {c} : call[d].pc = "start" => d \notin named'
  BY <1>1, <1>3, NamingIs
<1> HIDE DEF r0
<1> QED
  BY <1>2, <1>3, <1>4, <1>5, BegunMade

LEMMA PutBegunMade ==
  ASSUME MadeInv, CallInv, NEW c \in Calls, PutBegin(c) PROVE MadeInv'
<1>1. PICK i \in Calls :
        /\ invoice[i] # None
        /\ \E r \in Making([Idle EXCEPT !.op = "put", !.id = invoice[i].id, !.of = i],
                           invoice[i].owner, invoice[i].acct,
                           IF invoice[i].code.kind = "offer" THEN {"offer"} ELSE {"mint"}) : Become(c, r)
  BY DEF PutBegin
<1>2. PICK u, a, asks, r0 :
        /\ u = invoice[i].owner /\ a = invoice[i].acct
        /\ asks = IF invoice[i].code.kind = "offer" THEN {"offer"} ELSE {"mint"}
        /\ r0 = [Idle EXCEPT !.op = "put", !.id = invoice[i].id, !.of = i]
  OBVIOUS
<1>3. PICK r \in Making(r0, u, a, asks) : Become(c, r)
  BY <1>1, <1>2
<1>4. /\ DOMAIN r0 = Fields /\ r0.op = "put" /\ r0.id = invoice[i].id /\ r0.of = i
      /\ r0.acct = None /\ r0.over = None
      /\ asks \subseteq {"mint", "offer"}
  BY <1>2 DEF Idle, Fields
<1>5. /\ u \in Users /\ a \in Accounts \cup {None} /\ Recorded(r0.id, u) /\ Recorded(r0.of, u)
  BY <1>1, <1>2, <1>4 DEF MadeInv, RecordInv, RecordTyped, BackInv, Recorded, InvoiceRecords
<1>6. call[c].pc = "start" /\ UNCHANGED <<invoice, ptr, standing, handed, named, seen>>
  BY DEF PutBegin, invoices
<1>7. (Recorded(r0.id, u) /\ Recorded(r0.of, u))'
  BY <1>5, <1>6 DEF Recorded
<1>8. named \subseteq Calls \cup Codes /\ \A d \in Calls : call[d].pc = "start" => d \notin named
  BY DEF MadeInv, RecordInv, RecordTyped, OwnInv
<1> QED
  BY <1>3, <1>4, <1>5, <1>6, <1>7, <1>8, BegunMade

LEMMA InvoicesMade ==
  ASSUME MadeInv, VaultInv, CallInv, InvoicesNext PROVE MadeInv'
BY GenBegunMade, PutBegunMade, StandingMade, DeriveMade, MintMade, OfferMade, PointMade, RecordMade, HandMade
   DEF InvoicesNext

-----------------------------------------------------------------------------
(* Sales *)

LEMMA SellBegunMade ==
  ASSUME MadeInv, CallInv, NEW c \in Calls, SellBegin(c) PROVE MadeInv'
<1>1. PICK n \in Naming(c) :
        /\ Name(c, n)
        /\ Become(c, [Idle EXCEPT !.op = "sell", !.pc = "pop", !.user = Merchant, !.id = n.id,
                                 !.over = n.over])
  BY DEF SellBegin
<1>2. call[c].pc = "start" /\ seen' = seen
  BY DEF SellBegin
<1>3. /\ call'[c] = [Idle EXCEPT !.op = "sell", !.pc = "pop", !.user = Merchant, !.id = n.id, !.over = n.over]
      /\ Alone(c) /\ spoiled \subseteq spoiled'
  BY <1>1 DEF Become, CallInv, Alone
<1>4. /\ call'[c].pc = "pop" /\ call'[c].op = "sell" /\ call'[c].user = Merchant /\ call'[c].id = n.id
      /\ call'[c].over = n.over /\ call'[c].acct = None
  BY <1>3 DEF Idle
<1>5. /\ UNCHANGED <<invoice, ptr, standing, handed>>
      /\ named \subseteq named' /\ named' \subseteq Calls \cup Codes
      /\ n.id \in Calls /\ n.id \in named' \cup {c} /\ n.over \in named' \cup {None}
      /\ invoice[n.id] = None \/ n.id \in named'
      /\ \A d \in Calls \ {c} : call[d].pc = "start" => d \notin named'
  BY <1>1, <1>2, NamingIs
<1>6. Owned(c, call[c])'
  BY <1>4, <1>5, PreimagesAssumption DEF PreimagesAssumption, Owned
<1>7. \A d \in Calls : call'[d].pc = "start" => d \notin named'
  BY <1>3, <1>4, <1>5 DEF Alone
<1> QED
  BY <1>2, <1>3, <1>4, <1>5, <1>6, <1>7, NameMade

LEMMA SellPopMade ==
  ASSUME MadeInv, CallInv, NEW c \in Calls, SellPop(c) PROVE MadeInv'
<1>1. /\ call[c].pc = "pop" /\ UNCHANGED <<invoices, seen>> /\ Owned(c, call[c])
  BY DEF SellPop, At, elsewhere, MadeInv, RecordInv, OwnInv, Busy
<1>2. CASE End(c)
  BY <1>1, <1>2, DoneIs, QuietMade DEF Busy
<1>3. ASSUME Become(c, [call[c] EXCEPT !.pc = "invoice", !.secret = Head(queue)]) PROVE MadeInv'
  <2>1. PICK p : p = Head(queue)
    OBVIOUS
  <2>2. call'[c] = [call[c] EXCEPT !.pc = "invoice", !.secret = p] /\ Alone(c) /\ spoiled \subseteq spoiled'
    BY <1>3, <2>1 DEF Become, CallInv, Alone
  <2>3. /\ call'[c].pc = "invoice" /\ call'[c].op = call[c].op /\ call'[c].id = call[c].id
        /\ call'[c].user = call[c].user /\ call'[c].of = call[c].of /\ call'[c].acct = call[c].acct
        /\ call'[c].over = call[c].over
    BY <2>2, DomainOf DEF Fields
  <2>4. Owned(c, call'[c])
    BY <1>1, <2>3 DEF Owned
  <2> QED
    BY <1>1, <2>2, <2>3, <2>4, QuietMade
<1> QED
  BY <1>2, <1>3 DEF SellPop

(* The node has made an invoice of a preimage, which it will not do again. *)
LEMMA SellInvoiceMade ==
  ASSUME MadeInv, CallInv, NEW c \in Calls, SellInvoice(c) PROVE MadeInv'
<1>0. PICK p : p = call[c].secret
  OBVIOUS
<1>1. /\ call[c].pc = "invoice" /\ UNCHANGED invoices /\ Owned(c, call[c])
  BY DEF SellInvoice, At, elsewhere, MadeInv, RecordInv, OwnInv, Busy
<1>2. PICK x \in {"keep", "pop", "return"} :
        /\ Goto(c, x) /\ seen \subseteq seen'
        /\ x = "keep" => p \notin seen /\ seen' = seen \cup {p}
  BY <1>0 DEF SellInvoice
<1>3. call'[c] = [call[c] EXCEPT !.pc = x] /\ Alone(c) /\ spoiled \subseteq spoiled'
  BY <1>2 DEF Goto, Become, CallInv, Alone
<1>4. /\ call'[c].pc = x /\ call'[c].op = call[c].op /\ call'[c].id = call[c].id /\ call'[c].secret = p
      /\ call'[c].user = call[c].user /\ call'[c].of = call[c].of /\ call'[c].acct = call[c].acct
      /\ call'[c].over = call[c].over
  BY <1>0, <1>3, DomainOf DEF Fields
<1>5. Owned(c, call'[c])
  BY <1>1, <1>4 DEF Owned
<1>6. CASE x # "keep"
  BY <1>1, <1>2, <1>3, <1>4, <1>5, <1>6, QuietMade
<1>7. CASE x = "keep"
  <2>1. UNCHANGED <<invoice, ptr, standing, handed, named>>
    BY <1>1 DEF invoices
  <2>2. \A d \in Calls \ {c} : call'[d] = call[d]
    BY <1>3 DEF Alone
  <2>3. RecordTyped'
    BY <1>4, <1>7, <2>1, <2>2 DEF MadeInv, RecordInv, RecordTyped, Coded
  <2>4. BackInv'
    BY <2>1 DEF MadeInv, RecordInv, BackInv, Recorded
  <2>5. OwnInv'
    <3>1. call'[c].pc = "keep"
      BY <1>4, <1>7
    <3>2. \A d \in Calls : Busy(call'[d]) => Owned(d, call'[d])
      BY <1>5, <2>2 DEF MadeInv, RecordInv, OwnInv
    <3>3. \A d \in Calls : Busy(call'[d]) => Owned(d, call[d])'
      BY <2>1, <3>2 DEF Owned, Recorded
    <3> QED
      BY <2>1, <2>2, <3>1, <3>3 DEF MadeInv, RecordInv, OwnInv
  <2>6. InUse' \subseteq InUse
    BY <1>4, <1>7, <2>1, <2>2 DEF InUse, Coded
  <2>7. SeenOnce'
    BY <1>2, <1>4, <1>7, <2>2, <2>6 DEF MadeInv, SeenOnce
  <2>10. \A d \in Calls : Coded(call'[d]) => d # c /\ call'[d] = call[d]
    BY <1>4, <1>7, <2>2 DEF Coded
  <2>11. \A y : Clean(y)' => Clean(y)
    BY <1>3, <2>1, CleanWas
  <2>12. \A y, u, i : Leads(y, u, i) => Leads(y, u, i)'
    BY <2>1 DEF Leads, Recorded
  <2>13. \A y : Told(y) => Told(y)'
    BY <2>1, <2>12 DEF Told
  <2>8. LeadInv'
    BY <2>1, <2>10, <2>11, <2>12, <2>13 DEF MadeInv, LeadInv, Coded
  <2>9. FreshInv'
    BY <2>1, <2>10, <2>11 DEF MadeInv, FreshInv, Coded
  <2> QED
    BY <2>3, <2>4, <2>5, <2>7, <2>8, <2>9 DEF MadeInv, RecordInv
<1> QED
  BY <1>6, <1>7

LEMMA SellKeepMade ==
  ASSUME MadeInv, SaleInv, NEW c \in Calls, SellKeep(c) PROVE MadeInv'
<1>0. PICK p, code : p = call[c].secret /\ code = [kind |-> "minted", key |-> p, n |-> 0]
  OBVIOUS
<1>1. /\ call[c].pc = "keep" /\ Sells(call[c]) /\ UNCHANGED <<invoices, seen>> /\ Owned(c, call[c])
  BY DEF SellKeep, At, Sells, elsewhere, MadeInv, RecordInv, OwnInv, Busy
<1>2. p \in Hashes /\ p \in seen /\ code \in Codes /\ code.key = p /\ code.kind = "minted"
  BY <1>0, <1>1, InvoicesAssumption DEF InvoicesAssumption, SaleInv, SecretInv, MadeInv, SeenOnce, Codes
<1>3. /\ call'[c] = [call[c] EXCEPT !.pc = "point", !.secret = None, !.code = code] /\ Alone(c)
      /\ spoiled \subseteq spoiled'
  BY <1>0 DEF SellKeep, Become, SaleInv, CallInv, Alone
<1>4. /\ call'[c].pc = "point" /\ call'[c].op = call[c].op /\ call'[c].id = call[c].id
      /\ call'[c].code = code
      /\ call'[c].user = call[c].user /\ call'[c].of = call[c].of /\ call'[c].acct = call[c].acct
      /\ call'[c].over = call[c].over
  BY <1>3, DomainOf DEF SaleInv, Fields
<1>5. Owned(c, call'[c]) /\ ~Coded(call[c])
  BY <1>1, <1>4 DEF Owned, Coded
<1>6. code \notin InUse /\ \A d \in Calls \ {c} : call[d].pc = "keep" => call[d].secret # p
  BY <1>0, <1>1, <1>2 DEF MadeInv, SeenOnce
<1> QED
  BY <1>1, <1>2, <1>3, <1>4, <1>5, <1>6, CodeMade

(* A stopped server forgets its calls. *)
LEMMA RestartMade ==
  ASSUME MadeInv, CallInv, Restart PROVE MadeInv'
<1>1. /\ \A d \in Calls : call'[d] = IF d \in Active THEN Done(d) ELSE call[d]
      /\ UNCHANGED <<invoice, ptr, standing, handed, named, spoiled, seen>>
  BY DEF Restart, elsewhere, invoices
<1>2. ASSUME NEW d \in Calls
      PROVE  call'[d].pc = "done" \/ (call'[d].pc = "start" /\ call[d].pc = "start")
  BY <1>1, DoneFields DEF Active
<1>3. RecordTyped' /\ BackInv'
  BY <1>1, <1>2 DEF MadeInv, RecordInv, RecordTyped, BackInv, Recorded, Coded
<1>4. OwnInv'
  BY <1>1, <1>2 DEF MadeInv, RecordInv, OwnInv, Busy
<1>5. InUse' \subseteq InUse
  BY <1>1, <1>2 DEF InUse, Coded
<1>6. SeenOnce'
  BY <1>1, <1>2, <1>5 DEF MadeInv, SeenOnce
<1>7. LeadInv'
  BY <1>1, <1>2 DEF MadeInv, LeadInv, Leads, Told, Clean, Recorded
<1>8. FreshInv'
  BY <1>2 DEF FreshInv
<1> QED
  BY <1>3, <1>4, <1>6, <1>7, <1>8 DEF MadeInv, RecordInv

LEMMA MadeNext ==
  ASSUME MadeInv, VaultInv, SaleInv, [Next]_vars PROVE MadeInv'
<1>0. CallInv
  BY DEF SaleInv
<1>1. CASE VaultsNext /\ UNCHANGED <<invoices, seen>>
  BY <1>0, <1>1, VaultsMade
<1>2. CASE InvoicesNext
  BY <1>0, <1>2, InvoicesMade
<1>3. CASE PreimagesNext
  <2>1. ASSUME NEW c \in Calls, AddBegin(c) PROVE MadeInv'
    <3>1. PICK p \in Secrets : Become(c, [Idle EXCEPT !.op = "add", !.pc = "push", !.secret = p])
      BY <2>1 DEF AddBegin
    <3>2. /\ UNCHANGED <<invoices, seen>> /\ call'[c].pc = "push" /\ Alone(c) /\ spoiled \subseteq spoiled'
      BY <1>0, <2>1, <3>1 DEF AddBegin, elsewhere, Become, CallInv, Idle, Alone
    <3> QED
      BY <3>2, QuietMade DEF Busy
  <2>2. ASSUME NEW c \in Calls, AddPush(c) PROVE MadeInv'
    BY <1>0, <2>2, DoneIs, QuietMade DEF AddPush, elsewhere, Busy
  <2>3. ASSUME NEW c \in Calls, SellReturn(c) PROVE MadeInv'
    BY <1>0, <2>3, DoneIs, QuietMade DEF SellReturn, elsewhere, Busy
  <2>4. CASE Clear \/ \E p \in Secrets : SettleSale(p) \/ Expire(p)
    BY <2>4, SameMade DEF Clear, SettleSale, Expire, elsewhere
  <2> QED
    BY <1>0, <1>3, <2>1, <2>2, <2>3, <2>4, SellBegunMade, SellPopMade, SellInvoiceMade, SellKeepMade,
       RestartMade DEF PreimagesNext
<1>4. CASE UNCHANGED vars
  BY <1>4, SameMade DEF vars
<1> QED
  BY <1>1, <1>2, <1>3, <1>4 DEF Next

-----------------------------------------------------------------------------
(* Accounts and keys *)

LEMMA HeldIs ==
  ASSUME NEW r
  PROVE  /\ ~Holding(r) => Held(r) = {}
         /\ Holding(r) => Held(r) = {r.copy.key, r.copy.desc, r.key} \ {None}
BY DEF Held, Holding

(* What two calls come to hold at once is spoiled. *)
LEMMA BecomeSpoils ==
  ASSUME CallInv, NEW c \in Calls, NEW r, Become(c, r)
  PROVE  /\ call'[c] = r /\ Alone(c) /\ spoiled \subseteq spoiled'
         /\ \A d \in Calls \ {c} : Held(r) \cap Held(call[d]) \subseteq spoiled'
<1>1. call'[c] = r /\ Alone(c) /\ spoiled \subseteq spoiled'
  BY DEF Become, CallInv, Alone
<1>2. ASSUME NEW d \in Calls \ {c} PROVE Held(r) \cap Held(call[d]) \subseteq spoiled'
  <2>1. CASE d \in Active
    BY <2>1 DEF Become
  <2>2. CASE d \notin Active
    BY <2>2 DEF Held, Active
  <2> QED
    BY <2>1, <2>2
<1> QED
  BY <1>1, <1>2

Creates(r) == r.op = "create" /\ r.pc = "store"

(* A step of a call that stores no account and takes no copy of one. *)
LEMMA QuietKeys ==
  ASSUME VaultInv, NEW c \in Calls, Alone(c), HoldsTyped(call'[c]),
         \/ ~Holding(call'[c])
         \/ /\ Holding(call[c]) /\ call'[c].copy = call[c].copy /\ call'[c].acct = call[c].acct
            /\ call'[c].key = call[c].key,
         Creates(call'[c]) =>
           account[call'[c].acct] = None /\ \A d \in Calls \ {c} : call[d].acct # call'[c].acct,
         \/ Creates(call'[c])
         \/ call'[c].acct \in {None, call[c].acct} \/ account[call'[c].acct] # None,
         UNCHANGED <<account, reached, worn>>, spoiled \subseteq spoiled',
         \A x \in InUse' : x.kind = "address" => x \in InUse
  PROVE  VaultInv'
<1>1. VaultTyped'
  BY DEF VaultInv, VaultTyped
<1>2. HoldTyped'
  BY DEF VaultInv, HoldTyped, Alone
<1>3. Held(call'[c]) \subseteq Held(call[c])
  BY HeldIs
<1>4. SoleInv'
  BY <1>3 DEF VaultInv, SoleInv, Alone
<1>5. CreateInv'
  <2> SUFFICES ASSUME NEW d \in Calls, Creates(call'[d])
               PROVE  /\ account[call'[d].acct] = None
                      /\ \A e \in Calls \ {d} : call'[e].acct # call'[d].acct
    BY DEF CreateInv, Creates
  <2>1. CASE d = c
    BY <2>1 DEF Alone
  <2>2. CASE d # c
    <3>1. /\ call'[d] = call[d] /\ account[call[d].acct] = None /\ call[d].acct \in Accounts
          /\ \A e \in Calls \ {d} : call[e].acct # call[d].acct
      BY <2>2 DEF VaultInv, CreateInv, HoldTyped, HoldsTyped, Creates, Alone
    <3>2. call'[c].acct # call[d].acct
      BY <2>2, <3>1, NoneApart
    <3> QED
      BY <3>1, <3>2 DEF Alone
  <2> QED
    BY <2>1, <2>2
<1>6. KeysInv'
  <2>1. ASSUME NEW k \in Keys, NEW d \in Calls, Copies(d, k)'
        PROVE  Copies(d, k) /\ call'[d].copy = call[d].copy /\ call'[d].acct = call[d].acct
    BY <2>1 DEF Copies, Alone
  <2>2. ASSUME NEW k \in Keys, NEW d \in Calls, k \in Held(call'[d])
        PROVE  k \in Held(call[d]) /\ call'[d].copy = call[d].copy /\ call'[d].acct = call[d].acct
    BY <1>3, <2>2, HeldIs DEF Alone
  <2>3. \A a, k : Has(a, k)' <=> Has(a, k)
    BY DEF Has
  <2> SUFFICES ASSUME NEW k \in Keys \ spoiled' PROVE KeyInv(k)'
    BY DEF KeysInv
  <2>4. KeyInv(k)
    BY DEF VaultInv, KeysInv
  <2>5. \A a \in Accounts : Has(a, k)' => k \in worn'
    BY <2>3, <2>4 DEF KeyInv
  <2>6. \A d \in Calls : Copies(d, k)' => k \in worn'
    BY <2>1, <2>4 DEF KeyInv
  <2>7. \A a, b \in Accounts : Has(a, k)' /\ Has(b, k)' => a = b
    BY <2>3, <2>4 DEF KeyInv
  <2>8. \A d \in Calls, a \in Accounts : Copies(d, k)' /\ Has(a, k)' => a = call'[d].acct
    BY <2>1, <2>3, <2>4 DEF KeyInv
  <2>9. \A d \in Calls : k \in Held(call'[d]) /\ Has(call[d].acct, k)' => call'[d].copy.key = k
    BY <2>2, <2>3, <2>4 DEF KeyInv
  <2>10. ASSUME NEW x \in InUse', x.kind = "address", x.key = k
         PROVE  /\ k \in worn'
                /\ \A a \in Accounts : Has(a, k)' => x.n < account'[a].next
                /\ \A d \in Calls : Copies(d, k)' => x.n < call'[d].copy.next
    BY <2>1, <2>3, <2>4, <2>10 DEF KeyInv
  <2> QED
    BY <2>5, <2>6, <2>7, <2>8, <2>9, <2>10 DEF KeyInv
<1> QED
  BY <1>1, <1>2, <1>4, <1>5, <1>6 DEF VaultInv

(* A call takes a copy of an account. *)
LEMMA CopyKeys ==
  ASSUME VaultInv, CallInv, NEW c \in Calls, NEW r, Become(c, r), call[c].pc = "start",
         NEW a \in Accounts, account[a] # None, r.copy = account[a], r.acct = a, HoldsTyped(r), ~Creates(r),
         UNCHANGED <<account, reached, worn>>, \A x \in InUse' : x.kind = "address" => x \in InUse
  PROVE  VaultInv'
<1>1. /\ call'[c] = r /\ Alone(c) /\ spoiled \subseteq spoiled'
      /\ \A d \in Calls \ {c} : Held(r) \cap Held(call[d]) \subseteq spoiled'
  BY BecomeSpoils
<1>2. VaultTyped'
  BY DEF VaultInv, VaultTyped
<1>3. HoldTyped'
  BY <1>1 DEF VaultInv, HoldTyped, Alone
<1>4. SoleInv'
  BY <1>1 DEF VaultInv, SoleInv, Alone
<1>5. CreateInv'
  <2> SUFFICES ASSUME NEW d \in Calls, Creates(call'[d])
               PROVE  /\ account[call'[d].acct] = None
                      /\ \A e \in Calls \ {d} : call'[e].acct # call'[d].acct
    BY DEF CreateInv, Creates
  <2>1. d # c /\ call'[d] = call[d]
    BY <1>1 DEF Alone
  <2>2. /\ account[call[d].acct] = None /\ \A e \in Calls \ {d} : call[e].acct # call[d].acct
    BY <2>1 DEF VaultInv, CreateInv, Creates
  <2> QED
    BY <1>1, <2>1, <2>2 DEF Alone
<1>6. KeysInv'
  <2>1. \A b, k : Has(b, k)' <=> Has(b, k)
    BY DEF Has
  <2>2. \A d \in Calls \ {c} : call'[d] = call[d]
    BY <1>1 DEF Alone
  <2>3. ASSUME NEW k, Copies(c, k)' PROVE Has(a, k)
    BY <1>1, <2>3 DEF Copies, Has
  <2>4. ASSUME NEW k, NEW d \in Calls \ {c}, Copies(d, k)' PROVE Copies(d, k)
    BY <2>2, <2>4 DEF Copies
  <2> SUFFICES ASSUME NEW k \in Keys \ spoiled' PROVE KeyInv(k)'
    BY DEF KeysInv
  <2>5. KeyInv(k)
    BY <1>1 DEF VaultInv, KeysInv
  <2>6. \A b \in Accounts : Has(b, k)' => k \in worn'
    BY <2>1, <2>5 DEF KeyInv
  <2>7. \A d \in Calls : Copies(d, k)' => k \in worn'
    BY <2>3, <2>4, <2>5 DEF KeyInv
  <2>8. \A b, e \in Accounts : Has(b, k)' /\ Has(e, k)' => b = e
    BY <2>1, <2>5 DEF KeyInv
  <2>9. \A d \in Calls, b \in Accounts : Copies(d, k)' /\ Has(b, k)' => b = call'[d].acct
    BY <1>1, <2>1, <2>2, <2>3, <2>4, <2>5 DEF KeyInv
  <2>10. ASSUME NEW d \in Calls, k \in Held(call'[d]), Has(call[d].acct, k)' PROVE call'[d].copy.key = k
    <3>1. CASE d = c
      BY <1>1, <2>1, <2>10, <3>1 DEF Has
    <3>2. CASE d # c
      BY <2>1, <2>2, <2>5, <2>10, <3>2 DEF KeyInv
    <3> QED
      BY <3>1, <3>2
  <2>11. ASSUME NEW x \in InUse', x.kind = "address", x.key = k
         PROVE  /\ k \in worn'
                /\ \A b \in Accounts : Has(b, k)' => x.n < account'[b].next
                /\ \A d \in Calls : Copies(d, k)' => x.n < call'[d].copy.next
    BY <1>1, <2>1, <2>2, <2>3, <2>4, <2>5, <2>11 DEF KeyInv
  <2> QED
    BY <2>6, <2>7, <2>8, <2>9, <2>10, <2>11 DEF KeyInv
<1> QED
  BY <1>2, <1>3, <1>4, <1>5, <1>6 DEF VaultInv

(* A call stores the account of which it holds a copy, with what it holds; if  *)
(* the key is not spoiled, it is of no other account, and the addresses in use *)
(* have been counted.                                                          *)
LEMMA StoreKeys ==
  ASSUME VaultInv, NEW c \in Calls, Alone(c), Holding(call[c]), NEW a \in Accounts, a = call[c].acct,
         NEW new, Proper(new), account' = [account EXCEPT ![a] = new],
         new.key \in Held(call[c]) \cup {None},
         HoldsTyped(call'[c]), ~Creates(call'[c]), call'[c].acct \in {None, a},
         Holding(call'[c]) => call'[c].copy = new /\ call'[c].acct = a,
         Held(call'[c]) \subseteq Held(call[c]),
         UNCHANGED reached, worn \subseteq worn', spoiled \subseteq spoiled',
         new.key \in Keys \ spoiled' =>
           new.key \in worn' /\ \A b \in Accounts : Has(b, new.key) => b = a,
         \A x \in InUse' : x.kind = "address" /\ x.key \notin spoiled' =>
           \/ x.key # new.key /\ x \in InUse
           \/ x.key = new.key /\ x.n < new.next
  PROVE  VaultInv'
<1>1. /\ account'[a] = new /\ new # None /\ \A b \in Accounts \ {a} : account'[b] = account[b]
      /\ account' \in [Accounts -> AccountRecords \cup {None}]
  BY NoneApart DEF VaultInv, VaultTyped, Proper
<1>2. VaultTyped'
  BY <1>1 DEF VaultInv, VaultTyped
<1>3. HoldTyped'
  BY DEF VaultInv, HoldTyped, Alone
<1>4. SoleInv'
  BY DEF VaultInv, SoleInv, Alone
<1>5. CreateInv'
  <2> SUFFICES ASSUME NEW d \in Calls, Creates(call'[d])
               PROVE  /\ account'[call'[d].acct] = None
                      /\ \A e \in Calls \ {d} : call'[e].acct # call'[d].acct
    BY DEF CreateInv, Creates
  <2>1. d # c /\ call'[d] = call[d]
    BY DEF Alone
  <2>2. /\ account[call[d].acct] = None /\ \A e \in Calls \ {d} : call[e].acct # call[d].acct
        /\ call[d].acct \in Accounts
    BY <2>1 DEF VaultInv, CreateInv, Creates, HoldTyped, HoldsTyped
  <2>3. call[d].acct # a
    BY <2>1, <2>2
  <2> QED
    BY <1>1, <2>1, <2>2, <2>3, NoneApart DEF Alone
<1>6. KeysInv'
  <2>1. ASSUME NEW b \in Accounts, NEW k, Has(b, k)' PROVE (b = a /\ k = new.key) \/ (b # a /\ Has(b, k))
    BY <1>1, <2>1 DEF Has
  <2>2. \A d \in Calls \ {c} : call'[d] = call[d]
    BY DEF Alone
  <2>3. ASSUME NEW k, Copies(c, k)' PROVE k = new.key /\ call'[c].acct = a /\ call'[c].copy = new
    BY <2>3 DEF Copies
  <2>4. ASSUME NEW k, NEW d \in Calls \ {c}, Copies(d, k)' PROVE Copies(d, k)
    BY <2>2, <2>4 DEF Copies
  <2> SUFFICES ASSUME NEW k \in Keys \ spoiled' PROVE KeyInv(k)'
    BY DEF KeysInv
  <2>5. KeyInv(k)
    BY DEF VaultInv, KeysInv
  <2>6. k = new.key => \A d \in Calls \ {c} : k \notin Held(call[d])
    BY NoneApart DEF VaultInv, SoleInv
  <2>7. k = new.key => \A d \in Calls \ {c} : ~Copies(d, k)
    BY <2>6, HeldIs, NoneApart DEF Copies
  <2>8. \A b \in Accounts : Has(b, k)' => k \in worn'
    BY <2>1, <2>5 DEF KeyInv
  <2>9. \A d \in Calls : Copies(d, k)' => k \in worn'
    BY <2>3, <2>4, <2>5 DEF KeyInv
  <2>10. \A b, e \in Accounts : Has(b, k)' /\ Has(e, k)' => b = e
    BY <2>1, <2>5 DEF KeyInv
  <2>11. ASSUME NEW d \in Calls, NEW b \in Accounts, Copies(d, k)', Has(b, k)' PROVE b = call'[d].acct
    <3>1. CASE k = new.key
      <4>1. d = c
        BY <2>4, <2>7, <2>11, <3>1
      <4>2. b = a
        BY <2>1, <2>11, <3>1
      <4> QED
        BY <2>3, <2>11, <4>1, <4>2
    <3>2. CASE k # new.key
      BY <2>1, <2>2, <2>3, <2>4, <2>5, <2>11, <3>2 DEF KeyInv
    <3> QED
      BY <3>1, <3>2
  <2>12. ASSUME NEW d \in Calls, k \in Held(call'[d]), Has(call[d].acct, k)' PROVE call'[d].copy.key = k
    <3>1. CASE d = c
      <4>1. Holding(call'[c])
        BY <2>12, <3>1, HeldIs
      <4> QED
        BY <1>1, <2>12, <3>1, <4>1 DEF Has
    <3>2. CASE d # c
      <4>1. k # new.key
        BY <2>2, <2>6, <2>12, <3>2
      <4>2. Holding(call[d]) /\ call[d].acct \in Accounts
        BY <2>2, <2>12, <3>2, HeldIs DEF VaultInv, HoldTyped, HoldsTyped
      <4>3. Has(call[d].acct, k)
        BY <2>1, <2>2, <2>12, <3>2, <4>1, <4>2
      <4> QED
        BY <2>2, <2>5, <2>12, <3>2, <4>3 DEF KeyInv
    <3> QED
      BY <3>1, <3>2
  <2>13. ASSUME NEW x \in InUse', x.kind = "address", x.key = k
         PROVE  /\ k \in worn'
                /\ \A b \in Accounts : Has(b, k)' => x.n < account'[b].next
                /\ \A d \in Calls : Copies(d, k)' => x.n < call'[d].copy.next
    <3>1. CASE k = new.key
      <4>1. x.n < new.next /\ k \in worn'
        BY <2>13, <3>1
      <4>2. \A b \in Accounts : Has(b, k)' => b = a
        BY <2>1, <3>1
      <4>3. \A d \in Calls : Copies(d, k)' => d = c
        BY <2>4, <2>7, <3>1
      <4> QED
        BY <1>1, <2>3, <4>1, <4>2, <4>3
    <3>2. CASE k # new.key
      <4>1. /\ x \in InUse /\ k \in worn
            /\ \A b \in Accounts : Has(b, k) => x.n < account[b].next
            /\ \A d \in Calls : Copies(d, k) => x.n < call[d].copy.next
        BY <2>5, <2>13, <3>2 DEF KeyInv
      <4> QED
        BY <1>1, <2>1, <2>2, <2>3, <2>4, <3>2, <4>1
    <3> QED
      BY <3>1, <3>2
  <2> QED
    BY <2>8, <2>9, <2>10, <2>11, <2>12, <2>13 DEF KeyInv
<1> QED
  BY <1>2, <1>3, <1>4, <1>5, <1>6 DEF VaultInv

(* A step of one call leaves the addresses that are in use, but for the code *)
(* that the call gets.                                                       *)
LEMMA UseStays ==
  ASSUME NEW c \in Calls, Alone(c), NEW S,
         Coded(call'[c]) => call'[c].code \in InUse \cup S,
         \A i \in Calls : invoice'[i] # None => invoice'[i].code \in InUse,
         \A x \in handed' : x.code \in InUse
  PROVE  InUse' \subseteq InUse \cup S
<1>1. \A d \in Calls : Coded(call'[d]) => call'[d].code \in InUse \cup S
  BY InUseOf DEF Alone
<1> QED
  BY <1>1 DEF InUse

LEMMA QuietUse ==
  ASSUME NEW c \in Calls, Alone(c), NEW S, UNCHANGED <<invoice, handed>>,
         Coded(call'[c]) => call'[c].code \in InUse \cup S
  PROVE  InUse' \subseteq InUse \cup S
BY InUseOf, UseStays

LEMMA ReturnUse ==
  ASSUME RecordTyped, NEW c \in Calls, Alone(c), ~Coded(call'[c]), NEW r, Return(c, r), r.code \in InUse
  PROVE  InUse' \subseteq InUse
<1>1. \A x \in handed' : x.code \in InUse
  BY InUseOf DEF Return, Hand
<1>2. ASSUME NEW i \in Calls, invoice'[i] # None PROVE invoice'[i].code \in InUse
  BY <1>2, InUseOf DEF Return, RecordTyped
<1>3. InUse' \subseteq InUse \cup {}
  BY <1>1, <1>2, UseStays
<1> QED
  BY <1>3

(* A step of a call that takes no copy, and stores nothing now or next. *)
LEMMA PlainKeys ==
  ASSUME VaultInv, NEW c \in Calls, Alone(c),
         call'[c].pc \notin {"derive", "sync", "stamp"},
         call'[c].pc = "store" => call'[c].op = "delete",
         \/ /\ call'[c].copy = None
            /\ call'[c].acct \in {None, call[c].acct} \/ account[call'[c].acct] # None
         \/ /\ call[c].pc \notin {"start", "done"} /\ call'[c].copy = call[c].copy
            /\ call'[c].key = call[c].key /\ call'[c].acct = call[c].acct,
         UNCHANGED <<account, reached, worn>>, spoiled \subseteq spoiled',
         \A x \in InUse' : x.kind = "address" => x \in InUse
  PROVE  VaultInv'
<1>1. HoldsTyped(call'[c])
  BY DEF VaultInv, HoldTyped, HoldsTyped, Holding
<1>2. ~Creates(call'[c])
  BY DEF Creates
<1>3. \/ ~Holding(call'[c])
      \/ /\ Holding(call[c]) /\ call'[c].copy = call[c].copy /\ call'[c].acct = call[c].acct
         /\ call'[c].key = call[c].key
  BY DEF Holding
<1> QED
  BY <1>1, <1>2, <1>3, QuietKeys

LEMMA EndKeys ==
  ASSUME VaultInv, CallInv, NEW c \in Calls, End(c), UNCHANGED <<account, reached, worn>>,
         InUse' \subseteq InUse
  PROVE  VaultInv'
<1>1. call'[c] = Done(c) /\ Alone(c) /\ spoiled \subseteq spoiled'
  BY DEF End, Become, CallInv, Alone
<1>2. Done(c).pc = "done" /\ Done(c).copy = None /\ Done(c).acct = None
  BY DEF Done, Idle
<1> QED
  BY <1>1, <1>2, PlainKeys

LEMMA EndUse ==
  ASSUME CallInv, NEW c \in Calls, End(c), UNCHANGED <<invoice, handed>>
  PROVE  InUse' \subseteq InUse
<1>1. call'[c].pc = "done" /\ Alone(c)
  BY DoneIs
<1>2. InUse' \subseteq InUse \cup {}
  BY <1>1, QuietUse DEF Coded
<1> QED
  BY <1>2

LEMMA GotoKeys ==
  ASSUME VaultInv, CallInv, NEW c \in Calls, NEW x, Goto(c, x), call[c].pc \notin {"start", "done"},
         x \notin {"derive", "sync", "stamp", "store"},
         UNCHANGED <<account, reached, worn>>, \A y \in InUse' : y.kind = "address" => y \in InUse
  PROVE  VaultInv'
<1>1. call'[c] = [call[c] EXCEPT !.pc = x] /\ Alone(c) /\ spoiled \subseteq spoiled'
  BY DEF Goto, Become, CallInv, Alone
<1>2. /\ call'[c].pc = x /\ call'[c].copy = call[c].copy /\ call'[c].key = call[c].key
      /\ call'[c].acct = call[c].acct
  BY <1>1, DomainOf DEF Fields
<1> QED
  BY <1>1, <1>2, PlainKeys

LEMMA SameKeys ==
  ASSUME VaultInv, UNCHANGED <<account, worn, call, spoiled, invoice, handed>>,
         reached' \in [Keys -> 0..MaxIndex]
  PROVE  VaultInv'
<1>1. InUse' = InUse
  BY DEF InUse
<1>2. VaultTyped' /\ HoldTyped' /\ SoleInv' /\ CreateInv'
  BY DEF VaultInv, VaultTyped, HoldTyped, SoleInv, CreateInv
<1>3. KeysInv'
  <2> SUFFICES ASSUME NEW k \in Keys \ spoiled' PROVE KeyInv(k)'
    BY DEF KeysInv
  <2>1. KeyInv(k)
    BY DEF VaultInv, KeysInv
  <2> QED
    BY <1>1, <2>1 DEF KeyInv, Has, Copies
<1> QED
  BY <1>2, <1>3 DEF VaultInv

(* What a call may store: the key of its copy, or one that no account has had. *)
LEMMA CountedKeys ==
  ASSUME VaultInv, NEW c \in Calls, NEW k \in Keys \ spoiled, Copies(c, k) \/ k \notin worn
  PROVE  /\ \A b \in Accounts : Has(b, k) => b = call[c].acct
         /\ Copies(c, k) => k \in worn
         /\ \A x \in InUse : x.kind = "address" /\ x.key = k => Copies(c, k) /\ x.n < call[c].copy.next
BY DEF VaultInv, KeysInv, KeyInv

-----------------------------------------------------------------------------
(* What each step does to accounts and keys *)

Others == UNCHANGED <<invoices, seen>>

(* Calls that work on an account *)

LEMMA CreateBeginKeys ==
  ASSUME VaultInv, CallInv, NEW c \in Calls, CreateBegin(c), Others PROVE VaultInv'
<1>1. PICK u \in Users, a \in Accounts, k \in Keys :
        /\ account[a] = None /\ \A d \in Calls : call[d].acct # a
        /\ Become(c, [Idle EXCEPT !.op = "create", !.pc = "store", !.user = u, !.acct = a, !.key = k])
  BY DEF CreateBegin, Existing
<1>2. /\ call'[c] = [Idle EXCEPT !.op = "create", !.pc = "store", !.user = u, !.acct = a, !.key = k]
      /\ Alone(c) /\ spoiled \subseteq spoiled'
  BY <1>1 DEF Become, CallInv, Alone
<1>3. /\ call'[c].op = "create" /\ call'[c].pc = "store" /\ call'[c].user = u /\ call'[c].acct = a
      /\ call'[c].key = k /\ call'[c].copy = None
  BY <1>2 DEF Idle
<1>4. HoldsTyped(call'[c]) /\ ~Holding(call'[c])
  BY <1>3 DEF HoldsTyped, Holding
<1>5. UNCHANGED <<account, reached, worn>> /\ InUse' \subseteq InUse \cup {}
  BY <1>2, <1>3, QuietUse DEF CreateBegin, vaults, Others, invoices, Coded
<1>6. /\ Creates(call'[c]) /\ account[call'[c].acct] = None
      /\ \A d \in Calls \ {c} : call[d].acct # call'[c].acct
  BY <1>1, <1>3 DEF Creates
<1>7. \A x \in InUse' : x.kind = "address" => x \in InUse
  BY <1>5
<1> QED
  BY <1>2, <1>4, <1>5, <1>6, <1>7, QuietKeys

(* The account is new, and so is the key unless it is spoiled now. *)
LEMMA CreateStoreKeys ==
  ASSUME VaultInv, CallInv, NEW c \in Calls, CreateStore(c), Others PROVE VaultInv'
<1>1. PICK a, k, new : a = call[c].acct /\ k = call[c].key /\
        new = [owner |-> call[c].user, key |-> call[c].key, next |-> 0, imported |-> FALSE, desc |-> None]
  OBVIOUS
<1>2. /\ a \in Accounts /\ k \in Keys /\ account[a] = None /\ call[c].user \in Users
      /\ \A d \in Calls \ {c} : call[d].acct # a
  BY <1>1 DEF CreateStore, At, VaultInv, HoldTyped, HoldsTyped, CreateInv
<1>3. Proper(new) /\ new.key = k /\ new # None
  <2>1. 0 \in 0..MaxIndex
    BY VaultsAssumption DEF VaultsAssumption
  <2>2. new \in AccountRecords /\ new.key = k
    BY <1>1, <1>2, <2>1 DEF AccountRecords
  <2> QED
    BY <1>2, <2>2, NoneApart DEF Proper
<1>4. /\ account' = [account EXCEPT ![a] = new] /\ Wear(a, k, Done(c), c) /\ UNCHANGED reached
  BY <1>1 DEF CreateStore
<1>5. /\ call'[c] = Done(c) /\ Alone(c) /\ worn' = worn \cup {k} /\ spoiled \subseteq spoiled'
      /\ k \in worn => k \in spoiled'
  BY <1>2, <1>4, NoneApart DEF Wear, CallInv, Alone, Existing
<1>6. /\ account'[a] = new /\ \A b \in Accounts \ {a} : account'[b] = account[b]
      /\ account' \in [Accounts -> AccountRecords \cup {None}]
  BY <1>2, <1>3, <1>4 DEF VaultInv, VaultTyped, Proper
<1>7. /\ call'[c].pc = "done" /\ call'[c].acct = None /\ call'[c].copy = None
  BY <1>5 DEF Done, Idle
<1>8. Held(call'[c]) = {}
  BY <1>7, HeldIs DEF Holding
<1>9. InUse' \subseteq InUse
  <2>1. InUse' \subseteq InUse \cup {}
    BY <1>5, <1>7, QuietUse DEF Others, invoices, Coded
  <2> QED
    BY <2>1
<1>10. VaultTyped'
  BY <1>3, <1>4, <1>6 DEF VaultInv, VaultTyped
<1>11. HoldTyped'
  BY <1>5, <1>7 DEF VaultInv, HoldTyped, HoldsTyped, Holding, Alone
<1>12. SoleInv'
  BY <1>5, <1>8 DEF VaultInv, SoleInv, Alone
<1>13. CreateInv'
  <2> SUFFICES ASSUME NEW d \in Calls, Creates(call'[d])
               PROVE  /\ account'[call'[d].acct] = None
                      /\ \A e \in Calls \ {d} : call'[e].acct # call'[d].acct
    BY DEF CreateInv, Creates
  <2>1. d # c /\ call'[d] = call[d]
    BY <1>5, <1>7 DEF Alone, Creates
  <2>2. /\ account[call[d].acct] = None /\ call[d].acct \in Accounts \ {a}
        /\ \A e \in Calls \ {d} : call[e].acct # call[d].acct
    BY <1>2, <2>1 DEF VaultInv, CreateInv, Creates, HoldTyped, HoldsTyped
  <2> QED
    BY <1>5, <1>6, <1>7, <2>1, <2>2, NoneApart DEF Alone
<1>14. KeysInv'
  <2>1. ASSUME NEW b \in Accounts, NEW x, Has(b, x)' PROVE (b = a /\ x = k) \/ (b # a /\ Has(b, x))
    BY <1>3, <1>6, <2>1 DEF Has
  <2>2. ASSUME NEW d \in Calls, NEW x, Copies(d, x)' PROVE d # c /\ call'[d] = call[d] /\ Copies(d, x)
    BY <1>5, <1>7, <2>2 DEF Alone, Copies, Holding
  <2>3. ASSUME NEW d \in Calls, NEW x \in Held(call'[d])
        PROVE  d # c /\ call'[d] = call[d] /\ call[d].acct \in Accounts \ {a}
    BY <1>2, <1>5, <1>8, <2>3, HeldIs DEF Alone, VaultInv, HoldTyped, HoldsTyped
  <2> SUFFICES ASSUME NEW x \in Keys \ spoiled' PROVE KeyInv(x)'
    BY DEF KeysInv
  <2>4. KeyInv(x)
    BY <1>5 DEF VaultInv, KeysInv
  <2>5. x = k => x \notin worn
    BY <1>5
  <2>6. x = k => /\ \A b \in Accounts : ~Has(b, x)
                 /\ \A d \in Calls : ~Copies(d, x)
                 /\ \A y \in InUse : ~(y.kind = "address" /\ y.key = x)
    BY <2>4, <2>5 DEF KeyInv
  <2>7. \A b \in Accounts : Has(b, x)' => x \in worn'
    BY <1>5, <2>1, <2>4 DEF KeyInv
  <2>8. \A d \in Calls : Copies(d, x)' => x \in worn'
    BY <1>5, <2>2, <2>4 DEF KeyInv
  <2>9. \A b, e \in Accounts : Has(b, x)' /\ Has(e, x)' => b = e
    BY <2>1, <2>4, <2>6 DEF KeyInv
  <2>10. \A d \in Calls, b \in Accounts : Copies(d, x)' /\ Has(b, x)' => b = call'[d].acct
    BY <2>1, <2>2, <2>4, <2>6 DEF KeyInv
  <2>11. \A d \in Calls : x \in Held(call'[d]) /\ Has(call[d].acct, x)' => call'[d].copy.key = x
    <3> SUFFICES ASSUME NEW d \in Calls, x \in Held(call'[d]), Has(call[d].acct, x)'
                 PROVE  call'[d].copy.key = x
      OBVIOUS
    <3>1. call'[d] = call[d] /\ call[d].acct \in Accounts \ {a}
      BY <2>3
    <3>2. Has(call[d].acct, x)
      BY <2>1, <3>1
    <3> QED
      BY <2>4, <3>1, <3>2 DEF KeyInv
  <2>12. ASSUME NEW y \in InUse', y.kind = "address", y.key = x
         PROVE  /\ x \in worn'
                /\ \A b \in Accounts : Has(b, x)' => y.n < account'[b].next
                /\ \A d \in Calls : Copies(d, x)' => y.n < call'[d].copy.next
    <3>1. y \in InUse /\ x # k
      BY <1>9, <2>6, <2>12
    <3>2. /\ x \in worn /\ \A b \in Accounts : Has(b, x) => y.n < account[b].next
          /\ \A d \in Calls : Copies(d, x) => y.n < call[d].copy.next
      BY <2>4, <2>12, <3>1 DEF KeyInv
    <3> QED
      BY <1>5, <1>6, <2>1, <2>2, <3>1, <3>2
  <2> QED
    BY <2>7, <2>8, <2>9, <2>10, <2>11, <2>12 DEF KeyInv
<1> QED
  BY <1>10, <1>11, <1>12, <1>13, <1>14 DEF VaultInv

LEMMA DeleteBeginKeys ==
  ASSUME VaultInv, CallInv, NEW c \in Calls, DeleteBegin(c), Others PROVE VaultInv'
<1>1. PICK a \in Existing : Become(c, [Idle EXCEPT !.op = "delete", !.pc = "store", !.acct = a])
  BY DEF DeleteBegin
<1>2. /\ call'[c] = [Idle EXCEPT !.op = "delete", !.pc = "store", !.acct = a]
      /\ Alone(c) /\ spoiled \subseteq spoiled'
  BY <1>1 DEF Become, CallInv, Alone
<1>3. /\ call'[c].op = "delete" /\ call'[c].pc = "store" /\ call'[c].acct = a /\ call'[c].copy = None
      /\ account[a] # None
  BY <1>2 DEF Idle, Existing
<1>4. UNCHANGED <<account, reached, worn>> /\ InUse' \subseteq InUse \cup {}
  BY <1>2, <1>3, QuietUse DEF DeleteBegin, vaults, Others, invoices, Coded
<1> QED
  BY <1>2, <1>3, <1>4, PlainKeys

LEMMA DeleteStoreKeys ==
  ASSUME VaultInv, CallInv, NEW c \in Calls, DeleteStore(c), Others PROVE VaultInv'
<1>1. /\ account' = [account EXCEPT ![call[c].acct] = None] /\ UNCHANGED <<reached, worn>> /\ End(c)
      /\ UNCHANGED <<invoice, handed>>
  BY DEF DeleteStore, Others, invoices
<1>2. call'[c] = Done(c) /\ Alone(c) /\ spoiled \subseteq spoiled'
  BY <1>1 DEF End, Become, CallInv, Alone
<1>3. call'[c].pc = "done" /\ call'[c].copy = None /\ call'[c].acct = None
  BY <1>2 DEF Done, Idle
<1>4. InUse' \subseteq InUse
  BY <1>1, EndUse
<1>5. /\ \A b \in Accounts : account'[b] \in {None, account[b]}
      /\ account' \in [Accounts -> AccountRecords \cup {None}]
  BY <1>1 DEF VaultInv, VaultTyped
<1>6. VaultTyped'
  BY <1>1, <1>5 DEF VaultInv, VaultTyped
<1>7. HoldTyped'
  BY <1>2, <1>3 DEF VaultInv, HoldTyped, HoldsTyped, Holding, Alone
<1>8. Held(call'[c]) = {}
  BY <1>3, HeldIs DEF Holding
<1>9. SoleInv'
  BY <1>2, <1>8 DEF VaultInv, SoleInv, Alone
<1>10. CreateInv'
  <2> SUFFICES ASSUME NEW d \in Calls, Creates(call'[d])
               PROVE  /\ account'[call'[d].acct] = None
                      /\ \A e \in Calls \ {d} : call'[e].acct # call'[d].acct
    BY DEF CreateInv, Creates
  <2>1. d # c /\ call'[d] = call[d]
    BY <1>2, <1>3 DEF Alone, Creates
  <2>2. /\ account[call[d].acct] = None /\ call[d].acct \in Accounts
        /\ \A e \in Calls \ {d} : call[e].acct # call[d].acct
    BY <2>1 DEF VaultInv, CreateInv, Creates, HoldTyped, HoldsTyped
  <2> QED
    BY <1>2, <1>3, <1>5, <2>1, <2>2, NoneApart DEF Alone
<1>11. KeysInv'
  <2>1. ASSUME NEW b \in Accounts, NEW x, Has(b, x)' PROVE Has(b, x) /\ account'[b] = account[b]
    BY <1>5, <2>1 DEF Has
  <2>2. ASSUME NEW d \in Calls, NEW x, Copies(d, x)' PROVE d # c /\ call'[d] = call[d] /\ Copies(d, x)
    BY <1>2, <1>3, <2>2 DEF Alone, Copies, Holding
  <2>3. ASSUME NEW d \in Calls, NEW x \in Held(call'[d])
        PROVE  d # c /\ call'[d] = call[d] /\ call[d].acct \in Accounts
    BY <1>2, <1>8, <2>3, HeldIs DEF Alone, VaultInv, HoldTyped, HoldsTyped
  <2> SUFFICES ASSUME NEW x \in Keys \ spoiled' PROVE KeyInv(x)'
    BY DEF KeysInv
  <2>4. KeyInv(x)
    BY <1>2 DEF VaultInv, KeysInv
  <2>5. \A b \in Accounts : Has(b, x)' => x \in worn'
    BY <1>1, <2>1, <2>4 DEF KeyInv
  <2>6. \A d \in Calls : Copies(d, x)' => x \in worn'
    BY <1>1, <2>2, <2>4 DEF KeyInv
  <2>7. \A b, e \in Accounts : Has(b, x)' /\ Has(e, x)' => b = e
    BY <2>1, <2>4 DEF KeyInv
  <2>8. \A d \in Calls, b \in Accounts : Copies(d, x)' /\ Has(b, x)' => b = call'[d].acct
    BY <2>1, <2>2, <2>4 DEF KeyInv
  <2>9. \A d \in Calls : x \in Held(call'[d]) /\ Has(call[d].acct, x)' => call'[d].copy.key = x
    BY <2>1, <2>3, <2>4 DEF KeyInv
  <2>10. ASSUME NEW y \in InUse', y.kind = "address", y.key = x
         PROVE  /\ x \in worn'
                /\ \A b \in Accounts : Has(b, x)' => y.n < account'[b].next
                /\ \A d \in Calls : Copies(d, x)' => y.n < call'[d].copy.next
    <3>1. /\ x \in worn /\ \A b \in Accounts : Has(b, x) => y.n < account[b].next
          /\ \A d \in Calls : Copies(d, x) => y.n < call[d].copy.next
      BY <1>4, <2>4, <2>10 DEF KeyInv
    <3> QED
      BY <1>1, <2>1, <2>2, <3>1
  <2> QED
    BY <2>5, <2>6, <2>7, <2>8, <2>9, <2>10 DEF KeyInv
<1> QED
  BY <1>6, <1>7, <1>9, <1>10, <1>11 DEF VaultInv

(* A call that takes a copy: to change the account, to import or to migrate it. *)
LEMMA TakeKeys ==
  ASSUME VaultInv, CallInv, NEW c \in Calls, call[c].pc = "start",
         NEW a \in Accounts, account[a] # None, NEW r, Become(c, r), DOMAIN r = Fields,
         r.copy = account[a], r.acct = a, r.key \in Keys \cup {None},
         \/ r.op = "account" /\ r.pc = "store"
         \/ r.op = "migrate" /\ r.pc = "store" /\ account[a].key = None
         \/ r.pc \in {"sync", "derive"} /\ account[a].key # None,
         UNCHANGED <<vaults, invoice, handed>>
  PROVE  VaultInv'
<1>1. Proper(account[a])
  BY DEF VaultInv, VaultTyped
<1>2. HoldsTyped(r) /\ ~Creates(r)
  BY <1>1 DEF HoldsTyped, Holding, Creates, Proper, AccountRecords
<1>3. call'[c] = r /\ Alone(c) /\ ~Coded(r)
  BY DEF Become, CallInv, Alone, Coded
<1>4. UNCHANGED <<account, reached, worn>> /\ InUse' \subseteq InUse \cup {}
  BY <1>3, QuietUse DEF vaults
<1> QED
  BY <1>2, <1>4, CopyKeys

LEMMA UpdateBeginKeys ==
  ASSUME VaultInv, CallInv, NEW c \in Calls, UpdateBegin(c), Others PROVE VaultInv'
<1>1. PICK a \in Accounts, k \in Keys \cup {None} :
        /\ account[a] # None
        /\ Become(c, [Idle EXCEPT !.op = "account", !.pc = "store", !.user = account[a].owner, !.acct = a,
                                  !.copy = account[a], !.key = k])
  BY DEF UpdateBegin, Existing
<1>2. PICK r : r = [Idle EXCEPT !.op = "account", !.pc = "store", !.user = account[a].owner, !.acct = a,
                                !.copy = account[a], !.key = k]
  OBVIOUS
<1>3. /\ DOMAIN r = Fields /\ r.copy = account[a] /\ r.acct = a /\ r.key = k /\ r.op = "account"
      /\ r.pc = "store"
  BY <1>2 DEF Idle, Fields
<1>4. UNCHANGED <<vaults, invoice, handed>>
  BY DEF UpdateBegin, Others, invoices
<1> QED
  BY <1>1, <1>2, <1>3, <1>4, TakeKeys DEF UpdateBegin

LEMMA ImportBeginKeys ==
  ASSUME VaultInv, CallInv, NEW c \in Calls, ImportBegin(c), Others PROVE VaultInv'
<1>1. PICK a \in Accounts :
        /\ account[a] # None /\ account[a].key # None
        /\ Become(c, [Idle EXCEPT !.op = "import", !.pc = "sync", !.acct = a, !.copy = account[a]])
  BY DEF ImportBegin, Vaulted, Existing
<1>2. PICK r : r = [Idle EXCEPT !.op = "import", !.pc = "sync", !.acct = a, !.copy = account[a]]
  OBVIOUS
<1>3. DOMAIN r = Fields /\ r.copy = account[a] /\ r.acct = a /\ r.key = None /\ r.pc = "sync"
  BY <1>2 DEF Idle, Fields
<1>4. UNCHANGED <<vaults, invoice, handed>>
  BY DEF ImportBegin, Others, invoices
<1> QED
  BY <1>1, <1>2, <1>3, <1>4, TakeKeys DEF ImportBegin

LEMMA MigrateBeginKeys ==
  ASSUME VaultInv, CallInv, NEW c \in Calls, MigrateBegin(c), Others PROVE VaultInv'
<1>1. PICK a \in Accounts :
        /\ account[a] # None /\ account[a].key = None
        /\ Become(c, [Idle EXCEPT !.op = "migrate", !.pc = "store", !.acct = a, !.copy = account[a]])
  BY DEF MigrateBegin, Vaulted, Existing
<1>2. PICK r : r = [Idle EXCEPT !.op = "migrate", !.pc = "store", !.acct = a, !.copy = account[a]]
  OBVIOUS
<1>3. /\ DOMAIN r = Fields /\ r.copy = account[a] /\ r.acct = a /\ r.key = None /\ r.op = "migrate"
      /\ r.pc = "store"
  BY <1>2 DEF Idle, Fields
<1>4. UNCHANGED <<vaults, invoice, handed>>
  BY DEF MigrateBegin, Others, invoices
<1> QED
  BY <1>1, <1>2, <1>3, <1>4, TakeKeys DEF MigrateBegin

LEMMA UseTyped ==
  ASSUME RecordTyped, NEW x \in InUse
  PROVE  x \in Codes /\ (x.kind = "address" => x.key \in Keys /\ x.n \in Nat)
<1>1. x \in Codes
  BY DEF InUse, RecordTyped, InvoiceRecords
<1> QED
  BY <1>1, VaultsAssumption DEF VaultsAssumption, Codes

(* What is stored, by a call that keeps what it stored or ends.  Its key is *)
(* that of the copy, or one that no account has had.                        *)
LEMMA PutsKeys ==
  ASSUME VaultInv, RecordTyped, NEW c \in Calls, Alone(c), Holding(call[c]), NEW new, Proper(new),
         account' = [account EXCEPT ![call[c].acct] = new],
         new.key \in Held(call[c]) \cup {None},
         new.key \in Keys \ spoiled' =>
           new.key \in worn' /\ (Copies(c, new.key) \/ new.key \notin worn),
         HoldsTyped(call'[c]), call'[c].acct \in {None, call[c].acct},
         \/ call'[c].copy = None
         \/ /\ call'[c].copy = new /\ call'[c].acct = call[c].acct
            /\ call'[c].key = None /\ call'[c].pc = "sync" /\ new.desc = call[c].copy.desc,
         ~Creates(call'[c]),
         UNCHANGED reached, worn \subseteq worn', spoiled \subseteq spoiled',
         new.next >= call[c].copy.next \/ ~Copies(c, new.key),
         \A x \in InUse' : x.kind = "address" =>
           x \in InUse \/ (x.key = new.key /\ x.n < new.next)
  PROVE  VaultInv'
<1>1. /\ call[c].acct \in Accounts /\ Proper(call[c].copy)
  BY DEF VaultInv, HoldTyped, HoldsTyped
<1>2. new.next \in Nat /\ call[c].copy.next \in Nat
  BY <1>1, VaultsAssumption DEF VaultsAssumption, Proper, AccountRecords
<1>3. Held(call'[c]) \subseteq Held(call[c])
  BY HeldIs DEF Holding
<1>4. Holding(call'[c]) => call'[c].copy = new /\ call'[c].acct = call[c].acct
  BY DEF Holding
<1>5. new.key \in Keys \ spoiled' =>
        /\ new.key \in worn' /\ \A b \in Accounts : Has(b, new.key) => b = call[c].acct
        /\ \A x \in InUse : x.kind = "address" /\ x.key = new.key =>
             Copies(c, new.key) /\ x.n < call[c].copy.next
  BY CountedKeys
<1>6. ASSUME NEW x \in InUse', x.kind = "address", x.key \notin spoiled'
      PROVE  (x.key # new.key /\ x \in InUse) \/ (x.key = new.key /\ x.n < new.next)
  <2>1. CASE x \in InUse /\ x.key = new.key
    <3>1. x.n \in Nat /\ x.key \in Keys
      BY <1>6, <2>1, UseTyped
    <3> QED
      BY <1>2, <1>5, <1>6, <2>1, <3>1
  <2> QED
    BY <1>6, <2>1
<1> QED
  BY <1>1, <1>3, <1>4, <1>5, <1>6, StoreKeys

LEMMA UpdateStoreKeys ==
  ASSUME VaultInv, RecordTyped, CallInv, NEW c \in Calls, UpdateStore(c), Others PROVE VaultInv'
<1>1. PICK r, new : r = call[c] /\
        new = IF r.key = None THEN r.copy ELSE [r.copy EXCEPT !.key = r.key, !.imported = FALSE]
  OBVIOUS
<1>2. PICK s : s = IF r.key = None THEN Done(c)
                   ELSE [r EXCEPT !.op = "import", !.pc = "sync", !.copy = new, !.key = None]
  OBVIOUS
<1>3. /\ At(c, "account", "store") /\ account' = [account EXCEPT ![r.acct] = new]
      /\ Wear(r.acct, new.key, s, c) /\ UNCHANGED reached
  BY <1>1, <1>2 DEF UpdateStore
<1>4. /\ Holding(r) /\ Proper(r.copy) /\ r.acct \in Accounts /\ r.key \in Keys \cup {None}
  BY <1>1, <1>3 DEF At, VaultInv, HoldTyped, HoldsTyped
<1>5. /\ Proper(new) /\ new.next = r.copy.next /\ new.desc = r.copy.desc
      /\ new.key = IF r.key = None THEN r.copy.key ELSE r.key
  <2>1. CASE r.key = None
    BY <1>1, <1>4, <2>1
  <2>2. CASE r.key # None
    BY <1>1, <1>4, <2>2 DEF Proper, AccountRecords
  <2> QED
    BY <2>1, <2>2
<1>6. /\ call'[c] = s /\ Alone(c) /\ worn \subseteq worn' /\ spoiled \subseteq spoiled'
      /\ new.key \in Keys => new.key \in worn'
      /\ new.key \in Keys \ spoiled' => new.key \notin worn \/ Has(r.acct, new.key)
  BY <1>3, <1>4, NoneApart DEF Wear, CallInv, Alone, Existing, Has
<1>7. /\ ~Coded(s) /\ ~Creates(s) /\ s.acct \in {None, r.acct} /\ HoldsTyped(s)
      /\ \/ s.copy = None
         \/ s.copy = new /\ s.acct = r.acct /\ s.key = None /\ s.pc = "sync"
  <2>1. CASE r.key = None
    <3>1. s.pc = "done" /\ s.copy = None /\ s.acct = None
      BY <1>2, <2>1 DEF Done, Idle
    <3> QED
      BY <3>1 DEF Coded, Creates, HoldsTyped, Holding
  <2>2. CASE r.key # None
    <3>1. /\ s.pc = "sync" /\ s.copy = new /\ s.acct = r.acct /\ s.key = None
          /\ s.op = "import"
      BY <1>1, <1>2, <2>2, DomainOf DEF Fields
    <3>2. new \in AccountRecords /\ new # None /\ new.key \in Keys
      BY <1>4, <1>5, <2>2, NoneApart DEF Proper
    <3> QED
      BY <1>4, <1>5, <3>1, <3>2 DEF Coded, Creates, HoldsTyped, Holding
  <2> QED
    BY <2>1, <2>2
<1>8. new.key \in Held(r) \cup {None}
  BY <1>4, <1>5, HeldIs
<1>9. new.key \in Keys \ spoiled' => Copies(c, new.key) \/ new.key \notin worn
  <2> SUFFICES ASSUME new.key \in Keys \ spoiled', new.key \in worn, r.key # None PROVE Copies(c, new.key)
    BY <1>1, <1>4, <1>5 DEF Copies
  <2>1. Has(r.acct, new.key) /\ new.key \in Held(call[c])
    BY <1>1, <1>6, <1>8, NoneApart
  <2>2. KeyInv(new.key)
    BY <1>6 DEF VaultInv, KeysInv
  <2> QED
    BY <1>1, <1>4, <2>1, <2>2 DEF KeyInv, Copies
<1>10. InUse' \subseteq InUse \cup {}
  BY <1>6, <1>7, QuietUse DEF Others, invoices
<1>11. new.next >= r.copy.next
  BY <1>4, <1>5, VaultsAssumption DEF VaultsAssumption, Proper, AccountRecords
<1> QED
  BY <1>1, <1>3, <1>4, <1>5, <1>6, <1>7, <1>8, <1>9, <1>10, <1>11, PutsKeys

LEMMA ImportStampKeys ==
  ASSUME VaultInv, RecordTyped, CallInv, NEW c \in Calls, ImportStamp(c), Others PROVE VaultInv'
<1>1. PICK r, new : r = call[c] /\ new = [r.copy EXCEPT !.imported = TRUE]
  OBVIOUS
<1>2. /\ At(c, "import", "stamp") /\ End(c) /\ account' = [account EXCEPT ![r.acct] = new]
      /\ UNCHANGED <<reached, worn>>
  BY <1>1 DEF ImportStamp, Copy
<1>3. Holding(r) /\ Proper(r.copy) /\ r.copy.key \in Keys
  BY <1>1, <1>2 DEF At, VaultInv, HoldTyped, HoldsTyped
<1>4. /\ Proper(new) /\ new.next = r.copy.next /\ new.key = r.copy.key
  BY <1>1, <1>3 DEF Proper, AccountRecords
<1>5. call'[c] = Done(c) /\ Alone(c) /\ spoiled \subseteq spoiled'
  BY <1>2 DEF End, Become, CallInv, Alone
<1>6. call'[c].pc = "done" /\ call'[c].copy = None /\ call'[c].acct = None
  BY <1>5 DEF Done, Idle
<1>7. HoldsTyped(call'[c]) /\ ~Creates(call'[c])
  BY <1>6 DEF HoldsTyped, Holding, Creates
<1>8. Copies(c, new.key) /\ new.key \in Held(r)
  BY <1>1, <1>3, <1>4, HeldIs, NoneApart DEF Copies
<1>9. new.key \in Keys \ spoiled' => new.key \in worn
  BY <1>5, <1>8, CountedKeys
<1>10. InUse' \subseteq InUse
  BY <1>2, EndUse DEF Others, invoices
<1>11. new.next >= r.copy.next
  BY <1>3, <1>4, VaultsAssumption DEF VaultsAssumption, Proper, AccountRecords
<1> QED
  BY <1>1, <1>2, <1>3, <1>4, <1>5, <1>6, <1>7, <1>8, <1>9, <1>10, <1>11, PutsKeys

LEMMA ImportSyncKeys ==
  ASSUME VaultInv, RecordTyped, CallInv, NEW c \in Calls, ImportSync(c), Others PROVE VaultInv'
<1>1. PICK r, used, new :
        r = call[c] /\ used = reached[r.copy.key] /\ new = [r.copy EXCEPT !.next = used]
  OBVIOUS
<1>2. /\ At(c, "import", "sync") /\ UNCHANGED <<reached, worn, invoice, handed>>
  BY DEF ImportSync, Others, invoices
<1>3. Holding(r) /\ Proper(r.copy) /\ r.copy.key \in Keys /\ r.acct \in Accounts /\ r.key \in Keys \cup {None}
  BY <1>1, <1>2 DEF At, VaultInv, HoldTyped, HoldsTyped
<1>4. /\ Proper(new) /\ new.next = used /\ new.key = r.copy.key /\ new.desc = r.copy.desc
      /\ new # None
  <2>1. used \in 0..MaxIndex
    BY <1>1, <1>3 DEF VaultInv, VaultTyped
  <2>2. new \in AccountRecords /\ new.next = used /\ new.key = r.copy.key /\ new.desc = r.copy.desc
    BY <1>1, <1>3, <2>1 DEF Proper, AccountRecords
  <2> QED
    BY <1>3, <2>2, NoneApart DEF Proper
<1>5. CASE UNCHANGED account /\ End(c)
  BY <1>2, <1>5, EndUse, EndKeys
<1>6. CASE UNCHANGED account /\ Goto(c, "stamp")
  <2>1. call'[c] = [r EXCEPT !.pc = "stamp"] /\ Alone(c) /\ spoiled \subseteq spoiled'
    BY <1>1, <1>6 DEF Goto, Become, CallInv, Alone
  <2>2. /\ call'[c].pc = "stamp" /\ call'[c].copy = r.copy /\ call'[c].key = r.key
        /\ call'[c].acct = r.acct /\ call'[c].op = "import"
    BY <1>1, <1>2, <2>1, DomainOf DEF Fields, At
  <2>3. HoldsTyped(call'[c]) /\ ~Creates(call'[c])
    BY <1>3, <2>2 DEF HoldsTyped, Holding, Creates
  <2>4. InUse' \subseteq InUse \cup {}
    BY <1>2, <2>1, <2>2, QuietUse DEF Coded
  <2>5. Holding(call[c])
    BY <1>1, <1>3
  <2> QED
    BY <1>1, <1>2, <1>6, <2>1, <2>2, <2>3, <2>4, <2>5, QuietKeys
<1>7. CASE /\ used > r.copy.next /\ account' = [account EXCEPT ![r.acct] = new]
           /\ Become(c, [r EXCEPT !.pc = "stamp", !.copy.next = used])
  <2>1. call'[c] = [r EXCEPT !.pc = "stamp", !.copy.next = used] /\ Alone(c) /\ spoiled \subseteq spoiled'
    BY <1>7 DEF Become, CallInv, Alone
  <2>2. /\ call'[c].pc = "stamp" /\ call'[c].copy = new /\ call'[c].key = r.key
        /\ call'[c].acct = r.acct /\ call'[c].op = "import"
    BY <1>1, <1>2, <2>1, DomainOf DEF Fields, At
  <2>3. HoldsTyped(call'[c]) /\ ~Creates(call'[c])
    BY <1>3, <1>4, <2>2 DEF HoldsTyped, Holding, Creates
  <2>4. Copies(c, new.key) /\ new.key \in Held(r)
    BY <1>1, <1>3, <1>4, HeldIs, NoneApart DEF Copies
  <2>5. new.key \in Keys \ spoiled' => new.key \in worn
    BY <2>1, <2>4, CountedKeys
  <2>6. InUse' \subseteq InUse \cup {}
    BY <1>2, <2>1, <2>2, QuietUse DEF Coded
  <2>7. new.next >= r.copy.next
    BY <1>3, <1>4, <1>7, VaultsAssumption DEF VaultsAssumption, Proper, AccountRecords
  <2>8. Holding(call'[c]) /\ Held(call'[c]) \subseteq Held(call[c])
    <3>1. Holding(call'[c])
      BY <1>4, <2>2 DEF Holding
    <3>2. /\ Held(call'[c]) = {new.key, new.desc, r.key} \ {None}
          /\ Held(call[c]) = {r.copy.key, r.copy.desc, r.key} \ {None}
      BY <1>1, <1>3, <2>2, <3>1, HeldIs
    <3> QED
      BY <1>4, <3>1, <3>2
  <2>9. \A x \in InUse' : x.kind = "address" /\ x.key \notin spoiled' =>
          \/ x.key # new.key /\ x \in InUse
          \/ x.key = new.key /\ x.n < new.next
    <3> SUFFICES ASSUME NEW x \in InUse, x.kind = "address", x.key = new.key, x.key \notin spoiled'
                 PROVE  x.n < new.next
      BY <2>6
    <3>1. x.n < r.copy.next /\ x.n \in Nat
      BY <1>1, <1>3, <1>4, <2>1, <2>4, CountedKeys, UseTyped
    <3> QED
      BY <1>3, <1>4, <2>7, <3>1, VaultsAssumption DEF VaultsAssumption, Proper, AccountRecords
  <2>10. new.key \in Keys \ spoiled' => \A b \in Accounts : Has(b, new.key) => b = r.acct
    BY <1>1, <2>1, <2>4, CountedKeys
  <2> QED
    BY <1>1, <1>2, <1>3, <1>4, <1>7, <2>1, <2>2, <2>3, <2>4, <2>5, <2>8, <2>9, <2>10, StoreKeys
<1> QED
  BY <1>1, <1>5, <1>6, <1>7 DEF ImportSync

LEMMA MigrateStoreKeys ==
  ASSUME VaultInv, RecordTyped, CallInv, NEW c \in Calls, MigrateStore(c), Others PROVE VaultInv'
<1>1. PICK r : r = call[c]
  OBVIOUS
<1>2. PICK next \in {reached[r.copy.desc], r.copy.next} :
        account' = [account EXCEPT ![r.acct] = [r.copy EXCEPT !.key = r.copy.desc, !.next = next]]
  BY <1>1 DEF MigrateStore
<1>3. PICK new : new = [r.copy EXCEPT !.key = r.copy.desc, !.next = next]
  OBVIOUS
<1>4. /\ At(c, "migrate", "store") /\ Wear(r.acct, r.copy.desc, Done(c), c) /\ UNCHANGED reached
  BY <1>1 DEF MigrateStore
<1>5. /\ Holding(r) /\ Proper(r.copy) /\ r.acct \in Accounts /\ r.copy.key = None
      /\ r.copy.desc \in Keys
  BY <1>1, <1>4, NoneApart DEF At, VaultInv, HoldTyped, HoldsTyped, Proper
<1>6. Proper(new) /\ new.key = r.copy.desc
  <2>1. next \in 0..MaxIndex
    BY <1>5 DEF VaultInv, VaultTyped, Proper, AccountRecords
  <2> QED
    BY <1>3, <1>5, <2>1 DEF Proper, AccountRecords
<1>7. /\ call'[c] = Done(c) /\ Alone(c) /\ worn \subseteq worn' /\ spoiled \subseteq spoiled'
      /\ new.key \in worn'
      /\ new.key \in Keys \ spoiled' => new.key \notin worn \/ Has(r.acct, new.key)
  BY <1>4, <1>5, <1>6, NoneApart DEF Wear, CallInv, Alone, Existing, Has
<1>8. call'[c].pc = "done" /\ call'[c].copy = None /\ call'[c].acct = None
  BY <1>7 DEF Done, Idle
<1>9. HoldsTyped(call'[c]) /\ ~Creates(call'[c])
  BY <1>8 DEF HoldsTyped, Holding, Creates
<1>10. new.key \in Held(r) /\ ~Copies(c, new.key)
  BY <1>1, <1>5, <1>6, HeldIs, NoneApart DEF Copies
<1>11. new.key \in Keys \ spoiled' => new.key \notin worn
  <2> SUFFICES ASSUME new.key \in Keys \ spoiled', Has(r.acct, new.key) PROVE FALSE
    BY <1>7
  <2>1. KeyInv(new.key)
    BY <1>7 DEF VaultInv, KeysInv
  <2> QED
    BY <1>1, <1>5, <1>10, <2>1 DEF KeyInv, Copies
<1>12. InUse' \subseteq InUse \cup {}
  BY <1>7, <1>8, QuietUse DEF Others, invoices, Coded
<1> QED
  BY <1>1, <1>2, <1>3, <1>4, <1>5, <1>6, <1>7, <1>8, <1>9, <1>10, <1>11, <1>12, PutsKeys

(* Calls that make an invoice *)

LEMMA MakingKeys ==
  ASSUME VaultInv, CallInv, NEW c \in Calls, call[c].pc = "start", NEW r0, DOMAIN r0 = Fields,
         r0.copy = None, r0.key = None, r0.acct = None, NEW u, NEW a, NEW asks, asks \subseteq {"mint", "offer"},
         NEW r \in Making(r0, u, a, asks), Become(c, r), UNCHANGED <<vaults, invoice, handed>>
  PROVE  VaultInv'
<1>1. CASE r = [r0 EXCEPT !.pc = "derive", !.user = u, !.acct = a, !.copy = account[a]] /\ a \in Vaulted
  <2>1. a \in Accounts /\ account[a] # None /\ account[a].key # None
    BY <1>1 DEF Vaulted, Existing
  <2>2. DOMAIN r = Fields /\ r.copy = account[a] /\ r.acct = a /\ r.key = None /\ r.pc = "derive"
    BY <1>1 DEF Fields
  <2> QED
    BY <2>1, <2>2, TakeKeys
<1>2. CASE r.pc \in {"mint", "offer", "done"} /\ r.copy = None /\ r.acct = None
  <2>1. call'[c] = r /\ Alone(c) /\ spoiled \subseteq spoiled'
    BY DEF Become, CallInv, Alone
  <2>2. UNCHANGED <<account, reached, worn>> /\ InUse' \subseteq InUse \cup {}
    BY <1>2, <2>1, QuietUse DEF vaults, Coded
  <2> QED
    BY <1>2, <2>1, <2>2, PlainKeys
<1>3. ASSUME NEW ask \in asks, r = [r0 EXCEPT !.pc = ask, !.user = u]
      PROVE  r.pc \in {"mint", "offer", "done"} /\ r.copy = None /\ r.acct = None
  BY <1>3 DEF Fields
<1>4. ASSUME r = [Idle EXCEPT !.op = r0.op, !.pc = "done"]
      PROVE  r.pc \in {"mint", "offer", "done"} /\ r.copy = None /\ r.acct = None
  BY <1>4 DEF Idle
<1> QED
  BY <1>1, <1>2, <1>3, <1>4 DEF Making

LEMMA GenBeginKeys ==
  ASSUME VaultInv, CallInv, NEW c \in Calls, GenBegin(c) PROVE VaultInv'
<1>0. PICK u \in Users, a \in Accounts \cup {None}, n \in Naming(c) :
        /\ Name(c, n)
        /\ \E r \in Making([Idle EXCEPT !.op = "generate", !.id = n.id, !.over = n.over], u, a,
                           {"mint", "offer"}) : Become(c, r)
  BY DEF GenBegin
<1>1. PICK r0 : r0 = [Idle EXCEPT !.op = "generate", !.id = n.id, !.over = n.over]
  OBVIOUS
<1>2. \E r \in Making(r0, u, a, {"mint", "offer"}) : Become(c, r)
  BY <1>0, <1>1
<1>3. DOMAIN r0 = Fields /\ r0.copy = None /\ r0.key = None /\ r0.acct = None
  BY <1>1 DEF Idle, Fields
<1>4. call[c].pc = "start" /\ UNCHANGED <<vaults, invoice, handed>>
  BY <1>0 DEF GenBegin, Name
<1> QED
  BY <1>2, <1>3, <1>4, MakingKeys

LEMMA PutBeginKeys ==
  ASSUME VaultInv, CallInv, NEW c \in Calls, PutBegin(c) PROVE VaultInv'
<1>1. PICK i \in Calls :
        \E r \in Making([Idle EXCEPT !.op = "put", !.id = invoice[i].id, !.of = i],
                        invoice[i].owner, invoice[i].acct,
                        IF invoice[i].code.kind = "offer" THEN {"offer"} ELSE {"mint"}) : Become(c, r)
  BY DEF PutBegin
<1>2. PICK r0, asks :
        /\ r0 = [Idle EXCEPT !.op = "put", !.id = invoice[i].id, !.of = i]
        /\ asks = IF invoice[i].code.kind = "offer" THEN {"offer"} ELSE {"mint"}
  OBVIOUS
<1>3. DOMAIN r0 = Fields /\ r0.copy = None /\ r0.key = None /\ r0.acct = None /\ asks \subseteq {"mint", "offer"}
  BY <1>2 DEF Idle, Fields
<1>4. call[c].pc = "start" /\ UNCHANGED <<vaults, invoice, handed>>
  BY DEF PutBegin, invoices
<1> QED
  BY <1>1, <1>2, <1>3, <1>4, MakingKeys

LEMMA StandingBeginKeys ==
  ASSUME VaultInv, RecordTyped, CallInv, NEW c \in Calls, StandingBegin(c) PROVE VaultInv'
<1>1. PICK u \in Users :
        IF standing[u] # None /\ invoice[standing[u]] # None
          THEN /\ Become(c, [Done(c) EXCEPT !.op = "standing"])
               /\ Hand(invoice[standing[u]], u, standing[u])
          ELSE /\ Become(c, [Idle EXCEPT !.op = "standing", !.pc = "offer", !.user = u, !.id = c])
               /\ UNCHANGED handed
  BY DEF StandingBegin
<1>2. UNCHANGED <<account, reached, worn, invoice>>
  BY DEF StandingBegin, vaults
<1>3. CASE standing[u] # None /\ invoice[standing[u]] # None
  <2>1. /\ call'[c] = [Done(c) EXCEPT !.op = "standing"] /\ Alone(c) /\ spoiled \subseteq spoiled'
        /\ Hand(invoice[standing[u]], u, standing[u])
    BY <1>1, <1>3 DEF Become, CallInv, Alone
  <2>2. call'[c].pc = "done" /\ call'[c].copy = None /\ call'[c].acct = None
    BY <2>1 DEF Done, Idle
  <2>3. invoice[standing[u]].code \in InUse
    BY <1>3, InUseOf DEF RecordTyped
  <2>4. \A x \in handed' : x.code \in InUse
    BY <2>1, <2>3, InUseOf DEF Hand
  <2>5. InUse' \subseteq InUse \cup {}
    BY <1>2, <2>1, <2>2, <2>4, InUseOf, UseStays DEF Coded
  <2> QED
    BY <1>2, <2>1, <2>2, <2>5, PlainKeys
<1>4. CASE ~(standing[u] # None /\ invoice[standing[u]] # None)
  <2>1. /\ call'[c] = [Idle EXCEPT !.op = "standing", !.pc = "offer", !.user = u, !.id = c]
        /\ Alone(c) /\ spoiled \subseteq spoiled' /\ UNCHANGED handed
    BY <1>1, <1>4 DEF Become, CallInv, Alone
  <2>2. call'[c].pc = "offer" /\ call'[c].copy = None /\ call'[c].acct = None
    BY <2>1 DEF Idle
  <2>3. InUse' \subseteq InUse \cup {}
    BY <1>2, <2>1, <2>2, QuietUse DEF Coded
  <2> QED
    BY <1>2, <2>1, <2>2, <2>3, PlainKeys
<1> QED
  BY <1>3, <1>4

(* The address that a call takes has been counted in what it stores. *)
LEMMA GenDeriveKeys ==
  ASSUME VaultInv, RecordTyped, CallInv, NEW c \in Calls, GenDerive(c) PROVE VaultInv'
<1>1. PICK r, new, code :
        /\ r = call[c] /\ new = [r.copy EXCEPT !.next = @ + 1]
        /\ code = [kind |-> "address", key |-> r.copy.key, n |-> r.copy.next]
  OBVIOUS
<1>2. /\ r.pc = "derive" /\ r.copy.next < MaxIndex /\ account' = [account EXCEPT ![r.acct] = new]
      /\ Become(c, [r EXCEPT !.pc = "point", !.copy = None, !.code = code])
      /\ UNCHANGED <<reached, worn, invoice, handed>>
  BY <1>1 DEF GenDerive, invoices
<1>3. Holding(r) /\ Proper(r.copy) /\ r.copy.key \in Keys
  BY <1>1, <1>2 DEF VaultInv, HoldTyped, HoldsTyped
<1>4. Proper(new) /\ new.key = r.copy.key /\ new.next = r.copy.next + 1 /\ r.copy.next \in Nat
  <2>1. r.copy \in AccountRecords /\ r.copy.next \in Nat /\ r.copy.next + 1 \in 0..MaxIndex
    BY <1>2, <1>3, VaultsAssumption DEF VaultsAssumption, Proper, AccountRecords
  <2>2. new \in AccountRecords /\ new.key = r.copy.key /\ new.next = r.copy.next + 1
    BY <1>1, <2>1 DEF AccountRecords
  <2> QED
    BY <1>3, <2>1, <2>2 DEF Proper
<1>5. /\ call'[c] = [r EXCEPT !.pc = "point", !.copy = None, !.code = code] /\ Alone(c)
      /\ spoiled \subseteq spoiled'
  BY <1>2 DEF Become, CallInv, Alone
<1>6. call'[c].pc = "point" /\ call'[c].copy = None /\ call'[c].acct = r.acct /\ call'[c].code = code
  BY <1>1, <1>5, DomainOf DEF Fields
<1>7. HoldsTyped(call'[c]) /\ ~Creates(call'[c])
  BY <1>6 DEF HoldsTyped, Holding, Creates
<1>8. Copies(c, new.key) /\ new.key \in Held(r)
  BY <1>1, <1>3, <1>4, HeldIs, NoneApart DEF Copies
<1>9. new.key \in Keys \ spoiled' => new.key \in worn
  BY <1>5, <1>8, CountedKeys
<1>10. InUse' \subseteq InUse \cup {code}
  BY <1>2, <1>5, <1>6, QuietUse
<1>11. code.key = new.key /\ code.n < new.next /\ new.next >= r.copy.next
  BY <1>1, <1>4
<1> QED
  BY <1>1, <1>2, <1>3, <1>4, <1>5, <1>6, <1>7, <1>8, <1>9, <1>10, <1>11, PutsKeys, ZenonT(60)

LEMMA GenMintKeys ==
  ASSUME VaultInv, CallInv, NEW c \in Calls, GenMint(c) PROVE VaultInv'
<1>1. call[c].pc = "mint" /\ UNCHANGED <<account, reached, worn, invoice, handed>>
  BY DEF GenMint, vaults, invoices
<1>2. ASSUME NEW h \in Hashes,
             Become(c, [call[c] EXCEPT !.pc = "point", !.code = [kind |-> "minted", key |-> h, n |-> 0]])
      PROVE  VaultInv'
  <2>1. PICK code : code = [kind |-> "minted", key |-> h, n |-> 0]
    OBVIOUS
  <2>2. /\ call'[c] = [call[c] EXCEPT !.pc = "point", !.code = code] /\ Alone(c)
        /\ spoiled \subseteq spoiled'
    BY <1>2, <2>1 DEF Become, CallInv, Alone
  <2>3. /\ call'[c].pc = "point" /\ call'[c].code = code /\ call'[c].copy = call[c].copy
        /\ call'[c].key = call[c].key /\ call'[c].acct = call[c].acct
    BY <2>2, DomainOf DEF Fields
  <2>4. InUse' \subseteq InUse \cup {code}
    BY <1>1, <2>2, <2>3, QuietUse
  <2>5. code.kind # "address"
    BY <2>1
  <2> QED
    BY <1>1, <2>2, <2>3, <2>4, <2>5, PlainKeys
<1>3. CASE End(c)
  BY <1>1, <1>3, EndUse, EndKeys
<1> QED
  BY <1>2, <1>3 DEF GenMint

LEMMA GenOfferKeys ==
  ASSUME VaultInv, RecordTyped, CallInv, NEW c \in Calls, GenOffer(c) PROVE VaultInv'
<1>1. call[c].pc = "offer" /\ UNCHANGED <<account, reached, worn>>
  BY DEF GenOffer, vaults
<1>2. PICK code, i :
        /\ code.kind = "offer"
        /\ \/ /\ call' = [call EXCEPT ![c] = [call[c] EXCEPT !.pc = "point", !.code = code]]
              /\ spoiled \subseteq spoiled' /\ UNCHANGED <<invoice, handed>>
           \/ End(c) /\ UNCHANGED <<invoice, handed>>
           \/ End(c) /\ i \in Calls /\ invoice[i] # None /\ Return(c, invoice[i])
  <2>1. PICK o \in Offers :
       LET code == [kind |-> "offer", key |-> o, n |-> 0]
           i    == ptr[code]
       IN  IF i = None \/ invoice[i] = None
             THEN /\ call' = [call EXCEPT ![c] = [call[c] EXCEPT !.pc = "point", !.code = code]]
                  /\ spoiled' = spoiled \cup {x \in {o} : Offering(o) # {}}
                  /\ UNCHANGED <<invoice, standing, handed>>
           ELSE IF invoice[i].owner # call[c].user
             THEN End(c) /\ UNCHANGED <<invoice, standing, handed>>
           ELSE End(c) /\ Return(c, invoice[i])
    BY DEF GenOffer
  <2>2. PICK code : code = [kind |-> "offer", key |-> o, n |-> 0]
    OBVIOUS
  <2>3. code \in Codes /\ code.kind = "offer"
    BY <2>2 DEF Codes
  <2>4. ptr[code] \in Calls \cup {None}
    BY <2>3 DEF RecordTyped
  <2> QED
    BY <2>1, <2>2, <2>3, <2>4
<1>3. CASE call' = [call EXCEPT ![c] = [call[c] EXCEPT !.pc = "point", !.code = code]]
           /\ spoiled \subseteq spoiled' /\ UNCHANGED <<invoice, handed>>
  <2>1. call'[c] = [call[c] EXCEPT !.pc = "point", !.code = code] /\ Alone(c)
    BY <1>3 DEF CallInv, Alone
  <2>2. /\ call'[c].pc = "point" /\ call'[c].code = code /\ call'[c].copy = call[c].copy
        /\ call'[c].key = call[c].key /\ call'[c].acct = call[c].acct
    BY <2>1, DomainOf DEF Fields
  <2>3. InUse' \subseteq InUse \cup {code}
    BY <1>3, <2>1, <2>2, QuietUse
  <2> QED
    BY <1>1, <1>2, <1>3, <2>1, <2>2, <2>3, PlainKeys
<1>4. CASE End(c) /\ UNCHANGED <<invoice, handed>>
  BY <1>1, <1>4, EndUse, EndKeys
<1>5. CASE End(c) /\ i \in Calls /\ invoice[i] # None /\ Return(c, invoice[i])
  <2>1. invoice[i].code \in InUse
    BY <1>5, InUseOf
  <2>2. InUse' \subseteq InUse
    BY <1>5, <2>1, DoneIs, ReturnUse DEF Coded
  <2> QED
    BY <1>1, <1>5, <2>2, EndKeys
<1> QED
  BY <1>2, <1>3, <1>4, <1>5

LEMMA GenPointKeys ==
  ASSUME VaultInv, CallInv, NEW c \in Calls, GenPoint(c) PROVE VaultInv'
<1>1. /\ call[c].pc = "point" /\ Goto(c, "record") /\ UNCHANGED <<account, reached, worn, invoice, handed>>
  BY DEF GenPoint, vaults
<1>2. call'[c] = [call[c] EXCEPT !.pc = "record"] /\ Alone(c)
  BY <1>1 DEF Goto, Become, CallInv, Alone
<1>3. call'[c].code = call[c].code
  BY <1>2, DomainOf DEF Fields
<1>4. InUse' \subseteq InUse \cup {}
  BY <1>1, <1>2, <1>3, InUseOf, QuietUse DEF Coded
<1> QED
  BY <1>1, <1>4, GotoKeys

LEMMA GenRecordKeys ==
  ASSUME VaultInv, RecordTyped, CallInv, NEW c \in Calls, GenRecord(c) PROVE VaultInv'
<1>1. /\ call[c].pc = "record" /\ Goto(c, "hand") /\ UNCHANGED <<account, reached, worn, handed>>
      /\ invoice' = [invoice EXCEPT ![call[c].id] = Record(c)]
  BY DEF GenRecord, vaults
<1>2. call'[c] = [call[c] EXCEPT !.pc = "hand"] /\ Alone(c)
  BY <1>1 DEF Goto, Become, CallInv, Alone
<1>3. call'[c].code = call[c].code /\ call[c].code \in InUse /\ Record(c).code = call[c].code
  BY <1>1, <1>2, DomainOf, InUseOf DEF Fields, Coded, Record
<1>4. \A i \in Calls : invoice'[i] # None => invoice'[i].code \in InUse
  BY <1>1, <1>3, InUseOf DEF RecordTyped
<1>5. InUse' \subseteq InUse \cup {}
  BY <1>1, <1>2, <1>3, <1>4, InUseOf, UseStays
<1> QED
  BY <1>1, <1>5, GotoKeys

LEMMA GenHandKeys ==
  ASSUME VaultInv, RecordTyped, CallInv, NEW c \in Calls, GenHand(c) PROVE VaultInv'
<1>1. /\ call[c].pc = "hand" /\ End(c) /\ Return(c, Record(c)) /\ UNCHANGED <<account, reached, worn>>
  BY DEF GenHand, vaults
<1>2. Record(c).code \in InUse
  BY <1>1, InUseOf DEF Coded, Record
<1>3. InUse' \subseteq InUse
  BY <1>1, <1>2, DoneIs, ReturnUse DEF Coded
<1> QED
  BY <1>1, <1>3, EndKeys

(* Sales, and the start of the server *)

LEMMA SaleKeys ==
  ASSUME VaultInv, SaleInv, NEW c \in Calls,
         \/ AddBegin(c) \/ AddPush(c)
         \/ SellBegin(c) \/ SellPop(c) \/ SellInvoice(c) \/ SellReturn(c) \/ SellKeep(c)
  PROVE  VaultInv'
<1>0. CallInv
  BY DEF SaleInv
<1>1. UNCHANGED <<account, reached, worn, invoice, handed>>
  BY DEF AddBegin, AddPush, SellBegin, SellPop, SellInvoice, SellReturn, SellKeep, Name, elsewhere, vaults, invoices
<1>2. CASE End(c)
  BY <1>0, <1>1, <1>2, EndUse, EndKeys
<1>3. CASE AddBegin(c)
  <2>1. PICK p \in Secrets : Become(c, [Idle EXCEPT !.op = "add", !.pc = "push", !.secret = p])
    BY <1>3 DEF AddBegin
  <2>2. /\ call'[c].pc = "push" /\ call'[c].copy = None /\ call'[c].acct = None /\ Alone(c)
        /\ spoiled \subseteq spoiled'
    BY <1>0, <2>1 DEF Become, CallInv, Idle, Alone
  <2>3. InUse' \subseteq InUse \cup {}
    BY <1>1, <2>2, QuietUse DEF Coded
  <2> QED
    BY <1>1, <2>2, <2>3, PlainKeys
<1>4. CASE SellBegin(c)
  <2>1. PICK n : Become(c, [Idle EXCEPT !.op = "sell", !.pc = "pop", !.user = Merchant, !.id = n.id,
                                       !.over = n.over])
    BY <1>4 DEF SellBegin
  <2>2. /\ call'[c].pc = "pop" /\ call'[c].copy = None /\ call'[c].acct = None /\ Alone(c)
        /\ spoiled \subseteq spoiled'
    BY <1>0, <2>1 DEF Become, CallInv, Idle, Alone
  <2>3. InUse' \subseteq InUse \cup {}
    BY <1>1, <2>2, QuietUse DEF Coded
  <2> QED
    BY <1>1, <2>2, <2>3, PlainKeys
<1>5. ASSUME call[c].pc \in {"pop", "invoice"}, NEW r, Become(c, r), r.pc \in {"invoice", "keep", "pop", "return"},
             r.copy = call[c].copy, r.key = call[c].key, r.acct = call[c].acct
      PROVE  VaultInv'
  <2>1. call'[c] = r /\ Alone(c) /\ spoiled \subseteq spoiled'
    BY <1>0, <1>5 DEF Become, CallInv, Alone
  <2>2. InUse' \subseteq InUse \cup {}
    BY <1>1, <1>5, <2>1, QuietUse DEF Coded
  <2> QED
    BY <1>1, <1>5, <2>1, <2>2, PlainKeys
<1>6. CASE SellPop(c)
  <2> SUFFICES ASSUME Become(c, [call[c] EXCEPT !.pc = "invoice", !.secret = Head(queue)]) PROVE VaultInv'
    BY <1>2, <1>6 DEF SellPop
  <2>1. PICK r : r = [call[c] EXCEPT !.pc = "invoice", !.secret = Head(queue)]
    OBVIOUS
  <2>2. /\ r.pc = "invoice" /\ r.copy = call[c].copy /\ r.key = call[c].key /\ r.acct = call[c].acct
    BY <1>0, <2>1, DomainOf DEF Fields
  <2>3. call[c].pc = "pop"
    BY <1>6 DEF SellPop, At
  <2> QED
    BY <1>5, <2>1, <2>2, <2>3
<1>7. CASE SellInvoice(c)
  <2>1. PICK x \in {"keep", "pop", "return"} : Goto(c, x)
    BY <1>7 DEF SellInvoice
  <2>2. PICK r : r = [call[c] EXCEPT !.pc = x]
    OBVIOUS
  <2>3. /\ r.pc = x /\ r.copy = call[c].copy /\ r.key = call[c].key /\ r.acct = call[c].acct
    BY <1>0, <2>2, DomainOf DEF Fields
  <2>4. call[c].pc = "invoice" /\ Become(c, r)
    BY <1>7, <2>1, <2>2 DEF SellInvoice, At, Goto
  <2> QED
    BY <1>5, <2>1, <2>3, <2>4
<1>8. CASE SellKeep(c)
  <2>1. PICK code : code = [kind |-> "minted", key |-> call[c].secret, n |-> 0]
    OBVIOUS
  <2>2. /\ call[c].pc = "keep" /\ call'[c] = [call[c] EXCEPT !.pc = "point", !.secret = None, !.code = code]
        /\ Alone(c) /\ spoiled \subseteq spoiled'
    BY <1>0, <1>8, <2>1 DEF SellKeep, At, Become, CallInv, Alone
  <2>3. /\ call'[c].pc = "point" /\ call'[c].code = code /\ call'[c].copy = call[c].copy
        /\ call'[c].key = call[c].key /\ call'[c].acct = call[c].acct
    BY <1>0, <2>2, DomainOf DEF Fields
  <2>4. InUse' \subseteq InUse \cup {code}
    BY <1>1, <2>2, <2>3, QuietUse
  <2>5. code.kind # "address"
    BY <2>1
  <2> QED
    BY <1>1, <2>2, <2>3, <2>4, <2>5, PlainKeys
<1> QED
  BY <1>2, <1>3, <1>4, <1>6, <1>7, <1>8 DEF AddPush, SellReturn

LEMMA RestartKeys ==
  ASSUME VaultInv, CallInv, Restart PROVE VaultInv'
<1>1. /\ \A d \in Calls : call'[d] = IF d \in Active THEN Done(d) ELSE call[d]
      /\ UNCHANGED <<account, reached, worn, invoice, handed, spoiled>>
  BY DEF Restart, elsewhere, vaults, invoices
<1>2. ASSUME NEW d \in Calls PROVE call'[d].pc \in {"start", "done"}
  BY <1>1, DoneFields DEF Active
<1>3. InUse' \subseteq InUse
  BY <1>1, <1>2 DEF InUse, Coded
<1>4. VaultTyped'
  BY <1>1 DEF VaultInv, VaultTyped
<1>5. HoldTyped' /\ CreateInv'
  BY <1>2 DEF HoldTyped, HoldsTyped, Holding, CreateInv
<1>6. \A d \in Calls : Held(call'[d]) = {}
  BY <1>2, HeldIs DEF Holding
<1>7. SoleInv'
  BY <1>6 DEF SoleInv
<1>8. KeysInv'
  <2> SUFFICES ASSUME NEW k \in Keys \ spoiled' PROVE KeyInv(k)'
    BY DEF KeysInv
  <2>1. KeyInv(k)
    BY <1>1 DEF VaultInv, KeysInv
  <2>2. \A d \in Calls : ~Copies(d, k)'
    BY <1>2 DEF Copies, Holding
  <2>3. \A b : Has(b, k)' <=> Has(b, k)
    BY <1>1 DEF Has
  <2> QED
    BY <1>1, <1>3, <1>6, <2>1, <2>2, <2>3 DEF KeyInv
<1> QED
  BY <1>4, <1>5, <1>7, <1>8 DEF VaultInv

LEMMA VaultNext ==
  ASSUME VaultInv, MadeInv, SaleInv, [Next]_vars PROVE VaultInv'
<1>0. CallInv /\ RecordTyped
  BY DEF SaleInv, MadeInv, RecordInv
<1>1. CASE VaultsNext /\ Others
  <2>1. ASSUME NEW k \in Keys, Reach(k) PROVE VaultInv'
    <3>1. reached' \in [Keys -> 0..MaxIndex]
      BY <2>1, VaultsAssumption DEF VaultsAssumption, Reach, VaultInv, VaultTyped
    <3> QED
      BY <1>1, <2>1, <3>1, SameKeys DEF Reach, Others, invoices
  <2> QED
    BY <1>0, <1>1, <2>1, CreateBeginKeys, CreateStoreKeys, UpdateBeginKeys, UpdateStoreKeys, DeleteBeginKeys,
       DeleteStoreKeys, ImportBeginKeys, ImportSyncKeys, ImportStampKeys, MigrateBeginKeys, MigrateStoreKeys
       DEF VaultsNext
<1>2. CASE InvoicesNext
  BY <1>0, <1>2, GenBeginKeys, PutBeginKeys, StandingBeginKeys, GenDeriveKeys, GenMintKeys, GenOfferKeys,
     GenPointKeys, GenRecordKeys, GenHandKeys DEF InvoicesNext
<1>3. CASE UNCHANGED <<account, reached, worn, call, spoiled, invoice, handed>>
  BY <1>3, SameKeys DEF VaultInv, VaultTyped
<1>4. CASE PreimagesNext
  <2>1. CASE Clear \/ \E p \in Secrets : SettleSale(p) \/ Expire(p)
    BY <1>3, <2>1 DEF Clear, SettleSale, Expire, elsewhere, vaults, invoices
  <2> QED
    BY <1>0, <1>4, <2>1, SaleKeys, RestartKeys DEF PreimagesNext
<1>5. CASE UNCHANGED vars
  BY <1>3, <1>5 DEF vars, vaults, invoices
<1> QED
  BY <1>1, <1>2, <1>4, <1>5 DEF Next, Others

LEMMA CodesInit ==
  Init => CodesInv
<1> SUFFICES ASSUME Init PROVE CodesInv
  OBVIOUS
<1>1. /\ \A c \in Calls : call[c] = Idle
      /\ invoice = [i \in Calls |-> None] /\ ptr = [x \in Codes |-> None]
      /\ standing = [u \in Users |-> None] /\ handed = {} /\ named = {} /\ worn = {} /\ seen = {}
      /\ reached \in [Keys -> {0, 1}]
  BY DEF Init, VaultsInit, InvoicesInit
<1>2. Idle.pc = "start" /\ Idle.copy = None /\ Idle.op = None
  BY DEF Idle
<1>3. InUse = {}
  BY <1>1, <1>2 DEF InUse, Coded
<1>4. PICK u \in Users, a \in Accounts, k \in Keys :
        account = [b \in Accounts |->
                     IF b = a THEN [owner |-> u, key |-> None, next |-> 0, imported |-> FALSE, desc |-> k]
                     ELSE None]
  BY DEF Init, VaultsInit
<1>5. PICK r : r = [owner |-> u, key |-> None, next |-> 0, imported |-> FALSE, desc |-> k]
  OBVIOUS
<1>6. Proper(r) /\ r.key = None
  <2>1. 0 \in 0..MaxIndex
    BY VaultsAssumption DEF VaultsAssumption
  <2> QED
    BY <1>5, <2>1 DEF Proper, AccountRecords
<1>7. account = [b \in Accounts |-> IF b = a THEN r ELSE None]
  BY <1>4, <1>5
<1>8. VaultTyped
  <2>1. reached \in [Keys -> 0..MaxIndex]
    <3>1. {0, 1} \subseteq 0..MaxIndex
      BY VaultsAssumption DEF VaultsAssumption
    <3> QED
      BY <1>1, <3>1
  <2> QED
    BY <1>6, <1>7, <2>1 DEF VaultTyped, Proper
<1>9. HoldTyped /\ CreateInv
  BY <1>1, <1>2 DEF HoldTyped, HoldsTyped, Holding, CreateInv
<1>10. SoleInv
  BY <1>1, <1>2, HeldIs DEF SoleInv, Holding
<1>11. KeysInv
  <2> SUFFICES ASSUME NEW x \in Keys PROVE KeyInv(x)
    BY DEF KeysInv
  <2>1. \A c \in Calls : ~Copies(c, x)
    BY <1>1, <1>2 DEF Copies, Holding
  <2>2. \A b \in Accounts : ~Has(b, x)
    BY <1>6, <1>7, NoneApart DEF Has
  <2>3. \A c \in Calls : Held(call[c]) = {}
    BY <1>1, <1>2, HeldIs DEF Holding
  <2> QED
    BY <1>3, <2>1, <2>2, <2>3 DEF KeyInv
<1>12. RecordInv
  BY <1>1, <1>2 DEF RecordInv, RecordTyped, BackInv, OwnInv, Busy, Coded
<1>13. SeenOnce /\ LeadInv /\ FreshInv
  BY <1>1, <1>2, <1>3 DEF SeenOnce, LeadInv, FreshInv
<1> QED
  BY <1>8, <1>9, <1>10, <1>11, <1>12, <1>13 DEF CodesInv, VaultInv, MadeInv

(* The sets that no other part of the invariant bounds. *)
SetsTyped == listed \subseteq Accounts /\ worn \subseteq Keys /\ seen \subseteq Hashes /\ DOMAIN call = Calls

LEMMA VaultsSets ==
  ASSUME VaultInv, SetsTyped, VaultsNext PROVE listed' \subseteq Accounts /\ worn' \subseteq Keys
<1>1. ASSUME NEW c \in Calls, CreateStore(c) PROVE listed' \subseteq Accounts /\ worn' \subseteq Keys
  <2>1. call[c].acct \in Accounts /\ call[c].key \in Keys
    BY <1>1 DEF CreateStore, At, VaultInv, HoldTyped, HoldsTyped
  <2> QED
    BY <1>1, <2>1 DEF CreateStore, Wear, SetsTyped
<1>2. ASSUME NEW c \in Calls, UpdateStore(c) PROVE listed' \subseteq Accounts /\ worn' \subseteq Keys
  <2>1. /\ Proper(call[c].copy) /\ call[c].key \in Keys \cup {None}
    BY <1>2 DEF UpdateStore, At, VaultInv, HoldTyped, HoldsTyped
  <2>2. PICK new, s : /\ new = IF call[c].key = None THEN call[c].copy
                                 ELSE [call[c].copy EXCEPT !.key = call[c].key, !.imported = FALSE]
                      /\ Wear(call[c].acct, new.key, s, c)
    BY <1>2 DEF UpdateStore
  <2>3. new.key \in Keys \cup {None}
    BY <2>1, <2>2 DEF Proper, AccountRecords
  <2> QED
    BY <1>2, <2>2, <2>3 DEF UpdateStore, Wear, SetsTyped
<1>3. ASSUME NEW c \in Calls, MigrateStore(c) PROVE listed' \subseteq Accounts /\ worn' \subseteq Keys
  <2>1. Proper(call[c].copy)
    BY <1>3 DEF MigrateStore, At, VaultInv, HoldTyped, HoldsTyped
  <2>2. call[c].copy.desc \in Keys \cup {None}
    BY <2>1 DEF Proper, AccountRecords
  <2> QED
    BY <1>3, <2>2 DEF MigrateStore, Wear, SetsTyped
<1> QED
  BY <1>1, <1>2, <1>3 DEF VaultsNext, CreateBegin, UpdateBegin, DeleteBegin, DeleteStore, ImportBegin, ImportSync,
     ImportStamp, MigrateBegin, Reach, vaults, SetsTyped

LEMMA SetsNext ==
  ASSUME VaultInv, MadeInv, SaleInv, SetsTyped, [Next]_vars PROVE SetsTyped'
<1>1. DOMAIN call' = Calls
  <2>1. CallInv'
    BY SaleNext DEF SaleInv
  <2> QED
    BY <2>1 DEF CallInv
<1>2. CASE VaultsNext /\ UNCHANGED seen
  BY <1>1, <1>2, VaultsSets DEF SetsTyped
<1>3. CASE InvoicesNext
  <2>1. UNCHANGED <<listed, worn>>
    BY <1>3 DEF InvoicesNext, GenBegin, PutBegin, StandingBegin, GenDerive, GenMint, GenOffer, GenPoint, GenRecord,
       GenHand, Name, vaults
  <2>2. seen' \subseteq Hashes
    BY <1>3 DEF SetsTyped, InvoicesNext, GenBegin, PutBegin, StandingBegin, GenDerive, GenMint, GenOffer, GenPoint,
       GenRecord, GenHand
  <2> QED
    BY <1>1, <2>1, <2>2 DEF SetsTyped
<1>4. CASE PreimagesNext
  <2>1. UNCHANGED <<listed, worn>>
    BY <1>4 DEF PreimagesNext, AddBegin, AddPush, SellBegin, SellPop, SellInvoice, SellReturn, SellKeep, SettleSale,
       Expire, Clear, Restart, Name, elsewhere, vaults
  <2>2. ASSUME NEW c \in Calls, SellInvoice(c) PROVE seen' \subseteq Hashes
    <3>1. call[c].secret \in Hashes
      BY <2>2, InvoicesAssumption DEF InvoicesAssumption, SellInvoice, At, Sells, SaleInv, SecretInv
    <3> QED
      BY <2>2, <3>1 DEF SellInvoice, SetsTyped
  <2>3. seen' \subseteq Hashes
    BY <1>4, <2>2 DEF SetsTyped, PreimagesNext, AddBegin, AddPush, SellBegin, SellPop, SellReturn, SellKeep, SettleSale,
       Expire, Clear, Restart
  <2> QED
    BY <1>1, <2>1, <2>3 DEF SetsTyped
<1>5. CASE UNCHANGED vars
  BY <1>5 DEF vars, vaults, SetsTyped
<1> QED
  BY <1>2, <1>3, <1>4, <1>5 DEF Next

-----------------------------------------------------------------------------
(* Results *)

(* Whatever calls, buyers, expiries and restarts come together, a preimage of  *)
(* a merchant is queued, in a sale, behind an invoice or was given up for a    *)
(* reason: PreimagesKept, of generate() with usePreimage and its give-backs.   *)
THEOREM SalesKeep == Spec => []PreimagesKept
<1>1. SaleInv => PreimagesKept
  BY DEF SaleInv, KeptInv, PreimagesKept, Carried, InHand, Sells, Active
<1> QED
  BY SaleInit, SaleNext, <1>1, PTL DEF Spec

(* What a payer pays to leads to an invoice of the user it was made for, and  *)
(* the address of a vault to the very invoice, unless two calls held the      *)
(* record of the vault or asked for the same offer at once, or two accounts   *)
(* had the key, or a caller gave its invoice the code, or the id of the       *)
(* invoice, for an id: generate() of invoices.ts beside the handlers of       *)
(* accounts.ts.                                                               *)
THEOREM CodesLeadHome == Spec => []CodesLead
<1>1. Init => SaleInv /\ CodesInv
  BY SaleInit, CodesInit
<1>2. SaleInv /\ CodesInv /\ [Next]_vars => SaleInv' /\ CodesInv'
  BY SaleNext, VaultNext, MadeNext DEF CodesInv
<1>3. CodesInv => CodesLead
  BY DEF CodesInv, MadeInv, LeadInv, Leads, Told, Clean, Recorded, CodesLead
<1> QED
  BY <1>1, <1>2, <1>3, PTL DEF Spec

(* Accounts, invoices and pointers keep their types under every interleaving: *)
(* the index of an account stays among the addresses of its key, and a        *)
(* pointer leads to an invoice's id (Vaults and Invoices).                    *)
THEOREM TypesHold == Spec => [](VaultsTypeOK /\ InvoicesTypeOK)
<1>1. Init => SaleInv /\ CodesInv /\ SetsTyped
  <2>1. Init => SetsTyped
    BY DEF Init, VaultsInit, Existing, SetsTyped
  <2> QED
    BY SaleInit, CodesInit, <2>1
<1>2. SaleInv /\ CodesInv /\ SetsTyped /\ [Next]_vars => SaleInv' /\ CodesInv' /\ SetsTyped'
  BY SaleNext, VaultNext, MadeNext, SetsNext DEF CodesInv
<1>3. CodesInv /\ SetsTyped => VaultsTypeOK /\ InvoicesTypeOK
  BY DEF CodesInv, VaultInv, VaultTyped, MadeInv, RecordInv, RecordTyped, SetsTyped, VaultsTypeOK, InvoicesTypeOK
<1> QED
  BY <1>1, <1>2, <1>3, PTL DEF Spec
=============================================================================
