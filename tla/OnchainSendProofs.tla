----------------------------- MODULE OnchainSendProofs -----------------------------
(***************************************************************************)
(* Theorems about OnchainSend, for any number of sends, transactions,      *)
(* coins, bumps, restarts and locks that run out.                          *)
(***************************************************************************)
EXTENDS OnchainSend, TLAPS

(* Types, and what a local or a record holds at each label. *)
NodeTyped ==
  /\ vault \in BOOLEAN /\ balance \in Nat
  /\ coinOf \in [Txs -> Coins \cup {None}] /\ locked \subseteq Coins
  /\ receipts \subseteq Txs /\ mempool \subseteq Txs /\ mined \subseteq Txs
  /\ \A t \in receipts : coinOf[t] # None

RedisTyped ==
  /\ sendlock \in [Txs -> Sends \cup {None}] /\ record \in [Txs -> Sends \cup {None}]
  /\ payment \in [Sends -> Payment \cup {None}] /\ outgoing \subseteq Sends
  /\ \A s \in outgoing : payment[s] # None

LocalsTyped ==
  /\ pc \in [Sends -> Labels] /\ tx \in [Sends -> Txs \cup {None}]
  /\ key \in [Sends -> Txs \cup {None}] /\ reserved \in [Sends -> BOOLEAN]
  /\ \A s \in Sends :
       /\ pc[s] \in {"start", "done"} <=> tx[s] = None
       /\ tx[s] # None => coinOf[tx[s]] # None
       /\ pc[s] \in {"start", "done", "lock", "sendlock"} <=> key[s] = None
       /\ key[s] # None => coinOf[key[s]] # None
       /\ pc[s] = "check" => tx[s] = key[s]
       /\ pc[s] \in {"broadcast", "finish"} => payment[s] # None

OthersTyped ==
  /\ bump \in [at : {"idle", "read", "store", "charge"}, send : Sends \cup {None},
               old : Txs \cup {None}, new : Txs \cup {None}]
  /\ bump.at # "idle" => ~vault /\ bump.send # None /\ bump.old # None
  /\ bump.at \in {"store", "charge"} => bump.new # None /\ paysFor[bump.old] # None
  /\ look \in [send : Sends \cup {None}, hash : Txs \cup {None}]
  /\ look.send # None => look.hash # None

HistoryTyped ==
  /\ paysFor \in [Txs -> Sends \cup {None}] /\ debited \in [Sends -> Txs \cup {None}]
  /\ sent \subseteq Sends /\ rebuilt \subseteq Sends /\ stripped \subseteq Txs
  /\ forgot \in BOOLEAN /\ {mishaps, bumps} \subseteq Nat
  /\ \A t \in mempool : paysFor[t] # None
  /\ \A s \in Sends :
       /\ debited[s] # None => coinOf[debited[s]] # None
       /\ pc[s] \in {"start", "lock", "sendlock", "check", "debit"} => debited[s] = None
       /\ pc[s] \in {"record", "broadcast", "finish"} => debited[s] = tx[s]

TypeInv == NodeTyped /\ RedisTyped /\ LocalsTyped /\ OthersTyped /\ HistoryTyped

-----------------------------------------------------------------------------
(* Types *)

(* A record of a payment has its type, and is one. *)
LEMMA PaymentTyped ==
  ASSUME NEW t \in Txs, NEW b \in BOOLEAN PROVE [hash |-> t, confirmed |-> b] \in Payment \ {None}
BY OnchainSendAssumption DEF OnchainSendAssumption, Payment

(* Every step keeps the types. *)
LEMMA TypeNext == ASSUME TypeInv, [Next]_vars PROVE TypeInv'
<1> USE OnchainSendAssumption DEF OnchainSendAssumption, TypeInv, NodeTyped, RedisTyped,
      LocalsTyped, OthersTyped, HistoryTyped, Labels, Payment, Idle, Goto, chain, redis, locals,
      others, history, bounds, Rivals
<1>1. ASSUME NEW s \in Sends, Build(s) PROVE TypeInv'
  <2>1. NodeTyped'
    BY <1>1 DEF Build, Selects
  <2>2. RedisTyped'
    BY <1>1 DEF Build, Selects
  <2>3. LocalsTyped'
    BY <1>1 DEF Build, Selects
  <2>4. OthersTyped'
    BY <1>1 DEF Build, Selects
  <2>5. HistoryTyped'
    BY <1>1 DEF Build, Selects
  <2> QED
    BY <2>1, <2>2, <2>3, <2>4, <2>5
<1>2. ASSUME NEW s \in Sends, Submit(s) PROVE TypeInv'
  <2>1. NodeTyped'
    BY <1>2 DEF Submit
  <2>2. RedisTyped'
    BY <1>2 DEF Submit
  <2>3. LocalsTyped'
    BY <1>2 DEF Submit
  <2>4. OthersTyped'
    BY <1>2 DEF Submit
  <2>5. HistoryTyped'
    BY <1>2 DEF Submit
  <2> QED
    BY <2>1, <2>2, <2>3, <2>4, <2>5
<1>3. ASSUME NEW s \in Sends, Lock(s) PROVE TypeInv'
  <2>1. NodeTyped'
    BY <1>3 DEF Lock, Leave, Coin
  <2>2. RedisTyped'
    BY <1>3 DEF Lock, Leave, Coin
  <2>3. LocalsTyped'
    <3>1. CASE Coin(s) \in locked \cup Spent
      <4>1. /\ pc' = [pc EXCEPT ![s] = "done"] /\ tx' = [tx EXCEPT ![s] = None]
            /\ key' = [key EXCEPT ![s] = None] /\ reserved' = [reserved EXCEPT ![s] = FALSE]
            /\ UNCHANGED <<coinOf, payment>>
        BY <1>3, <3>1 DEF Lock, Leave
      <4> QED
        BY <4>1
    <3>2. CASE Coin(s) \notin locked \cup Spent
      <4>1. pc' = [pc EXCEPT ![s] = "sendlock"] /\ reserved' = [reserved EXCEPT ![s] = TRUE]
            /\ UNCHANGED <<tx, key, coinOf, payment>> /\ pc[s] = "lock"
        BY <1>3, <3>2 DEF Lock
      <4> QED
        BY <4>1
    <3> QED
      BY <3>1, <3>2
  <2>4. OthersTyped'
    BY <1>3 DEF Lock, Leave, Coin
  <2>5. HistoryTyped'
    BY <1>3 DEF Lock, Leave, Coin
  <2> QED
    BY <2>1, <2>2, <2>3, <2>4, <2>5
<1>4. ASSUME NEW s \in Sends, SendLock(s) PROVE TypeInv'
  <2>1. NodeTyped'
    BY <1>4 DEF SendLock
  <2>2. RedisTyped'
    BY <1>4 DEF SendLock
  <2>3. LocalsTyped'
    BY <1>4 DEF SendLock
  <2>4. OthersTyped'
    BY <1>4 DEF SendLock
  <2>5. HistoryTyped'
    BY <1>4 DEF SendLock
  <2> QED
    BY <2>1, <2>2, <2>3, <2>4, <2>5
<1>5. ASSUME NEW s \in Sends, Check(s) PROVE TypeInv'
  <2>1. NodeTyped'
    BY <1>5 DEF Check
  <2>2. RedisTyped'
    BY <1>5 DEF Check
  <2>3. LocalsTyped'
    BY <1>5 DEF Check
  <2>4. OthersTyped'
    BY <1>5 DEF Check
  <2>5. HistoryTyped'
    BY <1>5 DEF Check
  <2> QED
    BY <2>1, <2>2, <2>3, <2>4, <2>5
<1>6. ASSUME NEW s \in Sends, Rebuild(s) PROVE TypeInv'
  <2>1. NodeTyped'
    BY <1>6 DEF Rebuild, Selects
  <2>2. RedisTyped'
    BY <1>6 DEF Rebuild, Selects
  <2>3. LocalsTyped'
    BY <1>6 DEF Rebuild, Selects
  <2>4. OthersTyped'
    BY <1>6 DEF Rebuild, Selects
  <2>5. HistoryTyped'
    BY <1>6 DEF Rebuild, Selects
  <2> QED
    BY <2>1, <2>2, <2>3, <2>4, <2>5
<1>7. ASSUME NEW s \in Sends, Debit(s) PROVE TypeInv'
  <2>1. NodeTyped'
    BY <1>7 DEF Debit
  <2>2. RedisTyped'
    BY <1>7 DEF Debit
  <2>3. LocalsTyped'
    BY <1>7 DEF Debit
  <2>4. OthersTyped'
    BY <1>7 DEF Debit
  <2>5. HistoryTyped'
    BY <1>7 DEF Debit
  <2> QED
    BY <2>1, <2>2, <2>3, <2>4, <2>5
<1>8. ASSUME NEW s \in Sends, Record(s) PROVE TypeInv'
  <2>1. NodeTyped'
    BY <1>8 DEF Record
  <2>2. RedisTyped'
    <3>a. tx[s] \in Txs /\ pc[s] = "record"
      BY <1>8 DEF Record
    <3>1. [hash |-> tx[s], confirmed |-> FALSE] \in Payment \ {None}
      BY <3>a, PaymentTyped
    <3>2. payment' = [payment EXCEPT ![s] = [hash |-> tx[s], confirmed |-> FALSE]]
          /\ record' = [record EXCEPT ![tx[s]] = s] /\ UNCHANGED <<sendlock, outgoing>>
      BY <1>8 DEF Record
    <3> QED
      BY <3>1, <3>2
  <2>3. LocalsTyped'
    <3>a. tx[s] \in Txs /\ pc[s] = "record"
      BY <1>8 DEF Record
    <3>1. [hash |-> tx[s], confirmed |-> FALSE] \in Payment \ {None}
      BY <3>a, PaymentTyped
    <3>2. payment' = [payment EXCEPT ![s] = [hash |-> tx[s], confirmed |-> FALSE]]
          /\ pc' = [pc EXCEPT ![s] = "broadcast"] /\ pc[s] = "record"
          /\ UNCHANGED <<tx, key, reserved, coinOf>>
      BY <1>8 DEF Record
    <3> QED
      BY <3>1, <3>2
  <2>4. OthersTyped'
    BY <1>8 DEF Record
  <2>5. HistoryTyped'
    BY <1>8 DEF Record
  <2> QED
    BY <2>1, <2>2, <2>3, <2>4, <2>5
<1>9. ASSUME NEW s \in Sends, Broadcast(s) PROVE TypeInv'
  <2>1. NodeTyped'
    BY <1>9 DEF Broadcast
  <2>2. RedisTyped'
    BY <1>9 DEF Broadcast
  <2>3. LocalsTyped'
    BY <1>9 DEF Broadcast
  <2>4. OthersTyped'
    BY <1>9 DEF Broadcast
  <2>5. HistoryTyped'
    BY <1>9 DEF Broadcast
  <2> QED
    BY <2>1, <2>2, <2>3, <2>4, <2>5
<1>10. ASSUME NEW s \in Sends, BroadcastFails(s) PROVE TypeInv'
  <2>1. NodeTyped'
    BY <1>10 DEF BroadcastFails
  <2>2. RedisTyped'
    BY <1>10 DEF BroadcastFails
  <2>3. LocalsTyped'
    BY <1>10 DEF BroadcastFails
  <2>4. OthersTyped'
    BY <1>10 DEF BroadcastFails
  <2>5. HistoryTyped'
    BY <1>10 DEF BroadcastFails
  <2> QED
    BY <2>1, <2>2, <2>3, <2>4, <2>5
<1>11. ASSUME NEW s \in Sends, Finish(s) PROVE TypeInv'
  <2>1. NodeTyped'
    BY <1>11 DEF Finish, Leave
  <2>2. RedisTyped'
    BY <1>11 DEF Finish, Leave
  <2>3. LocalsTyped'
    BY <1>11 DEF Finish, Leave
  <2>4. OthersTyped'
    BY <1>11 DEF Finish, Leave
  <2>5. HistoryTyped'
    BY <1>11 DEF Finish, Leave
  <2> QED
    BY <2>1, <2>2, <2>3, <2>4, <2>5
<1>12. ASSUME NEW s \in Sends, Release(s) PROVE TypeInv'
  <2>1. NodeTyped'
    BY <1>12 DEF Release, Leave
  <2>2. RedisTyped'
    BY <1>12 DEF Release, Leave
  <2>3. LocalsTyped'
    BY <1>12 DEF Release, Leave
  <2>4. OthersTyped'
    BY <1>12 DEF Release, Leave
  <2>5. HistoryTyped'
    BY <1>12 DEF Release, Leave
  <2> QED
    BY <2>1, <2>2, <2>3, <2>4, <2>5
<1>13. ASSUME NEW s \in Sends, Retry(s) PROVE TypeInv'
  <2>1. NodeTyped'
    BY <1>13 DEF Retry
  <2>2. RedisTyped'
    BY <1>13 DEF Retry
  <2>3. LocalsTyped'
    BY <1>13 DEF Retry
  <2>4. OthersTyped'
    BY <1>13 DEF Retry
  <2>5. HistoryTyped'
    BY <1>13 DEF Retry
  <2> QED
    BY <2>1, <2>2, <2>3, <2>4, <2>5
<1>14. ASSUME NEW t \in Txs, Mine(t) PROVE TypeInv'
  <2>1. NodeTyped'
    BY <1>14 DEF Mine
  <2>2. RedisTyped'
    BY <1>14 DEF Mine
  <2>3. LocalsTyped'
    BY <1>14 DEF Mine
  <2>4. OthersTyped'
    BY <1>14 DEF Mine
  <2>5. HistoryTyped'
    BY <1>14 DEF Mine
  <2> QED
    BY <2>1, <2>2, <2>3, <2>4, <2>5
<1>15. ASSUME NEW t \in Txs, Expire(t) PROVE TypeInv'
  <2>1. NodeTyped'
    BY <1>15 DEF Expire
  <2>2. RedisTyped'
    BY <1>15 DEF Expire
  <2>3. LocalsTyped'
    BY <1>15 DEF Expire
  <2>4. OthersTyped'
    BY <1>15 DEF Expire
  <2>5. HistoryTyped'
    BY <1>15 DEF Expire
  <2> QED
    BY <2>1, <2>2, <2>3, <2>4, <2>5
<1>16. ASSUME Fee PROVE TypeInv'
  <2>1. NodeTyped'
    BY <1>16 DEF Fee, Selects
  <2>2. RedisTyped'
    BY <1>16 DEF Fee, Selects
  <2>3. LocalsTyped'
    BY <1>16 DEF Fee, Selects
  <2>4. OthersTyped'
    BY <1>16 DEF Fee, Selects
  <2>5. HistoryTyped'
    BY <1>16 DEF Fee, Selects
  <2> QED
    BY <2>1, <2>2, <2>3, <2>4, <2>5
<1>17. ASSUME BumpRead PROVE TypeInv'
  <2>1. NodeTyped'
    BY <1>17 DEF BumpRead
  <2>2. RedisTyped'
    BY <1>17 DEF BumpRead
  <2>3. LocalsTyped'
    BY <1>17 DEF BumpRead
  <2>4. OthersTyped'
    BY <1>17 DEF BumpRead
  <2>5. HistoryTyped'
    BY <1>17 DEF BumpRead
  <2> QED
    BY <2>1, <2>2, <2>3, <2>4, <2>5
<1>18. ASSUME BumpFee PROVE TypeInv'
  <2>1. NodeTyped'
    BY <1>18 DEF BumpFee
  <2>2. RedisTyped'
    BY <1>18 DEF BumpFee
  <2>3. LocalsTyped'
    BY <1>18 DEF BumpFee
  <2>4. OthersTyped'
    <3>1. PICK t \in Txs : /\ paysFor' = [paysFor EXCEPT ![t] = bump.send]
                           /\ bump' = [bump EXCEPT !.at = "store", !.new = t]
      BY <1>18 DEF BumpFee
    <3>2. bump'.at = "store" /\ bump'.send = bump.send /\ bump'.old = bump.old /\ bump'.new = t
      BY <3>1
    <3>3. bump' \in [at : {"idle", "read", "store", "charge"}, send : Sends \cup {None},
                    old : Txs \cup {None}, new : Txs \cup {None}]
      BY <3>1
    <3>4. bump.at = "read" /\ bump.old \in mempool /\ UNCHANGED <<vault, look>>
      BY <1>18 DEF BumpFee
    <3> QED
      BY <3>1, <3>2, <3>3, <3>4
  <2>5. HistoryTyped'
    BY <1>18 DEF BumpFee
  <2> QED
    BY <2>1, <2>2, <2>3, <2>4, <2>5
<1>19. ASSUME BumpRefused PROVE TypeInv'
  <2>1. NodeTyped'
    BY <1>19 DEF BumpRefused
  <2>2. RedisTyped'
    BY <1>19 DEF BumpRefused
  <2>3. LocalsTyped'
    BY <1>19 DEF BumpRefused
  <2>4. OthersTyped'
    BY <1>19 DEF BumpRefused
  <2>5. HistoryTyped'
    BY <1>19 DEF BumpRefused
  <2> QED
    BY <2>1, <2>2, <2>3, <2>4, <2>5
<1>20. ASSUME BumpStore PROVE TypeInv'
  <2>1. NodeTyped'
    BY <1>20 DEF BumpStore
  <2>2. RedisTyped'
    <3>a. bump.send \in Sends /\ bump.new \in Txs /\ bump.old \in Txs
      BY <1>20 DEF BumpStore
    <3>1. [hash |-> bump.new, confirmed |-> FALSE] \in Payment \ {None}
      BY <3>a, PaymentTyped
    <3>2. payment' = [payment EXCEPT ![bump.send] = [hash |-> bump.new, confirmed |-> FALSE]]
          /\ record' = [record EXCEPT ![bump.new] = bump.send, ![bump.old] = None]
          /\ bump.send \in Sends /\ UNCHANGED <<sendlock, outgoing>>
      BY <1>20 DEF BumpStore
    <3> QED
      BY <3>a, <3>1, <3>2
  <2>3. LocalsTyped'
    <3>a. bump.send \in Sends /\ bump.new \in Txs /\ bump.old \in Txs
      BY <1>20 DEF BumpStore
    <3>1. [hash |-> bump.new, confirmed |-> FALSE] \in Payment \ {None}
      BY <3>a, PaymentTyped
    <3>2. \A r \in Sends : payment[r] # None => payment'[r] # None
      BY <1>20, <3>1 DEF BumpStore
    <3>3. UNCHANGED <<pc, tx, key, reserved, coinOf>>
      BY <1>20 DEF BumpStore
    <3>4. LocalsTyped
      OBVIOUS
    <3> QED
      BY <3>2, <3>3, <3>4 DEF LocalsTyped
  <2>4. OthersTyped'
    BY <1>20 DEF BumpStore
  <2>5. HistoryTyped'
    BY <1>20 DEF BumpStore
  <2> QED
    BY <2>1, <2>2, <2>3, <2>4, <2>5
<1>21. ASSUME BumpCharge PROVE TypeInv'
  <2>1. NodeTyped'
    BY <1>21 DEF BumpCharge
  <2>2. RedisTyped'
    BY <1>21 DEF BumpCharge
  <2>3. LocalsTyped'
    BY <1>21 DEF BumpCharge
  <2>4. OthersTyped'
    BY <1>21 DEF BumpCharge
  <2>5. HistoryTyped'
    BY <1>21 DEF BumpCharge
  <2> QED
    BY <2>1, <2>2, <2>3, <2>4, <2>5
<1>22. ASSUME LookRead PROVE TypeInv'
  <2>1. NodeTyped'
    BY <1>22 DEF LookRead
  <2>2. RedisTyped'
    BY <1>22 DEF LookRead
  <2>3. LocalsTyped'
    BY <1>22 DEF LookRead
  <2>4. OthersTyped'
    BY <1>22 DEF LookRead
  <2>5. HistoryTyped'
    BY <1>22 DEF LookRead
  <2> QED
    BY <2>1, <2>2, <2>3, <2>4, <2>5
<1>23. ASSUME LookWrite PROVE TypeInv'
  <2>1. NodeTyped'
    BY <1>23 DEF LookWrite
  <2>2. RedisTyped'
    <3>a. look.send \in Sends /\ look.hash \in Txs
      BY <1>23 DEF LookWrite
    <3>1. [hash |-> look.hash, confirmed |-> TRUE] \in Payment \ {None}
      BY <3>a, PaymentTyped
    <3>2. payment' \in {payment, [payment EXCEPT ![look.send] = [hash |-> look.hash, confirmed |-> TRUE]]}
          /\ look.send \in Sends /\ UNCHANGED <<sendlock, record>> /\ outgoing' \subseteq outgoing
      BY <1>23 DEF LookWrite
    <3> QED
      <4>1. CASE payment' = payment
        BY <4>1, <3>2
      <4>2. CASE payment' = [payment EXCEPT ![look.send] = [hash |-> look.hash, confirmed |-> TRUE]]
        BY <4>2, <3>a, <3>1, <3>2
      <4> QED
        BY <4>1, <4>2, <3>2
  <2>3. LocalsTyped'
    <3>a. look.send \in Sends /\ look.hash \in Txs
      BY <1>23 DEF LookWrite
    <3>1. [hash |-> look.hash, confirmed |-> TRUE] \in Payment \ {None}
      BY <3>a, PaymentTyped
    <3>2. \A r \in Sends : payment[r] # None => payment'[r] # None
      BY <1>23, <3>1 DEF LookWrite
    <3>3. UNCHANGED <<pc, tx, key, reserved, coinOf>>
      BY <1>23 DEF LookWrite
    <3>4. LocalsTyped
      OBVIOUS
    <3> QED
      BY <3>2, <3>3, <3>4 DEF LocalsTyped
  <2>4. OthersTyped'
    BY <1>23 DEF LookWrite
  <2>5. HistoryTyped'
    BY <1>23 DEF LookWrite
  <2> QED
    BY <2>1, <2>2, <2>3, <2>4, <2>5
<1>24. ASSUME NodeRestarts PROVE TypeInv'
  <2>1. NodeTyped'
    BY <1>24 DEF NodeRestarts
  <2>2. RedisTyped'
    BY <1>24 DEF NodeRestarts
  <2>3. LocalsTyped'
    BY <1>24 DEF NodeRestarts
  <2>4. OthersTyped'
    BY <1>24 DEF NodeRestarts
  <2>5. HistoryTyped'
    BY <1>24 DEF NodeRestarts
  <2> QED
    BY <2>1, <2>2, <2>3, <2>4, <2>5
<1>25. ASSUME Crash PROVE TypeInv'
  <2>1. NodeTyped'
    BY <1>25 DEF Crash
  <2>2. RedisTyped'
    BY <1>25 DEF Crash
  <2>3. LocalsTyped'
    BY <1>25 DEF Crash
  <2>4. OthersTyped'
    BY <1>25 DEF Crash
  <2>5. HistoryTyped'
    BY <1>25 DEF Crash
  <2> QED
    BY <2>1, <2>2, <2>3, <2>4, <2>5
<1>26. CASE UNCHANGED vars
  BY <1>26 DEF vars
<1> QED
  BY <1>1, <1>2, <1>3, <1>4, <1>5, <1>6, <1>7, <1>8, <1>9, <1>10, <1>11, <1>12, <1>13, <1>14,
     <1>15, <1>16, <1>17, <1>18, <1>19, <1>20, <1>21, <1>22, <1>23, <1>24, <1>25, <1>26 DEF
     Next, Send

(* Types, and what goes with the labels, in every reachable state. *)
LEMMA TypeInvHolds == Spec => []TypeInv
<1>1. ASSUME Init PROVE TypeInv
  <2> USE <1>1, OnchainSendAssumption DEF OnchainSendAssumption, Init
  <2>1. NodeTyped
    BY DEF NodeTyped
  <2>2. RedisTyped
    BY DEF RedisTyped
  <2>3. LocalsTyped
    BY DEF LocalsTyped, Labels
  <2>4. OthersTyped
    BY DEF OthersTyped, Idle
  <2>5. HistoryTyped
    <3>1. /\ paysFor \in [Txs -> Sends \cup {None}] /\ debited \in [Sends -> Txs \cup {None}]
          /\ \A s \in Sends : debited[s] = None /\ pc[s] = "start"
      OBVIOUS
    <3>2. /\ sent = {} /\ rebuilt = {} /\ stripped = {} /\ mempool = {}
          /\ forgot = FALSE /\ mishaps = 0 /\ bumps = 0
      OBVIOUS
    <3> QED
      <4>1. {mishaps, bumps} \subseteq Nat
        BY <3>2
      <4> QED
        BY <3>1, <3>2, <4>1 DEF HistoryTyped
  <2> QED
    BY <2>1, <2>2, <2>3, <2>4, <2>5 DEF TypeInv
<1> QED
  BY <1>1, TypeNext, PTL DEF Spec

(* Every variable has its type in every reachable state. *)
THEOREM TypeCorrect == Spec => []TypeOK
<1>1. TypeInv => TypeOK
  BY DEF TypeInv, NodeTyped, RedisTyped, LocalsTyped, OthersTyped, HistoryTyped, TypeOK
<1> QED
  BY <1>1, TypeInvHolds, PTL

-----------------------------------------------------------------------------
(* Confirmations *)

(* No copy that the poll or a bump writes back shows a payment as confirmed *)
(* by a transaction that is not mined.                                      *)
LEMMA ConfirmedNext == ASSUME TypeInv, ConfirmedIsMined, [Next]_vars PROVE ConfirmedIsMined'
<1> USE OnchainSendAssumption DEF OnchainSendAssumption, TypeInv, NodeTyped, RedisTyped,
      LocalsTyped, OthersTyped, ConfirmedIsMined, Payment, Idle, Goto, chain, redis, locals,
      others, history, bounds
<1>1. ASSUME NEW s \in Sends, Build(s) PROVE ConfirmedIsMined'
  BY <1>1 DEF Build, Selects
<1>2. ASSUME NEW s \in Sends, Submit(s) PROVE ConfirmedIsMined'
  BY <1>2 DEF Submit
<1>3. ASSUME NEW s \in Sends, Lock(s) PROVE ConfirmedIsMined'
  BY <1>3 DEF Lock, Leave, Coin
<1>4. ASSUME NEW s \in Sends, SendLock(s) PROVE ConfirmedIsMined'
  BY <1>4 DEF SendLock
<1>5. ASSUME NEW s \in Sends, Check(s) PROVE ConfirmedIsMined'
  BY <1>5 DEF Check
<1>6. ASSUME NEW s \in Sends, Rebuild(s) PROVE ConfirmedIsMined'
  BY <1>6 DEF Rebuild, Selects
<1>7. ASSUME NEW s \in Sends, Debit(s) PROVE ConfirmedIsMined'
  BY <1>7 DEF Debit
<1>8. ASSUME NEW s \in Sends, Record(s) PROVE ConfirmedIsMined'
  BY <1>8 DEF Record
<1>9. ASSUME NEW s \in Sends, Broadcast(s) PROVE ConfirmedIsMined'
  BY <1>9 DEF Broadcast
<1>10. ASSUME NEW s \in Sends, BroadcastFails(s) PROVE ConfirmedIsMined'
  BY <1>10 DEF BroadcastFails
<1>11. ASSUME NEW s \in Sends, Finish(s) PROVE ConfirmedIsMined'
  BY <1>11 DEF Finish, Leave
<1>12. ASSUME NEW s \in Sends, Release(s) PROVE ConfirmedIsMined'
  BY <1>12 DEF Release, Leave
<1>13. ASSUME NEW s \in Sends, Retry(s) PROVE ConfirmedIsMined'
  BY <1>13 DEF Retry
<1>14. ASSUME NEW t \in Txs, Mine(t) PROVE ConfirmedIsMined'
  BY <1>14 DEF Mine
<1>15. ASSUME NEW t \in Txs, Expire(t) PROVE ConfirmedIsMined'
  BY <1>15 DEF Expire
<1>16. ASSUME Fee PROVE ConfirmedIsMined'
  BY <1>16 DEF Fee, Selects
<1>17. ASSUME BumpRead PROVE ConfirmedIsMined'
  BY <1>17 DEF BumpRead
<1>18. ASSUME BumpFee PROVE ConfirmedIsMined'
  BY <1>18 DEF BumpFee
<1>19. ASSUME BumpRefused PROVE ConfirmedIsMined'
  BY <1>19 DEF BumpRefused
<1>20. ASSUME BumpStore PROVE ConfirmedIsMined'
  BY <1>20 DEF BumpStore
<1>21. ASSUME BumpCharge PROVE ConfirmedIsMined'
  BY <1>21 DEF BumpCharge
<1>22. ASSUME LookRead PROVE ConfirmedIsMined'
  BY <1>22 DEF LookRead
<1>23. ASSUME LookWrite PROVE ConfirmedIsMined'
  BY <1>23 DEF LookWrite
<1>24. ASSUME NodeRestarts PROVE ConfirmedIsMined'
  BY <1>24 DEF NodeRestarts
<1>25. ASSUME Crash PROVE ConfirmedIsMined'
  BY <1>25 DEF Crash
<1>26. CASE UNCHANGED vars
  BY <1>26 DEF vars
<1> QED
  BY <1>1, <1>2, <1>3, <1>4, <1>5, <1>6, <1>7, <1>8, <1>9, <1>10, <1>11, <1>12, <1>13, <1>14,
     <1>15, <1>16, <1>17, <1>18, <1>19, <1>20, <1>21, <1>22, <1>23, <1>24, <1>25, <1>26 DEF
     Next, Send

(* A payment shown as confirmed names a mined transaction: ConfirmedIsMined, *)
(* of checkOutgoingConfirmations and the bump route.                         *)
THEOREM ConfirmedMined == Spec => []ConfirmedIsMined
<1>1. Init => ConfirmedIsMined
  BY DEF Init, ConfirmedIsMined
<1> QED
  BY <1>1, ConfirmedNext, TypeInvHolds, PTL DEF Spec

-----------------------------------------------------------------------------
(* One debit for a transaction *)

(* Between the send lock and the end the lock is the send's own, or it was *)
(* taken from somebody.                                                    *)
LockInv ==
  \A s \in Sends :
    pc[s] \in {"check", "debit", "record", "broadcast", "finish"} =>
      sendlock[key[s]] = s \/ key[s] \in stripped

(* The coin a send has reserved, and whether it has. *)
Holds(s) == ~vault /\ pc[s] \in {"sendlock", "check", "debit", "record", "broadcast", "finish",
                                 "release"}
Reserves(s) == IF pc[s] = "sendlock" THEN coinOf[tx[s]] ELSE coinOf[key[s]]

CoinInv ==
  ~forgot =>
    \A s \in Sends : Holds(s) =>
      /\ Reserves(s) \in locked
      /\ \A r \in Sends \ {s} : Holds(r) => Reserves(r) # Reserves(s)

(* What the guards of another send for it meet: a record, or a node that   *)
(* has seen it.                                                            *)
Known(t) == record[t] # None \/ (paysFor[t] # None /\ ~vault)

(* No request but s has the transaction or can have it. *)
Private(t, s) ==
  t \notin receipts /\ \A r \in Sends \ {s} : tx[r] # t /\ key[r] # t

(* A transaction built anew is the send's alone until the client has it. *)
AloneInv ==
  \A s \in Sends :
    pc[s] # "sendlock" /\ tx[s] # None /\ key[s] # None /\ tx[s] # key[s] => Private(tx[s], s)

(* What was recorded is known. *)
PaidInv ==
  \A s \in Sends :
    /\ pc[s] \in {"broadcast", "finish"} => Known(tx[s])
    /\ pc[s] = "release" /\ debited[s] # None => Known(debited[s])

(* What a send still holds of the transaction it was debited for. *)
KeepsLock(t, s) == sendlock[t] = s \/ t \in stripped
KeepsCoin(t, s) ==
  vault \/ forgot \/
    (coinOf[t] \in locked /\ \A r \in Sends \ {s} : Holds(r) => Reserves(r) # coinOf[t])

OwnInv ==
  \A s \in Sends : debited[s] # None =>
    \/ Known(debited[s]) \/ Private(debited[s], s)
    \/ KeepsLock(debited[s], s) /\ KeepsCoin(debited[s], s)

(* Who is about to be debited is the first, or both guards were undone. *)
FirstInv ==
  \A s, r \in Sends :
    pc[s] = "debit" /\ debited[r] = tx[s] => tx[s] \in stripped /\ (vault \/ forgot)

(* What is known stays so: a bump drops the record of a transaction that the *)
(* node has seen.                                                            *)
LEMMA KnownNext == ASSUME TypeInv, [Next]_vars PROVE \A u \in Txs : Known(u) => Known(u)'
<1> USE OnchainSendAssumption DEF OnchainSendAssumption, TypeInv, NodeTyped, RedisTyped,
      LocalsTyped, OthersTyped, HistoryTyped, Known, Idle, Goto, chain, redis, locals, others,
      history, bounds
<1>1. ASSUME NEW s \in Sends, Build(s) PROVE (\A u \in Txs : Known(u) => Known(u)')
  BY <1>1 DEF Build, Selects
<1>2. ASSUME NEW s \in Sends, Submit(s) PROVE (\A u \in Txs : Known(u) => Known(u)')
  BY <1>2 DEF Submit
<1>3. ASSUME NEW s \in Sends, Lock(s) PROVE (\A u \in Txs : Known(u) => Known(u)')
  BY <1>3 DEF Lock, Leave, Coin
<1>4. ASSUME NEW s \in Sends, SendLock(s) PROVE (\A u \in Txs : Known(u) => Known(u)')
  BY <1>4 DEF SendLock
<1>5. ASSUME NEW s \in Sends, Check(s) PROVE (\A u \in Txs : Known(u) => Known(u)')
  BY <1>5 DEF Check
<1>6. ASSUME NEW s \in Sends, Rebuild(s) PROVE (\A u \in Txs : Known(u) => Known(u)')
  BY <1>6 DEF Rebuild, Selects
<1>7. ASSUME NEW s \in Sends, Debit(s) PROVE (\A u \in Txs : Known(u) => Known(u)')
  BY <1>7 DEF Debit
<1>8. ASSUME NEW s \in Sends, Record(s) PROVE (\A u \in Txs : Known(u) => Known(u)')
  BY <1>8 DEF Record
<1>9. ASSUME NEW s \in Sends, Broadcast(s) PROVE (\A u \in Txs : Known(u) => Known(u)')
  BY <1>9 DEF Broadcast
<1>10. ASSUME NEW s \in Sends, BroadcastFails(s) PROVE (\A u \in Txs : Known(u) => Known(u)')
  BY <1>10 DEF BroadcastFails
<1>11. ASSUME NEW s \in Sends, Finish(s) PROVE (\A u \in Txs : Known(u) => Known(u)')
  BY <1>11 DEF Finish, Leave
<1>12. ASSUME NEW s \in Sends, Release(s) PROVE (\A u \in Txs : Known(u) => Known(u)')
  BY <1>12 DEF Release, Leave
<1>13. ASSUME NEW s \in Sends, Retry(s) PROVE (\A u \in Txs : Known(u) => Known(u)')
  BY <1>13 DEF Retry
<1>14. ASSUME NEW t \in Txs, Mine(t) PROVE (\A u \in Txs : Known(u) => Known(u)')
  BY <1>14 DEF Mine
<1>15. ASSUME NEW t \in Txs, Expire(t) PROVE (\A u \in Txs : Known(u) => Known(u)')
  BY <1>15 DEF Expire
<1>16. ASSUME Fee PROVE (\A u \in Txs : Known(u) => Known(u)')
  BY <1>16 DEF Fee, Selects
<1>17. ASSUME BumpRead PROVE (\A u \in Txs : Known(u) => Known(u)')
  BY <1>17 DEF BumpRead
<1>18. ASSUME BumpFee PROVE (\A u \in Txs : Known(u) => Known(u)')
  BY <1>18 DEF BumpFee
<1>19. ASSUME BumpRefused PROVE (\A u \in Txs : Known(u) => Known(u)')
  BY <1>19 DEF BumpRefused
<1>20. ASSUME BumpStore PROVE (\A u \in Txs : Known(u) => Known(u)')
  BY <1>20 DEF BumpStore
<1>21. ASSUME BumpCharge PROVE (\A u \in Txs : Known(u) => Known(u)')
  BY <1>21 DEF BumpCharge
<1>22. ASSUME LookRead PROVE (\A u \in Txs : Known(u) => Known(u)')
  BY <1>22 DEF LookRead
<1>23. ASSUME LookWrite PROVE (\A u \in Txs : Known(u) => Known(u)')
  BY <1>23 DEF LookWrite
<1>24. ASSUME NodeRestarts PROVE (\A u \in Txs : Known(u) => Known(u)')
  BY <1>24 DEF NodeRestarts
<1>25. ASSUME Crash PROVE (\A u \in Txs : Known(u) => Known(u)')
  BY <1>25 DEF Crash
<1>26. CASE UNCHANGED vars
  BY <1>26 DEF vars
<1> QED
  BY <1>1, <1>2, <1>3, <1>4, <1>5, <1>6, <1>7, <1>8, <1>9, <1>10, <1>11, <1>12, <1>13, <1>14,
     <1>15, <1>16, <1>17, <1>18, <1>19, <1>20, <1>21, <1>22, <1>23, <1>24, <1>25, <1>26 DEF
     Next, Send

(* The locks. *)
LEMMA LockNext == ASSUME TypeInv, LockInv, [Next]_vars PROVE LockInv'
<1> USE OnchainSendAssumption DEF OnchainSendAssumption, TypeInv, NodeTyped, RedisTyped,
      LocalsTyped, LockInv, Idle, Goto, chain, redis, locals, others, history, bounds
<1>1. ASSUME NEW s \in Sends, Build(s) PROVE LockInv'
  BY <1>1 DEF Build, Selects
<1>2. ASSUME NEW s \in Sends, Submit(s) PROVE LockInv'
  BY <1>2 DEF Submit
<1>3. ASSUME NEW s \in Sends, Lock(s) PROVE LockInv'
  BY <1>3 DEF Lock, Leave, Coin
<1>4. ASSUME NEW s \in Sends, SendLock(s) PROVE LockInv'
  BY <1>4 DEF SendLock
<1>5. ASSUME NEW s \in Sends, Check(s) PROVE LockInv'
  BY <1>5 DEF Check
<1>6. ASSUME NEW s \in Sends, Rebuild(s) PROVE LockInv'
  BY <1>6 DEF Rebuild, Selects
<1>7. ASSUME NEW s \in Sends, Debit(s) PROVE LockInv'
  BY <1>7 DEF Debit
<1>8. ASSUME NEW s \in Sends, Record(s) PROVE LockInv'
  BY <1>8 DEF Record
<1>9. ASSUME NEW s \in Sends, Broadcast(s) PROVE LockInv'
  BY <1>9 DEF Broadcast
<1>10. ASSUME NEW s \in Sends, BroadcastFails(s) PROVE LockInv'
  BY <1>10 DEF BroadcastFails
<1>11. ASSUME NEW s \in Sends, Finish(s) PROVE LockInv'
  BY <1>11 DEF Finish, Leave
<1>12. ASSUME NEW s \in Sends, Release(s) PROVE LockInv'
  BY <1>12 DEF Release, Leave
<1>13. ASSUME NEW s \in Sends, Retry(s) PROVE LockInv'
  BY <1>13 DEF Retry
<1>14. ASSUME NEW t \in Txs, Mine(t) PROVE LockInv'
  BY <1>14 DEF Mine
<1>15. ASSUME NEW t \in Txs, Expire(t) PROVE LockInv'
  BY <1>15 DEF Expire
<1>16. ASSUME Fee PROVE LockInv'
  BY <1>16 DEF Fee, Selects
<1>17. ASSUME BumpRead PROVE LockInv'
  BY <1>17 DEF BumpRead
<1>18. ASSUME BumpFee PROVE LockInv'
  BY <1>18 DEF BumpFee
<1>19. ASSUME BumpRefused PROVE LockInv'
  BY <1>19 DEF BumpRefused
<1>20. ASSUME BumpStore PROVE LockInv'
  BY <1>20 DEF BumpStore
<1>21. ASSUME BumpCharge PROVE LockInv'
  BY <1>21 DEF BumpCharge
<1>22. ASSUME LookRead PROVE LockInv'
  BY <1>22 DEF LookRead
<1>23. ASSUME LookWrite PROVE LockInv'
  BY <1>23 DEF LookWrite
<1>24. ASSUME NodeRestarts PROVE LockInv'
  BY <1>24 DEF NodeRestarts
<1>25. ASSUME Crash PROVE LockInv'
  BY <1>25 DEF Crash
<1>26. CASE UNCHANGED vars
  BY <1>26 DEF vars
<1> QED
  BY <1>1, <1>2, <1>3, <1>4, <1>5, <1>6, <1>7, <1>8, <1>9, <1>10, <1>11, <1>12, <1>13, <1>14,
     <1>15, <1>16, <1>17, <1>18, <1>19, <1>20, <1>21, <1>22, <1>23, <1>24, <1>25, <1>26 DEF
     Next, Send

(* The reservations. *)
LEMMA CoinNext == ASSUME TypeInv, CoinInv, [Next]_vars PROVE CoinInv'
<1> USE OnchainSendAssumption DEF OnchainSendAssumption, TypeInv, NodeTyped, RedisTyped,
      LocalsTyped, HistoryTyped, CoinInv, Holds, Reserves, Idle, Goto, chain, redis, locals,
      others, history, bounds
<1>1. ASSUME NEW s \in Sends, Build(s) PROVE CoinInv'
  BY <1>1 DEF Build, Selects
<1>2. ASSUME NEW s \in Sends, Submit(s) PROVE CoinInv'
  BY <1>2 DEF Submit
<1>3. ASSUME NEW s \in Sends, Lock(s) PROVE CoinInv'
  BY <1>3 DEF Lock, Leave, Coin
<1>4. ASSUME NEW s \in Sends, SendLock(s) PROVE CoinInv'
  BY <1>4 DEF SendLock
<1>5. ASSUME NEW s \in Sends, Check(s) PROVE CoinInv'
  BY <1>5 DEF Check
<1>6. ASSUME NEW s \in Sends, Rebuild(s) PROVE CoinInv'
  BY <1>6 DEF Rebuild, Selects
<1>7. ASSUME NEW s \in Sends, Debit(s) PROVE CoinInv'
  BY <1>7 DEF Debit
<1>8. ASSUME NEW s \in Sends, Record(s) PROVE CoinInv'
  BY <1>8 DEF Record
<1>9. ASSUME NEW s \in Sends, Broadcast(s) PROVE CoinInv'
  BY <1>9 DEF Broadcast
<1>10. ASSUME NEW s \in Sends, BroadcastFails(s) PROVE CoinInv'
  BY <1>10 DEF BroadcastFails
<1>11. ASSUME NEW s \in Sends, Finish(s) PROVE CoinInv'
  BY <1>11 DEF Finish, Leave
<1>12. ASSUME NEW s \in Sends, Release(s) PROVE CoinInv'
  BY <1>12 DEF Release, Leave
<1>13. ASSUME NEW s \in Sends, Retry(s) PROVE CoinInv'
  BY <1>13 DEF Retry
<1>14. ASSUME NEW t \in Txs, Mine(t) PROVE CoinInv'
  BY <1>14 DEF Mine
<1>15. ASSUME NEW t \in Txs, Expire(t) PROVE CoinInv'
  BY <1>15 DEF Expire
<1>16. ASSUME Fee PROVE CoinInv'
  BY <1>16 DEF Fee, Selects
<1>17. ASSUME BumpRead PROVE CoinInv'
  BY <1>17 DEF BumpRead
<1>18. ASSUME BumpFee PROVE CoinInv'
  BY <1>18 DEF BumpFee
<1>19. ASSUME BumpRefused PROVE CoinInv'
  BY <1>19 DEF BumpRefused
<1>20. ASSUME BumpStore PROVE CoinInv'
  BY <1>20 DEF BumpStore
<1>21. ASSUME BumpCharge PROVE CoinInv'
  BY <1>21 DEF BumpCharge
<1>22. ASSUME LookRead PROVE CoinInv'
  BY <1>22 DEF LookRead
<1>23. ASSUME LookWrite PROVE CoinInv'
  BY <1>23 DEF LookWrite
<1>24. ASSUME NodeRestarts PROVE CoinInv'
  BY <1>24 DEF NodeRestarts
<1>25. ASSUME Crash PROVE CoinInv'
  BY <1>25 DEF Crash
<1>26. CASE UNCHANGED vars
  BY <1>26 DEF vars
<1> QED
  BY <1>1, <1>2, <1>3, <1>4, <1>5, <1>6, <1>7, <1>8, <1>9, <1>10, <1>11, <1>12, <1>13, <1>14,
     <1>15, <1>16, <1>17, <1>18, <1>19, <1>20, <1>21, <1>22, <1>23, <1>24, <1>25, <1>26 DEF
     Next, Send

(* Transactions built anew. *)
LEMMA AloneNext == ASSUME TypeInv, AloneInv, [Next]_vars PROVE AloneInv'
<1> USE OnchainSendAssumption DEF OnchainSendAssumption, TypeInv, NodeTyped, RedisTyped,
      LocalsTyped, AloneInv, Private, Idle, Goto, chain, redis, locals, others, history, bounds
<1>1. ASSUME NEW s \in Sends, Build(s) PROVE AloneInv'
  BY <1>1 DEF Build, Selects
<1>2. ASSUME NEW s \in Sends, Submit(s) PROVE AloneInv'
  BY <1>2 DEF Submit
<1>3. ASSUME NEW s \in Sends, Lock(s) PROVE AloneInv'
  BY <1>3 DEF Lock, Leave, Coin
<1>4. ASSUME NEW s \in Sends, SendLock(s) PROVE AloneInv'
  BY <1>4 DEF SendLock
<1>5. ASSUME NEW s \in Sends, Check(s) PROVE AloneInv'
  BY <1>5 DEF Check
<1>6. ASSUME NEW s \in Sends, Rebuild(s) PROVE AloneInv'
  BY <1>6 DEF Rebuild, Selects
<1>7. ASSUME NEW s \in Sends, Debit(s) PROVE AloneInv'
  BY <1>7 DEF Debit
<1>8. ASSUME NEW s \in Sends, Record(s) PROVE AloneInv'
  BY <1>8 DEF Record
<1>9. ASSUME NEW s \in Sends, Broadcast(s) PROVE AloneInv'
  BY <1>9 DEF Broadcast
<1>10. ASSUME NEW s \in Sends, BroadcastFails(s) PROVE AloneInv'
  BY <1>10 DEF BroadcastFails
<1>11. ASSUME NEW s \in Sends, Finish(s) PROVE AloneInv'
  BY <1>11 DEF Finish, Leave
<1>12. ASSUME NEW s \in Sends, Release(s) PROVE AloneInv'
  BY <1>12 DEF Release, Leave
<1>13. ASSUME NEW s \in Sends, Retry(s) PROVE AloneInv'
  BY <1>13 DEF Retry
<1>14. ASSUME NEW t \in Txs, Mine(t) PROVE AloneInv'
  BY <1>14 DEF Mine
<1>15. ASSUME NEW t \in Txs, Expire(t) PROVE AloneInv'
  BY <1>15 DEF Expire
<1>16. ASSUME Fee PROVE AloneInv'
  BY <1>16 DEF Fee, Selects
<1>17. ASSUME BumpRead PROVE AloneInv'
  BY <1>17 DEF BumpRead
<1>18. ASSUME BumpFee PROVE AloneInv'
  BY <1>18 DEF BumpFee
<1>19. ASSUME BumpRefused PROVE AloneInv'
  BY <1>19 DEF BumpRefused
<1>20. ASSUME BumpStore PROVE AloneInv'
  BY <1>20 DEF BumpStore
<1>21. ASSUME BumpCharge PROVE AloneInv'
  BY <1>21 DEF BumpCharge
<1>22. ASSUME LookRead PROVE AloneInv'
  BY <1>22 DEF LookRead
<1>23. ASSUME LookWrite PROVE AloneInv'
  BY <1>23 DEF LookWrite
<1>24. ASSUME NodeRestarts PROVE AloneInv'
  BY <1>24 DEF NodeRestarts
<1>25. ASSUME Crash PROVE AloneInv'
  BY <1>25 DEF Crash
<1>26. CASE UNCHANGED vars
  BY <1>26 DEF vars
<1> QED
  BY <1>1, <1>2, <1>3, <1>4, <1>5, <1>6, <1>7, <1>8, <1>9, <1>10, <1>11, <1>12, <1>13, <1>14,
     <1>15, <1>16, <1>17, <1>18, <1>19, <1>20, <1>21, <1>22, <1>23, <1>24, <1>25, <1>26 DEF
     Next, Send

(* Records. *)
LEMMA PaidNext == ASSUME TypeInv, PaidInv, [Next]_vars PROVE PaidInv'
<1> USE OnchainSendAssumption, KnownNext DEF OnchainSendAssumption, TypeInv, NodeTyped,
      RedisTyped, LocalsTyped, HistoryTyped, PaidInv, Idle, Goto, chain, redis, locals, others, history, bounds
<1>1. ASSUME NEW s \in Sends, Build(s) PROVE PaidInv'
  BY <1>1 DEF Build, Selects
<1>2. ASSUME NEW s \in Sends, Submit(s) PROVE PaidInv'
  BY <1>2 DEF Submit
<1>3. ASSUME NEW s \in Sends, Lock(s) PROVE PaidInv'
  BY <1>3 DEF Lock, Leave, Coin
<1>4. ASSUME NEW s \in Sends, SendLock(s) PROVE PaidInv'
  BY <1>4 DEF SendLock
<1>5. ASSUME NEW s \in Sends, Check(s) PROVE PaidInv'
  BY <1>5 DEF Check
<1>6. ASSUME NEW s \in Sends, Rebuild(s) PROVE PaidInv'
  BY <1>6 DEF Rebuild, Selects
<1>7. ASSUME NEW s \in Sends, Debit(s) PROVE PaidInv'
  BY <1>7 DEF Debit
<1>8. ASSUME NEW s \in Sends, Record(s) PROVE PaidInv'
  <2>1. Known(tx[s])'
    BY <1>8 DEF Record, Known
  <2>2. pc' = [pc EXCEPT ![s] = "broadcast"] /\ UNCHANGED <<tx, debited>>
    BY <1>8 DEF Record
  <2> QED
    BY <1>8, <2>1, <2>2
<1>9. ASSUME NEW s \in Sends, Broadcast(s) PROVE PaidInv'
  BY <1>9 DEF Broadcast
<1>10. ASSUME NEW s \in Sends, BroadcastFails(s) PROVE PaidInv'
  BY <1>10 DEF BroadcastFails
<1>11. ASSUME NEW s \in Sends, Finish(s) PROVE PaidInv'
  BY <1>11 DEF Finish, Leave
<1>12. ASSUME NEW s \in Sends, Release(s) PROVE PaidInv'
  BY <1>12 DEF Release, Leave
<1>13. ASSUME NEW s \in Sends, Retry(s) PROVE PaidInv'
  BY <1>13 DEF Retry
<1>14. ASSUME NEW t \in Txs, Mine(t) PROVE PaidInv'
  BY <1>14 DEF Mine
<1>15. ASSUME NEW t \in Txs, Expire(t) PROVE PaidInv'
  BY <1>15 DEF Expire
<1>16. ASSUME Fee PROVE PaidInv'
  BY <1>16 DEF Fee, Selects
<1>17. ASSUME BumpRead PROVE PaidInv'
  BY <1>17 DEF BumpRead
<1>18. ASSUME BumpFee PROVE PaidInv'
  BY <1>18 DEF BumpFee
<1>19. ASSUME BumpRefused PROVE PaidInv'
  BY <1>19 DEF BumpRefused
<1>20. ASSUME BumpStore PROVE PaidInv'
  BY <1>20 DEF BumpStore
<1>21. ASSUME BumpCharge PROVE PaidInv'
  BY <1>21 DEF BumpCharge
<1>22. ASSUME LookRead PROVE PaidInv'
  BY <1>22 DEF LookRead
<1>23. ASSUME LookWrite PROVE PaidInv'
  BY <1>23 DEF LookWrite
<1>24. ASSUME NodeRestarts PROVE PaidInv'
  BY <1>24 DEF NodeRestarts
<1>25. ASSUME Crash PROVE PaidInv'
  BY <1>25 DEF Crash
<1>26. CASE UNCHANGED vars
  BY <1>26 DEF vars
<1> QED
  BY <1>1, <1>2, <1>3, <1>4, <1>5, <1>6, <1>7, <1>8, <1>9, <1>10, <1>11, <1>12, <1>13, <1>14,
     <1>15, <1>16, <1>17, <1>18, <1>19, <1>20, <1>21, <1>22, <1>23, <1>24, <1>25, <1>26 DEF
     Next, Send

(* What a send that was debited still holds. *)
LEMMA OwnNext ==
  ASSUME TypeInv, LockInv, CoinInv, AloneInv, PaidInv, OwnInv, [Next]_vars PROVE OwnInv'
<1> USE OnchainSendAssumption, KnownNext DEF OnchainSendAssumption, TypeInv, NodeTyped,
      RedisTyped, LocalsTyped, HistoryTyped, OwnInv, Idle, Goto, chain, redis, locals, others,
      history, bounds
<1>1. ASSUME NEW s \in Sends, Build(s) PROVE OwnInv'
  BY <1>1 DEF Build, Private, KeepsLock, KeepsCoin, Holds, Reserves, Selects
<1>2. ASSUME NEW s \in Sends, Submit(s) PROVE OwnInv'
  BY <1>2 DEF Submit, Private, KeepsLock, KeepsCoin, Holds, Reserves
<1>3. ASSUME NEW s \in Sends, Lock(s) PROVE OwnInv'
  BY <1>3 DEF Lock, Private, KeepsLock, KeepsCoin, Holds, Reserves, Leave, Coin
<1>4. ASSUME NEW s \in Sends, SendLock(s) PROVE OwnInv'
  BY <1>4 DEF SendLock, Private, KeepsLock, KeepsCoin, Holds, Reserves
<1>5. ASSUME NEW s \in Sends, Check(s) PROVE OwnInv'
  BY <1>5 DEF Check, Private, KeepsLock, KeepsCoin, Holds, Reserves
<1>6. ASSUME NEW s \in Sends, Rebuild(s) PROVE OwnInv'
  BY <1>6 DEF Rebuild, Private, KeepsLock, KeepsCoin, Holds, Reserves, Selects
<1>7. ASSUME NEW s \in Sends, Debit(s) PROVE OwnInv'
  <2>1. CASE balance > 0
    <3>1. /\ pc[s] = "debit" /\ debited' = [debited EXCEPT ![s] = tx[s]]
          /\ pc' = [pc EXCEPT ![s] = "record"]
          /\ UNCHANGED <<vault, coinOf, receipts, locked, sendlock, record, tx, key, paysFor,
                         stripped, forgot>>
      BY <1>7, <2>1 DEF Debit
    <3>2. \A r \in Sends : Holds(r)' = Holds(r) /\ Reserves(r)' = Reserves(r)
      BY <3>1 DEF Holds, Reserves
    <3>3. ASSUME NEW r \in Sends \ {s}, debited'[r] # None
          PROVE \/ Known(debited[r])' \/ Private(debited[r], r)'
                \/ KeepsLock(debited[r], r)' /\ KeepsCoin(debited[r], r)'
      <4>1. debited'[r] = debited[r] /\ debited[r] \in Txs
        BY <3>1, <3>3
      <4> QED
        BY <3>1, <3>2, <3>3, <4>1 DEF Private, KeepsLock, KeepsCoin
    <3>4. tx[s] # key[s] => Private(tx[s], s)'
      BY <3>1 DEF AloneInv, Private
    <3>5. tx[s] = key[s] => KeepsLock(tx[s], s)'
      BY <3>1 DEF LockInv, KeepsLock
    <3>6. tx[s] = key[s] => KeepsCoin(tx[s], s)'
      BY <3>1, <3>2 DEF CoinInv, KeepsCoin, Holds, Reserves
    <3> QED
      BY <3>1, <3>3, <3>4, <3>5, <3>6
  <2>2. CASE ~(balance > 0)
    <3>1. /\ pc[s] = "debit" /\ pc' = [pc EXCEPT ![s] = "release"]
          /\ UNCHANGED <<vault, coinOf, receipts, locked, sendlock, record, tx, key, paysFor,
                         stripped, forgot, debited>>
      BY <1>7, <2>2 DEF Debit
    <3>2. \A r \in Sends : Holds(r)' = Holds(r) /\ Reserves(r)' = Reserves(r)
      BY <3>1 DEF Holds, Reserves
    <3> QED
      BY <3>1, <3>2 DEF Private, KeepsLock, KeepsCoin
  <2> QED
    BY <2>1, <2>2
<1>8. ASSUME NEW s \in Sends, Record(s) PROVE OwnInv'
  BY <1>8 DEF Record, Private, KeepsLock, KeepsCoin, Holds, Reserves
<1>9. ASSUME NEW s \in Sends, Broadcast(s) PROVE OwnInv'
  BY <1>9 DEF Broadcast, Private, KeepsLock, KeepsCoin, Holds, Reserves
<1>10. ASSUME NEW s \in Sends, BroadcastFails(s) PROVE OwnInv'
  BY <1>10 DEF BroadcastFails, Private, KeepsLock, KeepsCoin, Holds, Reserves
<1>11. ASSUME NEW s \in Sends, Finish(s) PROVE OwnInv'
  <2>1. ASSUME NEW r \in Sends, debited'[r] # None
        PROVE \/ Known(debited[r])' \/ Private(debited[r], r)'
              \/ KeepsLock(debited[r], r)' /\ KeepsCoin(debited[r], r)'
    <3>1. debited' = debited /\ debited[r] \in Txs /\ coinOf' = coinOf
          /\ UNCHANGED <<vault, forgot, paysFor, record>>
      BY <1>11, <2>1 DEF Finish
    <3>2. CASE Known(debited[r])
      BY <3>1, <3>2
    <3>3. CASE ~Known(debited[r])
      <4>1. r # s
        BY <1>11, <2>1, <3>1, <3>3 DEF Finish, PaidInv
      <4>2. /\ pc' = [pc EXCEPT ![s] = "done"] /\ tx' = [tx EXCEPT ![s] = None]
            /\ key' = [key EXCEPT ![s] = None]
        BY <1>11 DEF Finish, Leave
      <4>3. Private(debited[r], r) => Private(debited[r], r)'
        BY <1>11, <3>1, <4>1, <4>2 DEF Private, Finish
      <4>4. KeepsLock(debited[r], r) => KeepsLock(debited[r], r)'
        BY <1>11, <3>1, <4>1 DEF KeepsLock, Finish
      <4>5. KeepsCoin(debited[r], r) => KeepsCoin(debited[r], r)'
        <5>1. \A q \in Sends : Holds(q)' => Holds(q) /\ Reserves(q)' = Reserves(q)
          BY <3>1, <4>2 DEF Holds, Reserves
        <5>2. coinOf[debited[r]] \in locked /\ ~vault
              /\ (\A q \in Sends \ {r} : Holds(q) => Reserves(q) # coinOf[debited[r]])
              => coinOf[debited[r]] \in locked'
          BY <1>11, <4>1 DEF Finish, Holds, Reserves
        <5> QED
          BY <3>1, <5>1, <5>2 DEF KeepsCoin
      <4> QED
        BY <2>1, <3>1, <3>3, <4>3, <4>4, <4>5
    <3> QED
      BY <3>2, <3>3
  <2>2. debited' = debited
    BY <1>11 DEF Finish
  <2> QED
    BY <2>1, <2>2
<1>12. ASSUME NEW s \in Sends, Release(s) PROVE OwnInv'
  <2>1. ASSUME NEW r \in Sends, debited'[r] # None
        PROVE \/ Known(debited[r])' \/ Private(debited[r], r)'
              \/ KeepsLock(debited[r], r)' /\ KeepsCoin(debited[r], r)'
    <3>1. debited' = debited /\ debited[r] \in Txs /\ coinOf' = coinOf
          /\ UNCHANGED <<vault, forgot, paysFor, record>>
      BY <1>12, <2>1 DEF Release
    <3>2. CASE Known(debited[r])
      BY <3>1, <3>2
    <3>3. CASE ~Known(debited[r])
      <4>1. r # s
        BY <1>12, <2>1, <3>1, <3>3 DEF Release, PaidInv
      <4>2. /\ pc' = [pc EXCEPT ![s] = "done"] /\ tx' = [tx EXCEPT ![s] = None]
            /\ key' = [key EXCEPT ![s] = None]
        BY <1>12 DEF Release, Leave
      <4>3. Private(debited[r], r) => Private(debited[r], r)'
        BY <1>12, <3>1, <4>1, <4>2 DEF Private, Release
      <4>4. KeepsLock(debited[r], r) => KeepsLock(debited[r], r)'
        BY <1>12, <3>1, <4>1 DEF KeepsLock, Release
      <4>5. KeepsCoin(debited[r], r) => KeepsCoin(debited[r], r)'
        <5>1. \A q \in Sends : Holds(q)' => Holds(q) /\ Reserves(q)' = Reserves(q)
          BY <3>1, <4>2 DEF Holds, Reserves
        <5>2. coinOf[debited[r]] \in locked /\ ~vault
              /\ (\A q \in Sends \ {r} : Holds(q) => Reserves(q) # coinOf[debited[r]])
              => coinOf[debited[r]] \in locked'
          BY <1>12, <4>1 DEF Release, Holds, Reserves
        <5> QED
          BY <3>1, <5>1, <5>2 DEF KeepsCoin
      <4> QED
        BY <2>1, <3>1, <3>3, <4>3, <4>4, <4>5
    <3> QED
      BY <3>2, <3>3
  <2>2. debited' = debited
    BY <1>12 DEF Release
  <2> QED
    BY <2>1, <2>2
<1>13. ASSUME NEW s \in Sends, Retry(s) PROVE OwnInv'
  BY <1>13 DEF Retry, Private, KeepsLock, KeepsCoin, Holds, Reserves
<1>14. ASSUME NEW t \in Txs, Mine(t) PROVE OwnInv'
  BY <1>14 DEF Mine, Private, KeepsLock, KeepsCoin, Holds, Reserves
<1>15. ASSUME NEW t \in Txs, Expire(t) PROVE OwnInv'
  BY <1>15 DEF Expire, Private, KeepsLock, KeepsCoin, Holds, Reserves
<1>16. ASSUME Fee PROVE OwnInv'
  BY <1>16 DEF Fee, Private, KeepsLock, KeepsCoin, Holds, Reserves, Selects
<1>17. ASSUME BumpRead PROVE OwnInv'
  BY <1>17 DEF BumpRead, Private, KeepsLock, KeepsCoin, Holds, Reserves
<1>18. ASSUME BumpFee PROVE OwnInv'
  BY <1>18 DEF BumpFee, Private, KeepsLock, KeepsCoin, Holds, Reserves
<1>19. ASSUME BumpRefused PROVE OwnInv'
  BY <1>19 DEF BumpRefused, Private, KeepsLock, KeepsCoin, Holds, Reserves
<1>20. ASSUME BumpStore PROVE OwnInv'
  BY <1>20 DEF BumpStore, Private, KeepsLock, KeepsCoin, Holds, Reserves
<1>21. ASSUME BumpCharge PROVE OwnInv'
  BY <1>21 DEF BumpCharge, Private, KeepsLock, KeepsCoin, Holds, Reserves
<1>22. ASSUME LookRead PROVE OwnInv'
  BY <1>22 DEF LookRead, Private, KeepsLock, KeepsCoin, Holds, Reserves
<1>23. ASSUME LookWrite PROVE OwnInv'
  BY <1>23 DEF LookWrite, Private, KeepsLock, KeepsCoin, Holds, Reserves
<1>24. ASSUME NodeRestarts PROVE OwnInv'
  BY <1>24 DEF NodeRestarts, Private, KeepsLock, KeepsCoin, Holds, Reserves
<1>25. ASSUME Crash PROVE OwnInv'
  BY <1>25 DEF Crash, Private, KeepsLock, KeepsCoin, Holds, Reserves
<1>26. CASE UNCHANGED vars
  BY <1>26 DEF vars, Private, KeepsLock, KeepsCoin, Holds, Reserves
<1> QED
  BY <1>1, <1>2, <1>3, <1>4, <1>5, <1>6, <1>7, <1>8, <1>9, <1>10, <1>11, <1>12, <1>13, <1>14,
     <1>15, <1>16, <1>17, <1>18, <1>19, <1>20, <1>21, <1>22, <1>23, <1>24, <1>25, <1>26 DEF
     Next, Send

(* Nobody is about to be debited a second time. *)
LEMMA FirstNext ==
  ASSUME TypeInv, LockInv, CoinInv, AloneInv, OwnInv, FirstInv, [Next]_vars PROVE FirstInv'
<1> USE OnchainSendAssumption DEF OnchainSendAssumption, TypeInv, NodeTyped, RedisTyped,
      LocalsTyped, HistoryTyped, FirstInv, Idle, Goto, chain, redis, locals, others, history,
      bounds
<1>1. ASSUME NEW s \in Sends, Build(s) PROVE FirstInv'
  BY <1>1 DEF Build, Selects
<1>2. ASSUME NEW s \in Sends, Submit(s) PROVE FirstInv'
  BY <1>2 DEF Submit
<1>3. ASSUME NEW s \in Sends, Lock(s) PROVE FirstInv'
  BY <1>3 DEF Lock, Leave, Coin
<1>4. ASSUME NEW s \in Sends, SendLock(s) PROVE FirstInv'
  BY <1>4 DEF SendLock
<1>5. ASSUME NEW s \in Sends, Check(s) PROVE FirstInv'
  <2>1. ASSUME NEW q \in Sends, NEW r \in Sends, pc'[q] = "debit", debited'[r] = tx'[q]
        PROVE tx[q] \in stripped /\ (vault \/ forgot)
    <3>1. /\ UNCHANGED <<tx, debited>> /\ pc[s] = "check" /\ pc' \in [Sends -> Labels]
          /\ \A p \in Sends \ {s} : pc'[p] = pc[p]
      BY <1>5 DEF Check, Labels
    <3>2. CASE q # s
      BY <2>1, <3>1, <3>2
    <3>3. CASE q = s
      <4>1. record[tx[s]] = None /\ Accepted(tx[s])
        BY <1>5, <2>1, <3>1, <3>3 DEF Check
      <4>2. tx[s] \in Txs /\ key[s] = tx[s] /\ r # s /\ debited[r] = tx[s] /\ debited[r] # None
        BY <2>1, <3>1, <3>3
      <4>3. ~Known(tx[s])
        BY <4>1 DEF Known, Accepted
      <4>4. ~Private(tx[s], r)
        BY <4>2 DEF Private
      <4>5. KeepsLock(tx[s], r) /\ KeepsCoin(tx[s], r)
        BY <4>2, <4>3, <4>4 DEF OwnInv
      <4>6. tx[s] \in stripped
        BY <3>1, <4>2, <4>5 DEF KeepsLock, LockInv
      <4>7. vault \/ forgot
        BY <3>1, <4>2, <4>5 DEF KeepsCoin, Holds, Reserves
      <4> QED
        BY <3>3, <4>6, <4>7
    <3> QED
      BY <3>2, <3>3
  <2>2. UNCHANGED <<tx, stripped, vault, forgot>>
    BY <1>5 DEF Check
  <2> QED
    BY <2>1, <2>2
<1>6. ASSUME NEW s \in Sends, Rebuild(s) PROVE FirstInv'
  BY <1>6 DEF Rebuild, Selects
<1>7. ASSUME NEW s \in Sends, Debit(s) PROVE FirstInv'
  <2>1. /\ UNCHANGED <<tx, stripped, vault, forgot>> /\ pc[s] = "debit"
        /\ \A p \in Sends : pc'[p] = "debit" => pc[p] = "debit" /\ p # s
        /\ debited' \in {debited, [debited EXCEPT ![s] = tx[s]]}
    BY <1>7 DEF Debit
  <2>2. ASSUME NEW q \in Sends \ {s}, pc[q] = "debit", tx[q] = tx[s]
        PROVE tx[q] \in stripped /\ (vault \/ forgot)
    <3>1. /\ tx[q] \in Txs /\ key[q] \in Txs /\ key[s] \in Txs
      BY <2>1, <2>2
    <3>2. ~Private(tx[q], q) /\ ~Private(tx[s], s)
      BY <2>2 DEF Private
    <3>3. key[q] = tx[q] /\ key[s] = tx[s]
      BY <2>1, <2>2, <3>1, <3>2 DEF AloneInv
    <3>4. tx[q] \in stripped
      BY <2>1, <2>2, <3>3 DEF LockInv
    <3>5. vault \/ forgot
      BY <2>1, <2>2, <3>3 DEF CoinInv, Holds, Reserves
    <3> QED
      BY <3>4, <3>5
  <2>3. ASSUME NEW q \in Sends, NEW r \in Sends, pc'[q] = "debit", debited'[r] = tx'[q]
        PROVE tx[q] \in stripped /\ (vault \/ forgot)
    <3>1. CASE debited'[r] = debited[r]
      <4>1. pc[q] = "debit" /\ debited[r] = tx[q]
        BY <2>1, <2>3, <3>1 DEF RedisTyped
      <4>2. FirstInv
        OBVIOUS
      <4> HIDE DEF TypeInv
      <4> QED
        BY <4>1, <4>2 DEF FirstInv
    <3>2. CASE debited'[r] # debited[r]
      <4>1. r = s /\ debited'[r] = tx[s]
        BY <2>1, <3>2
      <4> QED
        BY <2>1, <2>2, <2>3, <4>1
    <3> QED
      BY <3>1, <3>2
  <2> QED
    BY <2>1, <2>3
<1>8. ASSUME NEW s \in Sends, Record(s) PROVE FirstInv'
  BY <1>8 DEF Record
<1>9. ASSUME NEW s \in Sends, Broadcast(s) PROVE FirstInv'
  BY <1>9 DEF Broadcast
<1>10. ASSUME NEW s \in Sends, BroadcastFails(s) PROVE FirstInv'
  BY <1>10 DEF BroadcastFails
<1>11. ASSUME NEW s \in Sends, Finish(s) PROVE FirstInv'
  BY <1>11 DEF Finish, Leave
<1>12. ASSUME NEW s \in Sends, Release(s) PROVE FirstInv'
  BY <1>12 DEF Release, Leave
<1>13. ASSUME NEW s \in Sends, Retry(s) PROVE FirstInv'
  BY <1>13 DEF Retry
<1>14. ASSUME NEW t \in Txs, Mine(t) PROVE FirstInv'
  BY <1>14 DEF Mine
<1>15. ASSUME NEW t \in Txs, Expire(t) PROVE FirstInv'
  BY <1>15 DEF Expire
<1>16. ASSUME Fee PROVE FirstInv'
  BY <1>16 DEF Fee, Selects
<1>17. ASSUME BumpRead PROVE FirstInv'
  BY <1>17 DEF BumpRead
<1>18. ASSUME BumpFee PROVE FirstInv'
  BY <1>18 DEF BumpFee
<1>19. ASSUME BumpRefused PROVE FirstInv'
  BY <1>19 DEF BumpRefused
<1>20. ASSUME BumpStore PROVE FirstInv'
  BY <1>20 DEF BumpStore
<1>21. ASSUME BumpCharge PROVE FirstInv'
  BY <1>21 DEF BumpCharge
<1>22. ASSUME LookRead PROVE FirstInv'
  BY <1>22 DEF LookRead
<1>23. ASSUME LookWrite PROVE FirstInv'
  BY <1>23 DEF LookWrite
<1>24. ASSUME NodeRestarts PROVE FirstInv'
  BY <1>24 DEF NodeRestarts
<1>25. ASSUME Crash PROVE FirstInv'
  BY <1>25 DEF Crash
<1>26. CASE UNCHANGED vars
  BY <1>26 DEF vars
<1> QED
  BY <1>1, <1>2, <1>3, <1>4, <1>5, <1>6, <1>7, <1>8, <1>9, <1>10, <1>11, <1>12, <1>13, <1>14,
     <1>15, <1>16, <1>17, <1>18, <1>19, <1>20, <1>21, <1>22, <1>23, <1>24, <1>25, <1>26 DEF
     Next, Send

(* Two debits. *)
LEMMA OnceNext ==
  ASSUME TypeInv, FirstInv, DebitedOnce, [Next]_vars PROVE DebitedOnce'
<1> USE OnchainSendAssumption DEF OnchainSendAssumption, TypeInv, NodeTyped, LocalsTyped,
      HistoryTyped, FirstInv, DebitedOnce, Idle, Goto, chain, redis, locals, others, history,
      bounds
<1>1. ASSUME NEW s \in Sends, Build(s) PROVE DebitedOnce'
  BY <1>1 DEF Build, Selects
<1>2. ASSUME NEW s \in Sends, Submit(s) PROVE DebitedOnce'
  BY <1>2 DEF Submit
<1>3. ASSUME NEW s \in Sends, Lock(s) PROVE DebitedOnce'
  BY <1>3 DEF Lock, Leave, Coin
<1>4. ASSUME NEW s \in Sends, SendLock(s) PROVE DebitedOnce'
  BY <1>4 DEF SendLock
<1>5. ASSUME NEW s \in Sends, Check(s) PROVE DebitedOnce'
  BY <1>5 DEF Check
<1>6. ASSUME NEW s \in Sends, Rebuild(s) PROVE DebitedOnce'
  BY <1>6 DEF Rebuild, Selects
<1>7. ASSUME NEW s \in Sends, Debit(s) PROVE DebitedOnce'
  BY <1>7 DEF Debit
<1>8. ASSUME NEW s \in Sends, Record(s) PROVE DebitedOnce'
  BY <1>8 DEF Record
<1>9. ASSUME NEW s \in Sends, Broadcast(s) PROVE DebitedOnce'
  BY <1>9 DEF Broadcast
<1>10. ASSUME NEW s \in Sends, BroadcastFails(s) PROVE DebitedOnce'
  BY <1>10 DEF BroadcastFails
<1>11. ASSUME NEW s \in Sends, Finish(s) PROVE DebitedOnce'
  BY <1>11 DEF Finish, Leave
<1>12. ASSUME NEW s \in Sends, Release(s) PROVE DebitedOnce'
  BY <1>12 DEF Release, Leave
<1>13. ASSUME NEW s \in Sends, Retry(s) PROVE DebitedOnce'
  BY <1>13 DEF Retry
<1>14. ASSUME NEW t \in Txs, Mine(t) PROVE DebitedOnce'
  BY <1>14 DEF Mine
<1>15. ASSUME NEW t \in Txs, Expire(t) PROVE DebitedOnce'
  BY <1>15 DEF Expire
<1>16. ASSUME Fee PROVE DebitedOnce'
  BY <1>16 DEF Fee, Selects
<1>17. ASSUME BumpRead PROVE DebitedOnce'
  BY <1>17 DEF BumpRead
<1>18. ASSUME BumpFee PROVE DebitedOnce'
  BY <1>18 DEF BumpFee
<1>19. ASSUME BumpRefused PROVE DebitedOnce'
  BY <1>19 DEF BumpRefused
<1>20. ASSUME BumpStore PROVE DebitedOnce'
  BY <1>20 DEF BumpStore
<1>21. ASSUME BumpCharge PROVE DebitedOnce'
  BY <1>21 DEF BumpCharge
<1>22. ASSUME LookRead PROVE DebitedOnce'
  BY <1>22 DEF LookRead
<1>23. ASSUME LookWrite PROVE DebitedOnce'
  BY <1>23 DEF LookWrite
<1>24. ASSUME NodeRestarts PROVE DebitedOnce'
  BY <1>24 DEF NodeRestarts
<1>25. ASSUME Crash PROVE DebitedOnce'
  BY <1>25 DEF Crash
<1>26. CASE UNCHANGED vars
  BY <1>26 DEF vars
<1> QED
  BY <1>1, <1>2, <1>3, <1>4, <1>5, <1>6, <1>7, <1>8, <1>9, <1>10, <1>11, <1>12, <1>13, <1>14,
     <1>15, <1>16, <1>17, <1>18, <1>19, <1>20, <1>21, <1>22, <1>23, <1>24, <1>25, <1>26 DEF
     Next, Send

(* Two debits for one transaction need its send lock to have been taken away  *)
(* and, where the node reserves coins, the reservation forgotten: DebitedOnce, *)
(* of /bitcoin/send.                                                          *)
THEOREM OneDebit == Spec => []DebitedOnce
<1>1. Init => LockInv /\ CoinInv /\ AloneInv /\ PaidInv /\ OwnInv /\ FirstInv /\ DebitedOnce
  BY DEF Init, LockInv, CoinInv, Holds, AloneInv, PaidInv, OwnInv, FirstInv, DebitedOnce
<1> QED
  BY <1>1, TypeInvHolds, LockNext, CoinNext, AloneNext, PaidNext, OwnNext, FirstNext, OnceNext, PTL
  DEF Spec
-----------------------------------------------------------------------------
(* No send replaces another *)

(* The node reserves, remembers, and no transaction was built without it. *)
Kept == ~vault /\ ~forgot /\ rebuilt = {}

(* The labels between the reservation and the broadcast. *)
Reserving == {"sendlock", "check", "debit", "record", "broadcast"}

(* The node has seen what was mined, spent coins show, records are of built  *)
(* transactions.                                                            *)
SeenInv ==
  /\ \A t \in mined : paysFor[t] # None
  /\ \A t \in Txs : paysFor[t] # None => coinOf[t] # None /\ coinOf[t] \in Spent
  /\ \A t \in Txs : record[t] # None => coinOf[t] # None
  /\ bump.at = "store" => paysFor[bump.new] # None

(* A send without a rebuilt transaction has the one it locked. *)
SameInv ==
  rebuilt = {} =>
    \A s \in Sends :
      pc[s] \in {"check", "debit", "record", "broadcast", "finish"} => tx[s] = key[s]

(* What is reserved is not spent. *)
FreshInv == Kept => \A s \in Sends : pc[s] \in Reserving => coinOf[tx[s]] \notin Spent

(* The record of a transaction belongs to the send that is about to pay it. *)
RecordInv ==
  Kept => \A s \in Sends :
    /\ pc[s] \in {"debit", "record"} => record[tx[s]] = None
    /\ pc[s] = "broadcast" => record[tx[s]] = s

(* The transaction pays for the send, or no one else can come to be paid by it. *)
Claimed(t, s) == paysFor[t] = s \/ (paysFor[t] = None /\ record[t] = s)

(* The same after a step, for the transaction and the send as they are now. *)
Claims(t, s) == paysFor'[t] = s \/ (paysFor'[t] = None /\ record'[t] = s)

(* A payment, and each copy of one, names a transaction of its own send. *)
ClaimInv ==
  Kept =>
    /\ \A s \in Sends : payment[s] # None => Claimed(payment[s].hash, s)
    /\ look.send # None => Claimed(look.hash, look.send)
    /\ bump.at = "read" => Claimed(bump.old, bump.send)
    /\ bump.at = "store" => paysFor[bump.new] = bump.send

(* Two transactions over one coin are the two ends of a bump. *)
OneInv ==
  Kept => \A t, u \in Txs :
    paysFor[t] # None /\ paysFor[u] # None /\ coinOf[t] = coinOf[u] => paysFor[t] = paysFor[u]

SpentKept ==
  /\ \A t \in Txs : coinOf[t] # None => coinOf'[t] = coinOf[t]
  /\ Spent \subseteq Spent'
SpentNew ==
  \A c \in Spent' \ Spent :
    \E s \in Sends : pc[s] = "broadcast" /\ pc'[s] = "finish" /\ c = coinOf[tx[s]]

(* Spent coins stay spent, and a broadcast spends one more. *)
LEMMA SpentNext == ASSUME TypeInv, SeenInv, [Next]_vars PROVE SpentKept /\ SpentNew
<1> USE OnchainSendAssumption DEF OnchainSendAssumption, TypeInv, NodeTyped, LocalsTyped,
      OthersTyped, HistoryTyped, SeenInv, SpentKept, SpentNew, Spent, Idle, Goto, chain, redis,
      locals, others, history, bounds
<1>1. ASSUME NEW s \in Sends, Build(s) PROVE SpentKept /\ SpentNew
  <2>a. \E t \in Txs, c \in Coins : Selects(t, c)
    BY <1>1 DEF Build
  <2>b. PICK t \in Txs, c \in Coins : Selects(t, c)
    BY <2>a
  <2>1. coinOf[t] = None /\ coinOf' = [coinOf EXCEPT ![t] = c]
    BY <2>b DEF Selects
  <2>2. UNCHANGED <<mempool, mined>>
    BY <1>1 DEF Build
  <2>3. \A u \in mempool \cup mined : coinOf'[u] = coinOf[u]
    BY <2>1
  <2> QED
    BY <2>1, <2>2, <2>3
<1>2. ASSUME NEW s \in Sends, Submit(s) PROVE SpentKept /\ SpentNew
  <2>1. UNCHANGED <<coinOf, mempool, mined>>
    BY <1>2 DEF Submit
  <2> QED
    BY <2>1
<1>3. ASSUME NEW s \in Sends, Lock(s) PROVE SpentKept /\ SpentNew
  <2>1. UNCHANGED <<coinOf, mempool, mined>>
    BY <1>3 DEF Lock, Leave, Coin
  <2> QED
    BY <2>1
<1>4. ASSUME NEW s \in Sends, SendLock(s) PROVE SpentKept /\ SpentNew
  <2>1. UNCHANGED <<coinOf, mempool, mined>>
    BY <1>4 DEF SendLock
  <2> QED
    BY <2>1
<1>5. ASSUME NEW s \in Sends, Check(s) PROVE SpentKept /\ SpentNew
  <2>1. UNCHANGED <<coinOf, mempool, mined>>
    BY <1>5 DEF Check
  <2> QED
    BY <2>1
<1>6. ASSUME NEW s \in Sends, Rebuild(s) PROVE SpentKept /\ SpentNew
  <2>a. \E t \in Txs, c \in Coins : Selects(t, c)
    BY <1>6 DEF Rebuild
  <2>b. PICK t \in Txs, c \in Coins : Selects(t, c)
    BY <2>a
  <2>1. coinOf[t] = None /\ coinOf' = [coinOf EXCEPT ![t] = c]
    BY <2>b DEF Selects
  <2>2. UNCHANGED <<mempool, mined>>
    BY <1>6 DEF Rebuild
  <2>3. \A u \in mempool \cup mined : coinOf'[u] = coinOf[u]
    BY <2>1
  <2> QED
    BY <2>1, <2>2, <2>3
<1>7. ASSUME NEW s \in Sends, Debit(s) PROVE SpentKept /\ SpentNew
  <2>1. UNCHANGED <<coinOf, mempool, mined>>
    BY <1>7 DEF Debit
  <2> QED
    BY <2>1
<1>8. ASSUME NEW s \in Sends, Record(s) PROVE SpentKept /\ SpentNew
  <2>1. UNCHANGED <<coinOf, mempool, mined>>
    BY <1>8 DEF Record
  <2> QED
    BY <2>1
<1>9. ASSUME NEW s \in Sends, Broadcast(s) PROVE SpentKept /\ SpentNew
  <2>1. /\ mempool' = (mempool \ Rivals(tx[s])) \cup {tx[s]} /\ UNCHANGED <<coinOf, mined>>
        /\ pc[s] = "broadcast" /\ pc'[s] = "finish" /\ tx[s] \in Txs
    BY <1>9 DEF Broadcast
  <2>2. \A u \in mempool : u \in mempool' \/ coinOf[u] = coinOf[tx[s]]
    BY <2>1 DEF Rivals
  <2>3. \A u \in mempool' : u \in mempool \/ u = tx[s]
    BY <2>1
  <2>4. tx[s] \in mempool'
    BY <2>1
  <2> QED
    BY <2>1, <2>2, <2>3, <2>4
<1>10. ASSUME NEW s \in Sends, BroadcastFails(s) PROVE SpentKept /\ SpentNew
  <2>1. UNCHANGED <<coinOf, mempool, mined>>
    BY <1>10 DEF BroadcastFails
  <2> QED
    BY <2>1
<1>11. ASSUME NEW s \in Sends, Finish(s) PROVE SpentKept /\ SpentNew
  <2>1. UNCHANGED <<coinOf, mempool, mined>>
    BY <1>11 DEF Finish, Leave
  <2> QED
    BY <2>1
<1>12. ASSUME NEW s \in Sends, Release(s) PROVE SpentKept /\ SpentNew
  <2>1. UNCHANGED <<coinOf, mempool, mined>>
    BY <1>12 DEF Release, Leave
  <2> QED
    BY <2>1
<1>13. ASSUME NEW s \in Sends, Retry(s) PROVE SpentKept /\ SpentNew
  <2>1. UNCHANGED <<coinOf, mempool, mined>>
    BY <1>13 DEF Retry
  <2> QED
    BY <2>1
<1>14. ASSUME NEW t \in Txs, Mine(t) PROVE SpentKept /\ SpentNew
  <2>1. /\ mined' = mined \cup {t} /\ mempool' = mempool \ (Rivals(t) \cup {t}) /\ UNCHANGED coinOf
        /\ paysFor[t] # None
    BY <1>14 DEF Mine
  <2>2. \A u \in mempool : u \in mempool' \/ coinOf[u] = coinOf[t]
    BY <2>1 DEF Rivals
  <2>3. coinOf[t] \in Spent /\ t \in mined'
    BY <2>1
  <2> QED
    BY <2>1, <2>2, <2>3
<1>15. ASSUME NEW t \in Txs, Expire(t) PROVE SpentKept /\ SpentNew
  <2>1. UNCHANGED <<coinOf, mempool, mined>>
    BY <1>15 DEF Expire
  <2> QED
    BY <2>1
<1>16. ASSUME Fee PROVE SpentKept /\ SpentNew
  <2>a. \E t \in Txs, c \in Coins : Selects(t, c)
    BY <1>16 DEF Fee
  <2>b. PICK t \in Txs, c \in Coins : Selects(t, c)
    BY <2>a
  <2>1. coinOf[t] = None /\ coinOf' = [coinOf EXCEPT ![t] = c]
    BY <2>b DEF Selects
  <2>2. UNCHANGED <<mempool, mined>>
    BY <1>16 DEF Fee
  <2>3. \A u \in mempool \cup mined : coinOf'[u] = coinOf[u]
    BY <2>1
  <2> QED
    BY <2>1, <2>2, <2>3
<1>17. ASSUME BumpRead PROVE SpentKept /\ SpentNew
  <2>1. UNCHANGED <<coinOf, mempool, mined>>
    BY <1>17 DEF BumpRead
  <2> QED
    BY <2>1
<1>18. ASSUME BumpFee PROVE SpentKept /\ SpentNew
  <2>1. PICK t \in Txs : /\ coinOf[t] = None /\ coinOf' = [coinOf EXCEPT ![t] = coinOf[bump.old]]
                         /\ mempool' = (mempool \ {bump.old}) \cup {t}
    BY <1>18 DEF BumpFee
  <2>2. bump.old \in mempool /\ UNCHANGED mined
    BY <1>18 DEF BumpFee
  <2>3. coinOf'[t] = coinOf[bump.old] /\ t \in mempool'
    BY <2>1
  <2>4. \A u \in mempool \cup mined : coinOf'[u] = coinOf[u] /\ (u \in mempool' \cup mined' \/ u = bump.old)
    BY <2>1, <2>2
  <2>5. \A u \in mempool' \cup mined' : u = t \/ u \in mempool \cup mined
    BY <2>1, <2>2
  <2> QED
    BY <2>1, <2>2, <2>3, <2>4, <2>5
<1>19. ASSUME BumpRefused PROVE SpentKept /\ SpentNew
  <2>1. UNCHANGED <<coinOf, mempool, mined>>
    BY <1>19 DEF BumpRefused
  <2> QED
    BY <2>1
<1>20. ASSUME BumpStore PROVE SpentKept /\ SpentNew
  <2>1. UNCHANGED <<coinOf, mempool, mined>>
    BY <1>20 DEF BumpStore
  <2> QED
    BY <2>1
<1>21. ASSUME BumpCharge PROVE SpentKept /\ SpentNew
  <2>1. UNCHANGED <<coinOf, mempool, mined>>
    BY <1>21 DEF BumpCharge
  <2> QED
    BY <2>1
<1>22. ASSUME LookRead PROVE SpentKept /\ SpentNew
  <2>1. UNCHANGED <<coinOf, mempool, mined>>
    BY <1>22 DEF LookRead
  <2> QED
    BY <2>1
<1>23. ASSUME LookWrite PROVE SpentKept /\ SpentNew
  <2>1. UNCHANGED <<coinOf, mempool, mined>>
    BY <1>23 DEF LookWrite
  <2> QED
    BY <2>1
<1>24. ASSUME NodeRestarts PROVE SpentKept /\ SpentNew
  <2>1. UNCHANGED <<coinOf, mempool, mined>>
    BY <1>24 DEF NodeRestarts
  <2> QED
    BY <2>1
<1>25. ASSUME Crash PROVE SpentKept /\ SpentNew
  <2>1. UNCHANGED <<coinOf, mempool, mined>>
    BY <1>25 DEF Crash
  <2> QED
    BY <2>1
<1>26. CASE UNCHANGED vars
  BY <1>26 DEF vars
<1> QED
  BY <1>1, <1>2, <1>3, <1>4, <1>5, <1>6, <1>7, <1>8, <1>9, <1>10, <1>11, <1>12, <1>13, <1>14,
     <1>15, <1>16, <1>17, <1>18, <1>19, <1>20, <1>21, <1>22, <1>23, <1>24, <1>25, <1>26 DEF
     Next, Send

(* What the node has seen. *)
LEMMA SeenNext == ASSUME TypeInv, SeenInv, [Next]_vars PROVE SeenInv'
<1> USE OnchainSendAssumption DEF OnchainSendAssumption, TypeInv, NodeTyped, LocalsTyped,
      OthersTyped, HistoryTyped, SeenInv, SpentKept, Idle, Goto, chain, redis, locals, others,
      history, bounds
<1>1. ASSUME NEW s \in Sends, Build(s) PROVE SeenInv'
  <2>1. UNCHANGED <<mined, paysFor, record>> /\ (bump' = bump \/ bump'.at # "store")
    BY <1>1 DEF Build, Selects
  <2> QED
    BY <2>1, SpentNext
<1>2. ASSUME NEW s \in Sends, Submit(s) PROVE SeenInv'
  <2>1. UNCHANGED <<mined, paysFor, record>> /\ (bump' = bump \/ bump'.at # "store")
    BY <1>2 DEF Submit
  <2> QED
    BY <2>1, SpentNext
<1>3. ASSUME NEW s \in Sends, Lock(s) PROVE SeenInv'
  <2>1. UNCHANGED <<mined, paysFor, record>> /\ (bump' = bump \/ bump'.at # "store")
    BY <1>3 DEF Lock, Leave, Coin
  <2> QED
    BY <2>1, SpentNext
<1>4. ASSUME NEW s \in Sends, SendLock(s) PROVE SeenInv'
  <2>1. UNCHANGED <<mined, paysFor, record>> /\ (bump' = bump \/ bump'.at # "store")
    BY <1>4 DEF SendLock
  <2> QED
    BY <2>1, SpentNext
<1>5. ASSUME NEW s \in Sends, Check(s) PROVE SeenInv'
  <2>1. UNCHANGED <<mined, paysFor, record>> /\ (bump' = bump \/ bump'.at # "store")
    BY <1>5 DEF Check
  <2> QED
    BY <2>1, SpentNext
<1>6. ASSUME NEW s \in Sends, Rebuild(s) PROVE SeenInv'
  <2>1. UNCHANGED <<mined, paysFor, record>> /\ (bump' = bump \/ bump'.at # "store")
    BY <1>6 DEF Rebuild, Selects
  <2> QED
    BY <2>1, SpentNext
<1>7. ASSUME NEW s \in Sends, Debit(s) PROVE SeenInv'
  <2>1. UNCHANGED <<mined, paysFor, record>> /\ (bump' = bump \/ bump'.at # "store")
    BY <1>7 DEF Debit
  <2> QED
    BY <2>1, SpentNext
<1>8. ASSUME NEW s \in Sends, Record(s) PROVE SeenInv'
  <2>1. /\ UNCHANGED <<mined, paysFor, bump>> /\ record' = [record EXCEPT ![tx[s]] = s]
        /\ tx[s] \in Txs /\ coinOf[tx[s]] # None
    BY <1>8 DEF Record
  <2> QED
    BY <2>1, SpentNext
<1>9. ASSUME NEW s \in Sends, Broadcast(s) PROVE SeenInv'
  <2>1. /\ mempool' = (mempool \ Rivals(tx[s])) \cup {tx[s]} /\ UNCHANGED <<coinOf, mined>>
        /\ paysFor' = [paysFor EXCEPT ![tx[s]] = s] /\ tx[s] \in Txs /\ coinOf[tx[s]] # None
        /\ UNCHANGED <<record, bump>>
    BY <1>9 DEF Broadcast
  <2>2. tx[s] \in mempool'
    BY <2>1
  <2>3. coinOf[tx[s]] \in Spent'
    BY <2>1, <2>2 DEF Spent
  <2> QED
    BY <2>1, <2>3, SpentNext
<1>10. ASSUME NEW s \in Sends, BroadcastFails(s) PROVE SeenInv'
  <2>1. UNCHANGED <<mined, paysFor, record>> /\ (bump' = bump \/ bump'.at # "store")
    BY <1>10 DEF BroadcastFails
  <2> QED
    BY <2>1, SpentNext
<1>11. ASSUME NEW s \in Sends, Finish(s) PROVE SeenInv'
  <2>1. UNCHANGED <<mined, paysFor, record>> /\ (bump' = bump \/ bump'.at # "store")
    BY <1>11 DEF Finish, Leave
  <2> QED
    BY <2>1, SpentNext
<1>12. ASSUME NEW s \in Sends, Release(s) PROVE SeenInv'
  <2>1. UNCHANGED <<mined, paysFor, record>> /\ (bump' = bump \/ bump'.at # "store")
    BY <1>12 DEF Release, Leave
  <2> QED
    BY <2>1, SpentNext
<1>13. ASSUME NEW s \in Sends, Retry(s) PROVE SeenInv'
  <2>1. UNCHANGED <<mined, paysFor, record>> /\ (bump' = bump \/ bump'.at # "store")
    BY <1>13 DEF Retry
  <2> QED
    BY <2>1, SpentNext
<1>14. ASSUME NEW t \in Txs, Mine(t) PROVE SeenInv'
  <2>1. mined' = mined \cup {t} /\ paysFor[t] # None /\ UNCHANGED <<paysFor, record, bump>>
    BY <1>14 DEF Mine
  <2> QED
    BY <2>1, SpentNext
<1>15. ASSUME NEW t \in Txs, Expire(t) PROVE SeenInv'
  <2>1. UNCHANGED <<mined, paysFor, record>> /\ (bump' = bump \/ bump'.at # "store")
    BY <1>15 DEF Expire
  <2> QED
    BY <2>1, SpentNext
<1>16. ASSUME Fee PROVE SeenInv'
  <2>1. UNCHANGED <<mined, paysFor, record>> /\ (bump' = bump \/ bump'.at # "store")
    BY <1>16 DEF Fee, Selects
  <2> QED
    BY <2>1, SpentNext
<1>17. ASSUME BumpRead PROVE SeenInv'
  <2>1. UNCHANGED <<mined, paysFor, record>> /\ (bump' = bump \/ bump'.at # "store")
    BY <1>17 DEF BumpRead
  <2> QED
    BY <2>1, SpentNext
<1>18. ASSUME BumpFee PROVE SeenInv'
  <2>1. PICK t \in Txs : /\ coinOf[t] = None /\ coinOf' = [coinOf EXCEPT ![t] = coinOf[bump.old]]
                         /\ paysFor' = [paysFor EXCEPT ![t] = bump.send]
                         /\ bump' = [bump EXCEPT !.at = "store", !.new = t]
    BY <1>18 DEF BumpFee
  <2>2. bump.old \in mempool /\ UNCHANGED <<mined, record>> /\ bump.send # None
    BY <1>18 DEF BumpFee
  <2>3. coinOf'[t] = coinOf[bump.old] /\ coinOf[bump.old] # None /\ coinOf[bump.old] \in Spent
    BY <2>1, <2>2 DEF Spent
  <2>4. bump'.new = t
    BY <2>1
  <2> QED
    BY <2>1, <2>2, <2>3, <2>4, SpentNext
<1>19. ASSUME BumpRefused PROVE SeenInv'
  <2>1. UNCHANGED <<mined, paysFor, record>> /\ (bump' = bump \/ bump'.at # "store")
    BY <1>19 DEF BumpRefused
  <2> QED
    BY <2>1, SpentNext
<1>20. ASSUME BumpStore PROVE SeenInv'
  <2>1. /\ UNCHANGED <<mined, paysFor>> /\ bump'.at # "store"
        /\ record' = [record EXCEPT ![bump.new] = bump.send, ![bump.old] = None]
        /\ bump.new \in Txs /\ bump.old \in Txs /\ coinOf[bump.new] # None
    BY <1>20 DEF BumpStore
  <2>2. \A t \in Txs : coinOf[t] # None => coinOf'[t] = coinOf[t]
    BY SpentNext
  <2>3. ASSUME NEW t \in Txs, record'[t] # None PROVE record[t] # None \/ t = bump.new
    <3>1. CASE t = bump.old /\ t # bump.new
      BY <2>1, <2>3, <3>1 DEF RedisTyped
    <3>2. CASE t # bump.old /\ t # bump.new
      <4>1. record'[t] = record[t]
        BY <2>1, <3>2 DEF RedisTyped
      <4> QED
        BY <2>3, <4>1
    <3> QED
      BY <3>1, <3>2
  <2>4. \A t \in Txs : record'[t] # None => coinOf'[t] # None
    BY <2>1, <2>2, <2>3
  <2>5. \A t \in Txs : paysFor'[t] # None => coinOf'[t] # None /\ coinOf'[t] \in Spent'
    BY <2>1, <2>2, SpentNext
  <2> QED
    BY <2>1, <2>4, <2>5
<1>21. ASSUME BumpCharge PROVE SeenInv'
  <2>1. UNCHANGED <<mined, paysFor, record>> /\ (bump' = bump \/ bump'.at # "store")
    BY <1>21 DEF BumpCharge
  <2> QED
    BY <2>1, SpentNext
<1>22. ASSUME LookRead PROVE SeenInv'
  <2>1. UNCHANGED <<mined, paysFor, record>> /\ (bump' = bump \/ bump'.at # "store")
    BY <1>22 DEF LookRead
  <2> QED
    BY <2>1, SpentNext
<1>23. ASSUME LookWrite PROVE SeenInv'
  <2>1. UNCHANGED <<mined, paysFor, record>> /\ (bump' = bump \/ bump'.at # "store")
    BY <1>23 DEF LookWrite
  <2> QED
    BY <2>1, SpentNext
<1>24. ASSUME NodeRestarts PROVE SeenInv'
  <2>1. UNCHANGED <<mined, paysFor, record>> /\ (bump' = bump \/ bump'.at # "store")
    BY <1>24 DEF NodeRestarts
  <2> QED
    BY <2>1, SpentNext
<1>25. ASSUME Crash PROVE SeenInv'
  <2>1. UNCHANGED <<mined, paysFor, record>> /\ (bump' = bump \/ bump'.at # "store")
    BY <1>25 DEF Crash
  <2> QED
    BY <2>1, SpentNext
<1>26. CASE UNCHANGED vars
  BY <1>26 DEF vars, Spent
<1> QED
  BY <1>1, <1>2, <1>3, <1>4, <1>5, <1>6, <1>7, <1>8, <1>9, <1>10, <1>11, <1>12, <1>13, <1>14,
     <1>15, <1>16, <1>17, <1>18, <1>19, <1>20, <1>21, <1>22, <1>23, <1>24, <1>25, <1>26 DEF
     Next, Send

(* The transaction a send has locked. *)
LEMMA SameNext == ASSUME TypeInv, SameInv, [Next]_vars PROVE SameInv'
<1> USE OnchainSendAssumption DEF OnchainSendAssumption, TypeInv, LocalsTyped, HistoryTyped,
      SameInv, Idle, Goto, chain, redis, locals, others, history, bounds
<1>1. ASSUME NEW s \in Sends, Build(s) PROVE SameInv'
  BY <1>1 DEF Build, Selects
<1>2. ASSUME NEW s \in Sends, Submit(s) PROVE SameInv'
  BY <1>2 DEF Submit
<1>3. ASSUME NEW s \in Sends, Lock(s) PROVE SameInv'
  BY <1>3 DEF Lock, Leave, Coin
<1>4. ASSUME NEW s \in Sends, SendLock(s) PROVE SameInv'
  BY <1>4 DEF SendLock
<1>5. ASSUME NEW s \in Sends, Check(s) PROVE SameInv'
  BY <1>5 DEF Check
<1>6. ASSUME NEW s \in Sends, Rebuild(s) PROVE SameInv'
  BY <1>6 DEF Rebuild, Selects
<1>7. ASSUME NEW s \in Sends, Debit(s) PROVE SameInv'
  BY <1>7 DEF Debit
<1>8. ASSUME NEW s \in Sends, Record(s) PROVE SameInv'
  BY <1>8 DEF Record
<1>9. ASSUME NEW s \in Sends, Broadcast(s) PROVE SameInv'
  BY <1>9 DEF Broadcast
<1>10. ASSUME NEW s \in Sends, BroadcastFails(s) PROVE SameInv'
  BY <1>10 DEF BroadcastFails
<1>11. ASSUME NEW s \in Sends, Finish(s) PROVE SameInv'
  BY <1>11 DEF Finish, Leave
<1>12. ASSUME NEW s \in Sends, Release(s) PROVE SameInv'
  BY <1>12 DEF Release, Leave
<1>13. ASSUME NEW s \in Sends, Retry(s) PROVE SameInv'
  BY <1>13 DEF Retry
<1>14. ASSUME NEW t \in Txs, Mine(t) PROVE SameInv'
  BY <1>14 DEF Mine
<1>15. ASSUME NEW t \in Txs, Expire(t) PROVE SameInv'
  BY <1>15 DEF Expire
<1>16. ASSUME Fee PROVE SameInv'
  BY <1>16 DEF Fee, Selects
<1>17. ASSUME BumpRead PROVE SameInv'
  BY <1>17 DEF BumpRead
<1>18. ASSUME BumpFee PROVE SameInv'
  BY <1>18 DEF BumpFee
<1>19. ASSUME BumpRefused PROVE SameInv'
  BY <1>19 DEF BumpRefused
<1>20. ASSUME BumpStore PROVE SameInv'
  BY <1>20 DEF BumpStore
<1>21. ASSUME BumpCharge PROVE SameInv'
  BY <1>21 DEF BumpCharge
<1>22. ASSUME LookRead PROVE SameInv'
  BY <1>22 DEF LookRead
<1>23. ASSUME LookWrite PROVE SameInv'
  BY <1>23 DEF LookWrite
<1>24. ASSUME NodeRestarts PROVE SameInv'
  BY <1>24 DEF NodeRestarts
<1>25. ASSUME Crash PROVE SameInv'
  BY <1>25 DEF Crash
<1>26. CASE UNCHANGED vars
  BY <1>26 DEF vars
<1> QED
  BY <1>1, <1>2, <1>3, <1>4, <1>5, <1>6, <1>7, <1>8, <1>9, <1>10, <1>11, <1>12, <1>13, <1>14,
     <1>15, <1>16, <1>17, <1>18, <1>19, <1>20, <1>21, <1>22, <1>23, <1>24, <1>25, <1>26 DEF
     Next, Send

(* Reservations and spent coins. *)
LEMMA FreshNext ==
  ASSUME TypeInv, CoinInv, SeenInv, SameInv, FreshInv, [Next]_vars PROVE FreshInv'
<1> USE OnchainSendAssumption DEF OnchainSendAssumption, TypeInv, NodeTyped, LocalsTyped,
      HistoryTyped, FreshInv, Kept, Reserving, Idle, Goto, chain, redis, locals, others, history,
      bounds
<1>1. ASSUME NEW s \in Sends, Build(s) PROVE FreshInv'
  <2>1. Spent' \subseteq Spent
    BY <1>1, SpentNext DEF SpentNew, Build, Selects
  <2> QED
    BY <1>1, <2>1, SpentNext DEF SpentKept, Build, Selects
<1>2. ASSUME NEW s \in Sends, Submit(s) PROVE FreshInv'
  <2>1. Spent' \subseteq Spent
    BY <1>2, SpentNext DEF SpentNew, Submit
  <2> QED
    BY <1>2, <2>1, SpentNext DEF SpentKept, Submit
<1>3. ASSUME NEW s \in Sends, Lock(s) PROVE FreshInv'
  <2>1. UNCHANGED <<coinOf, mempool, mined, vault, forgot, rebuilt>> /\ pc[s] = "lock"
    BY <1>3 DEF Lock
  <2>2. Spent' = Spent
    BY <2>1 DEF Spent
  <2>3. CASE Coin(s) \in locked \cup Spent
    <3>1. pc' = [pc EXCEPT ![s] = "done"] /\ tx' = [tx EXCEPT ![s] = None]
      BY <1>3, <2>3 DEF Lock, Leave
    <3> QED
      BY <2>1, <2>2, <3>1
  <2>4. CASE Coin(s) \notin locked \cup Spent
    <3>1. pc' = [pc EXCEPT ![s] = "sendlock"] /\ UNCHANGED tx /\ coinOf[tx[s]] \notin Spent
      BY <1>3, <2>4 DEF Lock, Coin
    <3> QED
      BY <2>1, <2>2, <3>1
  <2> QED
    BY <2>3, <2>4
<1>4. ASSUME NEW s \in Sends, SendLock(s) PROVE FreshInv'
  <2>1. Spent' \subseteq Spent
    BY <1>4, SpentNext DEF SpentNew, SendLock
  <2> QED
    BY <1>4, <2>1, SpentNext DEF SpentKept, SendLock
<1>5. ASSUME NEW s \in Sends, Check(s) PROVE FreshInv'
  <2>1. Spent' \subseteq Spent
    BY <1>5, SpentNext DEF SpentNew, Check
  <2> QED
    BY <1>5, <2>1, SpentNext DEF SpentKept, Check
<1>6. ASSUME NEW s \in Sends, Rebuild(s) PROVE FreshInv'
  <2>1. Spent' \subseteq Spent
    BY <1>6, SpentNext DEF SpentNew, Rebuild, Selects
  <2> QED
    BY <1>6, <2>1, SpentNext DEF SpentKept, Rebuild, Selects
<1>7. ASSUME NEW s \in Sends, Debit(s) PROVE FreshInv'
  <2>1. Spent' \subseteq Spent
    BY <1>7, SpentNext DEF SpentNew, Debit
  <2> QED
    BY <1>7, <2>1, SpentNext DEF SpentKept, Debit
<1>8. ASSUME NEW s \in Sends, Record(s) PROVE FreshInv'
  <2>1. Spent' \subseteq Spent
    BY <1>8, SpentNext DEF SpentNew, Record
  <2> QED
    BY <1>8, <2>1, SpentNext DEF SpentKept, Record
<1>9. ASSUME NEW s \in Sends, Broadcast(s) PROVE FreshInv'
  <2>1. /\ pc' = [pc EXCEPT ![s] = "finish"] /\ pc[s] = "broadcast"
        /\ UNCHANGED <<coinOf, tx, vault, forgot, rebuilt>>
    BY <1>9 DEF Broadcast
  <2>2. ASSUME Kept, NEW r \in Sends \ {s}, pc[r] \in Reserving
        PROVE coinOf[tx[r]] # coinOf[tx[s]]
    <3>1. Reserves(r) = coinOf[tx[r]] /\ Reserves(s) = coinOf[tx[s]] /\ Holds(r) /\ Holds(s)
      BY <2>1, <2>2 DEF Reserves, Holds, Kept, SameInv, Reserving
    <3> QED
      BY <2>2, <3>1 DEF CoinInv, Kept
  <2>3. Spent' \subseteq Spent \cup {coinOf[tx[s]]}
    BY <2>1, SpentNext DEF SpentNew
  <2> QED
    BY <2>1, <2>2, <2>3
<1>10. ASSUME NEW s \in Sends, BroadcastFails(s) PROVE FreshInv'
  <2>1. Spent' \subseteq Spent
    BY <1>10, SpentNext DEF SpentNew, BroadcastFails
  <2> QED
    BY <1>10, <2>1, SpentNext DEF SpentKept, BroadcastFails
<1>11. ASSUME NEW s \in Sends, Finish(s) PROVE FreshInv'
  <2>1. Spent' \subseteq Spent
    BY <1>11, SpentNext DEF SpentNew, Finish, Leave
  <2> QED
    BY <1>11, <2>1, SpentNext DEF SpentKept, Finish, Leave
<1>12. ASSUME NEW s \in Sends, Release(s) PROVE FreshInv'
  <2>1. Spent' \subseteq Spent
    BY <1>12, SpentNext DEF SpentNew, Release, Leave
  <2> QED
    BY <1>12, <2>1, SpentNext DEF SpentKept, Release, Leave
<1>13. ASSUME NEW s \in Sends, Retry(s) PROVE FreshInv'
  <2>1. Spent' \subseteq Spent
    BY <1>13, SpentNext DEF SpentNew, Retry
  <2> QED
    BY <1>13, <2>1, SpentNext DEF SpentKept, Retry
<1>14. ASSUME NEW t \in Txs, Mine(t) PROVE FreshInv'
  <2>1. Spent' \subseteq Spent
    BY <1>14, SpentNext DEF SpentNew, Mine
  <2> QED
    BY <1>14, <2>1, SpentNext DEF SpentKept, Mine
<1>15. ASSUME NEW t \in Txs, Expire(t) PROVE FreshInv'
  <2>1. Spent' \subseteq Spent
    BY <1>15, SpentNext DEF SpentNew, Expire
  <2> QED
    BY <1>15, <2>1, SpentNext DEF SpentKept, Expire
<1>16. ASSUME Fee PROVE FreshInv'
  <2>1. Spent' \subseteq Spent
    BY <1>16, SpentNext DEF SpentNew, Fee, Selects
  <2> QED
    BY <1>16, <2>1, SpentNext DEF SpentKept, Fee, Selects
<1>17. ASSUME BumpRead PROVE FreshInv'
  <2>1. Spent' \subseteq Spent
    BY <1>17, SpentNext DEF SpentNew, BumpRead
  <2> QED
    BY <1>17, <2>1, SpentNext DEF SpentKept, BumpRead
<1>18. ASSUME BumpFee PROVE FreshInv'
  <2>1. Spent' \subseteq Spent
    BY <1>18, SpentNext DEF SpentNew, BumpFee
  <2> QED
    BY <1>18, <2>1, SpentNext DEF SpentKept, BumpFee
<1>19. ASSUME BumpRefused PROVE FreshInv'
  <2>1. Spent' \subseteq Spent
    BY <1>19, SpentNext DEF SpentNew, BumpRefused
  <2> QED
    BY <1>19, <2>1, SpentNext DEF SpentKept, BumpRefused
<1>20. ASSUME BumpStore PROVE FreshInv'
  <2>1. Spent' \subseteq Spent
    BY <1>20, SpentNext DEF SpentNew, BumpStore
  <2> QED
    BY <1>20, <2>1, SpentNext DEF SpentKept, BumpStore
<1>21. ASSUME BumpCharge PROVE FreshInv'
  <2>1. Spent' \subseteq Spent
    BY <1>21, SpentNext DEF SpentNew, BumpCharge
  <2> QED
    BY <1>21, <2>1, SpentNext DEF SpentKept, BumpCharge
<1>22. ASSUME LookRead PROVE FreshInv'
  <2>1. Spent' \subseteq Spent
    BY <1>22, SpentNext DEF SpentNew, LookRead
  <2> QED
    BY <1>22, <2>1, SpentNext DEF SpentKept, LookRead
<1>23. ASSUME LookWrite PROVE FreshInv'
  <2>1. Spent' \subseteq Spent
    BY <1>23, SpentNext DEF SpentNew, LookWrite
  <2> QED
    BY <1>23, <2>1, SpentNext DEF SpentKept, LookWrite
<1>24. ASSUME NodeRestarts PROVE FreshInv'
  <2>1. Spent' \subseteq Spent
    BY <1>24, SpentNext DEF SpentNew, NodeRestarts
  <2> QED
    BY <1>24, <2>1, SpentNext DEF SpentKept, NodeRestarts
<1>25. ASSUME Crash PROVE FreshInv'
  <2>1. Spent' \subseteq Spent
    BY <1>25, SpentNext DEF SpentNew, Crash
  <2> QED
    BY <1>25, <2>1, SpentNext DEF SpentKept, Crash
<1>26. CASE UNCHANGED vars
  BY <1>26 DEF vars, Spent
<1> QED
  BY <1>1, <1>2, <1>3, <1>4, <1>5, <1>6, <1>7, <1>8, <1>9, <1>10, <1>11, <1>12, <1>13, <1>14,
     <1>15, <1>16, <1>17, <1>18, <1>19, <1>20, <1>21, <1>22, <1>23, <1>24, <1>25, <1>26 DEF
     Next, Send

(* Records of transactions. *)
LEMMA RecordNext ==
  ASSUME TypeInv, CoinInv, SeenInv, SameInv, FreshInv, RecordInv, ClaimInv, [Next]_vars
  PROVE RecordInv'
<1> USE OnchainSendAssumption DEF OnchainSendAssumption, TypeInv, NodeTyped, RedisTyped,
      LocalsTyped, OthersTyped, HistoryTyped, RecordInv, ClaimInv, Kept, Idle, Goto, chain, redis,
      locals, others, history, bounds
<1>1. ASSUME NEW s \in Sends, Build(s) PROVE RecordInv'
  BY <1>1 DEF Build, Selects
<1>2. ASSUME NEW s \in Sends, Submit(s) PROVE RecordInv'
  BY <1>2 DEF Submit
<1>3. ASSUME NEW s \in Sends, Lock(s) PROVE RecordInv'
  BY <1>3 DEF Lock, Leave, Coin
<1>4. ASSUME NEW s \in Sends, SendLock(s) PROVE RecordInv'
  BY <1>4 DEF SendLock
<1>5. ASSUME NEW s \in Sends, Check(s) PROVE RecordInv'
  BY <1>5 DEF Check
<1>6. ASSUME NEW s \in Sends, Rebuild(s) PROVE RecordInv'
  BY <1>6 DEF Rebuild, Selects
<1>7. ASSUME NEW s \in Sends, Debit(s) PROVE RecordInv'
  BY <1>7 DEF Debit
<1>8. ASSUME NEW s \in Sends, Record(s) PROVE RecordInv'
  <2>1. /\ pc' = [pc EXCEPT ![s] = "broadcast"] /\ pc[s] = "record" /\ record' = [record EXCEPT ![tx[s]] = s]
        /\ UNCHANGED <<coinOf, tx, vault, forgot, rebuilt>> /\ tx[s] \in Txs
    BY <1>8 DEF Record
  <2>2. ASSUME Kept, NEW r \in Sends \ {s}, pc[r] \in Reserving
        PROVE tx[r] # tx[s]
    <3>1. Reserves(r) = coinOf[tx[r]] /\ Reserves(s) = coinOf[tx[s]] /\ Holds(r) /\ Holds(s)
      BY <2>1, <2>2 DEF Reserves, Holds, Kept, SameInv, Reserving
    <3> QED
      BY <2>2, <3>1 DEF CoinInv, Kept
  <2> QED
    BY <2>1, <2>2 DEF Kept, Reserving
<1>9. ASSUME NEW s \in Sends, Broadcast(s) PROVE RecordInv'
  BY <1>9 DEF Broadcast
<1>10. ASSUME NEW s \in Sends, BroadcastFails(s) PROVE RecordInv'
  BY <1>10 DEF BroadcastFails
<1>11. ASSUME NEW s \in Sends, Finish(s) PROVE RecordInv'
  BY <1>11 DEF Finish, Leave
<1>12. ASSUME NEW s \in Sends, Release(s) PROVE RecordInv'
  BY <1>12 DEF Release, Leave
<1>13. ASSUME NEW s \in Sends, Retry(s) PROVE RecordInv'
  BY <1>13 DEF Retry
<1>14. ASSUME NEW t \in Txs, Mine(t) PROVE RecordInv'
  BY <1>14 DEF Mine
<1>15. ASSUME NEW t \in Txs, Expire(t) PROVE RecordInv'
  BY <1>15 DEF Expire
<1>16. ASSUME Fee PROVE RecordInv'
  BY <1>16 DEF Fee, Selects
<1>17. ASSUME BumpRead PROVE RecordInv'
  BY <1>17 DEF BumpRead
<1>18. ASSUME BumpFee PROVE RecordInv'
  BY <1>18 DEF BumpFee
<1>19. ASSUME BumpRefused PROVE RecordInv'
  BY <1>19 DEF BumpRefused
<1>20. ASSUME BumpStore PROVE RecordInv'
  <2>1. /\ record' = [record EXCEPT ![bump.new] = bump.send, ![bump.old] = None]
        /\ paysFor[bump.old] # None /\ bump.old \in Txs /\ bump.new \in Txs
        /\ UNCHANGED <<pc, coinOf, tx, vault, forgot, rebuilt>>
    BY <1>20 DEF BumpStore
  <2>2. Kept => paysFor[bump.new] # None
    BY <1>20 DEF BumpStore, Kept
  <2>3. ASSUME Kept, NEW r \in Sends, pc[r] \in {"debit", "record", "broadcast"}
        PROVE tx[r] # bump.old /\ tx[r] # bump.new /\ tx[r] \in Txs
    BY <2>1, <2>2, <2>3 DEF FreshInv, SeenInv, Reserving
  <2>4. Kept' = Kept
    BY <2>1 DEF Kept
  <2> QED
    BY <2>1, <2>3, <2>4
<1>21. ASSUME BumpCharge PROVE RecordInv'
  BY <1>21 DEF BumpCharge
<1>22. ASSUME LookRead PROVE RecordInv'
  BY <1>22 DEF LookRead
<1>23. ASSUME LookWrite PROVE RecordInv'
  BY <1>23 DEF LookWrite
<1>24. ASSUME NodeRestarts PROVE RecordInv'
  BY <1>24 DEF NodeRestarts
<1>25. ASSUME Crash PROVE RecordInv'
  BY <1>25 DEF Crash
<1>26. CASE UNCHANGED vars
  BY <1>26 DEF vars
<1> QED
  BY <1>1, <1>2, <1>3, <1>4, <1>5, <1>6, <1>7, <1>8, <1>9, <1>10, <1>11, <1>12, <1>13, <1>14,
     <1>15, <1>16, <1>17, <1>18, <1>19, <1>20, <1>21, <1>22, <1>23, <1>24, <1>25, <1>26 DEF
     Next, Send

(* Claims stay. *)
LEMMA ClaimedNext ==
  ASSUME TypeInv, SeenInv, FreshInv, RecordInv, ClaimInv, [Next]_vars
  PROVE \A u \in Txs, r \in Sends : Kept /\ Claimed(u, r) => Claims(u, r)
<1> USE OnchainSendAssumption DEF OnchainSendAssumption, TypeInv, NodeTyped, RedisTyped,
      LocalsTyped, OthersTyped, HistoryTyped, Claimed, Claims, Idle, Goto, chain, redis, locals,
      others, history, bounds
<1>1. ASSUME NEW s \in Sends, Build(s)
            PROVE \A u \in Txs, r \in Sends : Kept /\ Claimed(u, r) => Claims(u, r)
  BY <1>1 DEF Build, Selects
<1>2. ASSUME NEW s \in Sends, Submit(s)
            PROVE \A u \in Txs, r \in Sends : Kept /\ Claimed(u, r) => Claims(u, r)
  BY <1>2 DEF Submit
<1>3. ASSUME NEW s \in Sends, Lock(s)
            PROVE \A u \in Txs, r \in Sends : Kept /\ Claimed(u, r) => Claims(u, r)
  BY <1>3 DEF Lock, Leave, Coin
<1>4. ASSUME NEW s \in Sends, SendLock(s)
            PROVE \A u \in Txs, r \in Sends : Kept /\ Claimed(u, r) => Claims(u, r)
  BY <1>4 DEF SendLock
<1>5. ASSUME NEW s \in Sends, Check(s)
            PROVE \A u \in Txs, r \in Sends : Kept /\ Claimed(u, r) => Claims(u, r)
  BY <1>5 DEF Check
<1>6. ASSUME NEW s \in Sends, Rebuild(s)
            PROVE \A u \in Txs, r \in Sends : Kept /\ Claimed(u, r) => Claims(u, r)
  BY <1>6 DEF Rebuild, Selects
<1>7. ASSUME NEW s \in Sends, Debit(s)
            PROVE \A u \in Txs, r \in Sends : Kept /\ Claimed(u, r) => Claims(u, r)
  BY <1>7 DEF Debit
<1>8. ASSUME NEW s \in Sends, Record(s)
            PROVE \A u \in Txs, r \in Sends : Kept /\ Claimed(u, r) => Claims(u, r)
  <2>1. /\ record' = [record EXCEPT ![tx[s]] = s] /\ pc[s] = "record" /\ tx[s] \in Txs
        /\ UNCHANGED <<paysFor, vault, forgot, rebuilt>>
    BY <1>8 DEF Record
  <2>2. Kept => record[tx[s]] = None
    BY <2>1 DEF RecordInv
  <2> QED
    BY <2>1, <2>2 DEF Kept
<1>9. ASSUME NEW s \in Sends, Broadcast(s)
            PROVE \A u \in Txs, r \in Sends : Kept /\ Claimed(u, r) => Claims(u, r)
  <2>1. /\ paysFor' = [paysFor EXCEPT ![tx[s]] = s] /\ pc[s] = "broadcast" /\ tx[s] \in Txs
        /\ UNCHANGED <<record, vault, forgot, rebuilt>>
    BY <1>9 DEF Broadcast
  <2>2. Kept => record[tx[s]] = s /\ paysFor[tx[s]] = None
    BY <2>1 DEF RecordInv, FreshInv, Reserving, SeenInv
  <2> QED
    BY <2>1, <2>2 DEF Kept
<1>10. ASSUME NEW s \in Sends, BroadcastFails(s)
            PROVE \A u \in Txs, r \in Sends : Kept /\ Claimed(u, r) => Claims(u, r)
  BY <1>10 DEF BroadcastFails
<1>11. ASSUME NEW s \in Sends, Finish(s)
            PROVE \A u \in Txs, r \in Sends : Kept /\ Claimed(u, r) => Claims(u, r)
  BY <1>11 DEF Finish, Leave
<1>12. ASSUME NEW s \in Sends, Release(s)
            PROVE \A u \in Txs, r \in Sends : Kept /\ Claimed(u, r) => Claims(u, r)
  BY <1>12 DEF Release, Leave
<1>13. ASSUME NEW s \in Sends, Retry(s)
            PROVE \A u \in Txs, r \in Sends : Kept /\ Claimed(u, r) => Claims(u, r)
  BY <1>13 DEF Retry
<1>14. ASSUME NEW t \in Txs, Mine(t)
            PROVE \A u \in Txs, r \in Sends : Kept /\ Claimed(u, r) => Claims(u, r)
  BY <1>14 DEF Mine
<1>15. ASSUME NEW t \in Txs, Expire(t)
            PROVE \A u \in Txs, r \in Sends : Kept /\ Claimed(u, r) => Claims(u, r)
  BY <1>15 DEF Expire
<1>16. ASSUME Fee
            PROVE \A u \in Txs, r \in Sends : Kept /\ Claimed(u, r) => Claims(u, r)
  BY <1>16 DEF Fee, Selects
<1>17. ASSUME BumpRead
            PROVE \A u \in Txs, r \in Sends : Kept /\ Claimed(u, r) => Claims(u, r)
  BY <1>17 DEF BumpRead
<1>18. ASSUME BumpFee
            PROVE \A u \in Txs, r \in Sends : Kept /\ Claimed(u, r) => Claims(u, r)
  <2>1. PICK t \in Txs : coinOf[t] = None /\ paysFor' = [paysFor EXCEPT ![t] = bump.send]
    BY <1>18 DEF BumpFee
  <2>2. UNCHANGED <<record, vault, forgot, rebuilt>>
    BY <1>18 DEF BumpFee
  <2>3. paysFor[t] = None /\ record[t] = None
    BY <2>1 DEF SeenInv
  <2>4. ASSUME NEW u \in Txs, NEW r \in Sends, Claimed(u, r), u # t PROVE Claims(u, r)
    BY <2>1, <2>2, <2>4
  <2> QED
    BY <2>1, <2>2, <2>3, <2>4 DEF Kept
<1>19. ASSUME BumpRefused
            PROVE \A u \in Txs, r \in Sends : Kept /\ Claimed(u, r) => Claims(u, r)
  BY <1>19 DEF BumpRefused
<1>20. ASSUME BumpStore
            PROVE \A u \in Txs, r \in Sends : Kept /\ Claimed(u, r) => Claims(u, r)
  <2>1. /\ record' = [record EXCEPT ![bump.new] = bump.send, ![bump.old] = None]
        /\ paysFor[bump.old] # None /\ bump.old \in Txs /\ bump.new \in Txs
        /\ UNCHANGED <<paysFor, vault, forgot, rebuilt>>
    BY <1>20 DEF BumpStore
  <2>2. Kept => paysFor[bump.new] # None
    BY <1>20 DEF BumpStore, Kept, ClaimInv
  <2> QED
    BY <2>1, <2>2 DEF Kept
<1>21. ASSUME BumpCharge
            PROVE \A u \in Txs, r \in Sends : Kept /\ Claimed(u, r) => Claims(u, r)
  BY <1>21 DEF BumpCharge
<1>22. ASSUME LookRead
            PROVE \A u \in Txs, r \in Sends : Kept /\ Claimed(u, r) => Claims(u, r)
  BY <1>22 DEF LookRead
<1>23. ASSUME LookWrite
            PROVE \A u \in Txs, r \in Sends : Kept /\ Claimed(u, r) => Claims(u, r)
  BY <1>23 DEF LookWrite
<1>24. ASSUME NodeRestarts
            PROVE \A u \in Txs, r \in Sends : Kept /\ Claimed(u, r) => Claims(u, r)
  BY <1>24 DEF NodeRestarts
<1>25. ASSUME Crash
            PROVE \A u \in Txs, r \in Sends : Kept /\ Claimed(u, r) => Claims(u, r)
  BY <1>25 DEF Crash
<1>26. CASE UNCHANGED vars
  BY <1>26 DEF vars
<1> QED
  BY <1>1, <1>2, <1>3, <1>4, <1>5, <1>6, <1>7, <1>8, <1>9, <1>10, <1>11, <1>12, <1>13, <1>14,
     <1>15, <1>16, <1>17, <1>18, <1>19, <1>20, <1>21, <1>22, <1>23, <1>24, <1>25, <1>26 DEF
     Next, Send

(* Payments and their copies. *)
LEMMA ClaimNext ==
  ASSUME TypeInv, SeenInv, SameInv, FreshInv, RecordInv, ClaimInv, [Next]_vars PROVE ClaimInv'
<1>0. \A u \in Txs, r \in Sends : Kept /\ Claimed(u, r) => Claims(u, r)
  BY ClaimedNext
<1> USE <1>0, OnchainSendAssumption DEF OnchainSendAssumption, TypeInv, NodeTyped, RedisTyped,
      LocalsTyped, OthersTyped, HistoryTyped, ClaimInv, Claimed, Claims, Kept, Payment, Idle,
      Goto, chain, redis, locals, others, history, bounds
<1>1. ASSUME NEW s \in Sends, Build(s) PROVE ClaimInv'
  BY <1>1 DEF Build, Selects
<1>2. ASSUME NEW s \in Sends, Submit(s) PROVE ClaimInv'
  BY <1>2 DEF Submit
<1>3. ASSUME NEW s \in Sends, Lock(s) PROVE ClaimInv'
  BY <1>3 DEF Lock, Leave, Coin
<1>4. ASSUME NEW s \in Sends, SendLock(s) PROVE ClaimInv'
  BY <1>4 DEF SendLock
<1>5. ASSUME NEW s \in Sends, Check(s) PROVE ClaimInv'
  BY <1>5 DEF Check
<1>6. ASSUME NEW s \in Sends, Rebuild(s) PROVE ClaimInv'
  BY <1>6 DEF Rebuild, Selects
<1>7. ASSUME NEW s \in Sends, Debit(s) PROVE ClaimInv'
  BY <1>7 DEF Debit
<1>8. ASSUME NEW s \in Sends, Record(s) PROVE ClaimInv'
  <2>1. /\ payment' = [payment EXCEPT ![s] = [hash |-> tx[s], confirmed |-> FALSE]]
        /\ record' = [record EXCEPT ![tx[s]] = s] /\ tx[s] \in Txs /\ pc[s] = "record"
        /\ UNCHANGED <<paysFor, look, bump, vault, forgot, rebuilt>>
    BY <1>8 DEF Record
  <2>2. Kept => Claims(tx[s], s)
    BY <2>1 DEF FreshInv, Reserving, SeenInv
  <2>3. ASSUME Kept, NEW r \in Sends, payment'[r] # None PROVE Claims(payment'[r].hash, r)
    <3>1. CASE r = s
      BY <2>1, <2>2, <2>3, <3>1
    <3>2. CASE r # s
      <4>1. payment'[r] = payment[r] /\ payment[r].hash \in Txs
        BY <2>1, <2>3, <3>2
      <4> QED
        BY <2>3, <4>1
    <3> QED
      BY <3>1, <3>2
  <2>4. /\ Kept /\ look.send # None => Claims(look.hash, look.send)
        /\ Kept /\ bump.at = "read" => Claims(bump.old, bump.send)
    OBVIOUS
  <2> QED
    BY <2>1, <2>3, <2>4
<1>9. ASSUME NEW s \in Sends, Broadcast(s) PROVE ClaimInv'
  BY <1>9 DEF Broadcast
<1>10. ASSUME NEW s \in Sends, BroadcastFails(s) PROVE ClaimInv'
  BY <1>10 DEF BroadcastFails
<1>11. ASSUME NEW s \in Sends, Finish(s) PROVE ClaimInv'
  BY <1>11 DEF Finish, Leave
<1>12. ASSUME NEW s \in Sends, Release(s) PROVE ClaimInv'
  BY <1>12 DEF Release, Leave
<1>13. ASSUME NEW s \in Sends, Retry(s) PROVE ClaimInv'
  BY <1>13 DEF Retry
<1>14. ASSUME NEW t \in Txs, Mine(t) PROVE ClaimInv'
  BY <1>14 DEF Mine
<1>15. ASSUME NEW t \in Txs, Expire(t) PROVE ClaimInv'
  BY <1>15 DEF Expire
<1>16. ASSUME Fee PROVE ClaimInv'
  BY <1>16 DEF Fee, Selects
<1>17. ASSUME BumpRead PROVE ClaimInv'
  BY <1>17 DEF BumpRead
<1>18. ASSUME BumpFee PROVE ClaimInv'
  BY <1>18 DEF BumpFee
<1>19. ASSUME BumpRefused PROVE ClaimInv'
  BY <1>19 DEF BumpRefused
<1>20. ASSUME BumpStore PROVE ClaimInv'
  <2>1. /\ payment' = [payment EXCEPT ![bump.send] = [hash |-> bump.new, confirmed |-> FALSE]]
        /\ bump.send \in Sends /\ bump.new \in Txs /\ bump'.at = "charge"
        /\ UNCHANGED <<paysFor, look, vault, forgot, rebuilt>>
    BY <1>20 DEF BumpStore
  <2>2. Kept => Claims(bump.new, bump.send)
    BY <1>20, <2>1 DEF BumpStore
  <2>3. ASSUME Kept, NEW r \in Sends, payment'[r] # None PROVE Claims(payment'[r].hash, r)
    <3>1. CASE r = bump.send
      BY <2>1, <2>2, <2>3, <3>1
    <3>2. CASE r # bump.send
      <4>1. payment'[r] = payment[r] /\ payment[r].hash \in Txs
        BY <2>1, <2>3, <3>2
      <4> QED
        BY <2>3, <4>1
    <3> QED
      BY <3>1, <3>2
  <2>4. Kept /\ look.send # None => Claims(look.hash, look.send)
    OBVIOUS
  <2> QED
    BY <2>1, <2>3, <2>4
<1>21. ASSUME BumpCharge PROVE ClaimInv'
  BY <1>21 DEF BumpCharge
<1>22. ASSUME LookRead PROVE ClaimInv'
  BY <1>22 DEF LookRead
<1>23. ASSUME LookWrite PROVE ClaimInv'
  <2>1. /\ payment' \in {payment, [payment EXCEPT ![look.send] = [hash |-> look.hash, confirmed |-> TRUE]]}
        /\ look.send \in Sends /\ look.hash \in Txs /\ look'.send = None
        /\ UNCHANGED <<paysFor, bump, vault, forgot, rebuilt>>
    BY <1>23 DEF LookWrite
  <2>3. ASSUME Kept, NEW r \in Sends, payment'[r] # None PROVE Claims(payment'[r].hash, r)
    <3>1. CASE payment'[r] # payment[r]
      <4>1. r = look.send /\ payment'[r].hash = look.hash
        BY <2>1, <3>1
      <4> QED
        BY <2>1, <2>3, <4>1
    <3>2. CASE payment'[r] = payment[r]
      <4>1. payment'[r] = payment[r] /\ payment[r].hash \in Txs
        BY <2>1, <2>3, <3>2
      <4> QED
        BY <2>3, <4>1
    <3> QED
      BY <3>1, <3>2
  <2>4. Kept /\ bump.at = "read" => Claims(bump.old, bump.send)
    OBVIOUS
  <2> QED
    BY <2>1, <2>3, <2>4
<1>24. ASSUME NodeRestarts PROVE ClaimInv'
  BY <1>24 DEF NodeRestarts
<1>25. ASSUME Crash PROVE ClaimInv'
  BY <1>25 DEF Crash
<1>26. CASE UNCHANGED vars
  BY <1>26 DEF vars
<1> QED
  BY <1>1, <1>2, <1>3, <1>4, <1>5, <1>6, <1>7, <1>8, <1>9, <1>10, <1>11, <1>12, <1>13, <1>14,
     <1>15, <1>16, <1>17, <1>18, <1>19, <1>20, <1>21, <1>22, <1>23, <1>24, <1>25, <1>26 DEF
     Next, Send

(* Two transactions over one coin. *)
LEMMA OneNext ==
  ASSUME TypeInv, SeenInv, FreshInv, ClaimInv, OneInv, [Next]_vars PROVE OneInv'
<1> USE OnchainSendAssumption DEF OnchainSendAssumption, TypeInv, NodeTyped, LocalsTyped,
      OthersTyped, HistoryTyped, SeenInv, OneInv, Kept, Idle, Goto, chain, redis, locals, others,
      history, bounds
<1>1. ASSUME NEW s \in Sends, Build(s) PROVE OneInv'
  BY <1>1 DEF Build, Selects
<1>2. ASSUME NEW s \in Sends, Submit(s) PROVE OneInv'
  BY <1>2 DEF Submit
<1>3. ASSUME NEW s \in Sends, Lock(s) PROVE OneInv'
  BY <1>3 DEF Lock, Leave, Coin
<1>4. ASSUME NEW s \in Sends, SendLock(s) PROVE OneInv'
  BY <1>4 DEF SendLock
<1>5. ASSUME NEW s \in Sends, Check(s) PROVE OneInv'
  BY <1>5 DEF Check
<1>6. ASSUME NEW s \in Sends, Rebuild(s) PROVE OneInv'
  BY <1>6 DEF Rebuild, Selects
<1>7. ASSUME NEW s \in Sends, Debit(s) PROVE OneInv'
  BY <1>7 DEF Debit
<1>8. ASSUME NEW s \in Sends, Record(s) PROVE OneInv'
  BY <1>8 DEF Record
<1>9. ASSUME NEW s \in Sends, Broadcast(s) PROVE OneInv'
  <2>1. /\ paysFor' = [paysFor EXCEPT ![tx[s]] = s] /\ tx[s] \in Txs /\ pc[s] = "broadcast"
        /\ UNCHANGED <<coinOf, vault, forgot, rebuilt>>
    BY <1>9 DEF Broadcast
  <2>2. Kept => \A u \in Txs : paysFor[u] # None => coinOf[u] # coinOf[tx[s]]
    BY <2>1 DEF FreshInv, Reserving
  <2> QED
    BY <2>1, <2>2
<1>10. ASSUME NEW s \in Sends, BroadcastFails(s) PROVE OneInv'
  BY <1>10 DEF BroadcastFails
<1>11. ASSUME NEW s \in Sends, Finish(s) PROVE OneInv'
  BY <1>11 DEF Finish, Leave
<1>12. ASSUME NEW s \in Sends, Release(s) PROVE OneInv'
  BY <1>12 DEF Release, Leave
<1>13. ASSUME NEW s \in Sends, Retry(s) PROVE OneInv'
  BY <1>13 DEF Retry
<1>14. ASSUME NEW t \in Txs, Mine(t) PROVE OneInv'
  BY <1>14 DEF Mine
<1>15. ASSUME NEW t \in Txs, Expire(t) PROVE OneInv'
  BY <1>15 DEF Expire
<1>16. ASSUME Fee PROVE OneInv'
  BY <1>16 DEF Fee, Selects
<1>17. ASSUME BumpRead PROVE OneInv'
  BY <1>17 DEF BumpRead
<1>18. ASSUME BumpFee PROVE OneInv'
  <2>1. PICK t \in Txs : /\ coinOf[t] = None /\ coinOf' = [coinOf EXCEPT ![t] = coinOf[bump.old]]
                         /\ paysFor' = [paysFor EXCEPT ![t] = bump.send]
    BY <1>18 DEF BumpFee
  <2>2. /\ bump.old \in mempool /\ bump.old \in Txs /\ UNCHANGED <<vault, forgot, rebuilt>>
        /\ (Kept => paysFor[bump.old] = bump.send) /\ bump.send # None
    BY <1>18 DEF BumpFee, ClaimInv, Claimed
  <2>3. paysFor[t] = None
    BY <2>1
  <2>4. ASSUME Kept, NEW u \in Txs \ {t}, paysFor[u] # None, coinOf[u] = coinOf[bump.old]
        PROVE paysFor[u] = bump.send
    BY <2>2, <2>4
  <2> QED
    BY <2>1, <2>2, <2>3, <2>4
<1>19. ASSUME BumpRefused PROVE OneInv'
  BY <1>19 DEF BumpRefused
<1>20. ASSUME BumpStore PROVE OneInv'
  BY <1>20 DEF BumpStore
<1>21. ASSUME BumpCharge PROVE OneInv'
  BY <1>21 DEF BumpCharge
<1>22. ASSUME LookRead PROVE OneInv'
  BY <1>22 DEF LookRead
<1>23. ASSUME LookWrite PROVE OneInv'
  BY <1>23 DEF LookWrite
<1>24. ASSUME NodeRestarts PROVE OneInv'
  BY <1>24 DEF NodeRestarts
<1>25. ASSUME Crash PROVE OneInv'
  BY <1>25 DEF Crash
<1>26. CASE UNCHANGED vars
  BY <1>26 DEF vars
<1> QED
  BY <1>1, <1>2, <1>3, <1>4, <1>5, <1>6, <1>7, <1>8, <1>9, <1>10, <1>11, <1>12, <1>13, <1>14,
     <1>15, <1>16, <1>17, <1>18, <1>19, <1>20, <1>21, <1>22, <1>23, <1>24, <1>25, <1>26 DEF
     Next, Send

(* Sends that were broadcast. *)
LEMMA ReplacedNext ==
  ASSUME TypeInv, SeenInv, FreshInv, ClaimInv, OneInv, NotReplaced, [Next]_vars
  PROVE NotReplaced'
<1> USE OnchainSendAssumption DEF OnchainSendAssumption, TypeInv, NodeTyped, LocalsTyped,
      OthersTyped, HistoryTyped, SeenInv, NotReplaced, Kept, Idle, Goto, chain, redis, locals,
      others, history, bounds
<1>1. ASSUME NEW s \in Sends, Build(s) PROVE NotReplaced'
  BY <1>1 DEF Build, Selects
<1>2. ASSUME NEW s \in Sends, Submit(s) PROVE NotReplaced'
  BY <1>2 DEF Submit
<1>3. ASSUME NEW s \in Sends, Lock(s) PROVE NotReplaced'
  BY <1>3 DEF Lock, Leave, Coin
<1>4. ASSUME NEW s \in Sends, SendLock(s) PROVE NotReplaced'
  BY <1>4 DEF SendLock
<1>5. ASSUME NEW s \in Sends, Check(s) PROVE NotReplaced'
  BY <1>5 DEF Check
<1>6. ASSUME NEW s \in Sends, Rebuild(s) PROVE NotReplaced'
  BY <1>6 DEF Rebuild, Selects
<1>7. ASSUME NEW s \in Sends, Debit(s) PROVE NotReplaced'
  BY <1>7 DEF Debit
<1>8. ASSUME NEW s \in Sends, Record(s) PROVE NotReplaced'
  BY <1>8 DEF Record
<1>9. ASSUME NEW s \in Sends, Broadcast(s) PROVE NotReplaced'
  <2>1. /\ paysFor' = [paysFor EXCEPT ![tx[s]] = s] /\ tx[s] \in Txs /\ pc[s] = "broadcast"
        /\ mempool' = (mempool \ Rivals(tx[s])) \cup {tx[s]} /\ sent' = sent \cup {s}
        /\ UNCHANGED <<coinOf, mined, vault, forgot, rebuilt>>
    BY <1>9 DEF Broadcast
  <2>2. Kept => coinOf[tx[s]] \notin Spent
    BY <2>1 DEF FreshInv, Reserving
  <2>3. Kept => Rivals(tx[s]) = {} /\ tx[s] \notin mempool \cup mined
    BY <2>2 DEF Rivals, Spent
  <2>4. ASSUME Kept, NEW r \in sent PROVE \E t \in mempool' \cup mined' : paysFor'[t] = r
    BY <2>1, <2>3, <2>4
  <2>5. tx[s] \in mempool' /\ paysFor'[tx[s]] = s
    BY <2>1
  <2> QED
    BY <2>1, <2>4, <2>5
<1>10. ASSUME NEW s \in Sends, BroadcastFails(s) PROVE NotReplaced'
  BY <1>10 DEF BroadcastFails
<1>11. ASSUME NEW s \in Sends, Finish(s) PROVE NotReplaced'
  BY <1>11 DEF Finish, Leave
<1>12. ASSUME NEW s \in Sends, Release(s) PROVE NotReplaced'
  BY <1>12 DEF Release, Leave
<1>13. ASSUME NEW s \in Sends, Retry(s) PROVE NotReplaced'
  BY <1>13 DEF Retry
<1>14. ASSUME NEW t \in Txs, Mine(t) PROVE NotReplaced'
  <2>1. /\ mined' = mined \cup {t} /\ mempool' = mempool \ (Rivals(t) \cup {t}) /\ paysFor[t] # None
        /\ UNCHANGED <<vault, forgot, rebuilt, paysFor, sent>>
    BY <1>14 DEF Mine
  <2>2. ASSUME Kept, NEW r \in sent PROVE \E u \in mempool' \cup mined' : paysFor[u] = r
    <3>1. PICK u \in mempool \cup mined : paysFor[u] = r
      BY <2>2
    <3>2. CASE u \in Rivals(t)
      <4>1. paysFor[u] = paysFor[t]
        BY <2>1, <2>2, <3>2 DEF OneInv, Rivals
      <4> QED
        BY <2>1, <3>1, <4>1
    <3>3. CASE u \notin Rivals(t)
      BY <2>1, <3>1, <3>3
    <3> QED
      BY <3>2, <3>3
  <2> QED
    BY <2>1, <2>2
<1>15. ASSUME NEW t \in Txs, Expire(t) PROVE NotReplaced'
  BY <1>15 DEF Expire
<1>16. ASSUME Fee PROVE NotReplaced'
  BY <1>16 DEF Fee, Selects
<1>17. ASSUME BumpRead PROVE NotReplaced'
  BY <1>17 DEF BumpRead
<1>18. ASSUME BumpFee PROVE NotReplaced'
  <2>1. PICK t \in Txs : /\ coinOf[t] = None /\ mempool' = (mempool \ {bump.old}) \cup {t}
                         /\ paysFor' = [paysFor EXCEPT ![t] = bump.send]
    BY <1>18 DEF BumpFee
  <2>2. /\ bump.old \in mempool /\ bump.old \in Txs /\ UNCHANGED <<vault, forgot, rebuilt, mined, sent>>
        /\ (Kept => paysFor[bump.old] = bump.send)
    BY <1>18 DEF BumpFee, ClaimInv, Claimed
  <2>3. paysFor[t] = None /\ t \notin mempool \cup mined
    BY <2>1
  <2>4. ASSUME Kept, NEW r \in sent PROVE \E u \in mempool' \cup mined' : paysFor'[u] = r
    <3>1. PICK u \in mempool \cup mined : paysFor[u] = r
      BY <2>4
    <3>2. CASE u = bump.old
      BY <2>1, <2>2, <2>4, <3>1, <3>2
    <3>3. CASE u # bump.old
      BY <2>1, <2>2, <2>3, <3>1, <3>3
    <3> QED
      BY <3>2, <3>3
  <2> QED
    BY <2>2, <2>4
<1>19. ASSUME BumpRefused PROVE NotReplaced'
  BY <1>19 DEF BumpRefused
<1>20. ASSUME BumpStore PROVE NotReplaced'
  BY <1>20 DEF BumpStore
<1>21. ASSUME BumpCharge PROVE NotReplaced'
  BY <1>21 DEF BumpCharge
<1>22. ASSUME LookRead PROVE NotReplaced'
  BY <1>22 DEF LookRead
<1>23. ASSUME LookWrite PROVE NotReplaced'
  BY <1>23 DEF LookWrite
<1>24. ASSUME NodeRestarts PROVE NotReplaced'
  BY <1>24 DEF NodeRestarts
<1>25. ASSUME Crash PROVE NotReplaced'
  BY <1>25 DEF Crash
<1>26. CASE UNCHANGED vars
  BY <1>26 DEF vars
<1> QED
  BY <1>1, <1>2, <1>3, <1>4, <1>5, <1>6, <1>7, <1>8, <1>9, <1>10, <1>11, <1>12, <1>13, <1>14,
     <1>15, <1>16, <1>17, <1>18, <1>19, <1>20, <1>21, <1>22, <1>23, <1>24, <1>25, <1>26 DEF
     Next, Send

(* While the node reserves coins and remembers it, and no send was built anew *)
(* without a reservation, a send that was broadcast stays, itself or bumped:  *)
(* NotReplaced, of /bitcoin/send's locks and the bump route.                  *)
THEOREM NoneReplaced == Spec => []NotReplaced
<1>1. Init => /\ LockInv /\ CoinInv /\ SeenInv /\ SameInv /\ FreshInv /\ RecordInv /\ ClaimInv
              /\ OneInv /\ NotReplaced
  BY DEF Init, LockInv, CoinInv, Holds, SeenInv, SameInv, FreshInv, Reserving, RecordInv,
     ClaimInv, OneInv, NotReplaced, Idle
<1> QED
  BY <1>1, TypeInvHolds, LockNext, CoinNext, SeenNext, SameNext, FreshNext, RecordNext, ClaimNext,
     OneNext, ReplacedNext, PTL DEF Spec
=============================================================================
