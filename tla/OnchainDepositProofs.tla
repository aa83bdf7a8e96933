------------------------- MODULE OnchainDepositProofs -------------------------
(***************************************************************************)
(* Theorems about OnchainDeposit, for any number of handlers, transactions *)
(* and outputs, and any number of crashes, failed calls and expired locks. *)
(***************************************************************************)
EXTENDS OnchainDeposit, FiniteSetTheorems, TLAPS

JobRecord == [pc : Labels, kind : Kinds, dep : Deposits \cup {None}, mined : BOOLEAN,
              p : Ids \cup {None}, was : BOOLEAN, inv : [received : Nat, pending : Nat]]

(* The stages at which a handler works on a payment that has its id. *)
Confirming == {"confirmLock", "confirmLoad", "confirmLedger", "confirmSave", "confirmUnlock",
               "inLoad", "inInvoice", "inPayment", "inLedger", "inUnwatch"}
Named == {"ledger", "save"} \cup Confirming

DepInv == \A h \in Handlers : job[h].pc # "free" => job[h].dep \in Deposits
NameInv ==
  \A h \in Handlers : job[h].pc \in Named => job[h].p \in Ids /\ of[job[h].p] \in Deposits
PointerInv ==
  \A r \in Refs : pointer[r] # None =>
    /\ of[pointer[r]] \in Deposits
    /\ r \in {WalletRef[of[pointer[r]]], ZmqRef[of[pointer[r]]]}

TypeInv == TypeOK /\ DepInv /\ NameInv /\ PointerInv

(* What a step of h does to its job: it keeps the output, or it leaves it and *)
(* comes to the next one or ends.                                             *)
OthersSame(h) == \A m \in Handlers : m # h => job'[m] = job[m]
Stays(h) ==
  /\ job'[h].dep = job[h].dep /\ job'[h].kind = job[h].kind
  /\ job'[h].mined = job[h].mined
Leaves(h) ==
  /\ job'[h].pc \in {"free", "look"}
  /\ job'[h].pc = "look" =>
       /\ job'[h].dep \in Deposits /\ TxOf[job'[h].dep] = TxOf[job[h].dep]
       /\ job'[h].mined = job[h].mined
JobMoves(h) == job' \in [Handlers -> JobRecord] /\ OthersSame(h)

-----------------------------------------------------------------------------
(* Moves of a handler *)

(* The type of the jobs, with the record named. *)
LEMMA JobTypeIs == JobType <=> job \in [Handlers -> JobRecord]
BY DEF JobType, JobRecord

(* Goto changes the label and nothing else. *)
LEMMA GotoMoves ==
  ASSUME JobType, NEW h \in Handlers, NEW label \in Labels, Goto(h, label)
  PROVE  /\ JobMoves(h) /\ Stays(h) /\ job'[h].pc = label
         /\ job'[h].p = job[h].p
BY DEF JobType, JobRecord, JobMoves, OthersSame, Stays, Goto

(* The end of a handler. *)
LEMMA EndMoves ==
  ASSUME JobType, NEW h \in Handlers, End(h)
  PROVE  JobMoves(h) /\ Leaves(h) /\ job'[h].pc = "free"
<1>1. Idle \in JobRecord
  BY DEF Idle, JobRecord, Labels, Kinds, NoInvoice
<1>2. Idle.pc = "free"
  BY DEF Idle
<1> QED
  BY <1>1, <1>2 DEF JobType, JobRecord, JobMoves, OthersSame, Leaves, End

(* The next output of the transaction, if there is one. *)
LEMMA NextMoves ==
  ASSUME JobType, NEW h \in Handlers, job[h].dep \in Deposits, NextOutput(h)
  PROVE  JobMoves(h) /\ Leaves(h)
<1>1. CASE After[job[h].dep] = None
  <2>1. End(h)
    BY <1>1 DEF NextOutput
  <2> QED
    BY <2>1, EndMoves
<1>2. CASE After[job[h].dep] # None
  <2> DEFINE e == After[job[h].dep]
             j == [Idle EXCEPT !.pc = "look", !.kind = job[h].kind,
                               !.mined = job[h].mined, !.dep = e]
  <2>1. e \in Deposits /\ TxOf[e] = TxOf[job[h].dep]
    BY <1>2, DepositAssumption DEF DepositAssumption
  <2>2. job[h].kind \in Kinds /\ job[h].mined \in BOOLEAN
    BY DEF JobType
  <2>3. j \in JobRecord /\ j.pc = "look" /\ j.dep = e /\ j.mined = job[h].mined
    BY <2>1, <2>2 DEF Idle, JobRecord, Labels, NoInvoice
  <2>4. job' = [job EXCEPT ![h] = j]
    BY <1>2 DEF NextOutput
  <2> HIDE DEF j, e
  <2>5. job \in [Handlers -> JobRecord]
    BY JobTypeIs
  <2> QED
    BY <2>1, <2>3, <2>4, <2>5 DEF JobMoves, OthersSame, Leaves
<1> QED
  BY <1>1, <1>2

(* A handler takes up the payment of an id. *)
LEMMA TakeUpMoves ==
  ASSUME JobType, NEW h \in Handlers, NEW label \in Labels, NEW i \in Ids \cup {None},
         job' = [job EXCEPT ![h].pc = label, ![h].p = i]
  PROVE  JobMoves(h) /\ Stays(h) /\ job'[h].pc = label /\ job'[h].p = i
BY ZenonT(60) DEF JobType, JobRecord, JobMoves, OthersSame, Stays

LEMMA TakeUpWasMoves ==
  ASSUME JobType, NEW h \in Handlers, NEW label \in Labels, NEW i \in Ids \cup {None},
         NEW b \in BOOLEAN,
         job' = [job EXCEPT ![h].pc = label, ![h].p = i, ![h].was = b]
  PROVE  JobMoves(h) /\ Stays(h) /\ job'[h].pc = label /\ job'[h].p = i
BY ZenonT(60) DEF JobType, JobRecord, JobMoves, OthersSame, Stays

(* A handler reads the invoice. *)
LEMMA ReadMoves ==
  ASSUME JobType, NEW h \in Handlers, NEW label \in Labels,
         NEW v \in [received : Nat, pending : Nat],
         job' = [job EXCEPT ![h].pc = label, ![h].inv = v]
  PROVE  JobMoves(h) /\ Stays(h) /\ job'[h].pc = label /\ job'[h].p = job[h].p
BY ZenonT(60) DEF JobType, JobRecord, JobMoves, OthersSame, Stays

(* A handler makes an id for its output. *)
LEMMA PointMoves ==
  ASSUME JobType, NEW h \in Handlers, NEW i \in Ids, NEW n \in Nat,
         job' = [job EXCEPT ![h].pc = "ledger", ![h].p = i, ![h].inv.pending = @ + n]
  PROVE  JobMoves(h) /\ Stays(h) /\ job'[h].pc = "ledger" /\ job'[h].p = i
<1> DEFINE j == [job[h] EXCEPT !.pc = "ledger", !.p = i, !.inv.pending = @ + n]
<1>1. job[h] \in JobRecord /\ job[h].inv \in [received : Nat, pending : Nat]
  BY JobTypeIs DEF JobRecord
<1>2. job[h].inv.pending + n \in Nat
  BY <1>1
<1>3. j \in JobRecord
  BY <1>1, <1>2 DEF JobRecord, Labels
<1>4. j.pc = "ledger" /\ j.p = i /\ j.dep = job[h].dep /\ j.kind = job[h].kind
       /\ j.mined = job[h].mined
  BY <1>1 DEF JobRecord
<1>5. job' = [job EXCEPT ![h] = j]
  OBVIOUS
<1> HIDE DEF j
<1>6. job' \in [Handlers -> JobRecord]
  BY <1>3, <1>5, JobTypeIs
<1>7. job'[h] = j /\ \A m \in Handlers : m # h => job'[m] = job[m]
  BY <1>5, JobTypeIs
<1> QED
  BY <1>4, <1>6, <1>7 DEF JobMoves, OthersSame, Stays

(* A handler that is called. *)
LEMMA NotifyMoves ==
  ASSUME JobType, NEW h \in Handlers, NEW k \in Kinds, NEW t \in Txs, Notify(h, k, t)
  PROVE  /\ JobMoves(h) /\ job'[h].pc = "look" /\ job'[h].dep = First[t]
         /\ job'[h].mined => chain[t] = "mined"
<1>1. PICK m \in BOOLEAN :
         /\ m => chain[t] = "mined"
         /\ job' = [job EXCEPT ![h] = [Idle EXCEPT !.pc = "look", !.kind = k,
                                                   !.dep = First[t], !.mined = m]]
  BY DEF Notify
<1> DEFINE j == [Idle EXCEPT !.pc = "look", !.kind = k, !.dep = First[t], !.mined = m]
<1>2. j \in JobRecord /\ j.pc = "look" /\ j.dep = First[t] /\ j.mined = m
  BY DepositAssumption DEF DepositAssumption, Idle, NoInvoice, JobRecord, Labels
<1>3. job' = [job EXCEPT ![h] = j]
  BY <1>1
<1> HIDE DEF j
<1> QED
  BY <1>1, <1>2, <1>3, JobTypeIs DEF JobMoves, OthersSame

-----------------------------------------------------------------------------
(* Types *)

(* The names of what a handler works on. *)
LEMMA NamesTyped ==
  ASSUME TypeInv, NEW h \in Handlers, job[h].pc # "free"
  PROVE  /\ job[h].dep \in Deposits /\ Ref(h) \in Refs /\ Address(h) \in Addresses
         /\ Amount(h) \in Nat
         /\ RefLock(Ref(h)) \in LockNames /\ CreditLock(Address(h)) \in LockNames
         /\ ConfirmLock(Ref(h)) \in LockNames
<1>1. job[h].dep \in Deposits
  BY DEF TypeInv, DepInv
<1>2. Ref(h) \in Refs /\ Address(h) \in Addresses /\ Amount(h) \in Nat
  BY <1>1, DepositAssumption DEF DepositAssumption, Ref, Address, Amount
<1> QED
  BY <1>1, <1>2 DEF LockNames, RefLock, CreditLock, ConfirmLock

(* A stored payment has an id and an output. *)
LEMMA StoredTyped ==
  ASSUME TypeInv, NEW r \in Refs, Stored(r) # "none"
  PROVE  pointer[r] \in Ids /\ of[pointer[r]] \in Deposits
BY DEF TypeInv, TypeOK, StoreType, PointerInv, Stored

(* The initial state has the types. *)
LEMMA TypeInit == ASSUME Init PROVE TypeInv
<1> USE DepositAssumption DEF DepositAssumption, Init
<1>1. StoreType
  BY DEF StoreType, NoInvoice
<1>2. LedgerType /\ FaultsType
  BY DEF LedgerType, FaultsType
<1>3. Idle \in JobRecord /\ Idle.pc = "free"
  BY DEF Idle, NoInvoice, JobRecord, Labels, Kinds
<1>4. JobType /\ \A h \in Handlers : job[h].pc = "free"
  BY <1>3, JobTypeIs
<1>5. DepInv /\ NameInv /\ PointerInv
  BY <1>4 DEF DepInv, NameInv, PointerInv, Named, Confirming
<1> QED
  BY <1>1, <1>2, <1>4, <1>5 DEF TypeInv, TypeOK

(* The invariants of the jobs, from what a step does to the job of h. *)
LEMMA JobsKeep ==
  ASSUME TypeInv, NEW h \in Handlers, JobMoves(h),
         job'[h].pc # "free" => job'[h].dep \in Deposits,
         job'[h].pc \in Named => job'[h].p \in Ids /\ of'[job'[h].p] \in Deposits,
         \A i \in Ids : of[i] \in Deposits => of'[i] \in Deposits
  PROVE  JobType' /\ DepInv' /\ NameInv'
<1>1. JobType'
  BY DEF JobMoves, JobType, JobRecord
<1>2. DepInv'
  BY DEF TypeInv, DepInv, JobMoves, OthersSame
<1>3. NameInv'
  BY DEF TypeInv, NameInv, JobMoves, OthersSame
<1> QED
  BY <1>1, <1>2, <1>3

(* A job that moves as the lemmas above say, and keeps or leaves its output. *)
Proper(h) ==
  /\ JobMoves(h) /\ job[h].pc # "free"
  /\ Stays(h) \/ Leaves(h)
  /\ job'[h].pc \in Named =>
       (job'[h].p \in Ids /\ of[job'[h].p] \in Deposits) \/ (job[h].pc \in Named /\ job'[h].p = job[h].p)

LEMMA ProperKeeps ==
  ASSUME TypeInv, NEW h \in Handlers, Proper(h), UNCHANGED of
  PROVE  JobType' /\ DepInv' /\ NameInv'
<1>1. job[h].dep \in Deposits
  BY DEF Proper, TypeInv, DepInv
<1>2. job'[h].pc # "free" => job'[h].dep \in Deposits
  BY <1>1 DEF Proper, Stays, Leaves
<1>3. job'[h].pc \in Named => job'[h].p \in Ids /\ of[job'[h].p] \in Deposits
  BY DEF Proper, TypeInv, NameInv
<1> QED
  BY <1>2, <1>3, JobsKeep DEF Proper

LEMMA GotoProper ==
  ASSUME JobType, NEW h \in Handlers, job[h].pc # "free", NEW label \in Labels, Goto(h, label),
         label \notin Named \/ job[h].pc \in Named
  PROVE  Proper(h)
BY GotoMoves DEF Proper

LEMMA EndProper ==
  ASSUME JobType, NEW h \in Handlers, job[h].pc # "free", End(h) PROVE Proper(h)
<1>1. JobMoves(h) /\ Leaves(h) /\ job'[h].pc = "free"
  BY EndMoves
<1> QED
  BY <1>1 DEF Proper, Named, Confirming

LEMMA NextProper ==
  ASSUME JobType, NEW h \in Handlers, job[h].pc # "free", job[h].dep \in Deposits,
         NextOutput(h)
  PROVE  Proper(h)
<1>1. JobMoves(h) /\ Leaves(h)
  BY NextMoves
<1>2. job'[h].pc \notin Named
  BY <1>1 DEF Leaves, Named, Confirming
<1> QED
  BY <1>1, <1>2 DEF Proper

(* Parts of the state that a step leaves alone keep their types. *)
LEMMA StoreSame ==
  ASSUME TypeInv, UNCHANGED <<store, lock>> PROVE StoreType' /\ PointerInv'
BY DEF TypeInv, TypeOK, StoreType, PointerInv, store, lock

LEMMA LocksChange ==
  ASSUME TypeInv, UNCHANGED store, locks' \subseteq LockNames, mortal' \subseteq locks'
  PROVE  StoreType' /\ PointerInv'
BY DEF TypeInv, TypeOK, StoreType, PointerInv, store

LEMMA LedgerSame == ASSUME TypeInv, UNCHANGED <<ledger, chain>> PROVE LedgerType'
BY DEF TypeInv, TypeOK, LedgerType, ledger

LEMMA FaultsSame == ASSUME TypeInv, UNCHANGED faults PROVE FaultsType'
BY DEF TypeInv, TypeOK, FaultsType, faults

LEMMA OfSame == ASSUME UNCHANGED store PROVE UNCHANGED of
BY DEF store

(* How each step of a handler moves its job. *)
LEMMA MovesSimply ==
  ASSUME TypeInv, NEW h \in Handlers,
         \/ LookSkips(h) \/ LookFindsNone(h) \/ Lock(h) \/ Expire(h) \/ TakeCreditLock(h)
         \/ CreditExpire(h) \/ CreditLedger(h) \/ Save(h) \/ Unlock(h) \/ FailUnlock(h)
         \/ TakeConfirmLock(h) \/ ConfirmLedger(h) \/ ConfirmSave(h) \/ ConfirmUnlock(h)
         \/ InInvoice(h) \/ InPayment(h) \/ InLedger(h) \/ InUnwatch(h)
  PROVE  Proper(h)
<1>1. JobType
  BY DEF TypeInv, TypeOK
<1>2. ASSUME job[h].pc # "free" PROVE job[h].dep \in Deposits
  BY <1>2 DEF TypeInv, DepInv
<1> HIDE DEF TypeInv
<1> USE <1>1, <1>2 DEF Labels, Named, Confirming
<1>3. CASE LookSkips(h)
  BY <1>3, NextProper DEF LookSkips
<1>4. CASE LookFindsNone(h)
  BY <1>4, GotoProper DEF LookFindsNone
<1>5. CASE Lock(h)
  BY <1>5, GotoProper, NextProper DEF Lock
<1>6. CASE Expire(h)
  BY <1>6, GotoProper DEF Expire
<1>7. CASE TakeCreditLock(h)
  BY <1>7, GotoProper, EndProper DEF TakeCreditLock
<1>8. CASE CreditExpire(h)
  BY <1>8, GotoProper DEF CreditExpire
<1>9. CASE CreditLedger(h)
  BY <1>9, GotoProper DEF CreditLedger
<1>10. CASE Save(h)
  BY <1>10, GotoProper DEF Save
<1>11. CASE Unlock(h)
  BY <1>11, GotoProper, NextProper DEF Unlock
<1>12. CASE FailUnlock(h)
  BY <1>12, EndProper DEF FailUnlock
<1>13. CASE TakeConfirmLock(h)
  BY <1>13, GotoProper, NextProper DEF TakeConfirmLock
<1>14. CASE ConfirmLedger(h)
  BY <1>14, GotoProper DEF ConfirmLedger
<1>15. CASE ConfirmSave(h)
  BY <1>15, GotoProper DEF ConfirmSave
<1>16. CASE ConfirmUnlock(h)
  BY <1>16, NextProper DEF ConfirmUnlock
<1>17. CASE InInvoice(h)
  BY <1>17, GotoProper DEF InInvoice
<1>18. CASE InPayment(h)
  BY <1>18, GotoProper DEF InPayment
<1>19. CASE InLedger(h)
  BY <1>19, GotoProper DEF InLedger
<1>20. CASE InUnwatch(h)
  BY <1>20, NextProper DEF InUnwatch
<1> QED
  BY <1>3, <1>4, <1>5, <1>6, <1>7, <1>8, <1>9, <1>10, <1>11, <1>12, <1>13, <1>14, <1>15, <1>16, <1>17, <1>18, <1>19, <1>20

LEMMA MovesReading ==
  ASSUME TypeInv, NEW h \in Handlers, Load(h) \/ ConfirmLoad(h) \/ InLoad(h)
  PROVE  Proper(h)
<1>1. JobType /\ invoice \in [Addresses -> [received : Nat, pending : Nat]]
  BY DEF TypeInv, TypeOK, StoreType
<1>2. job[h].pc # "free"
  BY DEF Load, ConfirmLoad, InLoad
<1>3. Address(h) \in Addresses
  BY <1>2, NamesTyped
<1>4. invoice[Address(h)] \in [received : Nat, pending : Nat]
  BY <1>1, <1>3
<1>5. Received(Address(h)) \in [received : Nat, pending : Nat]
  BY <1>4 DEF Received
<1> USE <1>1, <1>2 DEF Labels, Proper, Named, Confirming
<1>6. CASE Load(h)
  BY <1>4, <1>6, ReadMoves DEF Load
<1>7. CASE ConfirmLoad(h)
  BY <1>5, <1>7, ReadMoves DEF ConfirmLoad
<1>8. CASE InLoad(h)
  BY <1>5, <1>8, ReadMoves DEF InLoad
<1> QED
  BY <1>6, <1>7, <1>8

LEMMA MovesTakingUp ==
  ASSUME TypeInv, NEW h \in Handlers, LookConfirms(h) \/ LookWatched(h) \/ Relook(h)
  PROVE  Proper(h)
<1>1. JobType
  BY DEF TypeInv, TypeOK
<1>2. job[h].pc # "free"
  BY DEF LookConfirms, LookWatched, Relook
<1>3. job[h].dep \in Deposits /\ Ref(h) \in Refs
  BY <1>2, NamesTyped
<1>4. ASSUME Stored(Ref(h)) # "none"
      PROVE  pointer[Ref(h)] \in Ids /\ of[pointer[Ref(h)]] \in Deposits
  BY <1>3, <1>4, StoredTyped
<1> HIDE DEF TypeInv
<1> USE <1>1, <1>2, <1>3, <1>4 DEF Labels
<1>5. CASE LookConfirms(h)
  <2>1. pointer[Ref(h)] \in Ids /\ of[pointer[Ref(h)]] \in Deposits
    BY <1>5 DEF LookConfirms
  <2>2. (Stored(Ref(h)) = "confirmed") \in BOOLEAN
    OBVIOUS
  <2> QED
    BY <1>5, <2>1, <2>2, TakeUpWasMoves, ZenonT(60) DEF LookConfirms, Proper
<1>6. CASE LookWatched(h)
  <2>1. Stored(Ref(h)) # "none"
    BY <1>6 DEF LookWatched
  <2>2. pointer[Ref(h)] \in Ids /\ of[pointer[Ref(h)]] \in Deposits
    BY <2>1
  <2>3. job' = [job EXCEPT ![h].pc = "inLoad", ![h].p = pointer[Ref(h)]]
    BY <1>6 DEF LookWatched
  <2>4. JobMoves(h) /\ Stays(h) /\ job'[h].p = pointer[Ref(h)]
    BY <2>2, <2>3, TakeUpMoves, ZenonT(60)
  <2> QED
    BY <2>2, <2>4 DEF Proper
<1>7. CASE Relook(h)
  <2>1. CASE Stored(Ref(h)) = "pending"
    <3>1. Stored(Ref(h)) # "none"
      BY <2>1
    <3> QED
      BY <1>7, <2>1, <3>1, TakeUpMoves, ZenonT(60) DEF Relook, Proper
  <2>2. CASE Stored(Ref(h)) # "pending"
    BY <1>7, <2>2, NextProper DEF Relook
  <2> QED
    BY <2>1, <2>2
<1> QED
  BY <1>5, <1>6, <1>7

(* Making an id for an output: the id is new, and the output's reference leads *)
(* to it.                                                                      *)
LEMMA MovesPointing ==
  ASSUME TypeInv, NEW h \in Handlers, Point(h)
  PROVE  \E i \in Unused :
           /\ pointer' = [pointer EXCEPT ![Ref(h)] = i]
           /\ record' = [record EXCEPT ![i] = "none"]
           /\ of' = [of EXCEPT ![i] = job[h].dep]
           /\ JobMoves(h) /\ Stays(h) /\ job'[h].pc = "ledger" /\ job'[h].p = i
<1>1. PICK i \in Unused :
        /\ pointer' = [pointer EXCEPT ![Ref(h)] = i]
        /\ record' = [record EXCEPT ![i] = "none"]
        /\ of' = [of EXCEPT ![i] = job[h].dep]
        /\ job' = [job EXCEPT ![h].pc = "ledger", ![h].p = i, ![h].inv.pending = @ + Amount(h)]
  BY DEF Point
<1>2. i \in Ids
  BY DEF Unused
<1>3. job[h].pc # "free"
  BY DEF Point
<1>4. Amount(h) \in Nat /\ JobType
  BY <1>3, NamesTyped DEF TypeInv, TypeOK
<1>5. JobMoves(h) /\ Stays(h) /\ job'[h].pc = "ledger" /\ job'[h].p = i
  BY <1>1, <1>2, <1>4, PointMoves
<1> QED
  BY <1>1, <1>5

(* Making an id keeps the types. *)
LEMMA TypePoint == ASSUME TypeInv, NEW h \in Handlers, Point(h) PROVE TypeInv'
<1>1. PICK i \in Unused :
        /\ pointer' = [pointer EXCEPT ![Ref(h)] = i]
        /\ record' = [record EXCEPT ![i] = "none"]
        /\ of' = [of EXCEPT ![i] = job[h].dep]
        /\ JobMoves(h) /\ Stays(h) /\ job'[h].pc = "ledger" /\ job'[h].p = i
  BY MovesPointing
<1>2. job[h].pc # "free" /\ UNCHANGED <<invoice, watching, lock, ledger, chain, faults>>
  BY DEF Point
<1>3. job[h].dep \in Deposits /\ Ref(h) \in Refs
  BY <1>2, NamesTyped
<1>4. i \in Ids /\ \A r \in Refs : pointer[r] # i
  BY DEF Unused
<1>5. of \in [Ids -> Deposits \cup {None}] /\ pointer \in [Refs -> Ids \cup {None}]
       /\ record \in [Ids -> {"none", "pending", "confirmed"}]
  BY DEF TypeInv, TypeOK, StoreType
<1>6. \A n \in Ids : of[n] \in Deposits => of'[n] \in Deposits
  BY <1>1, <1>3, <1>4, <1>5
<1>7. of'[i] = job[h].dep
  BY <1>1, <1>4, <1>5
<1>8. job'[h].dep \in Deposits /\ job'[h].p \in Ids /\ of'[job'[h].p] \in Deposits
  BY <1>1, <1>3, <1>4, <1>7 DEF Stays
<1>9. JobType' /\ DepInv' /\ NameInv'
  BY <1>1, <1>6, <1>8, JobsKeep
<1>10. StoreType'
  BY <1>1, <1>2, <1>3, <1>4, <1>5 DEF TypeInv, TypeOK, StoreType, lock
<1>11. PointerInv'
  <2> SUFFICES ASSUME NEW r \in Refs, pointer'[r] # None
               PROVE  /\ of'[pointer'[r]] \in Deposits
                      /\ r \in {WalletRef[of'[pointer'[r]]], ZmqRef[of'[pointer'[r]]]}
    BY DEF PointerInv
  <2>1. CASE r = Ref(h)
    <3>1. pointer'[r] = i
      BY <1>1, <1>5, <2>1
    <3> QED
      BY <1>3, <1>7, <2>1, <3>1 DEF Ref
  <2>2. CASE r # Ref(h)
    <3>1. pointer'[r] = pointer[r] /\ pointer[r] # i /\ pointer[r] \in Ids
      BY <1>1, <1>4, <1>5, <2>2
    <3>2. of'[pointer'[r]] = of[pointer[r]]
      BY <1>1, <1>5, <3>1
    <3> QED
      BY <3>1, <3>2 DEF TypeInv, PointerInv
  <2> QED
    BY <2>1, <2>2
<1>12. LedgerType' /\ FaultsType'
  BY <1>2, LedgerSame, FaultsSame
<1> QED
  BY <1>9, <1>10, <1>11, <1>12 DEF TypeInv, TypeOK

(* Every step of a handler keeps the types. *)
LEMMA TypeHandler == ASSUME TypeInv, NEW h \in Handlers, HandlerStep(h) PROVE TypeInv'
<1> USE DEF TypeOK
<1>1. CASE \/ LookSkips(h) \/ LookFindsNone(h) \/ LookConfirms(h) \/ LookWatched(h)
           \/ Load(h) \/ Relook(h) \/ ConfirmLoad(h) \/ InLoad(h)
  <2>1. Proper(h)
    BY <1>1, MovesSimply, MovesReading, MovesTakingUp
  <2>2. UNCHANGED <<store, lock, ledger, chain, faults>>
    BY <1>1 DEF LookSkips, LookFindsNone, LookConfirms, LookWatched, Load, Relook, ConfirmLoad,
                InLoad
  <2>3. JobType' /\ DepInv' /\ NameInv'
    BY <2>1, <2>2, OfSame, ProperKeeps
  <2> QED
    BY <2>2, <2>3, StoreSame, LedgerSame, FaultsSame DEF TypeInv
<1>2. CASE \/ Lock(h) \/ Expire(h) \/ TakeCreditLock(h) \/ CreditExpire(h) \/ Unlock(h)
           \/ FailUnlock(h) \/ TakeConfirmLock(h) \/ ConfirmUnlock(h)
  <2>1. Proper(h)
    BY <1>2, MovesSimply
  <2>2. UNCHANGED <<store, ledger, chain, faults>>
    BY <1>2 DEF Lock, Expire, TakeCreditLock, CreditExpire, Unlock, FailUnlock, TakeConfirmLock,
                ConfirmUnlock
  <2>3. JobType' /\ DepInv' /\ NameInv'
    BY <2>1, <2>2, OfSame, ProperKeeps
  <2>4. /\ locks \subseteq LockNames /\ mortal \subseteq locks
        /\ RefLock(Ref(h)) \in LockNames /\ CreditLock(Address(h)) \in LockNames
        /\ ConfirmLock(Ref(h)) \in LockNames
    BY <2>1, NamesTyped DEF Proper, TypeInv, StoreType
  <2>5. locks' \subseteq LockNames /\ mortal' \subseteq locks'
    <3> HIDE DEF TypeInv
    <3>1. CASE Lock(h) \/ TakeCreditLock(h) \/ TakeConfirmLock(h)
      BY <2>4, <3>1 DEF Lock, TakeCreditLock, TakeConfirmLock, lock
    <3>2. CASE Expire(h) \/ CreditExpire(h)
      BY <2>4, <3>2 DEF Expire, CreditExpire
    <3>3. CASE Unlock(h) \/ FailUnlock(h) \/ ConfirmUnlock(h)
      BY <2>4, <3>3 DEF Unlock, FailUnlock, ConfirmUnlock, Release
    <3> QED
      BY <1>2, <3>1, <3>2, <3>3
  <2> QED
    BY <2>2, <2>3, <2>5, LocksChange, LedgerSame, FaultsSame DEF TypeInv
<1>3. CASE Point(h)
  BY <1>3, TypePoint
<1>4. CASE CreditLedger(h)
  <2>1. Proper(h)
    BY <1>4, MovesSimply
  <2>2. UNCHANGED <<store, lock, balance, chain, faults>>
    BY <1>4 DEF CreditLedger
  <2>3. JobType' /\ DepInv' /\ NameInv'
    BY <2>1, <2>2, OfSame, ProperKeeps
  <2>4. Amount(h) \in Nat /\ Ref(h) \in Refs
    BY <2>1, NamesTyped DEF Proper
  <2>5. LedgerType'
    BY <1>4, <2>2, <2>4 DEF TypeInv, LedgerType, CreditLedger
  <2> QED
    BY <2>2, <2>3, <2>5, StoreSame, FaultsSame DEF TypeInv
<1>5. CASE \/ Save(h) \/ ConfirmSave(h) \/ InInvoice(h) \/ InPayment(h) \/ InUnwatch(h)
  <2>1. Proper(h)
    BY <1>5, MovesSimply
  <2>2. UNCHANGED <<pointer, of, lock, ledger, chain, faults>>
    BY <1>5 DEF Save, ConfirmSave, InInvoice, InPayment, InUnwatch, lock
  <2>3. JobType' /\ DepInv' /\ NameInv'
    BY <2>1, <2>2, ProperKeeps
  <2>4. job[h].inv \in [received : Nat, pending : Nat]
    BY DEF TypeInv, JobType
  <2>5. Address(h) \in Addresses
    BY <2>1, NamesTyped DEF Proper
  <2>6. invoice' \in [Addresses -> [received : Nat, pending : Nat]]
    BY <1>5, <2>4, <2>5
       DEF TypeInv, StoreType, Save, ConfirmSave, InInvoice, InPayment, InUnwatch
  <2>7. record' \in [Ids -> {"none", "pending", "confirmed"}] /\ watching' \subseteq Watchable
    BY <1>5 DEF TypeInv, StoreType, Save, ConfirmSave, InInvoice, InPayment, InUnwatch
  <2>8. StoreType'
    BY <2>2, <2>6, <2>7 DEF TypeInv, StoreType, lock
  <2>9. PointerInv'
    BY <2>2 DEF TypeInv, PointerInv
  <2> QED
    BY <2>2, <2>3, <2>8, <2>9, LedgerSame, FaultsSame DEF TypeInv
<1>6. CASE ConfirmLedger(h) \/ InLedger(h)
  <2>1. Proper(h)
    BY <1>6, MovesSimply
  <2>2. UNCHANGED <<store, lock, chain, faults>> /\ Move(h)
    BY <1>6 DEF ConfirmLedger, InLedger
  <2>3. JobType' /\ DepInv' /\ NameInv'
    BY <2>1, <2>2, OfSame, ProperKeeps
  <2>4. AmountOf[of[job[h].p]] \in Nat
    BY <1>6, DepositAssumption
       DEF DepositAssumption, TypeInv, NameInv, Named, Confirming, ConfirmLedger, InLedger
  <2>5. LedgerType'
    BY <2>2, <2>4 DEF TypeInv, LedgerType, Move
  <2> QED
    BY <2>2, <2>3, <2>5, StoreSame, FaultsSame DEF TypeInv
<1> QED
  BY <1>1, <1>2, <1>3, <1>4, <1>5, <1>6
     DEF HandlerStep, Look, Credit, Confirm, ConfirmWatched

(* Every step keeps the types. *)
LEMMA TypeNext == ASSUME TypeInv, [Next]_vars PROVE TypeInv'
<1> USE DEF TypeOK
<1>1. ASSUME NEW h \in Handlers, HandlerStep(h) PROVE TypeInv'
  BY <1>1, TypeHandler
<1>2. ASSUME NEW t \in Txs, Appears(t) \/ Mined(t) PROVE TypeInv'
  <2>1. UNCHANGED <<store, lock, ledger, job, faults>>
    BY <1>2 DEF Appears, Mined
  <2>2. LedgerType'
    BY <1>2 DEF TypeInv, LedgerType, Appears, Mined, ledger
  <2>3. JobType' /\ DepInv' /\ NameInv'
    BY <2>1, OfSame DEF TypeInv, JobType, DepInv, NameInv
  <2> QED
    BY <2>1, <2>2, <2>3, StoreSame, FaultsSame DEF TypeInv
<1>3. ASSUME NEW h \in Handlers, NEW k \in Kinds, NEW t \in Txs, Notify(h, k, t) PROVE TypeInv'
  <2>1. UNCHANGED <<store, lock, ledger, chain, faults>>
    BY <1>3 DEF Notify
  <2>2. JobMoves(h) /\ job'[h].pc = "look" /\ job'[h].dep \in Deposits
    BY <1>3, NotifyMoves, DepositAssumption DEF DepositAssumption, TypeInv
  <2>3. JobType' /\ DepInv' /\ NameInv'
    BY <2>1, <2>2, OfSame, JobsKeep DEF Named, Confirming
  <2> QED
    BY <2>1, <2>3, StoreSame, LedgerSame, FaultsSame DEF TypeInv
<1>4. ASSUME NEW h \in Handlers, CallFails(h) PROVE TypeInv'
  <2>1. UNCHANGED <<store, lock, ledger, chain, crashes, expiries>>
    BY <1>4 DEF CallFails
  <2>2. Proper(h)
    BY <1>4, GotoProper, EndProper DEF CallFails, Labels, Named, Confirming, TypeInv
  <2>3. JobType' /\ DepInv' /\ NameInv'
    BY <2>1, <2>2, OfSame, ProperKeeps
  <2>4. FaultsType'
    BY <1>4, DepositAssumption DEF DepositAssumption, TypeInv, FaultsType, CallFails
  <2> QED
    BY <2>1, <2>3, <2>4, StoreSame, LedgerSame DEF TypeInv
<1>5. ASSUME NEW n \in LockNames, LockExpires(n) PROVE TypeInv'
  <2>1. UNCHANGED <<store, ledger, chain, job, crashes, failures>>
    BY <1>5 DEF LockExpires
  <2>2. locks' \subseteq LockNames /\ mortal' \subseteq locks'
    BY <1>5 DEF TypeInv, StoreType, LockExpires, Release
  <2>3. JobType' /\ DepInv' /\ NameInv'
    BY <2>1, OfSame DEF TypeInv, JobType, DepInv, NameInv
  <2>4. FaultsType'
    BY <1>5, DepositAssumption DEF DepositAssumption, TypeInv, FaultsType, LockExpires
  <2> QED
    BY <2>1, <2>2, <2>3, <2>4, LocksChange, LedgerSame DEF TypeInv
<1>6. ASSUME Crash PROVE TypeInv'
  <2>1. UNCHANGED <<store, lock, ledger, chain, failures, expiries>>
    BY <1>6 DEF Crash
  <2>2. Idle \in JobRecord /\ Idle.pc = "free"
    BY DEF Idle, NoInvoice, JobRecord, Labels, Kinds
  <2>3. job' \in [Handlers -> JobRecord] /\ \A h \in Handlers : job'[h].pc = "free"
    BY <1>6, <2>2 DEF Crash
  <2>4. JobType' /\ DepInv' /\ NameInv'
    BY <2>3 DEF JobType, JobRecord, DepInv, NameInv, Named, Confirming
  <2>5. FaultsType'
    BY <1>6, DepositAssumption DEF DepositAssumption, TypeInv, FaultsType, Crash
  <2> QED
    BY <2>1, <2>4, <2>5, StoreSame, LedgerSame DEF TypeInv
<1>7. ASSUME UNCHANGED vars PROVE TypeInv'
  <2>1. UNCHANGED <<store, lock, ledger, chain, job, faults>>
    BY <1>7 DEF vars
  <2>2. JobType' /\ DepInv' /\ NameInv'
    BY <2>1, OfSame DEF TypeInv, JobType, DepInv, NameInv
  <2> QED
    BY <2>1, <2>2, StoreSame, LedgerSame, FaultsSame DEF TypeInv
<1> QED
  BY <1>1, <1>2, <1>3, <1>4, <1>5, <1>6, <1>7 DEF Next

(* In every reachable state of any instance each variable has its type. *)
THEOREM TypeCorrect == Spec => []TypeOK
<1>1. Spec => []TypeInv
  BY TypeInit, TypeNext, PTL DEF Spec
<1>2. TypeInv => TypeOK
  BY DEF TypeInv
<1> QED
  BY <1>1, <1>2, PTL

-----------------------------------------------------------------------------
(* Confirmed deposits are mined *)

(* What a handler has read of the chain is still true, only a handler that has *)
(* read "mined" confirms, and it confirms a payment of the transaction that it *)
(* works on.                                                                   *)
MinedInv ==
  \A h \in Handlers :
    job[h].pc # "free" /\ job[h].mined => chain[TxOf[job[h].dep]] = "mined"
LaterInv ==
  \A h \in Handlers :
    /\ job[h].pc \in Confirming \cup {"relook"} => job[h].mined
    /\ job[h].pc \in Confirming => TxOf[of[job[h].p]] = TxOf[job[h].dep]
RecordInv ==
  /\ \A i \in Ids : record[i] # "none" => of[i] \in Deposits
  /\ ConfirmedIsMined

ChainInv == MinedInv /\ LaterInv /\ RecordInv

(* What a step owes to LaterInv. *)
Sound(h) ==
  /\ job'[h].pc \in Confirming \cup {"relook"} => Stays(h) /\ job[h].mined
  /\ job'[h].pc \in Confirming => TxOf[of[job'[h].p]] = TxOf[job[h].dep]

LEMMA ChainInit == ASSUME Init PROVE ChainInv
<1>1. \A h \in Handlers : job[h].pc = "free"
  BY DEF Init, Idle
<1>2. \A i \in Ids : record[i] = "none"
  BY DEF Init
<1> QED
  BY <1>1, <1>2 DEF ChainInv, MinedInv, LaterInv, RecordInv, ConfirmedIsMined, Confirming

(* Mined transactions stay mined. *)
LEMMA JobsStayMined ==
  ASSUME TypeInv, ChainInv, NEW h \in Handlers, Proper(h), Sound(h), UNCHANGED <<of, chain>>
  PROVE  MinedInv' /\ LaterInv'
<1>1. MinedInv'
  <2> SUFFICES ASSUME NEW m \in Handlers, job'[m].pc # "free", job'[m].mined
               PROVE  chain[TxOf[job'[m].dep]] = "mined"
    BY DEF MinedInv
  <2>1. CASE m # h
    BY <2>1 DEF ChainInv, MinedInv, Proper, JobMoves, OthersSame
  <2>2. CASE m = h
    BY <2>2 DEF ChainInv, MinedInv, Proper, Stays, Leaves
  <2> QED
    BY <2>1, <2>2
<1>2. LaterInv'
  <2> SUFFICES ASSUME NEW m \in Handlers
               PROVE  /\ job'[m].pc \in Confirming \cup {"relook"} => job'[m].mined
                      /\ job'[m].pc \in Confirming => TxOf[of[job'[m].p]] = TxOf[job'[m].dep]
    BY DEF LaterInv
  <2>1. CASE m # h
    BY <2>1 DEF ChainInv, LaterInv, Proper, JobMoves, OthersSame
  <2>2. CASE m = h
    BY <2>2 DEF Sound, Stays
  <2> QED
    BY <2>1, <2>2
<1> QED
  BY <1>1, <1>2

(* A payment that a reference leads to is of the transaction of the output. *)
LEMMA SameTransaction ==
  ASSUME TypeInv, NEW h \in Handlers, job[h].pc # "free", Stored(Ref(h)) # "none"
  PROVE  TxOf[of[pointer[Ref(h)]]] = TxOf[job[h].dep]
<1>1. job[h].dep \in Deposits /\ Ref(h) \in Refs
  BY NamesTyped
<1>2. pointer[Ref(h)] # None
  BY DEF Stored
<1> DEFINE e == of[pointer[Ref(h)]]
<1>3. e \in Deposits /\ Ref(h) \in {WalletRef[e], ZmqRef[e]}
  BY <1>1, <1>2 DEF TypeInv, PointerInv
<1>4. Ref(h) \in {WalletRef[job[h].dep], ZmqRef[job[h].dep]}
  BY DEF Ref
<1>5. {WalletRef[e], ZmqRef[e]} \cap {WalletRef[job[h].dep], ZmqRef[job[h].dep]} # {}
  BY <1>3, <1>4
<1> HIDE DEF e
<1>6. TxOf[e] = TxOf[job[h].dep]
  BY <1>1, <1>3, <1>5, DepositAssumption DEF DepositAssumption
<1> QED
  BY <1>6 DEF e

(* Every step of a handler but the one that makes an id owes nothing. *)
LEMMA SoundStep ==
  ASSUME TypeInv, ChainInv, NEW h \in Handlers, HandlerStep(h), ~Point(h)
  PROVE  Proper(h) /\ Sound(h)
<1>1. Proper(h)
  BY MovesSimply, MovesReading, MovesTakingUp
     DEF HandlerStep, Look, Credit, Confirm, ConfirmWatched
<1>2. JobType /\ job[h].pc # "free" /\ job[h].dep \in Deposits
  BY <1>1 DEF TypeInv, TypeOK, Proper, DepInv
<1>3. /\ job[h].pc \in Confirming \cup {"relook"} => job[h].mined
      /\ job[h].pc \in Confirming => TxOf[of[job[h].p]] = TxOf[job[h].dep]
  BY DEF ChainInv, LaterInv
<1>4. Stored(Ref(h)) # "none" => TxOf[of[pointer[Ref(h)]]] = TxOf[job[h].dep]
  BY <1>2, SameTransaction
<1>5. ASSUME NextOutput(h) \/ End(h) PROVE Sound(h)
  BY <1>2, <1>5, NextMoves, EndMoves DEF Sound, Leaves, Confirming
<1>6. ASSUME NEW label \in Labels, Goto(h, label),
             label \in Confirming \cup {"relook"} => job[h].mined,
             label \in Confirming => job[h].pc \in Confirming
      PROVE  Sound(h)
  BY <1>2, <1>3, <1>6, GotoMoves DEF Sound
<1> SUFFICES Sound(h)
  BY <1>1
<1> HIDE DEF TypeInv, ChainInv
<1>7. CASE \/ LookSkips(h) \/ FailUnlock(h) \/ ConfirmUnlock(h) \/ InUnwatch(h)
  BY <1>5, <1>7 DEF LookSkips, FailUnlock, ConfirmUnlock, InUnwatch
<1>8. CASE \/ LookFindsNone(h) \/ Lock(h) \/ Expire(h) \/ TakeCreditLock(h) \/ CreditExpire(h)
           \/ CreditLedger(h) \/ Save(h)
  BY <1>5, <1>6, <1>8
     DEF LookFindsNone, Lock, Expire, TakeCreditLock, CreditExpire, CreditLedger, Save,
         Labels, Confirming
<1>9. CASE Unlock(h)
  BY <1>5, <1>6, <1>9 DEF Unlock, Labels, Confirming
<1>10. CASE \/ TakeConfirmLock(h) \/ ConfirmLedger(h) \/ ConfirmSave(h)
            \/ InInvoice(h) \/ InPayment(h) \/ InLedger(h)
  <2>1. job[h].pc \in Confirming
    BY <1>10
       DEF TakeConfirmLock, ConfirmLedger, ConfirmSave, InInvoice, InPayment, InLedger, Confirming
  <2>2. NextOutput(h) \/ \E label \in Labels : Goto(h, label)
    BY <1>10
       DEF TakeConfirmLock, ConfirmLedger, ConfirmSave, InInvoice, InPayment, InLedger, Labels
  <2> QED
    BY <1>3, <1>5, <1>6, <2>1, <2>2
<1>11. CASE Load(h) \/ ConfirmLoad(h) \/ InLoad(h)
  <2>1. /\ job'[h].pc \in {"creditLock", "confirmLedger", "inInvoice"}
        /\ job'[h].pc = "creditLock" <=> Load(h)
        /\ job'[h].dep = job[h].dep /\ job'[h].kind = job[h].kind
        /\ job'[h].mined = job[h].mined /\ job'[h].p = job[h].p
    BY <1>2, <1>11 DEF JobType, Load, ConfirmLoad, InLoad
  <2> QED
    BY <1>3, <1>11, <2>1 DEF Sound, Stays, Confirming, ConfirmLoad, InLoad
<1>12. CASE LookConfirms(h) \/ LookWatched(h) \/ Relook(h)
  <2>1. CASE Relook(h) /\ Stored(Ref(h)) # "pending"
    BY <1>5, <2>1 DEF Relook
  <2>2. CASE ~(Relook(h) /\ Stored(Ref(h)) # "pending")
    <3>1. Stored(Ref(h)) # "none" /\ job[h].mined
      BY <1>3, <1>12, <2>2 DEF LookConfirms, LookWatched, Relook
    <3>2. /\ job'[h].dep = job[h].dep /\ job'[h].kind = job[h].kind
          /\ job'[h].mined = job[h].mined /\ job'[h].p = pointer[Ref(h)]
      BY <1>2, <1>12, <2>2 DEF JobType, LookConfirms, LookWatched, Relook
    <3> QED
      BY <1>4, <3>1, <3>2 DEF Sound, Stays
  <2> QED
    BY <2>1, <2>2
<1> QED
  BY <1>7, <1>8, <1>9, <1>10, <1>11, <1>12
     DEF HandlerStep, Look, Credit, Confirm, ConfirmWatched

(* Every step of a handler keeps what the records say of the chain. *)
LEMMA ChainHandler ==
  ASSUME TypeInv, ChainInv, NEW h \in Handlers, HandlerStep(h), ~Point(h)
  PROVE  ChainInv'
<1>1. Proper(h) /\ Sound(h)
  BY SoundStep
<1>2. UNCHANGED <<of, chain>>
  BY DEF HandlerStep, Look, Credit, Confirm, ConfirmWatched, LookSkips, LookFindsNone,
         LookConfirms, LookWatched, Load, Relook, ConfirmLoad, InLoad, Lock, Expire,
         TakeCreditLock, CreditExpire, Unlock, FailUnlock, TakeConfirmLock, ConfirmUnlock,
         CreditLedger, Save, ConfirmSave, InInvoice, InPayment, InUnwatch, ConfirmLedger,
         InLedger, store
<1>3. MinedInv' /\ LaterInv'
  BY <1>1, <1>2, JobsStayMined
<1>4. CASE Save(h)
  <2>1. job[h].p \in Ids /\ of[job[h].p] \in Deposits
    BY <1>4 DEF TypeInv, NameInv, Named, Save
  <2>2. record' = [record EXCEPT ![job[h].p] = "pending"]
    BY <1>4 DEF Save
  <2>3. RecordInv'
    BY <1>2, <2>1, <2>2
       DEF TypeInv, TypeOK, StoreType, ChainInv, RecordInv, ConfirmedIsMined
  <2> QED
    BY <1>3, <2>3 DEF ChainInv
<1>5. CASE ConfirmSave(h) \/ InPayment(h)
  <2>1. job[h].pc \in Confirming
    BY <1>5 DEF Confirming, ConfirmSave, InPayment
  <2>2. job[h].p \in Ids /\ of[job[h].p] \in Deposits
    BY <2>1 DEF TypeInv, NameInv, Named
  <2>3. chain[TxOf[of[job[h].p]]] = "mined"
    BY <1>1, <2>1 DEF ChainInv, MinedInv, LaterInv, Proper
  <2>4. record' = [record EXCEPT ![job[h].p] = "confirmed"]
    BY <1>5 DEF ConfirmSave, InPayment
  <2>5. RecordInv'
    BY <1>2, <2>2, <2>3, <2>4
       DEF TypeInv, TypeOK, StoreType, ChainInv, RecordInv, ConfirmedIsMined
  <2> QED
    BY <1>3, <2>5 DEF ChainInv
<1>6. CASE ~Save(h) /\ ~ConfirmSave(h) /\ ~InPayment(h)
  <2>1. UNCHANGED record
    BY <1>6
       DEF HandlerStep, Look, Credit, Confirm, ConfirmWatched, LookSkips, LookFindsNone,
           LookConfirms, LookWatched, Load, Relook, ConfirmLoad, InLoad, Lock, Expire,
           TakeCreditLock, CreditExpire, Unlock, FailUnlock, TakeConfirmLock, ConfirmUnlock,
           CreditLedger, InInvoice, InUnwatch, ConfirmLedger, InLedger, store
  <2>2. RecordInv'
    BY <1>2, <2>1 DEF ChainInv, RecordInv, ConfirmedIsMined
  <2> QED
    BY <1>3, <2>2 DEF ChainInv
<1> QED
  BY <1>4, <1>5, <1>6

(* A new id says nothing of the chain. *)
LEMMA ChainPoint ==
  ASSUME TypeInv, ChainInv, NEW h \in Handlers, Point(h) PROVE ChainInv'
<1>1. PICK i \in Unused :
        /\ pointer' = [pointer EXCEPT ![Ref(h)] = i]
        /\ record' = [record EXCEPT ![i] = "none"]
        /\ of' = [of EXCEPT ![i] = job[h].dep]
        /\ JobMoves(h) /\ Stays(h) /\ job'[h].pc = "ledger" /\ job'[h].p = i
  BY MovesPointing
<1>2. UNCHANGED chain /\ job[h].pc # "free"
  BY DEF Point, ledger
<1>3. i \in Ids /\ \A m \in Handlers : job[m].p # i
  BY DEF Unused
<1>4. of \in [Ids -> Deposits \cup {None}]
       /\ record \in [Ids -> {"none", "pending", "confirmed"}]
  BY DEF TypeInv, TypeOK, StoreType
<1>5. MinedInv'
  BY <1>1, <1>2 DEF ChainInv, MinedInv, JobMoves, OthersSame, Stays
<1>6. \A m \in Handlers : job[m].pc \in Confirming => of'[job[m].p] = of[job[m].p]
  BY <1>1, <1>3, <1>4 DEF TypeInv, NameInv, Named
<1>7. LaterInv'
  <2> SUFFICES ASSUME NEW m \in Handlers
               PROVE  /\ job'[m].pc \in Confirming \cup {"relook"} => job'[m].mined
                      /\ job'[m].pc \in Confirming => TxOf[of'[job'[m].p]] = TxOf[job'[m].dep]
    BY DEF LaterInv
  <2>1. CASE m # h
    BY <1>1, <1>6, <2>1 DEF ChainInv, LaterInv, JobMoves, OthersSame
  <2>2. CASE m = h
    BY <1>1, <2>2 DEF Confirming
  <2> QED
    BY <2>1, <2>2
<1>8. RecordInv'
  BY <1>1, <1>2, <1>3, <1>4 DEF ChainInv, RecordInv, ConfirmedIsMined
<1> QED
  BY <1>5, <1>7, <1>8 DEF ChainInv

(* Every step keeps what the records say of the chain. *)
LEMMA ChainNext == ASSUME TypeInv, ChainInv, [Next]_vars PROVE ChainInv'
<1>1. ASSUME NEW h \in Handlers, HandlerStep(h) PROVE ChainInv'
  BY <1>1, ChainHandler, ChainPoint
<1>2. ASSUME NEW t \in Txs, Appears(t) \/ Mined(t) PROVE ChainInv'
  <2>1. UNCHANGED <<record, of, job>>
    BY <1>2 DEF Appears, Mined, store
  <2>2. \A u \in Txs : chain[u] = "mined" => chain'[u] = "mined"
    BY <1>2 DEF TypeInv, TypeOK, LedgerType, Appears, Mined
  <2>3. MinedInv'
    BY <2>1, <2>2, DepositAssumption
       DEF DepositAssumption, ChainInv, MinedInv, TypeInv, DepInv
  <2>4. LaterInv'
    BY <2>1 DEF ChainInv, LaterInv
  <2>5. RecordInv'
    BY <2>1, <2>2, DepositAssumption
       DEF DepositAssumption, ChainInv, RecordInv, ConfirmedIsMined
  <2> QED
    BY <2>3, <2>4, <2>5 DEF ChainInv
<1>3. ASSUME NEW h \in Handlers, NEW k \in Kinds, NEW t \in Txs, Notify(h, k, t) PROVE ChainInv'
  <2>1. UNCHANGED <<record, of, chain>>
    BY <1>3 DEF Notify, store
  <2>2. /\ JobMoves(h) /\ job'[h].pc = "look" /\ job'[h].dep = First[t]
        /\ job'[h].mined => chain[t] = "mined"
    BY <1>3, NotifyMoves DEF TypeInv, TypeOK
  <2>3. TxOf[First[t]] = t
    BY DepositAssumption DEF DepositAssumption
  <2>4. MinedInv' /\ LaterInv'
    BY <2>1, <2>2, <2>3
       DEF ChainInv, MinedInv, LaterInv, JobMoves, OthersSame, Confirming
  <2> QED
    BY <2>1, <2>4 DEF ChainInv, RecordInv, ConfirmedIsMined
<1>4. ASSUME NEW h \in Handlers, CallFails(h) PROVE ChainInv'
  <2>1. UNCHANGED <<record, of, chain>>
    BY <1>4 DEF CallFails, store
  <2>2. Proper(h)
    BY <1>4, GotoProper, EndProper DEF CallFails, Labels, Named, Confirming, TypeInv, TypeOK
  <2>3. job'[h].pc \in {"failUnlock", "free"}
    BY <1>4, GotoMoves, EndMoves DEF CallFails, Labels, TypeInv, TypeOK
  <2>4. Sound(h)
    BY <2>3 DEF Sound, Confirming
  <2>5. MinedInv' /\ LaterInv'
    BY <2>1, <2>2, <2>4, JobsStayMined
  <2> QED
    BY <2>1, <2>5 DEF ChainInv, RecordInv, ConfirmedIsMined
<1>5. ASSUME NEW n \in LockNames, LockExpires(n) PROVE ChainInv'
  BY <1>5
     DEF LockExpires, store, ChainInv, MinedInv, LaterInv, RecordInv, ConfirmedIsMined
<1>6. ASSUME Crash PROVE ChainInv'
  <2>1. UNCHANGED <<record, of, chain>> /\ \A h \in Handlers : job'[h].pc = "free"
    BY <1>6 DEF Crash, Idle, store
  <2> QED
    BY <2>1 DEF ChainInv, MinedInv, LaterInv, RecordInv, ConfirmedIsMined, Confirming
<1>7. ASSUME UNCHANGED vars PROVE ChainInv'
  BY <1>7 DEF vars, store, ChainInv, MinedInv, LaterInv, RecordInv, ConfirmedIsMined
<1> QED
  BY <1>1, <1>2, <1>3, <1>4, <1>5, <1>6, <1>7 DEF Next

(* A deposit shows as confirmed only when its transaction is in a block: a *)
(* handler confirms only after it has read that, and blocks stay.          *)
THEOREM ConfirmedMined == Spec => []ConfirmedIsMined
<1>1. Spec => [](TypeInv /\ ChainInv)
  BY TypeInit, TypeNext, ChainInit, ChainNext, PTL DEF Spec
<1>2. ChainInv => ConfirmedIsMined
  BY DEF ChainInv, RecordInv
<1> QED
  BY <1>1, <1>2, PTL

-----------------------------------------------------------------------------
(* Credits and faults *)

Faults == crashes + failures + expiries

(* The handlers that have taken the lock of a reference and may still credit *)
(* it, and those that are about to.                                          *)
Spending == {"expire", "load", "creditLock", "creditExpire", "point", "ledger"}
Spent(r) == {h \in Handlers : job[h].pc \in Spending /\ Ref(h) = r}
Last(r)  == {h \in Handlers : job[h].pc = "ledger" /\ Ref(h) = r}

(* The lock is free and a handler could take it: nothing is stored, or a      *)
(* handler that found nothing is still there.                                 *)
Candidate(h, r) == job[h].pc \in Crediting /\ Ref(h) = r
Open(r) ==
  /\ RefLock(r) \notin locks
  /\ Stored(r) = "none" \/ \E h \in Handlers : Candidate(h, r)

(* Nothing is stored for the reference, and the handler that would store the *)
(* payment it leads to is gone, or has not made its ledger call.             *)
Storing(h, r) == job[h].pc \in {"ledger", "save"} /\ Ref(h) = r /\ job[h].p = pointer[r]
Blank(r) == Stored(r) = "none" /\ \A h \in Handlers : ~Storing(h, r)

(* Each fault pays for one credit beyond the first. *)
BoundInv ==
  \A r \in Refs :
    /\ credits[r] + Cardinality(Spent(r)) <= 1 + Faults
    /\ Open(r) => credits[r] + Cardinality(Spent(r)) <= Faults
    /\ Blank(r) => credits[r] + Cardinality(Last(r)) <= Faults

(* The sets of handlers are finite, and smaller when they lose one. *)
LEMMA SpentFinite ==
  ASSUME NEW r
  PROVE  /\ IsFiniteSet(Spent(r)) /\ IsFiniteSet(Last(r))
         /\ Cardinality(Spent(r)) \in Nat /\ Cardinality(Last(r)) \in Nat
         /\ Cardinality(Last(r)) <= Cardinality(Spent(r))
<1>1. Spent(r) \subseteq Handlers /\ Last(r) \subseteq Spent(r)
  BY DEF Spent, Last, Spending
<1>2. IsFiniteSet(Spent(r)) /\ IsFiniteSet(Last(r))
  BY <1>1, FS_Subset, DepositAssumption DEF DepositAssumption
<1> QED
  BY <1>1, <1>2, FS_Subset, FS_CardinalityType

LEMMA SpentFiniteNext ==
  ASSUME NEW r
  PROVE  /\ IsFiniteSet(Spent(r)') /\ IsFiniteSet(Last(r)')
         /\ Cardinality(Spent(r)') \in Nat /\ Cardinality(Last(r)') \in Nat
         /\ Cardinality(Last(r)') <= Cardinality(Spent(r)')
<1>1. Spent(r)' \subseteq Handlers /\ Last(r)' \subseteq Spent(r)'
  BY DEF Spent, Last, Spending
<1>2. IsFiniteSet(Spent(r)') /\ IsFiniteSet(Last(r)')
  BY <1>1, FS_Subset, DepositAssumption DEF DepositAssumption
<1> QED
  BY <1>1, <1>2, FS_Subset, FS_CardinalityType

LEMMA BoundInit == ASSUME Init PROVE BoundInv
<1> SUFFICES ASSUME NEW r \in Refs
             PROVE  /\ credits[r] + Cardinality(Spent(r)) <= 1 + Faults
                    /\ Open(r) => credits[r] + Cardinality(Spent(r)) <= Faults
                    /\ Blank(r) => credits[r] + Cardinality(Last(r)) <= Faults
  BY DEF BoundInv
<1>1. Spent(r) = {} /\ Last(r) = {}
  BY DEF Init, Idle, Spent, Last, Spending
<1>2. credits[r] = 0 /\ Faults = 0
  BY DEF Init, Faults
<1> QED
  BY <1>1, <1>2, FS_EmptySet

(* A step that adds no credit, no handler and no opportunity keeps the bound. *)
LEMMA BoundKeeps ==
  ASSUME TypeInv, BoundInv, UNCHANGED faults, NEW r \in Refs, credits'[r] = credits[r],
         Spent(r)' \subseteq Spent(r), Open(r)' => Open(r),
         Blank(r)' => Blank(r) /\ Last(r)' \subseteq Last(r)
  PROVE  /\ credits'[r] + Cardinality(Spent(r)') <= 1 + Faults'
         /\ Open(r)' => credits'[r] + Cardinality(Spent(r)') <= Faults'
         /\ Blank(r)' => credits'[r] + Cardinality(Last(r)') <= Faults'
<1>1. Cardinality(Spent(r)') <= Cardinality(Spent(r))
  BY SpentFinite, FS_Subset
<1>2. Blank(r)' => Cardinality(Last(r)') <= Cardinality(Last(r))
  BY SpentFinite, FS_Subset
<1>3. Faults' = Faults
  BY DEF faults, Faults
<1>4. Faults \in Nat /\ credits[r] \in Nat
  BY DepositAssumption
     DEF DepositAssumption, Faults, TypeInv, TypeOK, LedgerType, FaultsType
<1>5. /\ credits[r] + Cardinality(Spent(r)) <= 1 + Faults
      /\ Open(r) => credits[r] + Cardinality(Spent(r)) <= Faults
      /\ Blank(r) => credits[r] + Cardinality(Last(r)) <= Faults
  BY DEF BoundInv
<1> QED
  BY <1>1, <1>2, <1>3, <1>4, <1>5, SpentFinite, SpentFiniteNext

(* A fault pays for a credit. *)
LEMMA BoundPays ==
  ASSUME TypeInv, BoundInv, UNCHANGED credits, Faults' = Faults + 1,
         NEW r \in Refs, Spent(r)' \subseteq Spent(r)
  PROVE  /\ credits'[r] + Cardinality(Spent(r)') <= 1 + Faults'
         /\ Open(r)' => credits'[r] + Cardinality(Spent(r)') <= Faults'
         /\ Blank(r)' => credits'[r] + Cardinality(Last(r)') <= Faults'
<1>1. Cardinality(Spent(r)') <= Cardinality(Spent(r))
  BY SpentFinite, FS_Subset
<1>2. Faults \in Nat /\ credits[r] \in Nat
  BY DepositAssumption
     DEF DepositAssumption, Faults, TypeInv, TypeOK, LedgerType, FaultsType
<1>3. credits[r] + Cardinality(Spent(r)) <= 1 + Faults
  BY DEF BoundInv
<1> QED
  BY <1>1, <1>2, <1>3, SpentFinite, SpentFiniteNext

(* A step of h that takes no lock of a reference and stores no new id. *)
Quiet(h) ==
  /\ OthersSame(h) /\ job'[h].pc # "ledger"
  /\ job'[h].pc \in Spending => Stays(h) /\ job[h].pc \in Spending
  /\ job'[h].pc \in Crediting =>
       Stays(h) /\ (job[h].pc \in Crediting \/ Stored(Ref(h)) = "none")
  /\ \A r \in Refs :
       /\ Stored(r)' = "none" => Stored(r) = "none" /\ ~Storing(h, r)
       /\ RefLock(r) \in locks => RefLock(r) \in locks'

(* The reference of a handler that keeps its output. *)
LEMMA RefStays == ASSUME NEW h \in Handlers, Stays(h) PROVE Ref(h)' = Ref(h)
BY DEF Stays, Ref

LEMMA RefSame ==
  ASSUME NEW h \in Handlers, NEW m \in Handlers, OthersSame(h), m # h
  PROVE  Ref(m)' = Ref(m) /\ job'[m] = job[m]
BY DEF OthersSame, Ref

LEMMA QuietKeeps ==
  ASSUME TypeInv, BoundInv, NEW h \in Handlers, Quiet(h), UNCHANGED <<pointer, credits, faults>>
  PROVE  BoundInv'
<1> SUFFICES ASSUME NEW r \in Refs
             PROVE  /\ credits'[r] + Cardinality(Spent(r)') <= 1 + Faults'
                    /\ Open(r)' => credits'[r] + Cardinality(Spent(r)') <= Faults'
                    /\ Blank(r)' => credits'[r] + Cardinality(Last(r)') <= Faults'
  BY DEF BoundInv
<1>1. \A m \in Handlers : m # h => Ref(m)' = Ref(m) /\ job'[m] = job[m]
  BY RefSame DEF Quiet
<1>2. Stays(h) => Ref(h)' = Ref(h)
  BY RefStays
<1>3. Spent(r)' \subseteq Spent(r)
  BY <1>1, <1>2 DEF Spent, Quiet
<1>4. Last(r)' \subseteq Last(r)
  BY <1>1 DEF Last, Quiet
<1>5. Stored(r)' = "none" => Stored(r) = "none" /\ ~Storing(h, r)
  BY DEF Quiet
<1>6. Blank(r)' => Blank(r)
  BY <1>1, <1>5 DEF Blank, Storing
<1>7. Open(r)' => Open(r)
  <2> SUFFICES ASSUME Open(r)' PROVE Open(r)
    OBVIOUS
  <2>1. RefLock(r) \notin locks
    <3>1. RefLock(r) \notin locks'
      BY DEF Open, RefLock
    <3> QED
      BY <3>1 DEF Quiet
  <2>2. CASE Stored(r)' = "none"
    BY <1>5, <2>1, <2>2 DEF Open
  <2>3. ASSUME NEW m \in Handlers, Candidate(m, r)' PROVE Open(r)
    <3>1. CASE m # h
      <4>1. Candidate(m, r)
        BY <1>1, <2>3, <3>1 DEF Candidate
      <4> QED
        BY <2>1, <4>1 DEF Open
    <3>2. CASE m = h
      <4>1. job'[h].pc \in Crediting /\ Ref(h)' = r
        BY <2>3, <3>2 DEF Candidate
      <4>2. Ref(h) = r /\ (job[h].pc \in Crediting \/ Stored(Ref(h)) = "none")
        BY <1>2, <4>1 DEF Quiet
      <4> QED
        BY <2>1, <4>2 DEF Open, Candidate
    <3> QED
      BY <3>1, <3>2
  <2> QED
    BY <2>2, <2>3 DEF Open
<1> QED
  BY <1>3, <1>4, <1>6, <1>7, BoundKeeps

(* The lock is taken: where it was open, there is room for one more. *)
LEMMA BoundLock ==
  ASSUME TypeInv, BoundInv, NEW h \in Handlers, Lock(h), RefLock(Ref(h)) \notin locks
  PROVE  BoundInv'
<1> SUFFICES ASSUME NEW r \in Refs
             PROVE  /\ credits'[r] + Cardinality(Spent(r)') <= 1 + Faults'
                    /\ Open(r)' => credits'[r] + Cardinality(Spent(r)') <= Faults'
                    /\ Blank(r)' => credits'[r] + Cardinality(Last(r)') <= Faults'
  BY DEF BoundInv
<1>1. /\ job[h].pc = "lock" /\ locks' = locks \cup {RefLock(Ref(h))} /\ Goto(h, "expire")
      /\ UNCHANGED <<store, mortal, ledger, chain, faults>>
  BY DEF Lock
<1>2. OthersSame(h) /\ Stays(h) /\ job'[h].pc = "expire"
  BY <1>1, GotoMoves DEF TypeInv, TypeOK, Labels, JobMoves
<1>3. \A m \in Handlers : m # h => Ref(m)' = Ref(m) /\ job'[m] = job[m]
  BY <1>2, RefSame
<1>4. Ref(h)' = Ref(h)
  BY <1>2, RefStays
<1>5. UNCHANGED <<pointer, record, credits, faults>>
  BY <1>1 DEF store, ledger
<1>6. Stored(r)' = Stored(r)
  BY <1>5 DEF Stored
<1>7. Last(r)' = Last(r)
  BY <1>1, <1>2, <1>3 DEF Last
<1>8. Blank(r)' => Blank(r)
  BY <1>1, <1>3, <1>5, <1>6 DEF Blank, Storing
<1>9. CASE r = Ref(h)
  <2>1. Open(r)
    BY <1>1, <1>9 DEF Open, Candidate, Crediting
  <2>2. ~Open(r)'
    BY <1>1, <1>9 DEF Open, RefLock
  <2>3. Spent(r)' = Spent(r) \cup {h}
    BY <1>2, <1>3, <1>4, <1>9 DEF Spent, Spending
  <2>4. Cardinality(Spent(r)') = Cardinality(Spent(r)) + 1
    <3> DEFINE S == Spent(r)
    <3>1. IsFiniteSet(S) /\ h \notin S
      BY <1>1, SpentFinite DEF Spent, Spending
    <3>2. Spent(r)' = S \cup {h}
      BY <2>3
    <3> HIDE DEF S
    <3>3. Cardinality(S \cup {h}) = Cardinality(S) + 1
      BY <3>1, FS_AddElement
    <3> QED
      BY <3>2, <3>3 DEF S
  <2>5. credits[r] + Cardinality(Spent(r)) <= Faults
    BY <2>1 DEF BoundInv
  <2>6. Faults' = Faults /\ Faults \in Nat /\ credits[r] \in Nat
    BY <1>5, DepositAssumption
       DEF DepositAssumption, Faults, faults, TypeInv, TypeOK, LedgerType, FaultsType
  <2>7. Blank(r)' => credits[r] + Cardinality(Last(r)) <= Faults
    BY <1>8 DEF BoundInv
  <2> QED
    BY <1>5, <1>7, <2>2, <2>4, <2>5, <2>6, <2>7, SpentFinite, SpentFiniteNext
<1>10. CASE r # Ref(h)
  <2>1. Spent(r)' \subseteq Spent(r)
    BY <1>3, <1>4, <1>10 DEF Spent
  <2>2. RefLock(r) \in locks' <=> RefLock(r) \in locks
    BY <1>1, <1>10 DEF RefLock
  <2>3. Open(r)' => Open(r)
    BY <1>3, <1>4, <1>6, <1>10, <2>2 DEF Open, Candidate, RefLock
  <2> QED
    BY <1>5, <1>7, <1>8, <2>1, <2>3, BoundKeeps
<1> QED
  BY <1>9, <1>10

(* The reference leads to a new id: its handler has the ledger call before it. *)
LEMMA BoundPoint ==
  ASSUME TypeInv, BoundInv, NEW h \in Handlers, Point(h) PROVE BoundInv'
<1> SUFFICES ASSUME NEW r \in Refs
             PROVE  /\ credits'[r] + Cardinality(Spent(r)') <= 1 + Faults'
                    /\ Open(r)' => credits'[r] + Cardinality(Spent(r)') <= Faults'
                    /\ Blank(r)' => credits'[r] + Cardinality(Last(r)') <= Faults'
  BY DEF BoundInv
<1>1. PICK i \in Unused :
        /\ pointer' = [pointer EXCEPT ![Ref(h)] = i]
        /\ record' = [record EXCEPT ![i] = "none"]
        /\ of' = [of EXCEPT ![i] = job[h].dep]
        /\ JobMoves(h) /\ Stays(h) /\ job'[h].pc = "ledger" /\ job'[h].p = i
  BY MovesPointing
<1>2. job[h].pc = "point" /\ UNCHANGED <<locks, credits, faults>>
  BY DEF Point, lock, ledger
<1>3. \A m \in Handlers : m # h => Ref(m)' = Ref(m) /\ job'[m] = job[m]
  BY <1>1, RefSame DEF JobMoves
<1>4. Ref(h)' = Ref(h) /\ Ref(h) \in Refs
  BY <1>1, <1>2, RefStays, NamesTyped
<1>5. Spent(r)' \subseteq Spent(r)
  BY <1>2, <1>3, <1>4 DEF Spent, Spending
<1>6. RefLock(r)' = RefLock(r)
  BY DEF RefLock
<1>7. pointer \in [Refs -> Ids \cup {None}] /\ record \in [Ids -> {"none", "pending", "confirmed"}]
  BY DEF TypeInv, TypeOK, StoreType
<1>8. CASE r = Ref(h)
  <2>1. Candidate(h, r)
    BY <1>2, <1>8 DEF Candidate, Crediting
  <2>2. Open(r)' => Open(r)
    BY <1>2, <1>6, <2>1 DEF Open
  <2>3. Storing(h, r)'
    BY <1>1, <1>4, <1>7, <1>8 DEF Storing
  <2>4. ~Blank(r)'
    BY <2>3 DEF Blank
  <2> QED
    BY <1>2, <1>5, <2>2, <2>4, BoundKeeps
<1>9. CASE r # Ref(h)
  <2>1. pointer'[r] = pointer[r] /\ pointer[r] # i
    BY <1>1, <1>7, <1>9 DEF Unused
  <2>2. Stored(r)' = Stored(r)
    BY <1>1, <1>7, <2>1 DEF Stored
  <2>3. Open(r)' => Open(r)
    BY <1>2, <1>3, <1>4, <1>6, <1>9, <2>2 DEF Open, Candidate
  <2>4. Last(r)' \subseteq Last(r)
    BY <1>3, <1>4, <1>9 DEF Last
  <2>5. Blank(r)' => Blank(r)
    BY <1>2, <1>3, <2>1, <2>2 DEF Blank, Storing
  <2> QED
    BY <1>2, <1>5, <2>3, <2>4, <2>5, BoundKeeps
<1> QED
  BY <1>8, <1>9

(* The ledger call turns a handler that may credit into a credit. *)
LEMMA BoundLedger ==
  ASSUME TypeInv, BoundInv, NEW h \in Handlers, CreditLedger(h) PROVE BoundInv'
<1> SUFFICES ASSUME NEW r \in Refs
             PROVE  /\ credits'[r] + Cardinality(Spent(r)') <= 1 + Faults'
                    /\ Open(r)' => credits'[r] + Cardinality(Spent(r)') <= Faults'
                    /\ Blank(r)' => credits'[r] + Cardinality(Last(r)') <= Faults'
  BY DEF BoundInv
<1>1. /\ job[h].pc = "ledger" /\ credits' = [credits EXCEPT ![Ref(h)] = @ + 1]
      /\ Goto(h, "save") /\ UNCHANGED <<store, lock, faults>>
  BY DEF CreditLedger
<1>2. OthersSame(h) /\ Stays(h) /\ job'[h].pc = "save" /\ job'[h].p = job[h].p
  BY <1>1, GotoMoves DEF TypeInv, TypeOK, Labels, JobMoves
<1>3. \A m \in Handlers : m # h => Ref(m)' = Ref(m) /\ job'[m] = job[m]
  BY <1>2, RefSame
<1>4. Ref(h)' = Ref(h) /\ Ref(h) \in Refs
  BY <1>1, <1>2, RefStays, NamesTyped
<1>5. UNCHANGED <<pointer, record, locks, faults>>
  BY <1>1 DEF store, lock
<1>6. Stored(r)' = Stored(r) /\ RefLock(r)' = RefLock(r)
  BY <1>5 DEF Stored, RefLock
<1>7. Open(r)' => Open(r)
  BY <1>1, <1>3, <1>4, <1>5, <1>6 DEF Open, Candidate, Crediting
<1>8. Blank(r)' => Blank(r)
  BY <1>1, <1>2, <1>3, <1>4, <1>5, <1>6 DEF Blank, Storing
<1>9. CASE r = Ref(h)
  <2>1. h \in Spent(r) /\ h \in Last(r)
    BY <1>1, <1>9 DEF Spent, Last, Spending
  <2>2. Spent(r)' = Spent(r) \ {h} /\ Last(r)' = Last(r) \ {h}
    BY <1>1, <1>2, <1>3, <1>9 DEF Spent, Last, Spending
  <2>3. /\ Cardinality(Spent(r)') = Cardinality(Spent(r)) - 1
        /\ Cardinality(Last(r)') = Cardinality(Last(r)) - 1
    BY <2>1, <2>2, SpentFinite, FS_RemoveElement, ZenonT(60)
  <2>4. credits'[r] = credits[r] + 1 /\ credits[r] \in Nat
    BY <1>1, <1>4, <1>9 DEF TypeInv, TypeOK, LedgerType
  <2>5. Faults' = Faults /\ Faults \in Nat
    BY <1>5, DepositAssumption
       DEF DepositAssumption, Faults, faults, TypeInv, TypeOK, FaultsType
  <2>6. /\ credits[r] + Cardinality(Spent(r)) <= 1 + Faults
        /\ Open(r) => credits[r] + Cardinality(Spent(r)) <= Faults
        /\ Blank(r) => credits[r] + Cardinality(Last(r)) <= Faults
    BY DEF BoundInv
  <2> QED
    BY <1>7, <1>8, <2>3, <2>4, <2>5, <2>6, SpentFinite
<1>10. CASE r # Ref(h)
  <2>1. credits'[r] = credits[r]
    BY <1>1, <1>4, <1>10 DEF TypeInv, TypeOK, LedgerType
  <2>2. Spent(r)' \subseteq Spent(r) /\ Last(r)' \subseteq Last(r)
    BY <1>1, <1>3, <1>4, <1>10 DEF Spent, Last
  <2> QED
    BY <1>5, <1>7, <1>8, <2>1, <2>2, BoundKeeps
<1> QED
  BY <1>9, <1>10

(* A fault may take handlers away, and pays for a credit. *)
LEMMA BoundFault ==
  ASSUME TypeInv, BoundInv, UNCHANGED credits, Faults' = Faults + 1,
         \A h \in Handlers :
           job'[h].pc \in Spending => job[h].pc \in Spending /\ Ref(h)' = Ref(h)
  PROVE  BoundInv'
<1>1. \A r \in Refs : Spent(r)' \subseteq Spent(r)
  BY DEF Spent
<1> QED
  BY <1>1, BoundPays DEF BoundInv

(* Every step of a handler but those three is quiet. *)
LEMMA QuietStep ==
  ASSUME TypeInv, NEW h \in Handlers, HandlerStep(h), ~Point(h), ~CreditLedger(h),
         ~(Lock(h) /\ RefLock(Ref(h)) \notin locks)
  PROVE  Quiet(h) /\ UNCHANGED <<pointer, credits, faults>>
<1>1. Proper(h) /\ OthersSame(h) /\ JobType /\ job[h].pc # "free" /\ job[h].dep \in Deposits
  <2>1. Proper(h)
    BY MovesSimply, MovesReading, MovesTakingUp
       DEF HandlerStep, Look, Credit, Confirm, ConfirmWatched
  <2> QED
    BY <2>1 DEF TypeInv, TypeOK, DepInv, Proper, JobMoves
<1>2. record \in [Ids -> {"none", "pending", "confirmed"}]
       /\ \A r \in Refs : pointer[r] \in Ids \cup {None}
  BY DEF TypeInv, TypeOK, StoreType
<1>3. job[h].pc \in Named => job[h].p \in Ids
  BY DEF TypeInv, NameInv
<1> HIDE DEF TypeInv
<1> DEFINE RestQuiet ==
      /\ \A r \in Refs :
           /\ Stored(r)' = "none" => Stored(r) = "none" /\ ~Storing(h, r)
           /\ RefLock(r) \in locks => RefLock(r) \in locks'
      /\ UNCHANGED <<pointer, credits, faults>>
<1>4. ASSUME NextOutput(h) \/ End(h), RestQuiet
      PROVE  Quiet(h) /\ UNCHANGED <<pointer, credits, faults>>
  <2>1. job'[h].pc \in {"free", "look"}
    BY <1>1, <1>4, NextMoves, EndMoves DEF Leaves
  <2> QED
    BY <1>1, <1>4, <2>1 DEF Quiet, Spending, Crediting
<1>5. ASSUME NEW label \in Labels, Stays(h), job'[h].pc = label, RestQuiet, label # "ledger",
             label \in Spending => job[h].pc \in Spending,
             label \in Crediting => job[h].pc \in Crediting \/ Stored(Ref(h)) = "none"
      PROVE  Quiet(h) /\ UNCHANGED <<pointer, credits, faults>>
  BY <1>1, <1>5 DEF Quiet
<1>6. ASSUME UNCHANGED <<pointer, record>>, job[h].pc \notin {"ledger", "save"}
      PROVE  \A r \in Refs : Stored(r)' = "none" => Stored(r) = "none" /\ ~Storing(h, r)
  BY <1>6 DEF Stored, Storing
<1>7. CASE \/ LookSkips(h) \/ LookFindsNone(h) \/ LookConfirms(h) \/ LookWatched(h)
           \/ Expire(h) \/ Load(h) \/ CreditExpire(h) \/ Relook(h)
           \/ ConfirmLoad(h) \/ ConfirmLedger(h)
           \/ InLoad(h) \/ InInvoice(h) \/ InLedger(h) \/ InUnwatch(h)
  <2>1. UNCHANGED <<pointer, record, locks, credits, faults>>
         /\ job[h].pc \notin {"ledger", "save"}
    BY <1>7
       DEF LookSkips, LookFindsNone, LookConfirms, LookWatched, Expire, Load, CreditExpire, Relook,
           ConfirmLoad, ConfirmLedger, InLoad, InInvoice, InLedger, InUnwatch, Move,
           store, lock, ledger
  <2>2. RestQuiet
    BY <1>6, <2>1
  <2>3. CASE NextOutput(h)
    BY <1>4, <2>2, <2>3
  <2>4. CASE ~NextOutput(h)
    <3>1. job'[h].pc \in Labels /\ Stays(h)
      BY <1>1, <1>7, <2>4 DEF Proper, JobMoves, JobRecord, JobType, Leaves, Stays, Goto,
         LookSkips, LookFindsNone, LookConfirms, LookWatched, Expire, Load, CreditExpire, Relook,
         ConfirmLoad, ConfirmLedger, InLoad, InInvoice, InLedger, InUnwatch
    <3>2. /\ job'[h].pc # "ledger"
          /\ job'[h].pc \in Spending => job[h].pc \in Spending
          /\ job'[h].pc \in Crediting => job[h].pc \in Crediting \/ Stored(Ref(h)) = "none"
      BY <1>1, <1>7, <2>4 DEF JobType, Goto, Spending, Crediting,
         LookSkips, LookFindsNone, LookConfirms, LookWatched, Expire, Load, CreditExpire, Relook,
         ConfirmLoad, ConfirmLedger, InLoad, InInvoice, InLedger, InUnwatch
    <3> HIDE DEF RestQuiet
    <3> QED
      BY <1>5, <2>2, <3>1, <3>2
  <2> QED
    BY <2>3, <2>4
<1>8. CASE Lock(h) \/ TakeCreditLock(h) \/ TakeConfirmLock(h)
  <2>1. UNCHANGED <<pointer, record, credits, faults>> /\ locks \subseteq locks'
         /\ job[h].pc \notin {"ledger", "save"}
    BY <1>8 DEF Lock, TakeCreditLock, TakeConfirmLock, store, lock, ledger
  <2>2. RestQuiet
    BY <1>6, <2>1
  <2>3. CASE NextOutput(h) \/ End(h)
    BY <1>4, <2>2, <2>3
  <2>4. CASE ~(NextOutput(h) \/ End(h))
    <3>1. TakeCreditLock(h) \/ TakeConfirmLock(h)
      BY <1>8, <2>4 DEF Lock
    <3>2. PICK label \in {"creditExpire", "confirmUnlock", "confirmLoad"} :
            Goto(h, label) /\ (label = "creditExpire" => job[h].pc = "creditLock")
      BY <2>4, <3>1 DEF TakeCreditLock, TakeConfirmLock
    <3>3. Stays(h) /\ job'[h].pc = label /\ label \in Labels
      BY <1>1, <3>2, GotoMoves DEF Labels
    <3>4. /\ label # "ledger"
          /\ label \in Spending => job[h].pc \in Spending
          /\ label \in Crediting => job[h].pc \in Crediting
      <4>1. label # "ledger"
        BY <3>2
      <4>2. label \in Spending \cup Crediting => label = "creditExpire"
        BY <3>2 DEF Spending, Crediting
      <4>3. "creditLock" \in Spending /\ "creditLock" \in Crediting
        BY DEF Spending, Crediting
      <4> QED
        BY <3>2, <4>1, <4>2, <4>3
    <3> HIDE DEF RestQuiet
    <3> QED
      BY <1>5, <2>2, <3>3, <3>4
  <2> QED
    BY <2>3, <2>4
<1>9. CASE Unlock(h) \/ FailUnlock(h) \/ ConfirmUnlock(h)
  <2>1. UNCHANGED <<pointer, record, credits, faults>> /\ job[h].pc \notin {"ledger", "save"}
    BY <1>9 DEF Unlock, FailUnlock, ConfirmUnlock, store, ledger
  <2>2. \A r \in Refs : RefLock(r) \in locks => RefLock(r) \in locks'
    BY <1>9
       DEF Unlock, FailUnlock, ConfirmUnlock, Release, RefLock, CreditLock, ConfirmLock
  <2>3. RestQuiet
    BY <1>6, <2>1, <2>2
  <2>4. CASE NextOutput(h) \/ End(h)
    BY <1>4, <2>3, <2>4
  <2>5. CASE ~(NextOutput(h) \/ End(h))
    <3>1. Goto(h, "relook")
      BY <1>9, <2>5 DEF Unlock, FailUnlock, ConfirmUnlock
    <3>2. Stays(h) /\ job'[h].pc = "relook" /\ "relook" \in Labels
      BY <1>1, <3>1, GotoMoves DEF Labels
    <3>3. "relook" \notin Spending /\ "relook" \notin Crediting
      BY DEF Spending, Crediting
    <3> HIDE DEF RestQuiet
    <3> QED
      BY <1>5, <2>3, <3>2, <3>3
  <2> QED
    BY <2>4, <2>5
<1>10. CASE Save(h) \/ ConfirmSave(h) \/ InPayment(h)
  <2>1. /\ UNCHANGED <<pointer, locks, credits, faults>>
        /\ \/ record' = [record EXCEPT ![job[h].p] = "pending"]
           \/ record' = [record EXCEPT ![job[h].p] = "confirmed"] /\ job[h].pc # "save"
        /\ job[h].pc \in Named \ {"ledger"}
    BY <1>10 DEF Save, ConfirmSave, InPayment, lock, ledger, Named, Confirming
  <2>2. job[h].p \in Ids
    BY <1>3, <2>1
  <2>3. ASSUME NEW r \in Refs, Stored(r)' = "none" PROVE Stored(r) = "none" /\ ~Storing(h, r)
    <3>1. pointer[r] # job[h].p
      BY <1>2, <2>1, <2>2, <2>3, DepositAssumption DEF DepositAssumption, Stored
    <3> QED
      BY <1>2, <2>1, <2>2, <2>3, <3>1 DEF Stored, Storing
  <2>4. RestQuiet
    BY <2>1, <2>3
  <2>5. PICK label \in {"unlock", "confirmUnlock", "inLedger"} : Goto(h, label)
    BY <1>10 DEF Save, ConfirmSave, InPayment
  <2>6. Stays(h) /\ job'[h].pc = label /\ label \in Labels
    BY <1>1, <2>5, GotoMoves DEF Labels
  <2>7. label # "ledger" /\ label \notin Spending /\ label \notin Crediting
    BY DEF Spending, Crediting
  <2> HIDE DEF RestQuiet
  <2> QED
    BY <1>5, <2>4, <2>6, <2>7
<1> QED
  BY <1>7, <1>8, <1>9, <1>10 DEF HandlerStep, Look, Credit, Confirm, ConfirmWatched

(* Every step keeps the bound. *)
LEMMA BoundNext == ASSUME TypeInv, BoundInv, [Next]_vars PROVE BoundInv'
<1>1. ASSUME NEW h \in Handlers, HandlerStep(h) PROVE BoundInv'
  <2>1. CASE Point(h)
    BY <2>1, BoundPoint
  <2>2. CASE CreditLedger(h)
    BY <2>2, BoundLedger
  <2>3. CASE Lock(h) /\ RefLock(Ref(h)) \notin locks
    BY <2>3, BoundLock
  <2>4. CASE ~Point(h) /\ ~CreditLedger(h) /\ ~(Lock(h) /\ RefLock(Ref(h)) \notin locks)
    BY <1>1, <2>4, QuietStep, QuietKeeps
  <2> QED
    BY <2>1, <2>2, <2>3, <2>4
<1>2. ASSUME NEW h \in Handlers, NEW k \in Kinds, NEW t \in Txs, Notify(h, k, t) PROVE BoundInv'
  <2>1. OthersSame(h) /\ job'[h].pc = "look"
    BY <1>2, NotifyMoves DEF TypeInv, TypeOK, JobMoves
  <2>2. UNCHANGED <<pointer, record, locks, credits, faults>> /\ job[h].pc = "free"
    BY <1>2 DEF Notify, store, lock, ledger
  <2>3. Quiet(h)
    BY <2>1, <2>2 DEF Quiet, Spending, Crediting, Stored, Storing
  <2> QED
    BY <2>2, <2>3, QuietKeeps
<1>3. ASSUME NEW h \in Handlers, CallFails(h) PROVE BoundInv'
  <2>1. UNCHANGED credits /\ Faults' = Faults + 1
    BY <1>3, DepositAssumption
       DEF DepositAssumption, CallFails, ledger, Faults, TypeInv, TypeOK, FaultsType
  <2>2. OthersSame(h) /\ job'[h].pc \in {"failUnlock", "free"}
    BY <1>3, GotoMoves, EndMoves DEF CallFails, JobMoves, Labels, TypeInv, TypeOK
  <2>3. \A m \in Handlers :
          job'[m].pc \in Spending => job[m].pc \in Spending /\ Ref(m)' = Ref(m)
    BY <2>2, RefSame DEF Spending
  <2> QED
    BY <2>1, <2>3, BoundFault
<1>4. ASSUME Crash PROVE BoundInv'
  <2>1. UNCHANGED credits /\ Faults' = Faults + 1
    BY <1>4, DepositAssumption
       DEF DepositAssumption, Crash, ledger, Faults, TypeInv, TypeOK, FaultsType
  <2>2. \A m \in Handlers : job'[m].pc = "free"
    BY <1>4 DEF Crash, Idle
  <2> QED
    BY <2>1, <2>2, BoundFault DEF Spending
<1>5. ASSUME NEW n \in LockNames, LockExpires(n) PROVE BoundInv'
  <2>1. UNCHANGED <<pointer, record, credits, job, crashes, failures>>
    BY <1>5 DEF LockExpires, store, ledger
  <2>2. \A h \in Handlers : Ref(h)' = Ref(h)
    BY <2>1 DEF Ref
  <2>3. CASE AtWork(n)
    <3>1. Faults' = Faults + 1
      BY <1>5, <2>1, <2>3, DepositAssumption
         DEF DepositAssumption, LockExpires, Faults, TypeInv, TypeOK, FaultsType
    <3> QED
      BY <2>1, <2>2, <3>1, BoundFault
  <2>4. CASE ~AtWork(n)
    <3> SUFFICES ASSUME NEW r \in Refs
                 PROVE  /\ credits'[r] + Cardinality(Spent(r)') <= 1 + Faults'
                        /\ Open(r)' => credits'[r] + Cardinality(Spent(r)') <= Faults'
                        /\ Blank(r)' => credits'[r] + Cardinality(Last(r)') <= Faults'
      BY DEF BoundInv
    <3>1. UNCHANGED faults /\ locks' = locks \ {n}
      BY <1>5, <2>1, <2>4 DEF LockExpires, faults, Release
    <3>2. Spent(r)' = Spent(r) /\ Last(r)' = Last(r) /\ Stored(r)' = Stored(r)
      BY <2>1, <2>2 DEF Spent, Last, Stored
    <3>3. Blank(r)' <=> Blank(r)
      BY <2>1, <2>2, <3>2 DEF Blank, Storing
    <3>4. CASE n # RefLock(r)
      <4>1. Open(r)' => Open(r)
        BY <2>1, <2>2, <3>1, <3>2, <3>4 DEF Open, Candidate, RefLock
      <4> QED
        BY <2>1, <3>1, <3>2, <3>3, <4>1, BoundKeeps
    <3>5. CASE n = RefLock(r)
      <4>1. \A h \in Handlers : ~Candidate(h, r)
        BY <2>4, <3>5 DEF AtWork, Candidate
      <4>2. Spent(r) = {} /\ Last(r) = {} /\ \A h \in Handlers : ~Storing(h, r)
        BY <4>1 DEF Spent, Last, Spending, Storing, Candidate, Crediting
      <4>3. Open(r)' => Blank(r)
        BY <2>1, <2>2, <3>2, <4>1, <4>2 DEF Open, Candidate, Blank
      <4>4. /\ credits[r] + Cardinality(Spent(r)) <= 1 + Faults
            /\ Blank(r) => credits[r] + Cardinality(Last(r)) <= Faults
        BY DEF BoundInv
      <4>5. Faults' = Faults
        BY <3>1 DEF faults, Faults
      <4> QED
        BY <2>1, <3>2, <3>3, <4>2, <4>3, <4>4, <4>5
    <3> QED
      BY <3>4, <3>5
  <2> QED
    BY <2>3, <2>4
<1>6. ASSUME UNCHANGED <<store, lock, ledger, job, faults>> PROVE BoundInv'
  <2>1. UNCHANGED <<pointer, record, locks, credits, job, faults>>
    BY <1>6 DEF store, lock, ledger
  <2> QED
    BY <2>1
       DEF BoundInv, Spent, Last, Open, Blank, Stored, Candidate, Storing, Ref, RefLock,
           Faults, faults
<1> QED
  BY <1>1, <1>2, <1>3, <1>4, <1>5, <1>6 DEF Next, Appears, Mined, vars

(* A reference is credited once, and once more at most for each crash, failed *)
(* call and lock that expired under a handler, however many handlers see it.  *)
THEOREM CreditsBounded == Spec => []CreditsBoundedByFaults
<1>1. Spec => [](TypeInv /\ BoundInv)
  BY TypeInit, TypeNext, BoundInit, BoundNext, PTL DEF Spec
<1>2. TypeInv /\ BoundInv => CreditsBoundedByFaults
  <2> SUFFICES ASSUME TypeInv, BoundInv, NEW r \in Refs
               PROVE  credits[r] <= 1 + crashes + failures + expiries
    BY DEF CreditsBoundedByFaults
  <2>1. credits[r] + Cardinality(Spent(r)) <= 1 + Faults
    BY DEF BoundInv
  <2>2. credits[r] \in Nat /\ crashes \in Nat /\ failures \in Nat /\ expiries \in Nat
    BY DepositAssumption DEF DepositAssumption, TypeInv, TypeOK, LedgerType, FaultsType
  <2> QED
    BY <2>1, <2>2, SpentFinite DEF Faults
<1> QED
  BY <1>1, <1>2, PTL
=============================================================================
