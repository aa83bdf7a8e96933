------------------------------- MODULE MintProofs -------------------------------
(***************************************************************************)
(* Theorems about Mint, for any number of claims, melts, proofs and quotes, *)
(* outages, failing calls and restarts.                                    *)
(***************************************************************************)
EXTENDS Mint, FiniteSetTheorems, TLAPS

(* The claims whose proof is in the pool and whose credit is still to come. *)
Due == {c \in Claims : claim[c].pc \in {"credit", "book", "ledger"}}

(* Who works on the pool holds its lock, and has read what is in it. *)
HoldsInv ==
  \A c \in Claims :
    /\ claim[c].pc \in {"pool", "swap", "store"} => cashLock = c
    /\ claim[c].pc \in {"swap", "store"} => wiped \/ claim[c].read = pool

(* The pool holds what claims were credited for, or are due. *)
CoverInv == wiped \/ pool >= Opening + credited + Cardinality(Due)

(* What Ecash types, in parts. *)
ClaimTyped ==
  claim \in [Claims -> [pc : {"start", "lock", "pool", "swap", "store", "credit", "book",
                              "ledger", "done"},
                        proof : NewProofs \cup {None}, asked : Asked \cup {None}, read : Nat]]

PoolTyped ==
  /\ spent \subseteq NewProofs
  /\ mintUp \in BOOLEAN /\ cached \in BOOLEAN /\ wiped \in BOOLEAN
  /\ pool \in Nat /\ credited \in Nat /\ outages \in Nat /\ faults \in Nat
  /\ cashLock \in Claims \cup {None} /\ received \subseteq Asked /\ creditLock \subseteq Asked

ProofTyped == \A c \in Claims : claim[c].pc # "start" => claim[c].proof \in NewProofs

EcashTypeInv == ClaimTyped /\ ProofTyped /\ PoolTyped

(* What Melts types, in parts. *)
QuotesTyped ==
  /\ paidNew \subseteq Quotes /\ {asked, quoteMem, aged} \subseteq SUBSET Quotes
  /\ \A n \in DOMAIN oldQuote : oldQuote[n] \in [quote : Quotes, state : States]
  /\ oldMelts \in [Quotes -> {0} \cup DOMAIN oldQuote]

MeltRecord ==
  [pc : Labels, quote : Quotes \cup {None}, old : {0} \cup DOMAIN oldQuote,
   inputs : SUBSET (NewProofs \cup OldProofs), left : SUBSET (NewProofs \cup OldProofs), cum : Nat]

MeltTyped == melt \in [Requests -> MeltRecord]

AskedTyped == \A r \in Requests : melt[r].pc # "start" => melt[r].quote \in Quotes

(* A melt that the retired mint waits for is one of its proofs. *)
Waits(r) == melt[r].pc \in {"guard", "decode", "pay", "count", "unsure"}

WaitsTyped == \A r \in Requests : Waits(r) => melt[r].inputs \subseteq OldProofs

RestTyped ==
  /\ spent \subseteq NewProofs /\ known \subseteq Mints
  /\ {held, dropped, unwritten, paid, apart} \subseteq SUBSET OldProofs
  /\ given \subseteq NewProofs \cup OldProofs
  /\ cum \in Nat /\ frozen \in BOOLEAN /\ reboots \in Nat

MeltsTypeInv == QuotesTyped /\ MeltTyped /\ AskedTyped /\ WaitsTyped /\ RestTyped

(* What the limiter has let through in turn is in its sum, and in the sum that *)
(* each of its payments will add to, but for what the payment itself has paid. *)
(* Payments that overlap are apart.                                            *)
Paying(r) == melt[r].pc \in {"pay", "count"}
Summed    == (paid \ apart) \ UNION {Inputs(r) : r \in {s \in Requests : melt[s].pc = "count"}}

CapInv ==
  /\ cum <= Cap /\ Cardinality(Summed) <= cum
  /\ \A r \in Requests : Paying(r) =>
       /\ Cardinality(Summed) <= melt[r].cum /\ melt[r].cum + Amount(r) <= Cap
       /\ \A s \in Requests \ {r} : Paying(s) => Inputs(r) \subseteq apart

(* What the retired mint holds for a melt that it waits for is that melt's, *)
(* and no wallet takes it for spent.                                        *)
LossInv ==
  /\ \A r \in Requests : melt[r].left \subseteq Inputs(r) \cup dropped \cup unwritten
  /\ \A r \in Requests : Waits(r) => Inputs(r) \subseteq held
  /\ \A r \in Requests : melt[r].pc = "start" => Inputs(r) = {}
  /\ \A r, s \in Requests : r # s /\ Waits(r) /\ Waits(s) => Inputs(r) \cap Inputs(s) = {}
  /\ \A p \in given :
       \/ p \in spent \/ p \in dropped \cup unwritten
       \/ /\ p \in held /\ \E r \in Requests : p \in Inputs(r)
          /\ \A s \in Requests : Waits(s) => p \notin Inputs(s)

(* The retired mint's quotes are numbered in turn.  The front's entry is the *)
(* last one of its quote, and it has one unless that grew old.               *)
Numbered == \E k \in Nat : DOMAIN oldQuote = 1 .. k

FrontKnows ==
  \A q \in Quotes : oldMelts[q] # 0 =>
    /\ oldQuote[oldMelts[q]].quote = q
    /\ \A n \in DOMAIN oldQuote : oldQuote[n].quote = q => n <= oldMelts[q]

FrontHas == \A n \in DOMAIN oldQuote : oldQuote[n].quote \notin aged => oldMelts[oldQuote[n].quote] # 0

PollInv == Numbered /\ FrontKnows /\ FrontHas

-----------------------------------------------------------------------------
(* Types *)

(* A claim that moves on. *)
LEMMA GotoIs ==
  ASSUME ClaimTyped, NEW c \in Claims, Goto(c, "lock") \/ Goto(c, "pool") \/ Goto(c, "store")
           \/ Goto(c, "credit") \/ Goto(c, "ledger") \/ Goto(c, "done")
  PROVE  /\ ClaimTyped' /\ \A d \in Claims \ {c} : claim'[d] = claim[d]
         /\ claim'[c].read = claim[c].read
BY DEF ClaimTyped, Goto

(* Claims keep the types. *)
LEMMA EcashTypeNext == ASSUME EcashTypeInv, EcashNext PROVE EcashTypeInv'
<1> USE EcashAssumption DEF EcashAssumption, EcashTypeInv, PoolTyped, Fresh, Proof, Request
<1>1. ASSUME NEW c \in Claims, ClaimStart(c) PROVE EcashTypeInv'
  <2>1. ClaimTyped'
    BY <1>1 DEF ClaimStart, ClaimTyped
  <2>2. ProofTyped'
    BY <1>1 DEF ClaimStart, ClaimTyped, ProofTyped, Goto
  <2>3. PoolTyped'
    BY <1>1 DEF ClaimStart, ClaimTyped, ProofTyped
  <2> QED
    BY <2>1, <2>2, <2>3
<1>2. ASSUME NEW c \in Claims, EnterPool(c) PROVE EcashTypeInv'
  <2>1. ClaimTyped'
    BY <1>2, GotoIs DEF EnterPool
  <2>2. ProofTyped'
    BY <1>2 DEF EnterPool, ClaimTyped, ProofTyped, Goto
  <2>3. PoolTyped'
    BY <1>2 DEF EnterPool, ClaimTyped, ProofTyped
  <2> QED
    BY <2>1, <2>2, <2>3
<1>3. ASSUME NEW c \in Claims, ReadPool(c) PROVE EcashTypeInv'
  <2>1. ClaimTyped'
    <3> DEFINE m == [claim[c] EXCEPT !.pc = "swap", !.read = IF cached' THEN pool ELSE 0]
    <3>1. claim' = [claim EXCEPT ![c] = m]
      BY <1>3 DEF ReadPool
    <3>2. m \in [pc : {"start", "lock", "pool", "swap", "store", "credit", "book", "ledger", "done"},
                 proof : NewProofs \cup {None}, asked : Asked \cup {None}, read : Nat]
      BY DEF ClaimTyped
    <3> HIDE DEF m
    <3> QED
      BY <3>1, <3>2 DEF ClaimTyped
  <2>2. ProofTyped'
    BY <1>3 DEF ReadPool, ClaimTyped, ProofTyped, Goto
  <2>3. PoolTyped'
    BY <1>3 DEF ReadPool, ClaimTyped, ProofTyped
  <2> QED
    BY <2>1, <2>2, <2>3
<1>4. ASSUME NEW c \in Claims, Swap(c) PROVE EcashTypeInv'
  <2>1. ClaimTyped'
    BY <1>4, GotoIs DEF Swap
  <2>2. ProofTyped'
    BY <1>4 DEF Swap, ClaimTyped, ProofTyped, Goto
  <2>3. PoolTyped'
    BY <1>4 DEF Swap, ClaimTyped, ProofTyped
  <2> QED
    BY <2>1, <2>2, <2>3
<1>5. ASSUME NEW c \in Claims, StorePool(c) PROVE EcashTypeInv'
  <2>1. ClaimTyped'
    BY <1>5, GotoIs DEF StorePool
  <2>2. ProofTyped'
    BY <1>5 DEF StorePool, ClaimTyped, ProofTyped, Goto
  <2>3. PoolTyped'
    BY <1>5 DEF StorePool, ClaimTyped, ProofTyped
  <2> QED
    BY <2>1, <2>2, <2>3
<1>6. ASSUME NEW c \in Claims, ReadInvoice(c) PROVE EcashTypeInv'
  <2>1. ClaimTyped'
    <3> DEFINE m == [claim[c] EXCEPT !.pc = "book", !.read = IF Request(c) \in received THEN 1 ELSE 0]
    <3>1. claim' = [claim EXCEPT ![c] = m]
      BY <1>6 DEF ReadInvoice
    <3>2. m \in [pc : {"start", "lock", "pool", "swap", "store", "credit", "book", "ledger", "done"},
                 proof : NewProofs \cup {None}, asked : Asked \cup {None}, read : Nat]
      BY ZenonT(60) DEF ClaimTyped
    <3> HIDE DEF m
    <3> QED
      BY <3>1, <3>2 DEF ClaimTyped
  <2>2. ProofTyped'
    BY <1>6 DEF ReadInvoice, ClaimTyped, ProofTyped, Goto
  <2>3. PoolTyped'
    BY <1>6 DEF ReadInvoice, ClaimTyped, ProofTyped
  <2> QED
    BY <2>1, <2>2, <2>3
<1>7. ASSUME NEW c \in Claims, Credit(c) PROVE EcashTypeInv'
  <2>1. ClaimTyped'
    BY <1>7, GotoIs DEF Credit
  <2>2. ProofTyped'
    BY <1>7 DEF Credit, ClaimTyped, ProofTyped, Goto
  <2>3. PoolTyped'
    BY <1>7 DEF Credit, ClaimTyped, ProofTyped
  <2> QED
    BY <2>1, <2>2, <2>3
<1>8. ASSUME NEW c \in Claims, Book(c) PROVE EcashTypeInv'
  <2>1. ClaimTyped'
    BY <1>8, GotoIs DEF Book
  <2>2. ProofTyped'
    BY <1>8 DEF Book, ClaimTyped, ProofTyped, Goto
  <2>3. PoolTyped'
    BY <1>8 DEF Book, ClaimTyped, ProofTyped
  <2> QED
    BY <2>1, <2>2, <2>3
<1>9. ASSUME NEW c \in Claims, CallFails(c) PROVE EcashTypeInv'
  <2>1. ClaimTyped'
    BY <1>9, GotoIs DEF CallFails
  <2>2. ProofTyped'
    BY <1>9 DEF CallFails, ClaimTyped, ProofTyped, Goto
  <2>3. PoolTyped'
    BY <1>9 DEF CallFails, ClaimTyped, ProofTyped
  <2> QED
    BY <2>1, <2>2, <2>3
<1>10. ASSUME KeysAge PROVE EcashTypeInv'
  <2>1. ClaimTyped'
    BY <1>10 DEF KeysAge, ClaimTyped
  <2>2. ProofTyped'
    BY <1>10 DEF KeysAge, ClaimTyped, ProofTyped, Goto
  <2>3. PoolTyped'
    BY <1>10 DEF KeysAge, ClaimTyped, ProofTyped
  <2> QED
    BY <2>1, <2>2, <2>3
<1>11. ASSUME Outage PROVE EcashTypeInv'
  <2>1. ClaimTyped'
    BY <1>11 DEF Outage, ClaimTyped
  <2>2. ProofTyped'
    BY <1>11 DEF Outage, ClaimTyped, ProofTyped, Goto
  <2>3. PoolTyped'
    BY <1>11 DEF Outage, ClaimTyped, ProofTyped
  <2> QED
    BY <2>1, <2>2, <2>3
<1>12. ASSUME Restart PROVE EcashTypeInv'
  <2>1. ClaimTyped'
    <3>1. \A d \in Claims : [claim[d] EXCEPT !.pc = "done"] \in
            [pc : {"start", "lock", "pool", "swap", "store", "credit", "book", "ledger", "done"},
             proof : NewProofs \cup {None}, asked : Asked \cup {None}, read : Nat]
      BY DEF ClaimTyped
    <3>2. Fresh \in
            [pc : {"start", "lock", "pool", "swap", "store", "credit", "book", "ledger", "done"},
             proof : NewProofs \cup {None}, asked : Asked \cup {None}, read : Nat]
      OBVIOUS
    <3> QED
      BY <1>12, <3>1, <3>2 DEF Restart, ClaimTyped
  <2>2. ProofTyped'
    BY <1>12 DEF Restart, ClaimTyped, ProofTyped, Goto
  <2>3. PoolTyped'
    <3>1. /\ UNCHANGED <<spent, mintUp, pool, received, creditLock, credited, wiped, outages>>
          /\ faults' = faults + 1 /\ cashLock' = None /\ cached' = FALSE
      BY <1>12 DEF Restart
    <3>2. mintUp' \in BOOLEAN /\ cached' \in BOOLEAN /\ wiped' \in BOOLEAN
      BY <3>1
    <3>3. pool' \in Nat /\ credited' \in Nat /\ outages' \in Nat /\ faults' \in Nat
      BY <3>1
    <3> QED
      BY <3>1, <3>2, <3>3
  <2> QED
    BY <2>1, <2>2, <2>3
<1> QED
  BY <1>1, <1>2, <1>3, <1>4, <1>5, <1>6, <1>7, <1>8, <1>9, <1>10, <1>11, <1>12 DEF EcashNext

(* A melt that moves on. *)
LEMMA ToIs ==
  ASSUME MeltTyped, NEW r \in Requests, NEW l \in Labels, To(r, l)
  PROVE  /\ melt' \in [Requests -> MeltRecord]
         /\ melt'[r].pc = l /\ \A s \in Requests \ {r} : melt'[s] = melt[s]
         /\ \A s \in Requests : /\ melt'[s].quote = melt[s].quote /\ melt'[s].inputs = melt[s].inputs
                                /\ melt'[s].left = melt[s].left /\ melt'[s].cum = melt[s].cum
                                /\ melt'[s].old = melt[s].old
BY DEF MeltTyped, MeltRecord, To

(* What melts are for is finite. *)
LEMMA AmountTyped == ASSUME MeltTyped, NEW r \in Requests PROVE Amount(r) \in Nat
<1>1. IsFiniteSet(NewProofs \cup OldProofs)
  BY MeltsAssumption, FS_Union DEF MeltsAssumption
<1>2. Inputs(r) \subseteq NewProofs \cup OldProofs
  BY DEF MeltTyped, MeltRecord, Inputs
<1> QED
  BY <1>1, <1>2, FS_Subset, FS_CardinalityType DEF Amount

(* Melts keep the types. *)
LEMMA MeltsTypeNext == ASSUME MeltsTypeInv, MeltsNext PROVE MeltsTypeInv'
<1> USE MeltsAssumption DEF MeltsAssumption, MeltsTypeInv, QuotesTyped, AskedTyped, WaitsTyped, RestTyped,
      Waits, States, Mints, Blank, Quote, Inputs, To, memory, record, limiter
<1>1. ASSUME NEW q \in Quotes, RememberQuote(q) PROVE MeltsTypeInv'
  <2>1. QuotesTyped'
    BY <1>1 DEF RememberQuote
  <2>2. MeltTyped'
    BY <1>1 DEF RememberQuote, MeltTyped, MeltRecord, Labels
  <2>3. AskedTyped'
    BY <1>1 DEF RememberQuote, MeltTyped, MeltRecord
  <2>4. WaitsTyped'
    BY <1>1 DEF RememberQuote, MeltTyped, MeltRecord
  <2>5. RestTyped'
    BY <1>1, AmountTyped DEF RememberQuote, MeltTyped, MeltRecord
  <2> QED
    BY <2>1, <2>2, <2>3, <2>4, <2>5
<1>2. ASSUME NEW q \in Quotes, EntryAges(q) PROVE MeltsTypeInv'
  <2>1. QuotesTyped'
    BY <1>2 DEF EntryAges
  <2>2. MeltTyped'
    BY <1>2 DEF EntryAges, MeltTyped, MeltRecord, Labels
  <2>3. AskedTyped'
    BY <1>2 DEF EntryAges, MeltTyped, MeltRecord
  <2>4. WaitsTyped'
    BY <1>2 DEF EntryAges, MeltTyped, MeltRecord
  <2>5. RestTyped'
    BY <1>2, AmountTyped DEF EntryAges, MeltTyped, MeltRecord
  <2> QED
    BY <2>1, <2>2, <2>3, <2>4, <2>5
<1>3. ASSUME NEW r \in Requests, Melt(r) PROVE MeltsTypeInv'
  <2>1. QuotesTyped'
    BY <1>3 DEF Melt, RecordDropped
  <2>2. MeltTyped'
    <3>1. PICK q \in Quotes, left \in SUBSET (NewProofs \cup OldProofs), inputs \in SUBSET (NewProofs \cup OldProofs), l \in Labels :
            melt' = [melt EXCEPT ![r] = [Blank EXCEPT !.quote = q, !.left = left, !.inputs = inputs, !.pc = l]]
      <4>1. PICK q \in Quotes, left \in SUBSET (NewProofs \cup OldProofs) :
              melt' = [melt EXCEPT ![r] =
                [Blank EXCEPT !.quote = q, !.left = left,
                   !.inputs = IF (left \cap OldProofs # {} /\ "old" \in known) /\ (left \cap NewProofs # {} /\ "new" \in known)
                              THEN left \ OldProofs ELSE left,
                   !.pc = IF ~(left \cap OldProofs # {} /\ "old" \in known) \/ (left \cap NewProofs # {} /\ "new" \in known) THEN "new"
                          ELSE IF q \in quoteMem THEN "requote" ELSE "done"]]
        BY <1>3 DEF Melt
      <4> QED
        BY <4>1, ZenonT(60) DEF Labels
    <3>2. UNCHANGED oldQuote
      BY <1>3 DEF Melt
    <3> QED
      BY <3>1, <3>2 DEF MeltTyped, MeltRecord
  <2>3. AskedTyped'
    BY <1>3 DEF Melt, RecordDropped, MeltTyped, MeltRecord
  <2>4. WaitsTyped'
    BY <1>3 DEF Melt, RecordDropped, MeltTyped, MeltRecord
  <2>5. RestTyped'
    BY <1>3, AmountTyped DEF Melt, RecordDropped, MeltTyped, MeltRecord
  <2> QED
    BY <2>1, <2>2, <2>3, <2>4, <2>5
<1>4. ASSUME NEW r \in Requests, MeltNew(r) PROVE MeltsTypeInv'
  <2>1. QuotesTyped'
    BY <1>4 DEF MeltNew
  <2>2. MeltTyped'
    <3>1. \E l \in Labels : To(r, l)
      BY <1>4 DEF MeltNew, Labels
    <3>2. DOMAIN oldQuote' = DOMAIN oldQuote
      BY <1>4 DEF MeltNew
    <3> QED
      BY <3>1, <3>2, ToIs DEF MeltTyped, MeltRecord
  <2>3. AskedTyped'
    BY <1>4 DEF MeltNew, MeltTyped, MeltRecord
  <2>4. WaitsTyped'
    BY <1>4 DEF MeltNew, MeltTyped, MeltRecord
  <2>5. RestTyped'
    BY <1>4, AmountTyped DEF MeltNew, MeltTyped, MeltRecord
  <2> QED
    BY <2>1, <2>2, <2>3, <2>4, <2>5
<1>5. ASSUME NEW r \in Requests, Requote(r) PROVE MeltsTypeInv'
  <2>1. QuotesTyped'
    BY <1>5 DEF Requote, Quoted
  <2>2. MeltTyped'
    <3> DEFINE n == Cardinality(DOMAIN oldQuote) + 1
               m == [melt[r] EXCEPT !.pc = "old", !.old = n]
    <3>1. DOMAIN oldQuote' = DOMAIN oldQuote \cup {n}
      BY <1>5 DEF Requote, Quoted
    <3>2. melt' = [melt EXCEPT ![r] = m]
      BY <1>5 DEF Requote, Quoted
    <3>3. \A s \in Requests : melt[s] \in MeltRecord'
      BY <3>1 DEF MeltTyped, MeltRecord
    <3> HIDE DEF n
    <3>4. m \in MeltRecord'
      <4>1. "old" \in Labels /\ n \in {0} \cup DOMAIN oldQuote' /\ melt[r] \in MeltRecord'
        BY <3>1, <3>3 DEF Labels
      <4> HIDE DEF Labels
      <4> QED
        BY <4>1 DEF MeltRecord
    <3> HIDE DEF m
    <3> QED
      BY <3>2, <3>3, <3>4 DEF MeltTyped
  <2>3. AskedTyped'
    BY <1>5 DEF Requote, Quoted, MeltTyped, MeltRecord
  <2>4. WaitsTyped'
    BY <1>5 DEF Requote, Quoted, MeltTyped, MeltRecord
  <2>5. RestTyped'
    BY <1>5, AmountTyped DEF Requote, Quoted, MeltTyped, MeltRecord
  <2> QED
    BY <2>1, <2>2, <2>3, <2>4, <2>5
<1>6. ASSUME NEW r \in Requests, MeltOld(r) PROVE MeltsTypeInv'
  <2>1. QuotesTyped'
    BY <1>6 DEF MeltOld
  <2>2. MeltTyped'
    <3>1. \E l \in Labels : To(r, l)
      BY <1>6 DEF MeltOld, Labels
    <3>2. DOMAIN oldQuote' = DOMAIN oldQuote
      BY <1>6 DEF MeltOld
    <3> QED
      BY <3>1, <3>2, ToIs DEF MeltTyped, MeltRecord
  <2>3. AskedTyped'
    BY <1>6 DEF MeltOld, MeltTyped, MeltRecord
  <2>4. WaitsTyped'
    BY <1>6 DEF MeltOld, MeltTyped, MeltRecord
  <2>5. RestTyped'
    BY <1>6, AmountTyped DEF MeltOld, MeltTyped, MeltRecord
  <2> QED
    BY <2>1, <2>2, <2>3, <2>4, <2>5
<1>7. ASSUME NEW r \in Requests, GuardFrozen(r) PROVE MeltsTypeInv'
  <2>1. QuotesTyped'
    BY <1>7 DEF GuardFrozen, Refuse
  <2>2. MeltTyped'
    <3>1. \E l \in Labels : To(r, l)
      BY <1>7 DEF GuardFrozen, Refuse, Labels
    <3>2. DOMAIN oldQuote' = DOMAIN oldQuote
      BY <1>7 DEF GuardFrozen, Refuse
    <3> QED
      BY <3>1, <3>2, ToIs DEF MeltTyped, MeltRecord
  <2>3. AskedTyped'
    BY <1>7, SMTT(60) DEF GuardFrozen, Refuse, MeltTyped, MeltRecord
  <2>4. WaitsTyped'
    BY <1>7 DEF GuardFrozen, Refuse, MeltTyped, MeltRecord
  <2>5. RestTyped'
    BY <1>7, AmountTyped DEF GuardFrozen, Refuse, MeltTyped, MeltRecord
  <2> QED
    BY <2>1, <2>2, <2>3, <2>4, <2>5
<1>8. ASSUME NEW r \in Requests, GuardRejects(r) PROVE MeltsTypeInv'
  <2>1. QuotesTyped'
    BY <1>8 DEF GuardRejects, Refuse
  <2>2. MeltTyped'
    <3>1. \E l \in Labels : To(r, l)
      BY <1>8 DEF GuardRejects, Refuse, Labels
    <3>2. DOMAIN oldQuote' = DOMAIN oldQuote
      BY <1>8 DEF GuardRejects, Refuse
    <3> QED
      BY <3>1, <3>2, ToIs DEF MeltTyped, MeltRecord
  <2>3. AskedTyped'
    BY <1>8 DEF GuardRejects, Refuse, MeltTyped, MeltRecord
  <2>4. WaitsTyped'
    BY <1>8 DEF GuardRejects, Refuse, MeltTyped, MeltRecord
  <2>5. RestTyped'
    BY <1>8, AmountTyped DEF GuardRejects, Refuse, MeltTyped, MeltRecord
  <2> QED
    BY <2>1, <2>2, <2>3, <2>4, <2>5
<1>9. ASSUME NEW r \in Requests, GuardCap(r) PROVE MeltsTypeInv'
  <2>1. QuotesTyped'
    BY <1>9 DEF GuardCap, Admit, Refuse
  <2>2. MeltTyped'
    <3>1. DOMAIN oldQuote' = DOMAIN oldQuote
      BY <1>9 DEF GuardCap, Admit, Refuse
    <3>2. CASE To(r, "done")
      BY <3>1, <3>2, ToIs DEF MeltTyped, MeltRecord, Labels
    <3>3. CASE melt' = [melt EXCEPT ![r].pc = "pay", ![r].cum = cum]
      <4> DEFINE m == [melt[r] EXCEPT !.pc = "pay", !.cum = cum]
      <4>1. m \in MeltRecord
        <5>1. "pay" \in Labels /\ melt[r] \in MeltRecord /\ cum \in Nat
          BY DEF MeltTyped, Labels
        <5> QED
          BY <5>1 DEF MeltRecord
      <4>2. melt' = [melt EXCEPT ![r] = m]
        BY <3>3
      <4> HIDE DEF m
      <4> QED
        BY <3>1, <4>1, <4>2 DEF MeltTyped, MeltRecord
    <3> QED
      BY <1>9, <3>2, <3>3 DEF GuardCap, Admit, Refuse
  <2>3. AskedTyped'
    BY <1>9 DEF GuardCap, Admit, Refuse, MeltTyped, MeltRecord
  <2>4. WaitsTyped'
    BY <1>9 DEF GuardCap, Admit, Refuse, MeltTyped, MeltRecord
  <2>5. RestTyped'
    <3>1. melt[r].inputs \subseteq OldProofs
      BY <1>9 DEF GuardCap
    <3>2. apart' \subseteq OldProofs
      BY <1>9, <3>1 DEF GuardCap, Admit
    <3>3. UNCHANGED <<spent, known, dropped, unwritten, paid, given, cum, reboots>> /\ held' \subseteq held
          /\ frozen' \in BOOLEAN
      BY <1>9 DEF GuardCap, Admit, Refuse
    <3> QED
      BY <3>2, <3>3
  <2> QED
    BY <2>1, <2>2, <2>3, <2>4, <2>5
<1>10. ASSUME NEW r \in Requests, GuardPays(r) PROVE MeltsTypeInv'
  <2>1. QuotesTyped'
    BY <1>10 DEF GuardPays
  <2>2. MeltTyped'
    <3>1. \E l \in Labels : To(r, l)
      BY <1>10 DEF GuardPays, Labels
    <3>2. DOMAIN oldQuote' = DOMAIN oldQuote
      BY <1>10 DEF GuardPays
    <3> QED
      BY <3>1, <3>2, ToIs DEF MeltTyped, MeltRecord
  <2>3. AskedTyped'
    BY <1>10 DEF GuardPays, MeltTyped, MeltRecord
  <2>4. WaitsTyped'
    BY <1>10 DEF GuardPays, MeltTyped, MeltRecord
  <2>5. RestTyped'
    BY <1>10, AmountTyped DEF GuardPays, MeltTyped, MeltRecord
  <2> QED
    BY <2>1, <2>2, <2>3, <2>4, <2>5
<1>11. ASSUME NEW r \in Requests, GuardPayFails(r) PROVE MeltsTypeInv'
  <2>1. QuotesTyped'
    BY <1>11 DEF GuardPayFails, Refuse
  <2>2. MeltTyped'
    <3>1. \E l \in Labels : To(r, l)
      BY <1>11 DEF GuardPayFails, Refuse, Labels
    <3>2. DOMAIN oldQuote' = DOMAIN oldQuote
      BY <1>11 DEF GuardPayFails, Refuse
    <3> QED
      BY <3>1, <3>2, ToIs DEF MeltTyped, MeltRecord
  <2>3. AskedTyped'
    BY <1>11 DEF GuardPayFails, Refuse, MeltTyped, MeltRecord
  <2>4. WaitsTyped'
    BY <1>11 DEF GuardPayFails, Refuse, MeltTyped, MeltRecord
  <2>5. RestTyped'
    BY <1>11, AmountTyped DEF GuardPayFails, Refuse, MeltTyped, MeltRecord
  <2> QED
    BY <2>1, <2>2, <2>3, <2>4, <2>5
<1>12. ASSUME NEW r \in Requests, GuardCounts(r) PROVE MeltsTypeInv'
  <2>1. QuotesTyped'
    BY <1>12 DEF GuardCounts
  <2>2. MeltTyped'
    <3>1. \E l \in Labels : To(r, l)
      BY <1>12 DEF GuardCounts, Labels
    <3>2. DOMAIN oldQuote' = DOMAIN oldQuote
      BY <1>12 DEF GuardCounts
    <3> QED
      BY <3>1, <3>2, ToIs DEF MeltTyped, MeltRecord
  <2>3. AskedTyped'
    BY <1>12 DEF GuardCounts, MeltTyped, MeltRecord
  <2>4. WaitsTyped'
    BY <1>12 DEF GuardCounts, MeltTyped, MeltRecord
  <2>5. RestTyped'
    BY <1>12, AmountTyped DEF GuardCounts, MeltTyped, MeltRecord
  <2> QED
    BY <2>1, <2>2, <2>3, <2>4, <2>5
<1>13. ASSUME NEW r \in Requests, PaidAfterError(r) PROVE MeltsTypeInv'
  <2>1. QuotesTyped'
    BY <1>13 DEF PaidAfterError
  <2>2. MeltTyped'
    <3>1. \E l \in Labels : To(r, l)
      BY <1>13 DEF PaidAfterError, Labels
    <3>2. DOMAIN oldQuote' = DOMAIN oldQuote
      BY <1>13 DEF PaidAfterError
    <3> QED
      BY <3>1, <3>2, ToIs DEF MeltTyped, MeltRecord
  <2>3. AskedTyped'
    BY <1>13 DEF PaidAfterError, MeltTyped, MeltRecord
  <2>4. WaitsTyped'
    BY <1>13 DEF PaidAfterError, MeltTyped, MeltRecord
  <2>5. RestTyped'
    BY <1>13, AmountTyped DEF PaidAfterError, MeltTyped, MeltRecord
  <2> QED
    BY <2>1, <2>2, <2>3, <2>4, <2>5
<1>14. ASSUME NEW r \in Requests, FailedAfterError(r) PROVE MeltsTypeInv'
  <2>1. QuotesTyped'
    BY <1>14 DEF FailedAfterError, Refuse
  <2>2. MeltTyped'
    <3>1. \E l \in Labels : To(r, l)
      BY <1>14 DEF FailedAfterError, Refuse, Labels
    <3>2. DOMAIN oldQuote' = DOMAIN oldQuote
      BY <1>14 DEF FailedAfterError, Refuse
    <3> QED
      BY <3>1, <3>2, ToIs DEF MeltTyped, MeltRecord
  <2>3. AskedTyped'
    BY <1>14 DEF FailedAfterError, Refuse, MeltTyped, MeltRecord
  <2>4. WaitsTyped'
    BY <1>14 DEF FailedAfterError, Refuse, MeltTyped, MeltRecord
  <2>5. RestTyped'
    BY <1>14, AmountTyped DEF FailedAfterError, Refuse, MeltTyped, MeltRecord
  <2> QED
    BY <2>1, <2>2, <2>3, <2>4, <2>5
<1>15. ASSUME RefreshKeysets PROVE MeltsTypeInv'
  <2>1. QuotesTyped'
    BY <1>15 DEF RefreshKeysets
  <2>2. MeltTyped'
    BY <1>15 DEF RefreshKeysets, MeltTyped, MeltRecord, Labels
  <2>3. AskedTyped'
    BY <1>15 DEF RefreshKeysets, MeltTyped, MeltRecord
  <2>4. WaitsTyped'
    BY <1>15 DEF RefreshKeysets, MeltTyped, MeltRecord
  <2>5. RestTyped'
    BY <1>15, AmountTyped DEF RefreshKeysets, MeltTyped, MeltRecord
  <2> QED
    BY <2>1, <2>2, <2>3, <2>4, <2>5
<1>16. ASSUME Clear PROVE MeltsTypeInv'
  <2>1. QuotesTyped'
    BY <1>16 DEF Clear
  <2>2. MeltTyped'
    BY <1>16 DEF Clear, MeltTyped, MeltRecord, Labels
  <2>3. AskedTyped'
    BY <1>16 DEF Clear, MeltTyped, MeltRecord
  <2>4. WaitsTyped'
    BY <1>16 DEF Clear, MeltTyped, MeltRecord
  <2>5. RestTyped'
    BY <1>16, AmountTyped DEF Clear, MeltTyped, MeltRecord
  <2> QED
    BY <2>1, <2>2, <2>3, <2>4, <2>5
<1>17. ASSUME FrontRestarts PROVE MeltsTypeInv'
  <2>1. QuotesTyped'
    BY <1>17 DEF FrontRestarts
  <2>2. MeltTyped'
    BY <1>17 DEF FrontRestarts, MeltTyped, MeltRecord, Labels
  <2>3. AskedTyped'
    BY <1>17 DEF FrontRestarts, MeltTyped, MeltRecord
  <2>4. WaitsTyped'
    BY <1>17 DEF FrontRestarts, MeltTyped, MeltRecord
  <2>5. RestTyped'
    BY <1>17, AmountTyped DEF FrontRestarts, MeltTyped, MeltRecord
  <2> QED
    BY <2>1, <2>2, <2>3, <2>4, <2>5
<1>18. ASSUME GuardRestarts PROVE MeltsTypeInv'
  <2>1. QuotesTyped'
    BY <1>18 DEF GuardRestarts
  <2>2. MeltTyped'
    BY <1>18, SMTT(60) DEF GuardRestarts, MeltTyped, MeltRecord, Labels
  <2>3. AskedTyped'
    BY <1>18 DEF GuardRestarts, MeltTyped, MeltRecord
  <2>4. WaitsTyped'
    BY <1>18 DEF GuardRestarts, MeltTyped, MeltRecord
  <2>5. RestTyped'
    BY <1>18, AmountTyped DEF GuardRestarts, MeltTyped, MeltRecord
  <2> QED
    BY <2>1, <2>2, <2>3, <2>4, <2>5
<1> QED
  BY <1>1, <1>2, <1>3, <1>4, <1>5, <1>6, <1>7, <1>8, <1>9,
     <1>10, <1>11, <1>12, <1>13, <1>14, <1>15, <1>16, <1>17, <1>18
  DEF MeltsNext

(* The types of both, in every reachable state. *)
LEMMA TypeInvHolds == Spec => [](EcashTypeInv /\ MeltsTypeInv)
<1>1. ASSUME Init PROVE EcashTypeInv /\ MeltsTypeInv
  <2>1. ClaimTyped
    BY <1>1, EcashAssumption DEF EcashAssumption, Init, EcashInit, ClaimTyped, Fresh
  <2>b. ProofTyped
    BY <1>1 DEF Init, EcashInit, ProofTyped, Fresh
  <2>a. PoolTyped
    BY <1>1, EcashAssumption DEF EcashAssumption, Init, EcashInit, PoolTyped
  <2>2. QuotesTyped
    BY <1>1 DEF Init, MeltsInit, QuotesTyped
  <2>3. MeltTyped
    BY <1>1 DEF Init, MeltsInit, MeltTyped, MeltRecord, Blank, Labels
  <2>4. AskedTyped
    BY <1>1 DEF Init, MeltsInit, AskedTyped, Blank
  <2>5. WaitsTyped
    BY <1>1 DEF Init, MeltsInit, WaitsTyped, Waits, Blank
  <2>6. RestTyped
    BY <1>1 DEF Init, MeltsInit, RestTyped
  <2> QED
    BY <2>1, <2>a, <2>b, <2>2, <2>3, <2>4, <2>5, <2>6 DEF EcashTypeInv, MeltsTypeInv
<1>2. ASSUME EcashTypeInv, MeltsTypeInv, [Next]_vars PROVE (EcashTypeInv /\ MeltsTypeInv)'
  <2>1. CASE EcashNext /\ UNCHANGED melts
    <3>1. EcashTypeInv'
      BY <1>2, <2>1, EcashTypeNext
    <3>2. spent' \subseteq NewProofs
      BY <3>1 DEF EcashTypeInv, PoolTyped
    <3> QED
      BY <1>2, <2>1, <3>1, <3>2 DEF melts, memory, record, limiter,
         MeltsTypeInv, QuotesTyped, MeltTyped, MeltRecord, AskedTyped, WaitsTyped, Waits, RestTyped
  <2>2. CASE MeltsNext /\ UNCHANGED ecash
    <3>1. MeltsTypeInv'
      BY <1>2, <2>2, MeltsTypeNext
    <3> QED
      BY <1>2, <2>2, <3>1 DEF ecash, EcashTypeInv, ClaimTyped, ProofTyped, PoolTyped, MeltsTypeInv, RestTyped
  <2>3. CASE UNCHANGED vars
    BY <1>2, <2>3 DEF vars, ecash, melts, memory, record, limiter, EcashTypeInv, ClaimTyped, ProofTyped, PoolTyped, MeltsTypeInv, QuotesTyped, MeltTyped, MeltRecord,
       AskedTyped, WaitsTyped, Waits, RestTyped
  <2> QED
    BY <1>2, <2>1, <2>2, <2>3 DEF Next
<1> QED
  BY <1>1, <1>2, PTL DEF Spec

(* Every variable has its type in every reachable state. *)
THEOREM TypeCorrect == Spec => []MintTypeOK
<1>1. EcashTypeInv /\ MeltsTypeInv => MintTypeOK
  BY DEF EcashTypeInv, ClaimTyped, ProofTyped, PoolTyped, MeltsTypeInv, QuotesTyped, MeltTyped, MeltRecord,
     AskedTyped, RestTyped, EcashTypeOK, MeltsTypeOK, MintTypeOK
<1> QED
  BY <1>1, TypeInvHolds, PTL

-----------------------------------------------------------------------------
(* The pool *)

(* The claims that are due are finitely many. *)
LEMMA DueFinite == IsFiniteSet(Due) /\ Cardinality(Due) \in Nat
<1>1. Due \subseteq Claims
  BY DEF Due
<1> QED
  BY <1>1, EcashAssumption, FS_Subset, FS_CardinalityType DEF EcashAssumption

(* A step that makes no claim due and takes nothing from the pool. *)
LEMMA CoverQuiet ==
  ASSUME CoverInv, EcashTypeInv, Due' \subseteq Due, UNCHANGED <<pool, credited>>, wiped => wiped'
  PROVE  CoverInv'
<1>1. Cardinality(Due') \in Nat /\ Cardinality(Due') <= Cardinality(Due)
  BY DueFinite, FS_Subset, FS_CardinalityType
<1> QED
  BY <1>1, DueFinite, EcashAssumption DEF EcashAssumption, CoverInv, EcashTypeInv, PoolTyped

(* The lock of the pool. *)
LEMMA HoldsNext == ASSUME EcashTypeInv, HoldsInv, EcashNext PROVE HoldsInv'
<1> USE EcashAssumption DEF EcashAssumption, EcashTypeInv, ClaimTyped, ProofTyped, PoolTyped, HoldsInv, Goto, Fresh
<1>1. ASSUME NEW c \in Claims, ClaimStart(c) PROVE HoldsInv'
  BY <1>1 DEF ClaimStart
<1>2. ASSUME NEW c \in Claims, EnterPool(c) PROVE HoldsInv'
  BY <1>2 DEF EnterPool
<1>3. ASSUME NEW c \in Claims, ReadPool(c) PROVE HoldsInv'
  <2>1. /\ claim'[c].pc = "swap" /\ claim'[c].read = IF cached' THEN pool ELSE 0
        /\ \A d \in Claims \ {c} : claim'[d] = claim[d]
    BY <1>3 DEF ReadPool
  <2>2. claim[c].pc = "pool" /\ cashLock' = cashLock /\ pool' = pool
        /\ wiped' = (wiped \/ (~cached' /\ pool > 0))
    BY <1>3 DEF ReadPool
  <2>3. wiped' \/ claim'[c].read = pool
    <3>1. pool \in Nat
      OBVIOUS
    <3>2. CASE cached'
      BY <2>1, <3>2
    <3>3. CASE ~cached'
      <4>1. CASE pool > 0
        BY <2>2, <3>3, <4>1
      <4>2. CASE pool = 0
        BY <2>1, <3>3, <4>2
      <4> QED
        BY <3>1, <4>1, <4>2
    <3> QED
      BY <3>2, <3>3
  <2> QED
    BY <2>1, <2>2, <2>3
<1>4. ASSUME NEW c \in Claims, Swap(c) PROVE HoldsInv'
  BY <1>4 DEF Swap
<1>5. ASSUME NEW c \in Claims, StorePool(c) PROVE HoldsInv'
  BY <1>5 DEF StorePool
<1>6. ASSUME NEW c \in Claims, ReadInvoice(c) PROVE HoldsInv'
  BY <1>6 DEF ReadInvoice
<1>7. ASSUME NEW c \in Claims, Credit(c) PROVE HoldsInv'
  BY <1>7 DEF Credit
<1>8. ASSUME NEW c \in Claims, Book(c) PROVE HoldsInv'
  BY <1>8 DEF Book
<1>9. ASSUME NEW c \in Claims, CallFails(c) PROVE HoldsInv'
  BY <1>9 DEF CallFails
<1>10. ASSUME KeysAge PROVE HoldsInv'
  BY <1>10 DEF KeysAge
<1>11. ASSUME Outage PROVE HoldsInv'
  BY <1>11 DEF Outage
<1>12. ASSUME Restart PROVE HoldsInv'
  BY <1>12 DEF Restart
<1> QED
  BY <1>1, <1>2, <1>3, <1>4, <1>5, <1>6, <1>7, <1>8, <1>9, <1>10, <1>11, <1>12 DEF EcashNext

(* The pool. *)
LEMMA CoverNext == ASSUME EcashTypeInv, HoldsInv, CoverInv, EcashNext PROVE CoverInv'
<1> USE EcashAssumption DEF EcashAssumption, EcashTypeInv, ClaimTyped, ProofTyped, PoolTyped, Goto, Fresh
<1>1. ASSUME NEW c \in Claims, ClaimStart(c) PROVE CoverInv'
  <2>1. Due' \subseteq Due
    BY <1>1 DEF ClaimStart, Due
  <2>2. UNCHANGED <<pool, credited>> /\ (wiped => wiped')
    BY <1>1 DEF ClaimStart
  <2> QED
    BY <2>1, <2>2, CoverQuiet
<1>2. ASSUME NEW c \in Claims, EnterPool(c) PROVE CoverInv'
  <2>1. Due' \subseteq Due
    BY <1>2 DEF EnterPool, Due
  <2>2. UNCHANGED <<pool, credited>> /\ (wiped => wiped')
    BY <1>2 DEF EnterPool
  <2> QED
    BY <2>1, <2>2, CoverQuiet
<1>3. ASSUME NEW c \in Claims, ReadPool(c) PROVE CoverInv'
  <2>1. Due' \subseteq Due
    BY <1>3 DEF ReadPool, Due
  <2>2. UNCHANGED <<pool, credited>> /\ (wiped => wiped')
    BY <1>3 DEF ReadPool
  <2> QED
    BY <2>1, <2>2, CoverQuiet
<1>4. ASSUME NEW c \in Claims, Swap(c) PROVE CoverInv'
  <2>1. Due' \subseteq Due
    BY <1>4 DEF Swap, Due
  <2>2. UNCHANGED <<pool, credited>> /\ (wiped => wiped')
    BY <1>4 DEF Swap
  <2> QED
    BY <2>1, <2>2, CoverQuiet
<1>5. ASSUME NEW c \in Claims, StorePool(c) PROVE CoverInv'
  <2>1. c \notin Due /\ Due' = Due \cup {c}
    BY <1>5 DEF StorePool, Due
  <2>2. pool' = claim[c].read + 1 /\ UNCHANGED <<credited, wiped>> /\ (wiped \/ claim[c].read = pool)
    BY <1>5 DEF StorePool, HoldsInv
  <2>3. Cardinality(Due') = Cardinality(Due) + 1
    BY <2>1, DueFinite, FS_AddElement
  <2> QED
    BY <2>2, <2>3, DueFinite DEF CoverInv
<1>6. ASSUME NEW c \in Claims, ReadInvoice(c) PROVE CoverInv'
  <2>1. Due' \subseteq Due
    BY <1>6 DEF ReadInvoice, Due
  <2>2. UNCHANGED <<pool, credited>> /\ (wiped => wiped')
    BY <1>6 DEF ReadInvoice
  <2> QED
    BY <2>1, <2>2, CoverQuiet
<1>7. ASSUME NEW c \in Claims, Credit(c) PROVE CoverInv'
  <2>1. Due' \subseteq Due
    BY <1>7 DEF Credit, Due
  <2>2. UNCHANGED <<pool, credited>> /\ (wiped => wiped')
    BY <1>7 DEF Credit
  <2> QED
    BY <2>1, <2>2, CoverQuiet
<1>8. ASSUME NEW c \in Claims, Book(c) PROVE CoverInv'
  <2>1. c \in Due /\ Due' = Due \ {c}
    BY <1>8 DEF Book, Due
  <2>2. credited' = credited + 1 /\ UNCHANGED <<pool, wiped>>
    BY <1>8 DEF Book
  <2>3. Cardinality(Due') = Cardinality(Due) - 1
    BY <2>1, DueFinite, FS_RemoveElement
  <2> QED
    BY <2>2, <2>3, DueFinite DEF CoverInv
<1>9. ASSUME NEW c \in Claims, CallFails(c) PROVE CoverInv'
  <2>1. Due' \subseteq Due
    BY <1>9 DEF CallFails, Due
  <2>2. UNCHANGED <<pool, credited>> /\ (wiped => wiped')
    BY <1>9 DEF CallFails
  <2> QED
    BY <2>1, <2>2, CoverQuiet
<1>10. ASSUME KeysAge PROVE CoverInv'
  <2>1. Due' \subseteq Due
    BY <1>10 DEF KeysAge, Due
  <2>2. UNCHANGED <<pool, credited>> /\ (wiped => wiped')
    BY <1>10 DEF KeysAge
  <2> QED
    BY <2>1, <2>2, CoverQuiet
<1>11. ASSUME Outage PROVE CoverInv'
  <2>1. Due' \subseteq Due
    BY <1>11 DEF Outage, Due
  <2>2. UNCHANGED <<pool, credited>> /\ (wiped => wiped')
    BY <1>11 DEF Outage
  <2> QED
    BY <2>1, <2>2, CoverQuiet
<1>12. ASSUME Restart PROVE CoverInv'
  <2>1. Due' \subseteq Due
    BY <1>12 DEF Restart, Due
  <2>2. UNCHANGED <<pool, credited>> /\ (wiped => wiped')
    BY <1>12 DEF Restart
  <2> QED
    BY <2>1, <2>2, CoverQuiet
<1> QED
  BY <1>1, <1>2, <1>3, <1>4, <1>5, <1>6, <1>7, <1>8, <1>9, <1>10, <1>11, <1>12 DEF EcashNext

(* Short of a pool that could not be read, what claims were credited for is *)
(* in the pool: PoolCovers, of claim().                                     *)
THEOREM PoolCovered == Spec => []PoolCovers
<1>1. ASSUME Init PROVE HoldsInv /\ CoverInv
  <2>1. Due = {}
    BY <1>1 DEF Init, EcashInit, Due, Fresh
  <2>2. Cardinality(Due) = 0
    BY <2>1, DueFinite, FS_EmptySet
  <2>3. pool = Opening /\ credited = 0 /\ Opening \in Nat
    BY <1>1, EcashAssumption DEF EcashAssumption, Init, EcashInit
  <2>4. HoldsInv
    BY <1>1 DEF Init, EcashInit, HoldsInv, Fresh
  <2> QED
    BY <2>2, <2>3, <2>4 DEF CoverInv
<1>2. ASSUME EcashTypeInv, HoldsInv, CoverInv, [Next]_vars PROVE (HoldsInv /\ CoverInv)'
  <2>1. CASE EcashNext /\ UNCHANGED melts
    BY <1>2, <2>1, HoldsNext, CoverNext
  <2>2. CASE UNCHANGED ecash
    BY <1>2, <2>2 DEF ecash, HoldsInv, CoverInv, Due
  <2>3. CASE UNCHANGED vars
    BY <1>2, <2>3 DEF vars, ecash, HoldsInv, CoverInv, Due
  <2> QED
    BY <1>2, <2>1, <2>2, <2>3 DEF Next
<1>3. EcashTypeInv /\ CoverInv => PoolCovers
  BY DueFinite, EcashAssumption DEF EcashAssumption, CoverInv, PoolCovers, EcashTypeInv, PoolTyped
<1> QED
  BY <1>1, <1>2, <1>3, TypeInvHolds, PTL DEF Spec

-----------------------------------------------------------------------------
(* The limiter *)

(* What is in the sum is finite, and a part of it is not larger. *)
LEMMA SummedCounts ==
  ASSUME MeltsTypeInv, NEW S, S \subseteq OldProofs
  PROVE  /\ IsFiniteSet(S) /\ Cardinality(S) \in Nat
         /\ \A T \in SUBSET S : IsFiniteSet(T) /\ Cardinality(T) \in Nat /\ Cardinality(T) <= Cardinality(S)
BY MeltsAssumption, FS_Subset, FS_CardinalityType DEF MeltsAssumption

(* A step that sends no payment and adds nothing to the sum. *)
LEMMA CapQuiet ==
  ASSUME MeltsTypeInv, CapInv, Summed' \subseteq Summed, cum' = cum, apart \subseteq apart',
         \A r \in Requests : Paying(r)' =>
           Paying(r) /\ melt'[r].cum = melt[r].cum /\ melt'[r].inputs = melt[r].inputs
  PROVE  CapInv'
<1>1. Summed \subseteq OldProofs
  BY DEF Summed, MeltsTypeInv, RestTyped
<1>2. Cardinality(Summed') \in Nat /\ Cardinality(Summed) \in Nat /\ Cardinality(Summed') <= Cardinality(Summed)
  BY <1>1, SummedCounts
<1>3. cum \in Nat /\ \A r \in Requests : melt[r].cum \in Nat
  BY DEF MeltsTypeInv, RestTyped, MeltTyped, MeltRecord
<1>4. \A r \in Requests : Paying(r)' => Inputs(r)' = Inputs(r) /\ Amount(r)' = Amount(r)
  BY DEF Inputs, Amount
<1>5. cum' <= Cap /\ Cardinality(Summed') <= cum'
  BY <1>2, <1>3 DEF CapInv
<1>6. ASSUME NEW r \in Requests, Paying(r)'
      PROVE  /\ Cardinality(Summed') <= melt'[r].cum /\ melt'[r].cum + Amount(r)' <= Cap
             /\ \A s \in Requests \ {r} : Paying(s)' => Inputs(r)' \subseteq apart'
  <2>1. Paying(r) /\ melt'[r].cum = melt[r].cum /\ Inputs(r)' = Inputs(r) /\ Amount(r)' = Amount(r)
    BY <1>4, <1>6
  <2>2. /\ Cardinality(Summed) <= melt[r].cum /\ melt[r].cum + Amount(r) <= Cap
        /\ \A s \in Requests \ {r} : Paying(s) => Inputs(r) \subseteq apart
    BY <2>1 DEF CapInv
  <2>3. Cardinality(Summed') <= melt'[r].cum
    BY <1>2, <1>3, <2>1, <2>2
  <2> QED
    BY <2>1, <2>2, <2>3
<1> QED
  BY <1>5, <1>6 DEF CapInv

(* The sum of the limiter. *)
LEMMA CapNext == ASSUME MeltsTypeInv, CapInv, MeltsNext PROVE CapInv'
<1>1. ASSUME NEW q \in Quotes, RememberQuote(q) PROVE CapInv'
  <2>1. Summed' \subseteq Summed
    BY <1>1 DEF RememberQuote, limiter, Summed, Paying, MeltsTypeInv, MeltTyped, MeltRecord, RestTyped, Labels, Inputs, To
  <2>2. cum' = cum /\ apart \subseteq apart'
    BY <1>1 DEF RememberQuote, limiter
  <2>3. \A s \in Requests : Paying(s)' =>
          Paying(s) /\ melt'[s].cum = melt[s].cum /\ melt'[s].inputs = melt[s].inputs
    BY <1>1 DEF RememberQuote, limiter, Paying, MeltsTypeInv, MeltTyped, MeltRecord, RestTyped, Labels, Inputs, To
  <2> QED
    BY <2>1, <2>2, <2>3, CapQuiet
<1>2. ASSUME NEW q \in Quotes, EntryAges(q) PROVE CapInv'
  <2>1. Summed' \subseteq Summed
    BY <1>2 DEF EntryAges, limiter, Summed, Paying, MeltsTypeInv, MeltTyped, MeltRecord, RestTyped, Labels, Inputs, To
  <2>2. cum' = cum /\ apart \subseteq apart'
    BY <1>2 DEF EntryAges, limiter
  <2>3. \A s \in Requests : Paying(s)' =>
          Paying(s) /\ melt'[s].cum = melt[s].cum /\ melt'[s].inputs = melt[s].inputs
    BY <1>2 DEF EntryAges, limiter, Paying, MeltsTypeInv, MeltTyped, MeltRecord, RestTyped, Labels, Inputs, To
  <2> QED
    BY <2>1, <2>2, <2>3, CapQuiet
<1>3. ASSUME NEW r \in Requests, Melt(r) PROVE CapInv'
  <2>1. Summed' \subseteq Summed
    BY <1>3 DEF Melt, RecordDropped, limiter, Summed, Paying, MeltsTypeInv, MeltTyped, MeltRecord, RestTyped, Labels, Inputs, To
  <2>2. cum' = cum /\ apart \subseteq apart'
    BY <1>3 DEF Melt, RecordDropped, limiter
  <2>3. \A s \in Requests : Paying(s)' =>
          Paying(s) /\ melt'[s].cum = melt[s].cum /\ melt'[s].inputs = melt[s].inputs
    BY <1>3 DEF Melt, RecordDropped, limiter, Paying, MeltsTypeInv, MeltTyped, MeltRecord, RestTyped, Labels, Inputs, To, Blank
  <2> QED
    BY <2>1, <2>2, <2>3, CapQuiet
<1>4. ASSUME NEW r \in Requests, MeltNew(r) PROVE CapInv'
  <2>1. Summed' \subseteq Summed
    BY <1>4 DEF MeltNew, limiter, Summed, Paying, MeltsTypeInv, MeltTyped, MeltRecord, RestTyped, Labels, Inputs, To
  <2>2. cum' = cum /\ apart \subseteq apart'
    BY <1>4 DEF MeltNew, limiter
  <2>3. \A s \in Requests : Paying(s)' =>
          Paying(s) /\ melt'[s].cum = melt[s].cum /\ melt'[s].inputs = melt[s].inputs
    BY <1>4 DEF MeltNew, limiter, Paying, MeltsTypeInv, MeltTyped, MeltRecord, RestTyped, Labels, Inputs, To
  <2> QED
    BY <2>1, <2>2, <2>3, CapQuiet
<1>5. ASSUME NEW r \in Requests, Requote(r) PROVE CapInv'
  <2>1. Summed' \subseteq Summed
    BY <1>5 DEF Requote, Quoted, limiter, Summed, Paying, MeltsTypeInv, MeltTyped, MeltRecord, RestTyped, Labels, Inputs, To
  <2>2. cum' = cum /\ apart \subseteq apart'
    BY <1>5 DEF Requote, Quoted, limiter
  <2>3. \A s \in Requests : Paying(s)' =>
          Paying(s) /\ melt'[s].cum = melt[s].cum /\ melt'[s].inputs = melt[s].inputs
    BY <1>5 DEF Requote, Quoted, limiter, Paying, MeltsTypeInv, MeltTyped, MeltRecord, RestTyped, Labels, Inputs, To
  <2> QED
    BY <2>1, <2>2, <2>3, CapQuiet
<1>6. ASSUME NEW r \in Requests, MeltOld(r) PROVE CapInv'
  <2>1. Summed' \subseteq Summed
    BY <1>6 DEF MeltOld, limiter, Summed, Paying, MeltsTypeInv, MeltTyped, MeltRecord, RestTyped, Labels, Inputs, To
  <2>2. cum' = cum /\ apart \subseteq apart'
    BY <1>6 DEF MeltOld, limiter
  <2>3. \A s \in Requests : Paying(s)' =>
          Paying(s) /\ melt'[s].cum = melt[s].cum /\ melt'[s].inputs = melt[s].inputs
    BY <1>6 DEF MeltOld, limiter, Paying, MeltsTypeInv, MeltTyped, MeltRecord, RestTyped, Labels, Inputs, To
  <2> QED
    BY <2>1, <2>2, <2>3, CapQuiet
<1>7. ASSUME NEW r \in Requests, GuardFrozen(r) PROVE CapInv'
  <2>1. Summed' \subseteq Summed
    BY <1>7 DEF GuardFrozen, Refuse, limiter, Summed, Paying, MeltsTypeInv, MeltTyped, MeltRecord, RestTyped, Labels, Inputs, To
  <2>2. cum' = cum /\ apart \subseteq apart'
    BY <1>7 DEF GuardFrozen, Refuse, limiter
  <2>3. \A s \in Requests : Paying(s)' =>
          Paying(s) /\ melt'[s].cum = melt[s].cum /\ melt'[s].inputs = melt[s].inputs
    BY <1>7 DEF GuardFrozen, Refuse, limiter, Paying, MeltsTypeInv, MeltTyped, MeltRecord, RestTyped, Labels, Inputs, To
  <2> QED
    BY <2>1, <2>2, <2>3, CapQuiet
<1>8. ASSUME NEW r \in Requests, GuardRejects(r) PROVE CapInv'
  <2>1. Summed' \subseteq Summed
    BY <1>8 DEF GuardRejects, Refuse, limiter, Summed, Paying, MeltsTypeInv, MeltTyped, MeltRecord, RestTyped, Labels, Inputs, To
  <2>2. cum' = cum /\ apart \subseteq apart'
    BY <1>8 DEF GuardRejects, Refuse, limiter
  <2>3. \A s \in Requests : Paying(s)' =>
          Paying(s) /\ melt'[s].cum = melt[s].cum /\ melt'[s].inputs = melt[s].inputs
    BY <1>8 DEF GuardRejects, Refuse, limiter, Paying, MeltsTypeInv, MeltTyped, MeltRecord, RestTyped, Labels, Inputs, To
  <2> QED
    BY <2>1, <2>2, <2>3, CapQuiet
<1>9. ASSUME NEW r \in Requests, GuardCap(r) PROVE CapInv'
  <2>1. CASE cum + Amount(r) > Cap
    <3>1. To(r, "done") /\ UNCHANGED <<cum, paid, apart>> /\ melt[r].pc = "decode"
      BY <1>9, <2>1 DEF GuardCap, Refuse
    <3>2. Summed' \subseteq Summed
      BY <3>1, ToIs DEF Summed, Labels, Inputs, MeltsTypeInv
    <3>3. \A s \in Requests : Paying(s)' =>
            Paying(s) /\ melt'[s].cum = melt[s].cum /\ melt'[s].inputs = melt[s].inputs
      BY <3>1, ToIs DEF Paying, Labels, MeltsTypeInv
    <3> QED
      BY <3>1, <3>2, <3>3, CapQuiet
  <2>2. CASE ~(cum + Amount(r) > Cap)
    <3> DEFINE out == {s \in Requests : melt[s].pc \in {"pay", "count"}}
    <3>1. /\ melt' = [melt EXCEPT ![r].pc = "pay", ![r].cum = cum] /\ UNCHANGED <<cum, paid>>
          /\ apart' = IF out = {} THEN apart ELSE apart \cup Inputs(r) \cup UNION {Inputs(s) : s \in out}
          /\ melt[r].pc = "decode"
      BY <1>9, <2>2 DEF GuardCap, Admit
    <3>2. /\ melt'[r].pc = "pay" /\ melt'[r].cum = cum /\ melt'[r].inputs = melt[r].inputs
          /\ \A s \in Requests \ {r} : melt'[s] = melt[s]
      BY <3>1 DEF MeltsTypeInv, MeltTyped, MeltRecord
    <3>3. apart \subseteq apart'
      BY <3>1
    <3>4. Summed' \subseteq Summed
      <4>1. \A s \in Requests : melt[s].pc = "count" => melt'[s].pc = "count" /\ Inputs(s)' = Inputs(s)
        BY <3>1, <3>2 DEF Inputs
      <4> QED
        BY <3>1, <3>3, <4>1, SMTT(60) DEF Summed
    <3>5. Summed \subseteq OldProofs
      BY DEF Summed, MeltsTypeInv, RestTyped
    <3>6. Cardinality(Summed') \in Nat /\ Cardinality(Summed) \in Nat /\ Cardinality(Summed') <= Cardinality(Summed)
      BY <3>4, <3>5, SummedCounts
    <3>7. cum \in Nat /\ Amount(r) \in Nat /\ Cap \in Nat /\ \A s \in Requests : melt[s].cum \in Nat
      BY AmountTyped, MeltsAssumption DEF MeltsAssumption, MeltsTypeInv, RestTyped, MeltTyped, MeltRecord
    <3>8. \A s \in Requests : Inputs(s)' = Inputs(s) /\ Amount(s)' = Amount(s)
      BY <3>2 DEF Inputs, Amount
    <3>9. cum' <= Cap /\ Cardinality(Summed') <= cum'
      BY <3>1, <3>6, <3>7 DEF CapInv
    <3>10. ASSUME NEW s \in Requests, Paying(s)'
           PROVE  /\ Cardinality(Summed') <= melt'[s].cum /\ melt'[s].cum + Amount(s)' <= Cap
                  /\ \A t \in Requests \ {s} : Paying(t)' => Inputs(s)' \subseteq apart'
      <4>1. CASE s = r
        <5>1. Cardinality(Summed') <= melt'[r].cum /\ melt'[r].cum + Amount(r)' <= Cap
          BY <2>2, <3>1, <3>2, <3>6, <3>7, <3>8, <3>9
        <5>2. ASSUME NEW t \in Requests \ {r}, Paying(t)' PROVE Inputs(r)' \subseteq apart'
          <6>1. t \in out
            BY <3>2, <5>2 DEF Paying
          <6> QED
            BY <3>1, <3>8, <6>1
        <5> QED
          BY <4>1, <5>1, <5>2
      <4>2. CASE s # r
        <5>1. Paying(s) /\ melt'[s].cum = melt[s].cum /\ s \in out
          BY <3>2, <3>10, <4>2 DEF Paying
        <5>2. Cardinality(Summed) <= melt[s].cum /\ melt[s].cum + Amount(s) <= Cap
          BY <5>1 DEF CapInv
        <5>3. Inputs(s)' \subseteq apart'
          BY <3>1, <3>8, <5>1
        <5>4. Cardinality(Summed') <= melt'[s].cum
          BY <3>6, <3>7, <5>1, <5>2
        <5> QED
          BY <3>8, <5>1, <5>2, <5>3, <5>4
      <4> QED
        BY <4>1, <4>2
    <3> QED
      BY <3>9, <3>10 DEF CapInv
  <2> QED
    BY <2>1, <2>2
<1>10. ASSUME NEW r \in Requests, GuardPays(r) PROVE CapInv'
  <2>1. Summed' \subseteq Summed
    BY <1>10 DEF GuardPays, limiter, Summed, Paying, MeltsTypeInv, MeltTyped, MeltRecord, RestTyped, Labels, Inputs, To
  <2>2. cum' = cum /\ apart \subseteq apart'
    BY <1>10 DEF GuardPays, limiter
  <2>3. \A s \in Requests : Paying(s)' =>
          Paying(s) /\ melt'[s].cum = melt[s].cum /\ melt'[s].inputs = melt[s].inputs
    BY <1>10 DEF GuardPays, limiter, Paying, MeltsTypeInv, MeltTyped, MeltRecord, RestTyped, Labels, Inputs, To
  <2> QED
    BY <2>1, <2>2, <2>3, CapQuiet
<1>11. ASSUME NEW r \in Requests, GuardPayFails(r) PROVE CapInv'
  <2>1. Summed' \subseteq Summed
    BY <1>11 DEF GuardPayFails, Refuse, limiter, Summed, Paying, MeltsTypeInv, MeltTyped, MeltRecord, RestTyped, Labels, Inputs, To
  <2>2. cum' = cum /\ apart \subseteq apart'
    BY <1>11 DEF GuardPayFails, Refuse, limiter
  <2>3. \A s \in Requests : Paying(s)' =>
          Paying(s) /\ melt'[s].cum = melt[s].cum /\ melt'[s].inputs = melt[s].inputs
    BY <1>11 DEF GuardPayFails, Refuse, limiter, Paying, MeltsTypeInv, MeltTyped, MeltRecord, RestTyped, Labels, Inputs, To
  <2> QED
    BY <2>1, <2>2, <2>3, CapQuiet
<1>12. ASSUME NEW r \in Requests, GuardCounts(r) PROVE CapInv'
  <2> DEFINE U == UNION {Inputs(s) : s \in {t \in Requests : melt[t].pc = "count"}}
             V == UNION {Inputs(s)' : s \in {t \in Requests : melt'[t].pc = "count"}}
  <2>1. /\ melt[r].pc = "count" /\ To(r, "done") /\ cum' = melt[r].cum + Amount(r) /\ UNCHANGED <<paid, apart>>
    BY <1>12 DEF GuardCounts
  <2>2. /\ melt'[r].pc = "done" /\ \A s \in Requests \ {r} : melt'[s] = melt[s]
        /\ \A s \in Requests : Inputs(s)' = Inputs(s) /\ Amount(s)' = Amount(s) /\ melt'[s].cum = melt[s].cum
    BY <2>1, ToIs DEF Labels, Inputs, Amount, MeltsTypeInv
  <2>3. U \subseteq V \cup Inputs(r)
    BY <2>2 DEF Inputs
  <2>4. Summed = (paid \ apart) \ U /\ Summed' = (paid \ apart) \ V
    BY <2>1 DEF Summed
  <2>5. Inputs(r) \subseteq OldProofs /\ Summed \subseteq OldProofs /\ Summed' \subseteq OldProofs
    BY <2>1, <2>4 DEF Inputs, MeltsTypeInv, WaitsTyped, Waits, RestTyped
  <2>6. /\ IsFiniteSet(Summed) /\ IsFiniteSet(Summed') /\ IsFiniteSet(Inputs(r))
        /\ Cardinality(Summed) \in Nat /\ Cardinality(Summed') \in Nat /\ Amount(r) \in Nat
    BY <2>5, SummedCounts, AmountTyped DEF MeltsTypeInv
  <2>7. cum \in Nat /\ Cap \in Nat /\ \A s \in Requests : melt[s].cum \in Nat
    BY MeltsAssumption DEF MeltsAssumption, MeltsTypeInv, RestTyped, MeltTyped, MeltRecord
  <2>8. /\ Cardinality(Summed) <= melt[r].cum /\ melt[r].cum + Amount(r) <= Cap
        /\ \A s \in Requests \ {r} : Paying(s) => Inputs(r) \subseteq apart
    BY <2>1 DEF CapInv, Paying
  <2>9. \A s \in Requests : Paying(s)' => s # r /\ Paying(s)
    BY <2>2 DEF Paying
  <2>10. CASE Inputs(r) \subseteq apart
    <3>1. Summed' \subseteq Summed
      BY <2>3, <2>4, <2>10
    <3>2. Cardinality(Summed') <= Cardinality(Summed)
      BY <2>5, <3>1, SummedCounts
    <3>3. cum' <= Cap /\ Cardinality(Summed') <= cum'
      BY <2>1, <2>6, <2>7, <2>8, <3>2
    <3>4. ASSUME NEW s \in Requests, Paying(s)'
          PROVE  /\ Cardinality(Summed') <= melt'[s].cum /\ melt'[s].cum + Amount(s)' <= Cap
                 /\ \A t \in Requests \ {s} : Paying(t)' => Inputs(s)' \subseteq apart'
      <4>1. /\ Cardinality(Summed) <= melt[s].cum /\ melt[s].cum + Amount(s) <= Cap
            /\ \A t \in Requests \ {s} : Paying(t) => Inputs(s) \subseteq apart
        BY <2>9, <3>4 DEF CapInv
      <4>2. Cardinality(Summed') <= melt'[s].cum
        BY <2>2, <2>6, <2>7, <3>2, <4>1
      <4> QED
        BY <2>1, <2>2, <2>9, <4>1, <4>2
    <3> QED
      BY <3>3, <3>4 DEF CapInv
  <2>11. CASE ~(Inputs(r) \subseteq apart)
    <3>1. \A s \in Requests : ~Paying(s)'
      BY <2>8, <2>9, <2>11
    <3>2. Summed' \subseteq Summed \cup Inputs(r)
      BY <2>3, <2>4
    <3>3. /\ IsFiniteSet(Summed \cup Inputs(r))
          /\ Cardinality(Summed \cup Inputs(r)) \in Nat
          /\ Cardinality(Summed \cup Inputs(r)) <= Cardinality(Summed) + Cardinality(Inputs(r))
      <4>1. /\ Cardinality(Summed \cup Inputs(r))
                 = Cardinality(Summed) + Cardinality(Inputs(r)) - Cardinality(Summed \cap Inputs(r))
            /\ IsFiniteSet(Summed \cup Inputs(r))
        BY <2>6, FS_Union
      <4>2. Cardinality(Summed \cap Inputs(r)) \in Nat
        BY <2>5, SummedCounts
      <4> QED
        BY <2>6, <4>1, <4>2, FS_CardinalityType DEF Amount
    <3>4. Cardinality(Summed') <= Cardinality(Summed \cup Inputs(r))
      BY <3>2, <3>3, FS_Subset
    <3>5. cum' <= Cap /\ Cardinality(Summed') <= cum'
      BY <2>1, <2>6, <2>7, <2>8, <3>3, <3>4 DEF Amount
    <3> QED
      BY <3>1, <3>5 DEF CapInv
  <2> QED
    BY <2>10, <2>11
<1>13. ASSUME NEW r \in Requests, PaidAfterError(r) PROVE CapInv'
  <2>1. Summed' \subseteq Summed
    BY <1>13 DEF PaidAfterError, limiter, Summed, Paying, MeltsTypeInv, MeltTyped, MeltRecord, RestTyped, Labels, Inputs, To
  <2>2. cum' = cum /\ apart \subseteq apart'
    BY <1>13 DEF PaidAfterError, limiter
  <2>3. \A s \in Requests : Paying(s)' =>
          Paying(s) /\ melt'[s].cum = melt[s].cum /\ melt'[s].inputs = melt[s].inputs
    BY <1>13 DEF PaidAfterError, limiter, Paying, MeltsTypeInv, MeltTyped, MeltRecord, RestTyped, Labels, Inputs, To
  <2> QED
    BY <2>1, <2>2, <2>3, CapQuiet
<1>14. ASSUME NEW r \in Requests, FailedAfterError(r) PROVE CapInv'
  <2>1. Summed' \subseteq Summed
    BY <1>14 DEF FailedAfterError, Refuse, limiter, Summed, Paying, MeltsTypeInv, MeltTyped, MeltRecord, RestTyped, Labels, Inputs, To
  <2>2. cum' = cum /\ apart \subseteq apart'
    BY <1>14 DEF FailedAfterError, Refuse, limiter
  <2>3. \A s \in Requests : Paying(s)' =>
          Paying(s) /\ melt'[s].cum = melt[s].cum /\ melt'[s].inputs = melt[s].inputs
    BY <1>14 DEF FailedAfterError, Refuse, limiter, Paying, MeltsTypeInv, MeltTyped, MeltRecord, RestTyped, Labels, Inputs, To
  <2> QED
    BY <2>1, <2>2, <2>3, CapQuiet
<1>15. ASSUME RefreshKeysets PROVE CapInv'
  <2>1. Summed' \subseteq Summed
    BY <1>15 DEF RefreshKeysets, limiter, Summed, Paying, MeltsTypeInv, MeltTyped, MeltRecord, RestTyped, Labels, Inputs, To
  <2>2. cum' = cum /\ apart \subseteq apart'
    BY <1>15 DEF RefreshKeysets, limiter
  <2>3. \A s \in Requests : Paying(s)' =>
          Paying(s) /\ melt'[s].cum = melt[s].cum /\ melt'[s].inputs = melt[s].inputs
    BY <1>15 DEF RefreshKeysets, limiter, Paying, MeltsTypeInv, MeltTyped, MeltRecord, RestTyped, Labels, Inputs, To
  <2> QED
    BY <2>1, <2>2, <2>3, CapQuiet
<1>16. ASSUME Clear PROVE CapInv'
  <2>1. cum' = 0 /\ paid' = {} /\ \A r \in Requests : ~Paying(r)'
    BY <1>16 DEF Clear, Paying
  <2>2. Summed' = {}
    BY <2>1 DEF Summed
  <2>3. Cardinality(Summed') = 0 /\ 0 <= Cap
    BY <2>2, FS_EmptySet, MeltsAssumption DEF MeltsAssumption
  <2> QED
    BY <2>1, <2>3 DEF CapInv
<1>17. ASSUME FrontRestarts PROVE CapInv'
  <2>1. Summed' \subseteq Summed
    BY <1>17 DEF FrontRestarts, limiter, Summed, Paying, MeltsTypeInv, MeltTyped, MeltRecord, RestTyped, Labels, Inputs, To
  <2>2. cum' = cum /\ apart \subseteq apart'
    BY <1>17 DEF FrontRestarts, limiter
  <2>3. \A s \in Requests : Paying(s)' =>
          Paying(s) /\ melt'[s].cum = melt[s].cum /\ melt'[s].inputs = melt[s].inputs
    BY <1>17 DEF FrontRestarts, limiter, Paying, MeltsTypeInv, MeltTyped, MeltRecord, RestTyped, Labels, Inputs, To
  <2> QED
    BY <2>1, <2>2, <2>3, CapQuiet
<1>18. ASSUME GuardRestarts PROVE CapInv'
  <2>1. Summed' \subseteq Summed
    BY <1>18 DEF GuardRestarts, limiter, Summed, Paying, MeltsTypeInv, MeltTyped, MeltRecord, RestTyped, Labels, Inputs, To
  <2>2. cum' = cum /\ apart \subseteq apart'
    BY <1>18 DEF GuardRestarts, limiter
  <2>3. \A s \in Requests : Paying(s)' =>
          Paying(s) /\ melt'[s].cum = melt[s].cum /\ melt'[s].inputs = melt[s].inputs
    BY <1>18 DEF GuardRestarts, limiter, Paying, MeltsTypeInv, MeltTyped, MeltRecord, RestTyped, Labels, Inputs, To
  <2> QED
    BY <2>1, <2>2, <2>3, CapQuiet
<1> QED
  BY <1>1, <1>2, <1>3, <1>4, <1>5, <1>6, <1>7, <1>8, <1>9,
     <1>10, <1>11, <1>12, <1>13, <1>14, <1>15, <1>16, <1>17, <1>18
  DEF MeltsNext

(* What the limiter lets through passes the cap by no more than what was paid  *)
(* in payments that overlapped, after an error, or in the limiter's restart:   *)
(* CapHolds, of meltguard.                                                     *)
THEOREM CapKept == Spec => []CapHolds
<1>1. ASSUME Init PROVE CapInv
  <2>1. Summed = {} /\ cum = 0 /\ \A r \in Requests : ~Paying(r)
    BY <1>1 DEF Init, MeltsInit, Summed, Paying, Blank
  <2>2. Cardinality(Summed) = 0 /\ 0 <= Cap
    BY <2>1, FS_EmptySet, MeltsAssumption DEF MeltsAssumption
  <2> QED
    BY <2>1, <2>2 DEF CapInv
<1>2. ASSUME EcashTypeInv, MeltsTypeInv, CapInv, [Next]_vars PROVE CapInv'
  <2>1. CASE MeltsNext /\ UNCHANGED ecash
    BY <1>2, <2>1, CapNext
  <2>2. CASE UNCHANGED melts
    BY <1>2, <2>2 DEF melts, limiter, CapInv, Summed, Paying, Amount, Inputs
  <2>3. CASE UNCHANGED vars
    BY <1>2, <2>3 DEF vars, melts, limiter, CapInv, Summed, Paying, Amount, Inputs
  <2> QED
    BY <1>2, <2>1, <2>2, <2>3 DEF Next
<1>3. ASSUME MeltsTypeInv, CapInv PROVE CapHolds
  <2> DEFINE S == paid \ apart
  <2>1. S \subseteq OldProofs /\ Summed \subseteq S /\ Summed \subseteq OldProofs
    BY <1>3 DEF Summed, MeltsTypeInv, RestTyped
  <2>2. Cardinality(S) \in Nat /\ IsFiniteSet(Summed) /\ Cardinality(Summed) \in Nat
    BY <1>3, <2>1, SummedCounts
  <2>3. cum \in Nat /\ Cap \in Nat /\ \A r \in Requests : melt[r].cum \in Nat
    BY <1>3, MeltsAssumption DEF MeltsAssumption, MeltsTypeInv, RestTyped, MeltTyped, MeltRecord
  <2>4. CASE \A r \in Requests : melt[r].pc = "count" => Inputs(r) \subseteq apart
    <3>1. S = Summed
      BY <2>4 DEF Summed
    <3> QED
      BY <1>3, <2>2, <2>3, <3>1 DEF CapInv, CapHolds
  <2>5. ASSUME NEW r \in Requests, melt[r].pc = "count", ~(Inputs(r) \subseteq apart) PROVE CapHolds
    <3>1. /\ Cardinality(Summed) <= melt[r].cum /\ melt[r].cum + Amount(r) <= Cap
          /\ \A s \in Requests \ {r} : melt[s].pc # "count"
      BY <1>3, <2>5 DEF CapInv, Paying
    <3>2. S \subseteq Summed \cup Inputs(r)
      BY <3>1 DEF Summed
    <3>3. Inputs(r) \subseteq OldProofs
      BY <1>3, <2>5 DEF MeltsTypeInv, WaitsTyped, Waits, Inputs
    <3>4. IsFiniteSet(Inputs(r)) /\ Amount(r) \in Nat /\ Cardinality(Summed \cap Inputs(r)) \in Nat
      BY <1>3, <2>1, <3>3, SummedCounts DEF Amount
    <3>5. /\ Cardinality(Summed \cup Inputs(r))
               = Cardinality(Summed) + Cardinality(Inputs(r)) - Cardinality(Summed \cap Inputs(r))
          /\ IsFiniteSet(Summed \cup Inputs(r))
      BY <2>2, <3>4, FS_Union
    <3>6. Cardinality(S) <= Cardinality(Summed \cup Inputs(r))
      BY <3>2, <3>5, FS_Subset
    <3> QED
      BY <2>2, <2>3, <3>1, <3>4, <3>5, <3>6 DEF Amount, CapHolds
  <2> QED
    BY <2>4, <2>5
<1> QED
  BY <1>1, <1>2, <1>3, TypeInvHolds, PTL DEF Spec

-----------------------------------------------------------------------------
(* Proofs that wallets take for spent *)

(* What is held, and what is left out. *)
LEMMA LossNext == ASSUME MeltsTypeInv, LossInv, MeltsNext PROVE LossInv'
<1> USE MeltsAssumption DEF MeltsAssumption, MeltsTypeInv, MeltTyped, MeltRecord, RestTyped, LossInv, Waits, Labels,
      Blank, Inputs, To, record
<1>1. ASSUME NEW q \in Quotes, RememberQuote(q) PROVE LossInv'
  BY <1>1, SMTT(60) DEF RememberQuote
<1>2. ASSUME NEW q \in Quotes, EntryAges(q) PROVE LossInv'
  BY <1>2, SMTT(60) DEF EntryAges
<1>3. ASSUME NEW r \in Requests, Melt(r) PROVE LossInv'
  <2>1. PICK q \in Quotes, left \in SUBSET (NewProofs \cup OldProofs),
             inputs \in SUBSET (NewProofs \cup OldProofs), l \in {"new", "requote", "done"} :
          /\ melt' = [melt EXCEPT ![r] =
               [Blank EXCEPT !.quote = q, !.left = left, !.inputs = inputs, !.pc = l]]
          /\ left \subseteq inputs \cup dropped' \cup unwritten'
          /\ dropped \subseteq dropped' /\ unwritten \subseteq unwritten'
    <3>1. PICK q \in Quotes, left \in SUBSET (NewProofs \cup OldProofs) :
            LET old == left \cap OldProofs # {} /\ "old" \in known
                new == left \cap NewProofs # {} /\ "new" \in known
            IN  /\ RecordDropped(left, old /\ new)
                /\ melt' = [melt EXCEPT ![r] =
                     [Blank EXCEPT !.quote = q, !.left = left,
                        !.inputs = IF old /\ new THEN left \ OldProofs ELSE left,
                        !.pc = IF ~old \/ new THEN "new"
                               ELSE IF q \in quoteMem THEN "requote" ELSE "done"]]
      BY <1>3 DEF Melt
    <3> DEFINE old == left \cap OldProofs # {} /\ "old" \in known
               new == left \cap NewProofs # {} /\ "new" \in known
               inputs == IF old /\ new THEN left \ OldProofs ELSE left
               label == IF ~old \/ new THEN "new" ELSE IF q \in quoteMem THEN "requote" ELSE "done"
    <3>2. /\ dropped \subseteq dropped' /\ unwritten \subseteq unwritten'
          /\ left \subseteq inputs \cup dropped' \cup unwritten'
      BY <3>1 DEF RecordDropped
    <3>3. /\ q \in Quotes /\ left \in SUBSET (NewProofs \cup OldProofs)
          /\ inputs \in SUBSET (NewProofs \cup OldProofs) /\ label \in {"new", "requote", "done"}
      BY <3>1
    <3>4. melt' = [melt EXCEPT ![r] =
                     [Blank EXCEPT !.quote = q, !.left = left, !.inputs = inputs, !.pc = label]]
      BY <3>1
    <3> HIDE DEF inputs, label, Blank
    <3> USE <3>3
    <3> WITNESS q \in Quotes, left \in SUBSET (NewProofs \cup OldProofs),
                inputs \in SUBSET (NewProofs \cup OldProofs), label \in {"new", "requote", "done"}
    <3> QED
      BY <3>2, <3>4
  <2>2. UNCHANGED <<spent, held, given>> /\ melt[r].pc = "start"
    BY <1>3 DEF Melt
  <2>3. /\ melt'[r].left = left /\ melt'[r].inputs = inputs /\ melt'[r].pc = l
        /\ \A s \in Requests \ {r} : melt'[s] = melt[s]
    BY <2>1
  <2>4. Inputs(r) = {}
    BY <2>2
  <2> QED
    BY <2>1, <2>2, <2>3, <2>4
<1>4. ASSUME NEW r \in Requests, MeltNew(r) PROVE LossInv'
  BY <1>4, SMTT(60) DEF MeltNew
<1>5. ASSUME NEW r \in Requests, Requote(r) PROVE LossInv'
  BY <1>5, SMTT(60) DEF Requote, Quoted
<1>6. ASSUME NEW r \in Requests, MeltOld(r) PROVE LossInv'
  BY <1>6, SMTT(60) DEF MeltOld
<1>7. ASSUME NEW r \in Requests, GuardFrozen(r) PROVE LossInv'
  BY <1>7, SMTT(60) DEF GuardFrozen, Refuse
<1>8. ASSUME NEW r \in Requests, GuardRejects(r) PROVE LossInv'
  BY <1>8, SMTT(60) DEF GuardRejects, Refuse
<1>9. ASSUME NEW r \in Requests, GuardCap(r) PROVE LossInv'
  BY <1>9, SMTT(60) DEF GuardCap, Admit, Refuse
<1>10. ASSUME NEW r \in Requests, GuardPays(r) PROVE LossInv'
  BY <1>10, SMTT(60) DEF GuardPays
<1>11. ASSUME NEW r \in Requests, GuardPayFails(r) PROVE LossInv'
  BY <1>11, SMTT(60) DEF GuardPayFails, Refuse
<1>12. ASSUME NEW r \in Requests, GuardCounts(r) PROVE LossInv'
  BY <1>12, SMTT(60) DEF GuardCounts
<1>13. ASSUME NEW r \in Requests, PaidAfterError(r) PROVE LossInv'
  BY <1>13, SMTT(60) DEF PaidAfterError
<1>14. ASSUME NEW r \in Requests, FailedAfterError(r) PROVE LossInv'
  BY <1>14, SMTT(60) DEF FailedAfterError, Refuse
<1>15. ASSUME RefreshKeysets PROVE LossInv'
  BY <1>15, SMTT(60) DEF RefreshKeysets
<1>16. ASSUME Clear PROVE LossInv'
  BY <1>16, SMTT(60) DEF Clear
<1>17. ASSUME FrontRestarts PROVE LossInv'
  BY <1>17, SMTT(60) DEF FrontRestarts
<1>18. ASSUME GuardRestarts PROVE LossInv'
  BY <1>18, SMTT(60) DEF GuardRestarts
<1> QED
  BY <1>1, <1>2, <1>3, <1>4, <1>5, <1>6, <1>7, <1>8, <1>9,
     <1>10, <1>11, <1>12, <1>13, <1>14, <1>15, <1>16, <1>17, <1>18
  DEF MeltsNext

(* A proof that a wallet takes for spent is spent at its mint, or on record as  *)
(* left out of a melt of both, but for a line that could not be written:        *)
(* NoSilentLoss, of mintdemux.                                                  *)
THEOREM LossRecorded == Spec => []NoSilentLoss
<1>1. Init => LossInv
  BY DEF Init, MeltsInit, LossInv, Waits, Blank, Inputs
<1>2. ASSUME EcashTypeInv, MeltsTypeInv, LossInv, [Next]_vars PROVE LossInv'
  <2>1. CASE MeltsNext /\ UNCHANGED ecash
    BY <1>2, <2>1, LossNext
  <2>2. CASE EcashNext /\ UNCHANGED melts
    <3>1. spent \subseteq spent'
      BY <1>2, <2>2 DEF EcashNext, ClaimStart, EnterPool, ReadPool, Swap, StorePool, ReadInvoice, Credit,
         Book, CallFails, KeysAge, Outage, Restart
    <3> QED
      BY <1>2, <2>2, <3>1 DEF melts, record, LossInv, Waits, Inputs
  <2>3. CASE UNCHANGED vars
    BY <1>2, <2>3 DEF vars, melts, record, LossInv, Waits, Inputs
  <2> QED
    BY <1>2, <2>1, <2>2, <2>3 DEF Next
<1>3. LossInv => NoSilentLoss
  BY DEF LossInv, NoSilentLoss
<1> QED
  BY <1>1, <1>2, <1>3, TypeInvHolds, PTL DEF Spec

-----------------------------------------------------------------------------
(* Wallets that poll *)

(* A step that asks the retired mint for no quote, and forgets none. *)
LEMMA PollQuiet ==
  ASSUME PollInv, DOMAIN oldQuote' = DOMAIN oldQuote, oldMelts' = oldMelts, aged \subseteq aged',
         \A n \in DOMAIN oldQuote : oldQuote'[n].quote = oldQuote[n].quote,
         MeltsTypeInv
  PROVE  PollInv'
<1>1. Numbered'
  BY DEF PollInv, Numbered
<1>2. FrontKnows'
  BY DEF PollInv, FrontKnows, MeltsTypeInv, QuotesTyped
<1>3. FrontHas'
  BY DEF PollInv, FrontHas
<1> QED
  BY <1>1, <1>2, <1>3 DEF PollInv

(* The front's map leads to the last quote of the retired mint. *)
LEMMA PollNext == ASSUME MeltsTypeInv, PollInv, MeltsNext PROVE PollInv'
<1>1. ASSUME NEW q \in Quotes, RememberQuote(q) PROVE PollInv'
  <2>1. DOMAIN oldQuote' = DOMAIN oldQuote /\ oldMelts' = oldMelts /\ aged \subseteq aged'
    BY <1>1 DEF RememberQuote, memory
  <2>2. \A n \in DOMAIN oldQuote : oldQuote'[n].quote = oldQuote[n].quote
    BY <1>1 DEF RememberQuote, MeltsTypeInv, QuotesTyped
  <2> QED
    BY <2>1, <2>2, PollQuiet
<1>2. ASSUME NEW q \in Quotes, EntryAges(q) PROVE PollInv'
  <2>1. DOMAIN oldQuote' = DOMAIN oldQuote /\ oldMelts' = oldMelts /\ aged \subseteq aged'
    BY <1>2 DEF EntryAges, memory
  <2>2. \A n \in DOMAIN oldQuote : oldQuote'[n].quote = oldQuote[n].quote
    BY <1>2 DEF EntryAges, MeltsTypeInv, QuotesTyped
  <2> QED
    BY <2>1, <2>2, PollQuiet
<1>3. ASSUME NEW r \in Requests, Melt(r) PROVE PollInv'
  <2>1. DOMAIN oldQuote' = DOMAIN oldQuote /\ oldMelts' = oldMelts /\ aged \subseteq aged'
    BY <1>3 DEF Melt, RecordDropped, memory
  <2>2. \A n \in DOMAIN oldQuote : oldQuote'[n].quote = oldQuote[n].quote
    BY <1>3 DEF Melt, RecordDropped, MeltsTypeInv, QuotesTyped
  <2> QED
    BY <2>1, <2>2, PollQuiet
<1>4. ASSUME NEW r \in Requests, MeltNew(r) PROVE PollInv'
  <2>1. DOMAIN oldQuote' = DOMAIN oldQuote /\ oldMelts' = oldMelts /\ aged \subseteq aged'
    BY <1>4 DEF MeltNew, memory
  <2>2. \A n \in DOMAIN oldQuote : oldQuote'[n].quote = oldQuote[n].quote
    BY <1>4 DEF MeltNew, MeltsTypeInv, QuotesTyped
  <2> QED
    BY <2>1, <2>2, PollQuiet
<1>5. ASSUME NEW r \in Requests, Requote(r) PROVE PollInv'
  <2> DEFINE n == Cardinality(DOMAIN oldQuote) + 1
             q == melt[r].quote
  <2>1. PICK k \in Nat : DOMAIN oldQuote = 1 .. k
    BY DEF PollInv, Numbered
  <2>2. n = k + 1
    <3>1. Cardinality(1 .. k) = IF 1 > k THEN 0 ELSE k - 1 + 1
      BY FS_Interval
    <3> QED
      BY <2>1, <3>1
  <2>3. /\ oldQuote' = [i \in DOMAIN oldQuote \cup {n} |->
                          IF i = n THEN [quote |-> q, state |-> "unpaid"] ELSE oldQuote[i]]
        /\ oldMelts' = [p \in Quotes |-> IF p = q THEN n ELSE IF p \in aged THEN 0 ELSE oldMelts[p]]
        /\ aged' = aged \ {q} /\ melt[r].pc = "requote"
    BY <1>5 DEF Requote, Quoted, Quote
  <2>4. q \in Quotes
    BY <2>3 DEF MeltsTypeInv, AskedTyped
  <2>5. oldMelts \in [Quotes -> {0} \cup DOMAIN oldQuote] /\ \A i \in DOMAIN oldQuote : oldQuote[i].quote \in Quotes
    BY DEF MeltsTypeInv, QuotesTyped
  <2> HIDE DEF n, q
  <2>6. DOMAIN oldQuote' = 1 .. k + 1 /\ n \notin DOMAIN oldQuote /\ n # 0
    BY <2>1, <2>2, <2>3
  <2>7. oldQuote'[n].quote = q /\ \A i \in DOMAIN oldQuote : oldQuote'[i] = oldQuote[i] /\ i <= n /\ i # 0
    BY <2>1, <2>2, <2>3
  <2>8. Numbered'
    BY <2>1, <2>6 DEF Numbered
  <2>9. FrontKnows'
    <3> SUFFICES ASSUME NEW p \in Quotes, oldMelts'[p] # 0
                 PROVE  /\ oldQuote'[oldMelts'[p]].quote = p
                        /\ \A i \in DOMAIN oldQuote' : oldQuote'[i].quote = p => i <= oldMelts'[p]
      BY DEF FrontKnows
    <3>1. CASE p = q
      BY <2>1, <2>2, <2>3, <2>4, <2>6, <2>7, <3>1
    <3>2. CASE p # q
      <4>1. oldMelts'[p] = oldMelts[p] /\ oldMelts[p] # 0 /\ oldMelts[p] \in DOMAIN oldQuote
        BY <2>3, <2>5, <3>2
      <4>2. /\ oldQuote[oldMelts[p]].quote = p
            /\ \A i \in DOMAIN oldQuote : oldQuote[i].quote = p => i <= oldMelts[p]
        BY <4>1 DEF PollInv, FrontKnows
      <4>3. \A i \in DOMAIN oldQuote' : i = n \/ i \in DOMAIN oldQuote
        BY <2>3
      <4> QED
        BY <2>7, <3>2, <4>1, <4>2, <4>3
    <3> QED
      BY <3>1, <3>2
  <2>10. FrontHas'
    <3> SUFFICES ASSUME NEW i \in DOMAIN oldQuote', oldQuote'[i].quote \notin aged'
                 PROVE  oldMelts'[oldQuote'[i].quote] # 0
      BY DEF FrontHas
    <3>1. CASE oldQuote'[i].quote = q
      BY <2>3, <2>4, <2>6, <3>1
    <3>2. CASE oldQuote'[i].quote # q
      <4>1. i \in DOMAIN oldQuote /\ oldQuote'[i] = oldQuote[i] /\ oldQuote[i].quote \in Quotes \ aged
        BY <2>3, <2>5, <2>7, <3>2
      <4> QED
        BY <2>3, <3>2, <4>1 DEF PollInv, FrontHas
    <3> QED
      BY <3>1, <3>2
  <2> QED
    BY <2>8, <2>9, <2>10 DEF PollInv
<1>6. ASSUME NEW r \in Requests, MeltOld(r) PROVE PollInv'
  <2>1. DOMAIN oldQuote' = DOMAIN oldQuote /\ oldMelts' = oldMelts /\ aged \subseteq aged'
    BY <1>6 DEF MeltOld, memory
  <2>2. \A n \in DOMAIN oldQuote : oldQuote'[n].quote = oldQuote[n].quote
    BY <1>6 DEF MeltOld, MeltsTypeInv, QuotesTyped
  <2> QED
    BY <2>1, <2>2, PollQuiet
<1>7. ASSUME NEW r \in Requests, GuardFrozen(r) PROVE PollInv'
  <2>1. DOMAIN oldQuote' = DOMAIN oldQuote /\ oldMelts' = oldMelts /\ aged \subseteq aged'
    BY <1>7 DEF GuardFrozen, Refuse, memory
  <2>2. \A n \in DOMAIN oldQuote : oldQuote'[n].quote = oldQuote[n].quote
    BY <1>7 DEF GuardFrozen, Refuse, MeltsTypeInv, QuotesTyped
  <2> QED
    BY <2>1, <2>2, PollQuiet
<1>8. ASSUME NEW r \in Requests, GuardRejects(r) PROVE PollInv'
  <2>1. DOMAIN oldQuote' = DOMAIN oldQuote /\ oldMelts' = oldMelts /\ aged \subseteq aged'
    BY <1>8 DEF GuardRejects, Refuse, memory
  <2>2. \A n \in DOMAIN oldQuote : oldQuote'[n].quote = oldQuote[n].quote
    BY <1>8 DEF GuardRejects, Refuse, MeltsTypeInv, QuotesTyped
  <2> QED
    BY <2>1, <2>2, PollQuiet
<1>9. ASSUME NEW r \in Requests, GuardCap(r) PROVE PollInv'
  <2>1. DOMAIN oldQuote' = DOMAIN oldQuote /\ oldMelts' = oldMelts /\ aged \subseteq aged'
    BY <1>9 DEF GuardCap, Admit, Refuse, memory
  <2>2. \A n \in DOMAIN oldQuote : oldQuote'[n].quote = oldQuote[n].quote
    BY <1>9 DEF GuardCap, Admit, Refuse, MeltsTypeInv, QuotesTyped
  <2> QED
    BY <2>1, <2>2, PollQuiet
<1>10. ASSUME NEW r \in Requests, GuardPays(r) PROVE PollInv'
  <2>1. DOMAIN oldQuote' = DOMAIN oldQuote /\ oldMelts' = oldMelts /\ aged \subseteq aged'
    BY <1>10 DEF GuardPays, memory
  <2>2. \A n \in DOMAIN oldQuote : oldQuote'[n].quote = oldQuote[n].quote
    BY <1>10 DEF GuardPays, MeltsTypeInv, QuotesTyped
  <2> QED
    BY <2>1, <2>2, PollQuiet
<1>11. ASSUME NEW r \in Requests, GuardPayFails(r) PROVE PollInv'
  <2>1. DOMAIN oldQuote' = DOMAIN oldQuote /\ oldMelts' = oldMelts /\ aged \subseteq aged'
    BY <1>11 DEF GuardPayFails, Refuse, memory
  <2>2. \A n \in DOMAIN oldQuote : oldQuote'[n].quote = oldQuote[n].quote
    BY <1>11 DEF GuardPayFails, Refuse, MeltsTypeInv, QuotesTyped
  <2> QED
    BY <2>1, <2>2, PollQuiet
<1>12. ASSUME NEW r \in Requests, GuardCounts(r) PROVE PollInv'
  <2>1. DOMAIN oldQuote' = DOMAIN oldQuote /\ oldMelts' = oldMelts /\ aged \subseteq aged'
    BY <1>12 DEF GuardCounts, memory
  <2>2. \A n \in DOMAIN oldQuote : oldQuote'[n].quote = oldQuote[n].quote
    BY <1>12 DEF GuardCounts, MeltsTypeInv, QuotesTyped
  <2> QED
    BY <2>1, <2>2, PollQuiet
<1>13. ASSUME NEW r \in Requests, PaidAfterError(r) PROVE PollInv'
  <2>1. DOMAIN oldQuote' = DOMAIN oldQuote /\ oldMelts' = oldMelts /\ aged \subseteq aged'
    BY <1>13 DEF PaidAfterError, memory
  <2>2. \A n \in DOMAIN oldQuote : oldQuote'[n].quote = oldQuote[n].quote
    BY <1>13 DEF PaidAfterError, MeltsTypeInv, QuotesTyped
  <2> QED
    BY <2>1, <2>2, PollQuiet
<1>14. ASSUME NEW r \in Requests, FailedAfterError(r) PROVE PollInv'
  <2>1. DOMAIN oldQuote' = DOMAIN oldQuote /\ oldMelts' = oldMelts /\ aged \subseteq aged'
    BY <1>14 DEF FailedAfterError, Refuse, memory
  <2>2. \A n \in DOMAIN oldQuote : oldQuote'[n].quote = oldQuote[n].quote
    BY <1>14 DEF FailedAfterError, Refuse, MeltsTypeInv, QuotesTyped
  <2> QED
    BY <2>1, <2>2, PollQuiet
<1>15. ASSUME RefreshKeysets PROVE PollInv'
  <2>1. DOMAIN oldQuote' = DOMAIN oldQuote /\ oldMelts' = oldMelts /\ aged \subseteq aged'
    BY <1>15 DEF RefreshKeysets, memory
  <2>2. \A n \in DOMAIN oldQuote : oldQuote'[n].quote = oldQuote[n].quote
    BY <1>15 DEF RefreshKeysets, MeltsTypeInv, QuotesTyped
  <2> QED
    BY <2>1, <2>2, PollQuiet
<1>16. ASSUME Clear PROVE PollInv'
  <2>1. DOMAIN oldQuote' = DOMAIN oldQuote /\ oldMelts' = oldMelts /\ aged \subseteq aged'
    BY <1>16 DEF Clear, memory
  <2>2. \A n \in DOMAIN oldQuote : oldQuote'[n].quote = oldQuote[n].quote
    BY <1>16 DEF Clear, MeltsTypeInv, QuotesTyped
  <2> QED
    BY <2>1, <2>2, PollQuiet
<1>17. ASSUME FrontRestarts PROVE PollInv'
  <2>1. DOMAIN oldQuote' = DOMAIN oldQuote /\ oldMelts' = oldMelts /\ aged \subseteq aged'
    BY <1>17 DEF FrontRestarts, memory
  <2>2. \A n \in DOMAIN oldQuote : oldQuote'[n].quote = oldQuote[n].quote
    BY <1>17 DEF FrontRestarts, MeltsTypeInv, QuotesTyped
  <2> QED
    BY <2>1, <2>2, PollQuiet
<1>18. ASSUME GuardRestarts PROVE PollInv'
  <2>1. DOMAIN oldQuote' = DOMAIN oldQuote /\ oldMelts' = oldMelts /\ aged \subseteq aged'
    BY <1>18 DEF GuardRestarts, memory
  <2>2. \A n \in DOMAIN oldQuote : oldQuote'[n].quote = oldQuote[n].quote
    BY <1>18 DEF GuardRestarts, MeltsTypeInv, QuotesTyped
  <2> QED
    BY <2>1, <2>2, PollQuiet
<1> QED
  BY <1>1, <1>2, <1>3, <1>4, <1>5, <1>6, <1>7, <1>8, <1>9,
     <1>10, <1>11, <1>12, <1>13, <1>14, <1>15, <1>16, <1>17, <1>18
  DEF MeltsNext

(* A wallet that polls a quote which was paid is told so, until the retired mint *)
(* is asked for a later quote of it or the front's entry is 7 days old:          *)
(* PollTells, of mintdemux.                                                      *)
THEOREM PollAnswered == Spec => []PollTells
<1>1. ASSUME Init PROVE PollInv
  <2>1. DOMAIN oldQuote = 1 .. 0
    BY <1>1 DEF Init, MeltsInit
  <2> QED
    BY <1>1, <2>1 DEF Init, MeltsInit, PollInv, Numbered, FrontKnows, FrontHas
<1>2. ASSUME EcashTypeInv, MeltsTypeInv, PollInv, [Next]_vars PROVE PollInv'
  <2>1. CASE MeltsNext
    BY <1>2, <2>1, PollNext
  <2>2. CASE UNCHANGED melts
    BY <1>2, <2>2 DEF melts, memory, PollInv, Numbered, FrontKnows, FrontHas
  <2> QED
    BY <1>2, <2>1, <2>2 DEF Next, vars
<1>3. ASSUME MeltsTypeInv, PollInv PROVE PollTells
  <2>1. ASSUME NEW q \in Quotes, NEW n \in DOMAIN oldQuote, oldQuote[n] = [quote |-> q, state |-> "paid"],
               q \notin aged
        PROVE  Polled(q) = "paid" \/ \E m \in DOMAIN oldQuote : m > n /\ oldQuote[m].quote = q
    <3>1. oldQuote[n].quote = q /\ oldQuote[n].state = "paid" /\ oldMelts[q] # 0
      BY <1>3, <2>1 DEF PollInv, FrontHas
    <3>2. oldMelts[q] \in DOMAIN oldQuote
      BY <1>3, <3>1 DEF MeltsTypeInv, QuotesTyped
    <3>3. oldQuote[oldMelts[q]].quote = q /\ n <= oldMelts[q]
      BY <1>3, <3>1 DEF PollInv, FrontKnows
    <3>4. n \in Nat /\ oldMelts[q] \in Nat
      BY <1>3, <3>2 DEF PollInv, Numbered
    <3>5. CASE oldMelts[q] = n
      BY <3>1, <3>5 DEF Polled
    <3>6. CASE oldMelts[q] > n
      BY <3>2, <3>3, <3>6
    <3> QED
      BY <3>3, <3>4, <3>5, <3>6
  <2>2. ASSUME NEW q \in paidNew, \A n \in DOMAIN oldQuote : oldQuote[n].quote # q PROVE Polled(q) = "paid"
    <3>1. q \in Quotes /\ oldMelts[q] \in {0} \cup DOMAIN oldQuote
      BY <1>3, <2>2 DEF MeltsTypeInv, QuotesTyped
    <3>2. oldMelts[q] = 0
      BY <1>3, <2>2, <3>1 DEF PollInv, FrontKnows
    <3> QED
      BY <2>2, <3>2 DEF Polled
  <2> QED
    BY <2>1, <2>2 DEF PollTells
<1> QED
  BY <1>1, <1>2, <1>3, TypeInvHolds, PTL DEF Spec
=============================================================================
