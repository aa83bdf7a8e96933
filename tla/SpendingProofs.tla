----------------------------- MODULE SpendingProofs -----------------------------
(***************************************************************************)
(* Theorems about Spending, for any number of requests of any kind,        *)
(* deposits, lost sockets and crashes, and any amounts and caps.           *)
(***************************************************************************)
EXTENDS Spending, FiniteSetTheorems, TLAPS

(* No request is charged for more: a unit with the fees or with a tip. *)
Most == Fee + 2

(* Types, in parts. *)
LedgerTyped ==
  /\ balance \in Nat /\ earned \in Nat /\ paid \subseteq Requests
  /\ charged \in [Requests -> 0 .. Most] /\ wallet \in Int /\ refresh \in Int \cup {None}

InvoiceTyped ==
  /\ received \in Nat /\ tip \in {0, 1} /\ editing \in BOOLEAN
  /\ creditLock \in Requests \cup {None}

StoreTyped ==
  /\ record \in [Requests -> {"none", "open", "settled", "reversed"}]
  /\ pushed \subseteq Requests /\ limit \in Int /\ window \in Nat
  /\ {blacklisted, guard, quarantined, tripped} \subseteq BOOLEAN
  /\ limitLock \in Requests \cup {None} /\ budgetLock \in Requests \cup {None}

RequestTyped ==
  /\ pc \in [Requests -> Labels] /\ kind \in [Requests -> Kinds]
  /\ app \in [Requests -> BOOLEAN] /\ dead \subseteq Requests

RestTyped ==
  /\ remaining \in [Requests -> Nat \cup {None}] /\ frozen \in [Requests -> Nat]
  /\ tipOf \in [Requests -> {0, 1}] /\ seen \in [Requests -> Nat \X {0, 1}]
  /\ crowd \in Nat /\ deposits \in 0 .. MaxDeposits /\ crashes \in 0 .. MaxCrashes
  /\ drops \in 0 .. MaxDrops

TypeInv == LedgerTyped /\ InvoiceTyped /\ StoreTyped /\ RequestTyped /\ RestTyped

(* A request goes the way of its kind, and is charged on it once. *)
PathInv ==
  \A r \in Requests :
    /\ pc[r] \in {"start", "budget", "screen", "limit", "reserve", "load", "freeze", "check",
                  "move"} => charged[r] = 0
    /\ pc[r] \in {"start", "budget", "screen", "limit", "reserve", "load", "freeze", "check",
                  "move", "count", "record"} => record[r] = "none"
    /\ pc[r] \in {"limit", "reserve", "count", "keysend", "hung"} => kind[r] \in External
    /\ pc[r] \in {"count", "record", "credit", "lock", "creditMove", "creditSave"} =>
         charged[r] > 0
    /\ pc[r] \in {"credit", "lock", "creditMove", "creditSave"} => kind[r] = "internal"

(* Who has read the limit and not lowered it holds the lock, and there is *)
(* room for it.                                                           *)
LimitInv ==
  /\ limit >= 0
  /\ \A r \in Requests : At(r, "reserve") => limitLock = r /\ limit >= Amount

(* External requests whose withdrawal is in the breaker's file, and how far *)
(* those that are not yet can take it.                                      *)
Counted == {r \in Requests : kind[r] \in External /\ charged[r] > 0 /\ pc[r] # "count"}
Slack   == IF crowd > 0 THEN crowd - 1 ELSE 0

CapInv ==
  window = Cardinality(Counted) /\ window + Cardinality(Uncounted) <= Cap + Slack

(* Who is turned away by credit() finds another payer of the invoice. *)
LostInv ==
  /\ creditLock # None => pc[creditLock] \in {"creditMove", "creditSave"}
  /\ \A r \in paid : kind[r] = "internal" /\ charged[r] > 0
  /\ received > 0 => paid # {}
  /\ \A r \in Requests :
       /\ pc[r] \in {"lock", "creditMove", "creditSave"} /\ seen[r][1] > 0 => paid # {}
       /\ pc[r] \in {"creditSave", "push"} /\ kind[r] = "internal" => r \in paid
  /\ LostOnlyToAnother

(* Who has not been credited, and what he was charged, on his way to credit(). *)
TransferInv ==
  \A r \in Requests :
    /\ pc[r] \notin {"creditSave", "push", "done"} => r \notin paid
    /\ pc[r] \in {"record", "credit", "lock", "creditMove"} /\ kind[r] = "internal" =>
         charged[r] = Amount + tipOf[r]

(* The books balance. *)
MintInv ==
  /\ earned = ChargedIn(paid)
  /\ balance = Opening + deposits - ChargedIn(Kept(Requests))

(* A request of an app between its budget's check and the list that the budget *)
(* counts holds the lock, and there is room for it.                             *)
Inside == Labels \ {"start", "budget", "done", "hung"}

RoomFor(r) ==
  /\ pc[r] # "done" => r \notin pushed
  /\ r \notin dead /\ pc[r] \in Inside =>
       /\ budgetLock = r
       /\ remaining[r] # None
       /\ Spent + (IF charged[r] = 0 THEN remaining[r] ELSE charged[r]) <= Budget
       /\ pc[r] \in {"freeze", "check", "move"} => Total(r) <= remaining[r]

BudgetInv ==
  /\ Spent <= Budget
  /\ \A r \in Requests : r \in pushed \/ pc[r] = "push" => app[r]
  /\ \A r \in Requests : app[r] => RoomFor(r)

-----------------------------------------------------------------------------
(* Sums over the requests *)

(* A sum counts the units of finitely many requests. *)
LEMMA SumType ==
  ASSUME NEW f \in [Requests -> 0 .. Most], NEW S \in SUBSET Requests
  PROVE  IsFiniteSet(Units(f, S)) /\ Sum(f, S) \in Nat
<1>1. IsFiniteSet(Requests \X (1 .. Most))
  <2>1. Most \in Int
    BY SpendingAssumption DEF SpendingAssumption, Most
  <2>2. IsFiniteSet(1 .. Most)
    BY <2>1, FS_Interval
  <2> QED
    BY <2>2, FS_Product, SpendingAssumption DEF SpendingAssumption
<1>2. Units(f, S) \subseteq Requests \X (1 .. Most)
  BY SpendingAssumption DEF SpendingAssumption, Most, Units
<1> QED
  BY <1>1, <1>2, FS_Subset, FS_CardinalityType DEF Sum

(* One more summand. *)
LEMMA SumAdd ==
  ASSUME NEW f \in [Requests -> 0 .. Most], NEW S \in SUBSET Requests, NEW r \in Requests \ S
  PROVE  Sum(f, S \cup {r}) = Sum(f, S) + f[r]
<1> DEFINE U == {r} \X (1 .. f[r])
<1>1. Units(f, S \cup {r}) = Units(f, S) \cup U
  BY DEF Units
<1>2. Units(f, S) \cap U = {}
  BY DEF Units
<1>3. f[r] \in Nat
  BY SpendingAssumption DEF SpendingAssumption, Most
<1>4. IsFiniteSet(1 .. f[r]) /\ Cardinality(1 .. f[r]) = f[r]
  BY <1>3, FS_Interval
<1>5. IsFiniteSet(U) /\ Cardinality(U) = 1 * f[r]
  <2>1. IsFiniteSet({r}) /\ Cardinality({r}) = 1
    BY FS_Singleton
  <2>2. IsFiniteSet(U) /\ Cardinality(U) = Cardinality({r}) * Cardinality(1 .. f[r])
    BY <1>4, <2>1, FS_Product
  <2> QED
    BY <1>4, <2>1, <2>2
<1> HIDE DEF U
<1>6. IsFiniteSet(Units(f, S)) /\ Cardinality(Units(f, S)) \in Nat
  BY SumType DEF Sum
<1>7. Cardinality(Units(f, S) \cup U)
        = Cardinality(Units(f, S)) + Cardinality(U) - Cardinality(Units(f, S) \cap U)
  BY <1>5, <1>6, FS_Union
<1>8. Cardinality(Units(f, S) \cap U) = 0
  BY <1>2, FS_EmptySet
<1>9. Cardinality(U) = f[r]
  BY <1>3, <1>5
<1>10. Cardinality(Units(f, S) \cup U) = Cardinality(Units(f, S)) + f[r]
  BY <1>3, <1>6, <1>7, <1>8, <1>9
<1> QED
  BY <1>1, <1>10 DEF Sum

(* One summand less. *)
LEMMA SumRemove ==
  ASSUME NEW f \in [Requests -> 0 .. Most], NEW S \in SUBSET Requests, NEW r \in S
  PROVE  Sum(f, S) = Sum(f, S \ {r}) + f[r]
<1>1. r \in Requests \ (S \ {r}) /\ S = (S \ {r}) \cup {r}
  OBVIOUS
<1>2. Sum(f, (S \ {r}) \cup {r}) = Sum(f, S \ {r}) + f[r]
  BY <1>1, SumAdd
<1> QED
  BY <1>1, <1>2

(* The sum only depends on its summands. *)
LEMMA SumSame ==
  ASSUME NEW f, NEW g, NEW S, \A r \in S : f[r] = g[r]
  PROVE  Sum(f, S) = Sum(g, S)
BY DEF Sum, Units

(* A zero becomes a number. *)
LEMMA SumGrows ==
  ASSUME NEW f \in [Requests -> 0 .. Most], NEW S \in SUBSET Requests, NEW r \in S,
         NEW n \in 0 .. Most, f[r] = 0
  PROVE  Sum([f EXCEPT ![r] = n], S) = Sum(f, S) + n
<1> DEFINE g == [f EXCEPT ![r] = n]
<1>1. g \in [Requests -> 0 .. Most] /\ g[r] = n /\ \A q \in S \ {r} : g[q] = f[q]
  OBVIOUS
<1> HIDE DEF g
<1>2. Sum(g, S) = Sum(g, S \ {r}) + g[r]
  BY <1>1, SumRemove
<1>3. Sum(f, S) = Sum(f, S \ {r}) + f[r]
  BY SumRemove
<1>4. Sum(g, S \ {r}) = Sum(f, S \ {r})
  BY <1>1, SumSame
<1>5. Sum(f, S \ {r}) \in Nat /\ n \in Int
  BY SumType
<1> QED
  BY <1>1, <1>2, <1>3, <1>4, <1>5 DEF g

(* What is no summand does not count. *)
LEMMA SumOther ==
  ASSUME NEW f \in [Requests -> 0 .. Most], NEW S \in SUBSET Requests, NEW r \in Requests \ S,
         NEW n
  PROVE  Sum([f EXCEPT ![r] = n], S) = Sum(f, S)
<1>1. \A q \in S : [f EXCEPT ![r] = n][q] = f[q]
  OBVIOUS
<1> QED
  BY <1>1, SumSame

(* Fewer summands, but for zeros, are not more together. *)
LEMMA SumSubset ==
  ASSUME NEW f \in [Requests -> 0 .. Most], NEW S \in SUBSET Requests, NEW T \in SUBSET Requests,
         \A r \in S \ T : f[r] = 0
  PROVE  Sum(f, S) <= Sum(f, T)
<1>1. Units(f, S) \subseteq Units(f, T)
  <2> SUFFICES ASSUME NEW r \in S, NEW u \in {r} \X (1 .. f[r]) PROVE r \in T
    BY DEF Units
  <2>1. f[r] # 0
    OBVIOUS
  <2> QED
    BY <2>1
<1> QED
  BY <1>1, SumType, FS_Subset DEF Sum

-----------------------------------------------------------------------------
(* Types *)

(* The larger of two. *)
LEMMA MaxOfTwo ==
  ASSUME NEW a \in Nat, NEW b \in Nat
  PROVE  Max({a, b}) \in Nat /\ Max({a, b}) >= a /\ Max({a, b}) >= b /\ Max({a, b}) \in {a, b}
<1>1. \E x \in {a, b} : \A y \in {a, b} : x >= y
  <2>1. CASE a >= b
    BY <2>1
  <2>2. CASE b >= a
    BY <2>2
  <2> QED
    BY <2>1, <2>2
<1> QED
  BY <1>1 DEF Max

(* The sets of requests that are counted are finite. *)
LEMMA SetsFinite ==
  /\ IsFiniteSet(Uncounted) /\ Cardinality(Uncounted) \in Nat
  /\ IsFiniteSet(Counted) /\ Cardinality(Counted) \in Nat
<1>1. Uncounted \subseteq Requests /\ Counted \subseteq Requests
  BY DEF Uncounted, Counted
<1> QED
  BY <1>1, SpendingAssumption, FS_Subset, FS_CardinalityType DEF SpendingAssumption

(* Every step keeps the types. *)
LEMMA TypeNext == ASSUME TypeInv, PathInv, [Next]_vars PROVE TypeInv'
<1> USE SpendingAssumption DEF SpendingAssumption, TypeInv, LedgerTyped, Most, InvoiceTyped, StoreTyped,
      RequestTyped, RestTyped, Labels, Kinds, External, Amount, At, Goto, files, invoice, locks,
      policy, request, node, bounds
<1>1. ASSUME NEW r \in Requests, Receive(r) PROVE TypeInv'
  <2>1. LedgerTyped'
    BY <1>1 DEF Receive
  <2>2. InvoiceTyped'
    BY <1>1 DEF Receive
  <2>3. StoreTyped'
    <3>1. {blacklisted, guard, quarantined, tripped}' \subseteq BOOLEAN
      BY <1>1 DEF Receive
    <3>2. UNCHANGED <<record, pushed, limit, window, limitLock, budgetLock>>
      BY <1>1 DEF Receive
    <3> QED
      BY <3>1, <3>2
  <2>4. RequestTyped'
    BY <1>1 DEF Receive
  <2>5. RestTyped'
    BY <1>1 DEF Receive
  <2> QED
    BY <2>1, <2>2, <2>3, <2>4, <2>5
<1>2. ASSUME NEW r \in Requests, CheckBudget(r) PROVE TypeInv'
  <2>1. LedgerTyped'
    BY <1>2 DEF CheckBudget
  <2>2. InvoiceTyped'
    BY <1>2 DEF CheckBudget
  <2>3. StoreTyped'
    BY <1>2 DEF CheckBudget
  <2>4. RequestTyped'
    BY <1>2 DEF CheckBudget
  <2>5. RestTyped'
    <3>1. Spent \in Nat
      BY SumType DEF Spent
    <3>2. remaining' \in [Requests -> Nat \cup {None}]
      BY <1>2, <3>1 DEF CheckBudget
    <3>3. UNCHANGED <<frozen, tipOf, seen, crowd, deposits, crashes, drops>>
      BY <1>2 DEF CheckBudget
    <3> QED
      BY <3>2, <3>3
  <2> QED
    BY <2>1, <2>2, <2>3, <2>4, <2>5
<1>3. ASSUME NEW r \in Requests, Screen(r) PROVE TypeInv'
  <2>1. LedgerTyped'
    BY <1>3 DEF Screen, Leave
  <2>2. InvoiceTyped'
    BY <1>3 DEF Screen, Leave
  <2>3. StoreTyped'
    BY <1>3 DEF Screen, Leave
  <2>4. RequestTyped'
    BY <1>3 DEF Screen, Leave
  <2>5. RestTyped'
    BY <1>3 DEF Screen, Leave
  <2> QED
    BY <2>1, <2>2, <2>3, <2>4, <2>5
<1>4. ASSUME NEW r \in Requests, ReadLimit(r) PROVE TypeInv'
  <2>1. LedgerTyped'
    BY <1>4 DEF ReadLimit, Leave
  <2>2. InvoiceTyped'
    BY <1>4 DEF ReadLimit, Leave
  <2>3. StoreTyped'
    BY <1>4 DEF ReadLimit, Leave
  <2>4. RequestTyped'
    BY <1>4 DEF ReadLimit, Leave
  <2>5. RestTyped'
    BY <1>4 DEF ReadLimit, Leave
  <2> QED
    BY <2>1, <2>2, <2>3, <2>4, <2>5
<1>5. ASSUME NEW r \in Requests, Reserve(r) PROVE TypeInv'
  <2>1. LedgerTyped'
    BY <1>5 DEF Reserve
  <2>2. InvoiceTyped'
    BY <1>5 DEF Reserve
  <2>3. StoreTyped'
    BY <1>5 DEF Reserve
  <2>4. RequestTyped'
    BY <1>5 DEF Reserve
  <2>5. RestTyped'
    BY <1>5 DEF Reserve
  <2> QED
    BY <2>1, <2>2, <2>3, <2>4, <2>5
<1>6. ASSUME NEW r \in Requests, Load(r) PROVE TypeInv'
  <2>1. LedgerTyped'
    BY <1>6 DEF Load, Leave, Total, OverCap
  <2>2. InvoiceTyped'
    BY <1>6 DEF Load, Leave, Total, OverCap
  <2>3. StoreTyped'
    BY <1>6 DEF Load, Leave, Total, OverCap
  <2>4. RequestTyped'
    BY <1>6 DEF Load, Leave, Total, OverCap
  <2>5. RestTyped'
    <3>1. Cardinality(Uncounted) \in Nat
      BY SetsFinite
    <3>2. Cardinality(Uncounted) + 1 \in Nat
      BY <3>1
    <3>3. Max({crowd, Cardinality(Uncounted) + 1}) \in Nat
      BY <3>2, MaxOfTwo
    <3>4. crowd' \in {crowd, Max({crowd, Cardinality(Uncounted) + 1})}
      BY <1>6 DEF Load
    <3>5. tipOf' \in [Requests -> {0, 1}]
      BY <1>6 DEF Load
    <3>6. UNCHANGED <<remaining, frozen, seen, deposits, crashes, drops>>
      BY <1>6 DEF Load
    <3> QED
      BY <3>3, <3>4, <3>5, <3>6
  <2> QED
    BY <2>1, <2>2, <2>3, <2>4, <2>5
<1>7. ASSUME NEW r \in Requests, ReadFrozen(r) PROVE TypeInv'
  <2>1. LedgerTyped'
    BY <1>7 DEF ReadFrozen
  <2>2. InvoiceTyped'
    BY <1>7 DEF ReadFrozen
  <2>3. StoreTyped'
    BY <1>7 DEF ReadFrozen
  <2>4. RequestTyped'
    BY <1>7 DEF ReadFrozen
  <2>5. RestTyped'
    BY <1>7 DEF ReadFrozen
  <2> QED
    BY <2>1, <2>2, <2>3, <2>4, <2>5
<1>8. ASSUME NEW r \in Requests, LedgerCheck(r) PROVE TypeInv'
  <2>1. LedgerTyped'
    BY <1>8 DEF LedgerCheck, Leave, Total
  <2>2. InvoiceTyped'
    BY <1>8 DEF LedgerCheck, Leave, Total
  <2>3. StoreTyped'
    BY <1>8 DEF LedgerCheck, Leave, Total
  <2>4. RequestTyped'
    BY <1>8 DEF LedgerCheck, Leave, Total
  <2>5. RestTyped'
    BY <1>8 DEF LedgerCheck, Leave, Total
  <2> QED
    BY <2>1, <2>2, <2>3, <2>4, <2>5
<1>9. ASSUME NEW r \in Requests, LedgerMove(r) PROVE TypeInv'
  <2>1. LedgerTyped'
    <3>1. Total(r) \in 0 .. Most
      BY DEF Total, Most
    <3> QED
      BY <1>9, <3>1 DEF LedgerMove, Leave, Most
  <2>2. InvoiceTyped'
    BY <1>9 DEF LedgerMove, Leave, Total
  <2>3. StoreTyped'
    BY <1>9 DEF LedgerMove, Leave, Total
  <2>4. RequestTyped'
    BY <1>9 DEF LedgerMove, Leave, Total
  <2>5. RestTyped'
    BY <1>9 DEF LedgerMove, Leave, Total
  <2> QED
    BY <2>1, <2>2, <2>3, <2>4, <2>5
<1>10. ASSUME NEW r \in Requests, Count(r) PROVE TypeInv'
  <2>1. LedgerTyped'
    BY <1>10 DEF Count
  <2>2. InvoiceTyped'
    BY <1>10 DEF Count
  <2>3. StoreTyped'
    BY <1>10 DEF Count
  <2>4. RequestTyped'
    BY <1>10 DEF Count
  <2>5. RestTyped'
    BY <1>10 DEF Count
  <2> QED
    BY <2>1, <2>2, <2>3, <2>4, <2>5
<1>11. ASSUME NEW r \in Requests, Record(r) PROVE TypeInv'
  <2>1. LedgerTyped'
    BY <1>11 DEF Record
  <2>2. InvoiceTyped'
    BY <1>11 DEF Record
  <2>3. StoreTyped'
    BY <1>11 DEF Record
  <2>4. RequestTyped'
    BY <1>11 DEF Record
  <2>5. RestTyped'
    BY <1>11 DEF Record
  <2> QED
    BY <2>1, <2>2, <2>3, <2>4, <2>5
<1>12. ASSUME NEW r \in Requests, CreditLoad(r) PROVE TypeInv'
  <2>1. LedgerTyped'
    BY <1>12 DEF CreditLoad
  <2>2. InvoiceTyped'
    BY <1>12 DEF CreditLoad
  <2>3. StoreTyped'
    BY <1>12 DEF CreditLoad
  <2>4. RequestTyped'
    BY <1>12 DEF CreditLoad
  <2>5. RestTyped'
    BY <1>12 DEF CreditLoad
  <2> QED
    BY <2>1, <2>2, <2>3, <2>4, <2>5
<1>13. ASSUME NEW r \in Requests, CreditLock(r) PROVE TypeInv'
  <2>1. LedgerTyped'
    BY <1>13 DEF CreditLock, Leave
  <2>2. InvoiceTyped'
    BY <1>13 DEF CreditLock, Leave
  <2>3. StoreTyped'
    BY <1>13 DEF CreditLock, Leave
  <2>4. RequestTyped'
    BY <1>13 DEF CreditLock, Leave
  <2>5. RestTyped'
    BY <1>13 DEF CreditLock, Leave
  <2> QED
    BY <2>1, <2>2, <2>3, <2>4, <2>5
<1>14. ASSUME NEW r \in Requests, CreditMove(r) PROVE TypeInv'
  <2>1. LedgerTyped'
    BY <1>14 DEF CreditMove
  <2>2. InvoiceTyped'
    BY <1>14 DEF CreditMove
  <2>3. StoreTyped'
    BY <1>14 DEF CreditMove
  <2>4. RequestTyped'
    BY <1>14 DEF CreditMove
  <2>5. RestTyped'
    BY <1>14 DEF CreditMove
  <2> QED
    BY <2>1, <2>2, <2>3, <2>4, <2>5
<1>15. ASSUME NEW r \in Requests, CreditSave(r) PROVE TypeInv'
  <2>1. LedgerTyped'
    BY <1>15 DEF CreditSave, AfterCredit
  <2>2. InvoiceTyped'
    BY <1>15 DEF CreditSave, AfterCredit
  <2>3. StoreTyped'
    BY <1>15 DEF CreditSave, AfterCredit
  <2>4. RequestTyped'
    BY <1>15 DEF CreditSave, AfterCredit
  <2>5. RestTyped'
    BY <1>15 DEF CreditSave, AfterCredit
  <2> QED
    BY <2>1, <2>2, <2>3, <2>4, <2>5
<1>16. ASSUME NEW r \in Requests, KeysendPays(r) PROVE TypeInv'
  <2>1. LedgerTyped'
    BY <1>16 DEF KeysendPays, Pays, AfterCredit
  <2>2. InvoiceTyped'
    BY <1>16 DEF KeysendPays, Pays, AfterCredit
  <2>3. StoreTyped'
    BY <1>16 DEF KeysendPays, Pays, AfterCredit
  <2>4. RequestTyped'
    BY <1>16 DEF KeysendPays, Pays, AfterCredit
  <2>5. RestTyped'
    BY <1>16 DEF KeysendPays, Pays, AfterCredit
  <2> QED
    BY <2>1, <2>2, <2>3, <2>4, <2>5
<1>17. ASSUME NEW r \in Requests, KeysendThrows(r) PROVE TypeInv'
  <2>1. LedgerTyped'
    BY <1>17 DEF KeysendThrows, GivesBack, Leave
  <2>2. InvoiceTyped'
    BY <1>17 DEF KeysendThrows, GivesBack, Leave
  <2>3. StoreTyped'
    BY <1>17 DEF KeysendThrows, GivesBack, Leave
  <2>4. RequestTyped'
    BY <1>17 DEF KeysendThrows, GivesBack, Leave
  <2>5. RestTyped'
    BY <1>17 DEF KeysendThrows, GivesBack, Leave
  <2> QED
    BY <2>1, <2>2, <2>3, <2>4, <2>5
<1>18. ASSUME NEW r \in Requests, Push(r) PROVE TypeInv'
  <2>1. LedgerTyped'
    BY <1>18 DEF Push, Leave
  <2>2. InvoiceTyped'
    BY <1>18 DEF Push, Leave
  <2>3. StoreTyped'
    BY <1>18 DEF Push, Leave
  <2>4. RequestTyped'
    BY <1>18 DEF Push, Leave
  <2>5. RestTyped'
    BY <1>18 DEF Push, Leave
  <2> QED
    BY <2>1, <2>2, <2>3, <2>4, <2>5
<1>19. ASSUME NEW r \in Requests, Resolve(r) PROVE TypeInv'
  <2>1. LedgerTyped'
    BY <1>19 DEF Resolve, Pays, GivesBack
  <2>2. InvoiceTyped'
    BY <1>19 DEF Resolve, Pays, GivesBack
  <2>3. StoreTyped'
    BY <1>19 DEF Resolve, Pays, GivesBack
  <2>4. RequestTyped'
    BY <1>19 DEF Resolve, Pays, GivesBack
  <2>5. RestTyped'
    BY <1>19 DEF Resolve, Pays, GivesBack
  <2> QED
    BY <2>1, <2>2, <2>3, <2>4, <2>5
<1>20. ASSUME NEW r \in Requests, KeysendHangs(r) PROVE TypeInv'
  <2>1. LedgerTyped'
    BY <1>20 DEF KeysendHangs
  <2>2. InvoiceTyped'
    BY <1>20 DEF KeysendHangs
  <2>3. StoreTyped'
    BY <1>20 DEF KeysendHangs
  <2>4. RequestTyped'
    BY <1>20 DEF KeysendHangs
  <2>5. RestTyped'
    BY <1>20 DEF KeysendHangs
  <2> QED
    BY <2>1, <2>2, <2>3, <2>4, <2>5
<1>21. ASSUME NEW r \in Requests, LatePay(r) PROVE TypeInv'
  <2>1. LedgerTyped'
    BY <1>21 DEF LatePay, Pays
  <2>2. InvoiceTyped'
    BY <1>21 DEF LatePay, Pays
  <2>3. StoreTyped'
    BY <1>21 DEF LatePay, Pays
  <2>4. RequestTyped'
    BY <1>21 DEF LatePay, Pays
  <2>5. RestTyped'
    BY <1>21 DEF LatePay, Pays
  <2> QED
    BY <2>1, <2>2, <2>3, <2>4, <2>5
<1>22. ASSUME RefreshRead PROVE TypeInv'
  <2>1. LedgerTyped'
    BY <1>22 DEF RefreshRead
  <2>2. InvoiceTyped'
    BY <1>22 DEF RefreshRead
  <2>3. StoreTyped'
    BY <1>22 DEF RefreshRead
  <2>4. RequestTyped'
    BY <1>22 DEF RefreshRead
  <2>5. RestTyped'
    BY <1>22 DEF RefreshRead
  <2> QED
    BY <2>1, <2>2, <2>3, <2>4, <2>5
<1>23. ASSUME RefreshWrite PROVE TypeInv'
  <2>1. LedgerTyped'
    BY <1>23 DEF RefreshWrite
  <2>2. InvoiceTyped'
    BY <1>23 DEF RefreshWrite
  <2>3. StoreTyped'
    BY <1>23 DEF RefreshWrite
  <2>4. RequestTyped'
    BY <1>23 DEF RefreshWrite
  <2>5. RestTyped'
    BY <1>23 DEF RefreshWrite
  <2> QED
    BY <2>1, <2>2, <2>3, <2>4, <2>5
<1>24. ASSUME Deposit PROVE TypeInv'
  <2>1. LedgerTyped'
    BY <1>24 DEF Deposit
  <2>2. InvoiceTyped'
    BY <1>24 DEF Deposit
  <2>3. StoreTyped'
    BY <1>24 DEF Deposit
  <2>4. RequestTyped'
    BY <1>24 DEF Deposit
  <2>5. RestTyped'
    BY <1>24 DEF Deposit
  <2> QED
    BY <2>1, <2>2, <2>3, <2>4, <2>5
<1>25. ASSUME EditRead PROVE TypeInv'
  <2>1. LedgerTyped'
    BY <1>25 DEF EditRead
  <2>2. InvoiceTyped'
    BY <1>25 DEF EditRead
  <2>3. StoreTyped'
    BY <1>25 DEF EditRead
  <2>4. RequestTyped'
    BY <1>25 DEF EditRead
  <2>5. RestTyped'
    BY <1>25 DEF EditRead
  <2> QED
    BY <2>1, <2>2, <2>3, <2>4, <2>5
<1>26. ASSUME EditWrite PROVE TypeInv'
  <2>1. LedgerTyped'
    BY <1>26 DEF EditWrite
  <2>2. InvoiceTyped'
    BY <1>26 DEF EditWrite
  <2>3. StoreTyped'
    BY <1>26 DEF EditWrite
  <2>4. RequestTyped'
    BY <1>26 DEF EditWrite
  <2>5. RestTyped'
    BY <1>26 DEF EditWrite
  <2> QED
    BY <2>1, <2>2, <2>3, <2>4, <2>5
<1>27. ASSUME CreditLockExpires PROVE TypeInv'
  <2>1. LedgerTyped'
    BY <1>27 DEF CreditLockExpires
  <2>2. InvoiceTyped'
    BY <1>27 DEF CreditLockExpires
  <2>3. StoreTyped'
    BY <1>27 DEF CreditLockExpires
  <2>4. RequestTyped'
    BY <1>27 DEF CreditLockExpires
  <2>5. RestTyped'
    BY <1>27 DEF CreditLockExpires
  <2> QED
    BY <2>1, <2>2, <2>3, <2>4, <2>5
<1>28. ASSUME Crash PROVE TypeInv'
  <2>1. LedgerTyped'
    BY <1>28 DEF Crash
  <2>2. InvoiceTyped'
    BY <1>28 DEF Crash
  <2>3. StoreTyped'
    BY <1>28 DEF Crash
  <2>4. RequestTyped'
    BY <1>28 DEF Crash
  <2>5. RestTyped'
    BY <1>28 DEF Crash
  <2> QED
    BY <2>1, <2>2, <2>3, <2>4, <2>5
<1>29. CASE UNCHANGED vars
  BY <1>29 DEF vars
<1> QED
  BY <1>1, <1>2, <1>3, <1>4, <1>5, <1>6, <1>7, <1>8, <1>9, <1>10, <1>11, <1>12, <1>13, <1>14,
     <1>15, <1>16, <1>17, <1>18, <1>19, <1>20, <1>21, <1>22, <1>23, <1>24, <1>25, <1>26, <1>27,
     <1>28, <1>29 DEF Next, Step

(* The ways of the kinds. *)
LEMMA PathNext == ASSUME TypeInv, PathInv, [Next]_vars PROVE PathInv'
<1> USE SpendingAssumption DEF SpendingAssumption, TypeInv, LedgerTyped, Most, StoreTyped, RequestTyped,
      RestTyped, PathInv, Labels, Kinds, External, Amount, At, Goto, files, invoice, locks,
      policy, request, node, bounds
<1>1. ASSUME NEW r \in Requests, Receive(r) PROVE PathInv'
  BY <1>1 DEF Receive
<1>2. ASSUME NEW r \in Requests, CheckBudget(r) PROVE PathInv'
  BY <1>2 DEF CheckBudget
<1>3. ASSUME NEW r \in Requests, Screen(r) PROVE PathInv'
  BY <1>3 DEF Screen, Leave
<1>4. ASSUME NEW r \in Requests, ReadLimit(r) PROVE PathInv'
  BY <1>4 DEF ReadLimit, Leave
<1>5. ASSUME NEW r \in Requests, Reserve(r) PROVE PathInv'
  BY <1>5 DEF Reserve
<1>6. ASSUME NEW r \in Requests, Load(r) PROVE PathInv'
  BY <1>6 DEF Load, Leave, Total, OverCap
<1>7. ASSUME NEW r \in Requests, ReadFrozen(r) PROVE PathInv'
  BY <1>7 DEF ReadFrozen
<1>8. ASSUME NEW r \in Requests, LedgerCheck(r) PROVE PathInv'
  BY <1>8 DEF LedgerCheck, Leave, Total
<1>9. ASSUME NEW r \in Requests, LedgerMove(r) PROVE PathInv'
  BY <1>9 DEF LedgerMove, Leave, Total
<1>10. ASSUME NEW r \in Requests, Count(r) PROVE PathInv'
  BY <1>10 DEF Count
<1>11. ASSUME NEW r \in Requests, Record(r) PROVE PathInv'
  BY <1>11 DEF Record
<1>12. ASSUME NEW r \in Requests, CreditLoad(r) PROVE PathInv'
  BY <1>12 DEF CreditLoad
<1>13. ASSUME NEW r \in Requests, CreditLock(r) PROVE PathInv'
  BY <1>13 DEF CreditLock, Leave
<1>14. ASSUME NEW r \in Requests, CreditMove(r) PROVE PathInv'
  BY <1>14 DEF CreditMove
<1>15. ASSUME NEW r \in Requests, CreditSave(r) PROVE PathInv'
  BY <1>15 DEF CreditSave, AfterCredit
<1>16. ASSUME NEW r \in Requests, KeysendPays(r) PROVE PathInv'
  BY <1>16 DEF KeysendPays, Pays, AfterCredit
<1>17. ASSUME NEW r \in Requests, KeysendThrows(r) PROVE PathInv'
  BY <1>17 DEF KeysendThrows, GivesBack, Leave
<1>18. ASSUME NEW r \in Requests, Push(r) PROVE PathInv'
  BY <1>18 DEF Push, Leave
<1>19. ASSUME NEW r \in Requests, Resolve(r) PROVE PathInv'
  BY <1>19 DEF Resolve, Pays, GivesBack
<1>20. ASSUME NEW r \in Requests, KeysendHangs(r) PROVE PathInv'
  BY <1>20 DEF KeysendHangs
<1>21. ASSUME NEW r \in Requests, LatePay(r) PROVE PathInv'
  BY <1>21 DEF LatePay, Pays
<1>22. ASSUME RefreshRead PROVE PathInv'
  BY <1>22 DEF RefreshRead
<1>23. ASSUME RefreshWrite PROVE PathInv'
  BY <1>23 DEF RefreshWrite
<1>24. ASSUME Deposit PROVE PathInv'
  BY <1>24 DEF Deposit
<1>25. ASSUME EditRead PROVE PathInv'
  BY <1>25 DEF EditRead
<1>26. ASSUME EditWrite PROVE PathInv'
  BY <1>26 DEF EditWrite
<1>27. ASSUME CreditLockExpires PROVE PathInv'
  BY <1>27 DEF CreditLockExpires
<1>28. ASSUME Crash PROVE PathInv'
  BY <1>28 DEF Crash
<1>29. CASE UNCHANGED vars
  BY <1>29 DEF vars
<1> QED
  BY <1>1, <1>2, <1>3, <1>4, <1>5, <1>6, <1>7, <1>8, <1>9, <1>10, <1>11, <1>12, <1>13, <1>14,
     <1>15, <1>16, <1>17, <1>18, <1>19, <1>20, <1>21, <1>22, <1>23, <1>24, <1>25, <1>26, <1>27,
     <1>28, <1>29 DEF Next, Step

(* Types and ways, in every reachable state. *)
LEMMA TypeInvHolds == Spec => [](TypeInv /\ PathInv)
<1>1. ASSUME Init PROVE TypeInv /\ PathInv
  <2> USE <1>1, SpendingAssumption DEF SpendingAssumption, Init
  <2>1. LedgerTyped
    BY DEF LedgerTyped, Most
  <2>2. InvoiceTyped
    BY DEF InvoiceTyped
  <2>3. StoreTyped
    <3>1. /\ record \in [Requests -> {"none", "open", "settled", "reversed"}]
          /\ pushed = {} /\ limit \in Int /\ window = 0
      OBVIOUS
    <3>2. {blacklisted, guard, quarantined, tripped} \subseteq BOOLEAN
      OBVIOUS
    <3> QED
      BY <3>1, <3>2 DEF StoreTyped
  <2>4. RequestTyped
    BY DEF RequestTyped, Labels
  <2>5. RestTyped
    BY DEF RestTyped
  <2>6. PathInv
    BY DEF PathInv
  <2> QED
    BY <2>1, <2>2, <2>3, <2>4, <2>5, <2>6 DEF TypeInv
<1> QED
  BY <1>1, TypeNext, PathNext, PTL DEF Spec

(* Every variable has its type in every reachable state. *)
THEOREM TypeCorrect == Spec => []TypeOK
<1>1. TypeInv => TypeOK
  BY SpendingAssumption DEF SpendingAssumption, Most, TypeInv, LedgerTyped, InvoiceTyped, StoreTyped,
     RequestTyped, RestTyped, TypeOK
<1> QED
  BY <1>1, TypeInvHolds, PTL

-----------------------------------------------------------------------------
(* The limit of the hot wallet *)

(* Who reads the limit has it to himself until he has lowered it. *)
LEMMA LimitNext == ASSUME TypeInv, PathInv, LimitInv, [Next]_vars PROVE LimitInv'
<1> USE SpendingAssumption DEF SpendingAssumption, TypeInv, LedgerTyped, Most, StoreTyped, RequestTyped,
      LimitInv, Labels, Amount, At, Goto, files, invoice, locks, policy, request, node, bounds
<1>1. ASSUME NEW r \in Requests, Receive(r) PROVE LimitInv'
  BY <1>1 DEF Receive
<1>2. ASSUME NEW r \in Requests, CheckBudget(r) PROVE LimitInv'
  BY <1>2 DEF CheckBudget
<1>3. ASSUME NEW r \in Requests, Screen(r) PROVE LimitInv'
  BY <1>3 DEF Screen, Leave
<1>4. ASSUME NEW r \in Requests, ReadLimit(r) PROVE LimitInv'
  BY <1>4 DEF ReadLimit, Leave
<1>5. ASSUME NEW r \in Requests, Reserve(r) PROVE LimitInv'
  BY <1>5 DEF Reserve
<1>6. ASSUME NEW r \in Requests, Load(r) PROVE LimitInv'
  BY <1>6 DEF Load, Leave, Total, OverCap
<1>7. ASSUME NEW r \in Requests, ReadFrozen(r) PROVE LimitInv'
  BY <1>7 DEF ReadFrozen
<1>8. ASSUME NEW r \in Requests, LedgerCheck(r) PROVE LimitInv'
  BY <1>8 DEF LedgerCheck, Leave, Total
<1>9. ASSUME NEW r \in Requests, LedgerMove(r) PROVE LimitInv'
  BY <1>9 DEF LedgerMove, Leave, Total
<1>10. ASSUME NEW r \in Requests, Count(r) PROVE LimitInv'
  BY <1>10 DEF Count
<1>11. ASSUME NEW r \in Requests, Record(r) PROVE LimitInv'
  BY <1>11 DEF Record
<1>12. ASSUME NEW r \in Requests, CreditLoad(r) PROVE LimitInv'
  BY <1>12 DEF CreditLoad
<1>13. ASSUME NEW r \in Requests, CreditLock(r) PROVE LimitInv'
  BY <1>13 DEF CreditLock, Leave
<1>14. ASSUME NEW r \in Requests, CreditMove(r) PROVE LimitInv'
  BY <1>14 DEF CreditMove
<1>15. ASSUME NEW r \in Requests, CreditSave(r) PROVE LimitInv'
  BY <1>15 DEF CreditSave, AfterCredit
<1>16. ASSUME NEW r \in Requests, KeysendPays(r) PROVE LimitInv'
  BY <1>16 DEF KeysendPays, Pays, AfterCredit
<1>17. ASSUME NEW r \in Requests, KeysendThrows(r) PROVE LimitInv'
  BY <1>17 DEF KeysendThrows, GivesBack, Leave
<1>18. ASSUME NEW r \in Requests, Push(r) PROVE LimitInv'
  BY <1>18 DEF Push, Leave
<1>19. ASSUME NEW r \in Requests, Resolve(r) PROVE LimitInv'
  BY <1>19 DEF Resolve, Pays, GivesBack
<1>20. ASSUME NEW r \in Requests, KeysendHangs(r) PROVE LimitInv'
  BY <1>20 DEF KeysendHangs
<1>21. ASSUME NEW r \in Requests, LatePay(r) PROVE LimitInv'
  BY <1>21 DEF LatePay, Pays
<1>22. ASSUME RefreshRead PROVE LimitInv'
  BY <1>22 DEF RefreshRead
<1>23. ASSUME RefreshWrite PROVE LimitInv'
  BY <1>23 DEF RefreshWrite
<1>24. ASSUME Deposit PROVE LimitInv'
  BY <1>24 DEF Deposit
<1>25. ASSUME EditRead PROVE LimitInv'
  BY <1>25 DEF EditRead
<1>26. ASSUME EditWrite PROVE LimitInv'
  BY <1>26 DEF EditWrite
<1>27. ASSUME CreditLockExpires PROVE LimitInv'
  BY <1>27 DEF CreditLockExpires
<1>28. ASSUME Crash PROVE LimitInv'
  BY <1>28 DEF Crash
<1>29. CASE UNCHANGED vars
  BY <1>29 DEF vars
<1> QED
  BY <1>1, <1>2, <1>3, <1>4, <1>5, <1>6, <1>7, <1>8, <1>9, <1>10, <1>11, <1>12, <1>13, <1>14,
     <1>15, <1>16, <1>17, <1>18, <1>19, <1>20, <1>21, <1>22, <1>23, <1>24, <1>25, <1>26, <1>27,
     <1>28, <1>29 DEF Next, Step

(* The hot wallet's limit is never overdrawn, however many sends pass it at *)
(* once and whenever freezeCheck writes it: LimitHolds, of debit().         *)
THEOREM LimitNotOverdrawn == Spec => []LimitHolds
<1>1. Init => LimitInv
  BY SpendingAssumption DEF SpendingAssumption, Init, LimitInv, At
<1>2. LimitInv => LimitHolds
  BY DEF LimitInv, LimitHolds
<1> QED
  BY <1>1, <1>2, LimitNext, TypeInvHolds, PTL DEF Spec

-----------------------------------------------------------------------------
(* The breaker *)

(* A step that counts nothing and lets nobody pass the check. *)
LEMMA CapQuiet ==
  ASSUME TypeInv, TypeInv', CapInv, Counted' = Counted, Uncounted' \subseteq Uncounted,
         UNCHANGED <<window, crowd>>
  PROVE  CapInv'
<1>1. Cardinality(Uncounted') \in Nat /\ Cardinality(Uncounted') <= Cardinality(Uncounted)
  BY SetsFinite, FS_Subset, FS_CardinalityType
<1> QED
  BY <1>1, SetsFinite, SpendingAssumption DEF SpendingAssumption, CapInv, Slack, TypeInv, StoreTyped,
     RestTyped

(* What is counted and what has passed the check stay under the cap but for *)
(* the crowd.                                                               *)
LEMMA CapNext == ASSUME TypeInv, TypeInv', PathInv, CapInv, [Next]_vars PROVE CapInv'
<1> USE SpendingAssumption DEF SpendingAssumption, TypeInv, LedgerTyped, Most, StoreTyped, RequestTyped,
      RestTyped, PathInv, Labels, Kinds, External, Amount, At, Goto, files, invoice, locks,
      policy, request, node, bounds
<1>1. ASSUME NEW r \in Requests, Receive(r) PROVE CapInv'
  <2>1. Counted' = Counted
    BY <1>1 DEF Receive, Counted
  <2>2. Uncounted' \subseteq Uncounted
    BY <1>1 DEF Receive, Uncounted
  <2>3. UNCHANGED <<window, crowd>>
    BY <1>1 DEF Receive
  <2> QED
    BY <2>1, <2>2, <2>3, CapQuiet
<1>2. ASSUME NEW r \in Requests, CheckBudget(r) PROVE CapInv'
  <2>1. Counted' = Counted
    BY <1>2 DEF CheckBudget, Counted
  <2>2. Uncounted' \subseteq Uncounted
    BY <1>2 DEF CheckBudget, Uncounted
  <2>3. UNCHANGED <<window, crowd>>
    BY <1>2 DEF CheckBudget
  <2> QED
    BY <2>1, <2>2, <2>3, CapQuiet
<1>3. ASSUME NEW r \in Requests, Screen(r) PROVE CapInv'
  <2>1. Counted' = Counted
    BY <1>3 DEF Screen, Leave, Counted
  <2>2. Uncounted' \subseteq Uncounted
    BY <1>3 DEF Screen, Leave, Uncounted
  <2>3. UNCHANGED <<window, crowd>>
    BY <1>3 DEF Screen, Leave
  <2> QED
    BY <2>1, <2>2, <2>3, CapQuiet
<1>4. ASSUME NEW r \in Requests, ReadLimit(r) PROVE CapInv'
  <2>1. Counted' = Counted
    BY <1>4 DEF ReadLimit, Leave, Counted
  <2>2. Uncounted' \subseteq Uncounted
    BY <1>4 DEF ReadLimit, Leave, Uncounted
  <2>3. UNCHANGED <<window, crowd>>
    BY <1>4 DEF ReadLimit, Leave
  <2> QED
    BY <2>1, <2>2, <2>3, CapQuiet
<1>5. ASSUME NEW r \in Requests, Reserve(r) PROVE CapInv'
  <2>1. Counted' = Counted
    BY <1>5 DEF Reserve, Counted
  <2>2. Uncounted' \subseteq Uncounted
    BY <1>5 DEF Reserve, Uncounted
  <2>3. UNCHANGED <<window, crowd>>
    BY <1>5 DEF Reserve
  <2> QED
    BY <2>1, <2>2, <2>3, CapQuiet
<1>6. ASSUME NEW r \in Requests, Load(r) PROVE CapInv'
  <2>1. Counted' = Counted /\ window' = window /\ pc[r] = "load" /\ r \notin Uncounted
    BY <1>6 DEF Load, Leave, Counted, Uncounted
  <2>2. CASE kind[r] \in External /\ ~OverCap /\ pc'[r] \in {"freeze", "check"}
    <3>1. Uncounted' = Uncounted \cup {r}
      BY <1>6, <2>2 DEF Load, Leave, Uncounted
    <3>2. crowd' = Max({crowd, Cardinality(Uncounted) + 1})
      BY <1>6, <2>2 DEF Load, Leave
    <3>3. crowd' \in Nat /\ crowd' >= Cardinality(Uncounted) + 1
      <4>1. Cardinality(Uncounted) + 1 \in Nat
        BY SetsFinite
      <4> QED
        BY <3>2, <4>1, MaxOfTwo
    <3>4. Cardinality(Uncounted') = Cardinality(Uncounted) + 1
      BY <2>1, <3>1, SetsFinite, FS_AddElement
    <3>5. window + 1 <= Cap
      BY <2>2 DEF OverCap
    <3> QED
      BY <2>1, <3>3, <3>4, <3>5, SetsFinite DEF CapInv, Slack
  <2>3. CASE ~(kind[r] \in External /\ ~OverCap /\ pc'[r] \in {"freeze", "check"})
    <3>1. Uncounted' \subseteq Uncounted
      BY <1>6, <2>3 DEF Load, Leave, Uncounted
    <3>2. crowd' = crowd
      BY <1>6, <2>3 DEF Load, Leave
    <3> QED
      BY <2>1, <3>1, <3>2, CapQuiet
  <2> QED
    BY <2>2, <2>3
<1>7. ASSUME NEW r \in Requests, ReadFrozen(r) PROVE CapInv'
  <2>1. Counted' = Counted
    BY <1>7 DEF ReadFrozen, Counted
  <2>2. Uncounted' \subseteq Uncounted
    BY <1>7 DEF ReadFrozen, Uncounted
  <2>3. UNCHANGED <<window, crowd>>
    BY <1>7 DEF ReadFrozen
  <2> QED
    BY <2>1, <2>2, <2>3, CapQuiet
<1>8. ASSUME NEW r \in Requests, LedgerCheck(r) PROVE CapInv'
  <2>1. Counted' = Counted
    BY <1>8 DEF LedgerCheck, Leave, Total, Counted
  <2>2. Uncounted' \subseteq Uncounted
    BY <1>8 DEF LedgerCheck, Leave, Total, Uncounted
  <2>3. UNCHANGED <<window, crowd>>
    BY <1>8 DEF LedgerCheck, Leave, Total
  <2> QED
    BY <2>1, <2>2, <2>3, CapQuiet
<1>9. ASSUME NEW r \in Requests, LedgerMove(r) PROVE CapInv'
  <2>1. Counted' = Counted
    BY <1>9 DEF LedgerMove, Leave, Total, Counted
  <2>2. Uncounted' \subseteq Uncounted
    BY <1>9 DEF LedgerMove, Leave, Total, Uncounted
  <2>3. UNCHANGED <<window, crowd>>
    BY <1>9 DEF LedgerMove, Leave, Total
  <2> QED
    BY <2>1, <2>2, <2>3, CapQuiet
<1>10. ASSUME NEW r \in Requests, Count(r) PROVE CapInv'
  <2>1. r \in Uncounted /\ r \notin Counted /\ Counted' = Counted \cup {r}
    BY <1>10 DEF Count, Uncounted, Counted
  <2>2. Uncounted' = Uncounted \ {r}
    BY <1>10 DEF Count, Uncounted
  <2>3. window' = window + 1 /\ crowd' = crowd
    BY <1>10 DEF Count
  <2>4. Cardinality(Counted') = Cardinality(Counted) + 1
    BY <2>1, SetsFinite, FS_AddElement
  <2>5. Cardinality(Uncounted') = Cardinality(Uncounted) - 1
    BY <2>1, <2>2, SetsFinite, FS_RemoveElement
  <2> QED
    BY <2>3, <2>4, <2>5, SetsFinite DEF CapInv, Slack
<1>11. ASSUME NEW r \in Requests, Record(r) PROVE CapInv'
  <2>1. Counted' = Counted
    BY <1>11 DEF Record, Counted
  <2>2. Uncounted' \subseteq Uncounted
    BY <1>11 DEF Record, Uncounted
  <2>3. UNCHANGED <<window, crowd>>
    BY <1>11 DEF Record
  <2> QED
    BY <2>1, <2>2, <2>3, CapQuiet
<1>12. ASSUME NEW r \in Requests, CreditLoad(r) PROVE CapInv'
  <2>1. Counted' = Counted
    BY <1>12 DEF CreditLoad, Counted
  <2>2. Uncounted' \subseteq Uncounted
    BY <1>12 DEF CreditLoad, Uncounted
  <2>3. UNCHANGED <<window, crowd>>
    BY <1>12 DEF CreditLoad
  <2> QED
    BY <2>1, <2>2, <2>3, CapQuiet
<1>13. ASSUME NEW r \in Requests, CreditLock(r) PROVE CapInv'
  <2>1. Counted' = Counted
    BY <1>13 DEF CreditLock, Leave, Counted
  <2>2. Uncounted' \subseteq Uncounted
    BY <1>13 DEF CreditLock, Leave, Uncounted
  <2>3. UNCHANGED <<window, crowd>>
    BY <1>13 DEF CreditLock, Leave
  <2> QED
    BY <2>1, <2>2, <2>3, CapQuiet
<1>14. ASSUME NEW r \in Requests, CreditMove(r) PROVE CapInv'
  <2>1. Counted' = Counted
    BY <1>14 DEF CreditMove, Counted
  <2>2. Uncounted' \subseteq Uncounted
    BY <1>14 DEF CreditMove, Uncounted
  <2>3. UNCHANGED <<window, crowd>>
    BY <1>14 DEF CreditMove
  <2> QED
    BY <2>1, <2>2, <2>3, CapQuiet
<1>15. ASSUME NEW r \in Requests, CreditSave(r) PROVE CapInv'
  <2>1. Counted' = Counted
    BY <1>15 DEF CreditSave, AfterCredit, Counted
  <2>2. Uncounted' \subseteq Uncounted
    BY <1>15 DEF CreditSave, AfterCredit, Uncounted
  <2>3. UNCHANGED <<window, crowd>>
    BY <1>15 DEF CreditSave, AfterCredit
  <2> QED
    BY <2>1, <2>2, <2>3, CapQuiet
<1>16. ASSUME NEW r \in Requests, KeysendPays(r) PROVE CapInv'
  <2>1. Counted' = Counted
    BY <1>16 DEF KeysendPays, Pays, AfterCredit, Counted
  <2>2. Uncounted' \subseteq Uncounted
    BY <1>16 DEF KeysendPays, Pays, AfterCredit, Uncounted
  <2>3. UNCHANGED <<window, crowd>>
    BY <1>16 DEF KeysendPays, Pays, AfterCredit
  <2> QED
    BY <2>1, <2>2, <2>3, CapQuiet
<1>17. ASSUME NEW r \in Requests, KeysendThrows(r) PROVE CapInv'
  <2>1. Counted' = Counted
    BY <1>17 DEF KeysendThrows, GivesBack, Leave, Counted
  <2>2. Uncounted' \subseteq Uncounted
    BY <1>17 DEF KeysendThrows, GivesBack, Leave, Uncounted
  <2>3. UNCHANGED <<window, crowd>>
    BY <1>17 DEF KeysendThrows, GivesBack, Leave
  <2> QED
    BY <2>1, <2>2, <2>3, CapQuiet
<1>18. ASSUME NEW r \in Requests, Push(r) PROVE CapInv'
  <2>1. Counted' = Counted
    BY <1>18 DEF Push, Leave, Counted
  <2>2. Uncounted' \subseteq Uncounted
    BY <1>18 DEF Push, Leave, Uncounted
  <2>3. UNCHANGED <<window, crowd>>
    BY <1>18 DEF Push, Leave
  <2> QED
    BY <2>1, <2>2, <2>3, CapQuiet
<1>19. ASSUME NEW r \in Requests, Resolve(r) PROVE CapInv'
  <2>1. Counted' = Counted
    BY <1>19 DEF Resolve, Pays, GivesBack, Counted
  <2>2. Uncounted' \subseteq Uncounted
    BY <1>19 DEF Resolve, Pays, GivesBack, Uncounted
  <2>3. UNCHANGED <<window, crowd>>
    BY <1>19 DEF Resolve, Pays, GivesBack
  <2> QED
    BY <2>1, <2>2, <2>3, CapQuiet
<1>20. ASSUME NEW r \in Requests, KeysendHangs(r) PROVE CapInv'
  <2>1. Counted' = Counted
    BY <1>20 DEF KeysendHangs, Counted
  <2>2. Uncounted' \subseteq Uncounted
    BY <1>20 DEF KeysendHangs, Uncounted
  <2>3. UNCHANGED <<window, crowd>>
    BY <1>20 DEF KeysendHangs
  <2> QED
    BY <2>1, <2>2, <2>3, CapQuiet
<1>21. ASSUME NEW r \in Requests, LatePay(r) PROVE CapInv'
  <2>1. Counted' = Counted
    BY <1>21 DEF LatePay, Pays, Counted
  <2>2. Uncounted' \subseteq Uncounted
    BY <1>21 DEF LatePay, Pays, Uncounted
  <2>3. UNCHANGED <<window, crowd>>
    BY <1>21 DEF LatePay, Pays
  <2> QED
    BY <2>1, <2>2, <2>3, CapQuiet
<1>22. ASSUME RefreshRead PROVE CapInv'
  <2>1. Counted' = Counted
    BY <1>22 DEF RefreshRead, Counted
  <2>2. Uncounted' \subseteq Uncounted
    BY <1>22 DEF RefreshRead, Uncounted
  <2>3. UNCHANGED <<window, crowd>>
    BY <1>22 DEF RefreshRead
  <2> QED
    BY <2>1, <2>2, <2>3, CapQuiet
<1>23. ASSUME RefreshWrite PROVE CapInv'
  <2>1. Counted' = Counted
    BY <1>23 DEF RefreshWrite, Counted
  <2>2. Uncounted' \subseteq Uncounted
    BY <1>23 DEF RefreshWrite, Uncounted
  <2>3. UNCHANGED <<window, crowd>>
    BY <1>23 DEF RefreshWrite
  <2> QED
    BY <2>1, <2>2, <2>3, CapQuiet
<1>24. ASSUME Deposit PROVE CapInv'
  <2>1. Counted' = Counted
    BY <1>24 DEF Deposit, Counted
  <2>2. Uncounted' \subseteq Uncounted
    BY <1>24 DEF Deposit, Uncounted
  <2>3. UNCHANGED <<window, crowd>>
    BY <1>24 DEF Deposit
  <2> QED
    BY <2>1, <2>2, <2>3, CapQuiet
<1>25. ASSUME EditRead PROVE CapInv'
  <2>1. Counted' = Counted
    BY <1>25 DEF EditRead, Counted
  <2>2. Uncounted' \subseteq Uncounted
    BY <1>25 DEF EditRead, Uncounted
  <2>3. UNCHANGED <<window, crowd>>
    BY <1>25 DEF EditRead
  <2> QED
    BY <2>1, <2>2, <2>3, CapQuiet
<1>26. ASSUME EditWrite PROVE CapInv'
  <2>1. Counted' = Counted
    BY <1>26 DEF EditWrite, Counted
  <2>2. Uncounted' \subseteq Uncounted
    BY <1>26 DEF EditWrite, Uncounted
  <2>3. UNCHANGED <<window, crowd>>
    BY <1>26 DEF EditWrite
  <2> QED
    BY <2>1, <2>2, <2>3, CapQuiet
<1>27. ASSUME CreditLockExpires PROVE CapInv'
  <2>1. Counted' = Counted
    BY <1>27 DEF CreditLockExpires, Counted
  <2>2. Uncounted' \subseteq Uncounted
    BY <1>27 DEF CreditLockExpires, Uncounted
  <2>3. UNCHANGED <<window, crowd>>
    BY <1>27 DEF CreditLockExpires
  <2> QED
    BY <2>1, <2>2, <2>3, CapQuiet
<1>28. ASSUME Crash PROVE CapInv'
  <2>1. Counted' = Counted
    BY <1>28 DEF Crash, Counted
  <2>2. Uncounted' \subseteq Uncounted
    BY <1>28 DEF Crash, Uncounted
  <2>3. UNCHANGED <<window, crowd>>
    BY <1>28 DEF Crash
  <2> QED
    BY <2>1, <2>2, <2>3, CapQuiet
<1>29. CASE UNCHANGED vars
  BY <1>29, CapQuiet DEF vars, Counted, Uncounted
<1> QED
  BY <1>1, <1>2, <1>3, <1>4, <1>5, <1>6, <1>7, <1>8, <1>9, <1>10, <1>11, <1>12, <1>13, <1>14,
     <1>15, <1>16, <1>17, <1>18, <1>19, <1>20, <1>21, <1>22, <1>23, <1>24, <1>25, <1>26, <1>27,
     <1>28, <1>29 DEF Next, Step

(* What has left the house passes the cap by no more than the withdrawals  *)
(* that overlapped between check and file: CapPassedByOverlapOnly, of      *)
(* assertWithdrawBreaker and recordWithdrawal.                             *)
THEOREM CapOverlap == Spec => []CapPassedByOverlapOnly
<1>1. ASSUME Init PROVE CapInv
  <2>1. Counted = {} /\ Uncounted = {}
    BY <1>1 DEF Init, Counted, Uncounted
  <2>2. Cardinality(Counted) = 0 /\ Cardinality(Uncounted) = 0
    BY <2>1, SetsFinite, FS_EmptySet
  <2>3. window = 0 /\ crowd = 0 /\ Cap \in Nat
    BY <1>1, SpendingAssumption DEF SpendingAssumption, Init
  <2> QED
    BY <2>2, <2>3 DEF CapInv, Slack
<1>2. TypeInv /\ PathInv /\ CapInv => CapPassedByOverlapOnly
  <2> SUFFICES ASSUME TypeInv, PathInv, CapInv PROVE CapPassedByOverlapOnly
    OBVIOUS
  <2> DEFINE withdrawn == {r \in OfKind(External) : charged[r] > 0 /\ record[r] # "none"}
  <2>1. withdrawn \subseteq Counted
    BY DEF OfKind, Counted, PathInv
  <2>2. Cardinality(withdrawn) \in Nat /\ Cardinality(withdrawn) <= Cardinality(Counted)
    BY <2>1, SetsFinite, FS_Subset, FS_CardinalityType
  <2> HIDE DEF withdrawn
  <2>3. Amount * Cardinality(withdrawn)
          <= Cap + (IF crowd > 0 THEN Amount * (crowd - 1) ELSE 0)
    BY <2>2, SetsFinite, SpendingAssumption DEF SpendingAssumption, CapInv, Slack, Amount, TypeInv,
       StoreTyped, RestTyped
  <2> QED
    BY <2>3 DEF withdrawn, CapPassedByOverlapOnly
<1>3. Spec => []CapInv
  BY <1>1, TypeInvHolds, CapNext, PTL DEF Spec
<1> QED
  BY <1>2, <1>3, TypeInvHolds, PTL

-----------------------------------------------------------------------------
(* Transfers between users *)

(* The invoice's lock and count. *)
LEMMA LostNext == ASSUME TypeInv, PathInv, LostInv, [Next]_vars PROVE LostInv'
<1> USE SpendingAssumption DEF SpendingAssumption, TypeInv, LedgerTyped, Most, InvoiceTyped,
      RequestTyped, RestTyped, PathInv, LostInv, Labels, Kinds, External, Amount, At, Goto,
      files, invoice, locks, policy, request, node, bounds
<1>1. ASSUME NEW r \in Requests, Receive(r) PROVE LostInv'
  BY <1>1 DEF Receive, LostOnlyToAnother, Lost
<1>2. ASSUME NEW r \in Requests, CheckBudget(r) PROVE LostInv'
  BY <1>2 DEF CheckBudget, LostOnlyToAnother, Lost
<1>3. ASSUME NEW r \in Requests, Screen(r) PROVE LostInv'
  BY <1>3 DEF Screen, LostOnlyToAnother, Lost, Leave
<1>4. ASSUME NEW r \in Requests, ReadLimit(r) PROVE LostInv'
  BY <1>4, SMTT(60) DEF ReadLimit, LostOnlyToAnother, Lost, Leave
<1>5. ASSUME NEW r \in Requests, Reserve(r) PROVE LostInv'
  BY <1>5 DEF Reserve, LostOnlyToAnother, Lost
<1>6. ASSUME NEW r \in Requests, Load(r) PROVE LostInv'
  BY <1>6 DEF Load, LostOnlyToAnother, Lost, Leave, Total, OverCap
<1>7. ASSUME NEW r \in Requests, ReadFrozen(r) PROVE LostInv'
  BY <1>7 DEF ReadFrozen, LostOnlyToAnother, Lost
<1>8. ASSUME NEW r \in Requests, LedgerCheck(r) PROVE LostInv'
  BY <1>8 DEF LedgerCheck, LostOnlyToAnother, Lost, Leave, Total
<1>9. ASSUME NEW r \in Requests, LedgerMove(r) PROVE LostInv'
  <2>1. CASE balance < Total(r)
    BY <1>9, <2>1 DEF LedgerMove, LostOnlyToAnother, Lost, Leave
  <2>2. CASE ~(balance < Total(r))
    <3>1. Total(r) \in Nat /\ pc[r] = "move" /\ charged[r] = 0
      BY <1>9 DEF LedgerMove, Total
    <3>2. /\ charged' = [charged EXCEPT ![r] = Total(r)]
          /\ pc' \in {[pc EXCEPT ![r] = "count"], [pc EXCEPT ![r] = "record"]}
          /\ UNCHANGED <<kind, paid, received, creditLock, seen>>
      BY <1>9, <2>2 DEF LedgerMove
    <3>3. \A q \in Requests : charged[q] > 0 => charged'[q] > 0 /\ q # r
      BY <3>1, <3>2
    <3>4. \A q \in Requests : pc'[q] \in {"done", "lock", "creditMove", "creditSave", "push"} =>
            q # r /\ pc[q] = pc'[q] /\ charged'[q] = charged[q]
      BY <3>1, <3>2
    <3>5. LostOnlyToAnother'
      BY <3>1, <3>2, <3>3, <3>4 DEF LostOnlyToAnother, Lost
    <3> QED
      BY <3>1, <3>2, <3>3, <3>4, <3>5
  <2> QED
    BY <2>1, <2>2
<1>10. ASSUME NEW r \in Requests, Count(r) PROVE LostInv'
  BY <1>10 DEF Count, LostOnlyToAnother, Lost
<1>11. ASSUME NEW r \in Requests, Record(r) PROVE LostInv'
  BY <1>11 DEF Record, LostOnlyToAnother, Lost
<1>12. ASSUME NEW r \in Requests, CreditLoad(r) PROVE LostInv'
  BY <1>12 DEF CreditLoad, LostOnlyToAnother, Lost
<1>13. ASSUME NEW r \in Requests, CreditLock(r) PROVE LostInv'
  BY <1>13 DEF CreditLock, LostOnlyToAnother, Lost, Leave
<1>14. ASSUME NEW r \in Requests, CreditMove(r) PROVE LostInv'
  BY <1>14 DEF CreditMove, LostOnlyToAnother, Lost
<1>15. ASSUME NEW r \in Requests, CreditSave(r) PROVE LostInv'
  BY <1>15 DEF CreditSave, LostOnlyToAnother, Lost, AfterCredit
<1>16. ASSUME NEW r \in Requests, KeysendPays(r) PROVE LostInv'
  BY <1>16 DEF KeysendPays, LostOnlyToAnother, Lost, Pays, AfterCredit
<1>17. ASSUME NEW r \in Requests, KeysendThrows(r) PROVE LostInv'
  BY <1>17 DEF KeysendThrows, LostOnlyToAnother, Lost, GivesBack, Leave
<1>18. ASSUME NEW r \in Requests, Push(r) PROVE LostInv'
  BY <1>18 DEF Push, LostOnlyToAnother, Lost, Leave
<1>19. ASSUME NEW r \in Requests, Resolve(r) PROVE LostInv'
  BY <1>19 DEF Resolve, LostOnlyToAnother, Lost, Pays, GivesBack
<1>20. ASSUME NEW r \in Requests, KeysendHangs(r) PROVE LostInv'
  BY <1>20 DEF KeysendHangs, LostOnlyToAnother, Lost
<1>21. ASSUME NEW r \in Requests, LatePay(r) PROVE LostInv'
  BY <1>21 DEF LatePay, LostOnlyToAnother, Lost, Pays
<1>22. ASSUME RefreshRead PROVE LostInv'
  BY <1>22 DEF RefreshRead, LostOnlyToAnother, Lost
<1>23. ASSUME RefreshWrite PROVE LostInv'
  BY <1>23 DEF RefreshWrite, LostOnlyToAnother, Lost
<1>24. ASSUME Deposit PROVE LostInv'
  BY <1>24 DEF Deposit, LostOnlyToAnother, Lost
<1>25. ASSUME EditRead PROVE LostInv'
  BY <1>25 DEF EditRead, LostOnlyToAnother, Lost
<1>26. ASSUME EditWrite PROVE LostInv'
  BY <1>26 DEF EditWrite, LostOnlyToAnother, Lost
<1>27. ASSUME CreditLockExpires PROVE LostInv'
  BY <1>27 DEF CreditLockExpires, LostOnlyToAnother, Lost
<1>28. ASSUME Crash PROVE LostInv'
  BY <1>28 DEF Crash, LostOnlyToAnother, Lost
<1>29. CASE UNCHANGED vars
  BY <1>29 DEF vars, LostOnlyToAnother, Lost
<1> QED
  BY <1>1, <1>2, <1>3, <1>4, <1>5, <1>6, <1>7, <1>8, <1>9, <1>10, <1>11, <1>12, <1>13, <1>14,
     <1>15, <1>16, <1>17, <1>18, <1>19, <1>20, <1>21, <1>22, <1>23, <1>24, <1>25, <1>26, <1>27,
     <1>28, <1>29 DEF Next, Step

(* The invoice's lock and count, in every reachable state. *)
LEMMA LostHolds == Spec => []LostInv
<1>1. Init => LostInv
  BY SpendingAssumption DEF SpendingAssumption, Init, LostInv, LostOnlyToAnother, Lost
<1> QED
  BY <1>1, LostNext, TypeInvHolds, PTL DEF Spec

(* A payer whose request ran to its end loses his money only to another    *)
(* payer of the same invoice: LostOnlyToAnother, of sendInternal and       *)
(* credit().                                                               *)
THEOREM NotLost == Spec => []LostOnlyToAnother
<1>1. LostInv => LostOnlyToAnother
  BY DEF LostInv
<1> QED
  BY <1>1, LostHolds, PTL

-----------------------------------------------------------------------------
(* The books *)

(* Who was charged what on the way to credit(). *)
LEMMA TransferNext == ASSUME TypeInv, PathInv, TransferInv, [Next]_vars PROVE TransferInv'
<1> USE SpendingAssumption DEF SpendingAssumption, TypeInv, LedgerTyped, Most, InvoiceTyped,
      RequestTyped, RestTyped, PathInv, TransferInv, Labels, Kinds, External, Amount, At, Goto,
      files, invoice, locks, policy, request, node, bounds
<1>1. ASSUME NEW r \in Requests, Receive(r) PROVE TransferInv'
  BY <1>1 DEF Receive
<1>2. ASSUME NEW r \in Requests, CheckBudget(r) PROVE TransferInv'
  BY <1>2 DEF CheckBudget
<1>3. ASSUME NEW r \in Requests, Screen(r) PROVE TransferInv'
  BY <1>3 DEF Screen, Leave
<1>4. ASSUME NEW r \in Requests, ReadLimit(r) PROVE TransferInv'
  BY <1>4 DEF ReadLimit, Leave
<1>5. ASSUME NEW r \in Requests, Reserve(r) PROVE TransferInv'
  BY <1>5 DEF Reserve
<1>6. ASSUME NEW r \in Requests, Load(r) PROVE TransferInv'
  BY <1>6 DEF Load, Leave, Total, OverCap
<1>7. ASSUME NEW r \in Requests, ReadFrozen(r) PROVE TransferInv'
  BY <1>7 DEF ReadFrozen
<1>8. ASSUME NEW r \in Requests, LedgerCheck(r) PROVE TransferInv'
  BY <1>8 DEF LedgerCheck, Leave, Total
<1>9. ASSUME NEW r \in Requests, LedgerMove(r) PROVE TransferInv'
  BY <1>9 DEF LedgerMove, Leave, Total
<1>10. ASSUME NEW r \in Requests, Count(r) PROVE TransferInv'
  BY <1>10 DEF Count
<1>11. ASSUME NEW r \in Requests, Record(r) PROVE TransferInv'
  BY <1>11 DEF Record
<1>12. ASSUME NEW r \in Requests, CreditLoad(r) PROVE TransferInv'
  BY <1>12 DEF CreditLoad
<1>13. ASSUME NEW r \in Requests, CreditLock(r) PROVE TransferInv'
  BY <1>13 DEF CreditLock, Leave
<1>14. ASSUME NEW r \in Requests, CreditMove(r) PROVE TransferInv'
  BY <1>14 DEF CreditMove
<1>15. ASSUME NEW r \in Requests, CreditSave(r) PROVE TransferInv'
  BY <1>15 DEF CreditSave, AfterCredit
<1>16. ASSUME NEW r \in Requests, KeysendPays(r) PROVE TransferInv'
  BY <1>16 DEF KeysendPays, Pays, AfterCredit
<1>17. ASSUME NEW r \in Requests, KeysendThrows(r) PROVE TransferInv'
  BY <1>17 DEF KeysendThrows, GivesBack, Leave
<1>18. ASSUME NEW r \in Requests, Push(r) PROVE TransferInv'
  BY <1>18 DEF Push, Leave
<1>19. ASSUME NEW r \in Requests, Resolve(r) PROVE TransferInv'
  BY <1>19 DEF Resolve, Pays, GivesBack
<1>20. ASSUME NEW r \in Requests, KeysendHangs(r) PROVE TransferInv'
  BY <1>20 DEF KeysendHangs
<1>21. ASSUME NEW r \in Requests, LatePay(r) PROVE TransferInv'
  BY <1>21 DEF LatePay, Pays
<1>22. ASSUME RefreshRead PROVE TransferInv'
  BY <1>22 DEF RefreshRead
<1>23. ASSUME RefreshWrite PROVE TransferInv'
  BY <1>23 DEF RefreshWrite
<1>24. ASSUME Deposit PROVE TransferInv'
  BY <1>24 DEF Deposit
<1>25. ASSUME EditRead PROVE TransferInv'
  BY <1>25 DEF EditRead
<1>26. ASSUME EditWrite PROVE TransferInv'
  BY <1>26 DEF EditWrite
<1>27. ASSUME CreditLockExpires PROVE TransferInv'
  BY <1>27 DEF CreditLockExpires
<1>28. ASSUME Crash PROVE TransferInv'
  BY <1>28 DEF Crash
<1>29. CASE UNCHANGED vars
  BY <1>29 DEF vars
<1> QED
  BY <1>1, <1>2, <1>3, <1>4, <1>5, <1>6, <1>7, <1>8, <1>9, <1>10, <1>11, <1>12, <1>13, <1>14,
     <1>15, <1>16, <1>17, <1>18, <1>19, <1>20, <1>21, <1>22, <1>23, <1>24, <1>25, <1>26, <1>27,
     <1>28, <1>29 DEF Next, Step

(* A step that moves nothing. *)
LEMMA MintQuiet ==
  ASSUME MintInv, UNCHANGED <<charged, earned, paid, balance, deposits>>,
         \A q \in Requests : record'[q] = "reversed" <=> record[q] = "reversed"
  PROVE  MintInv'
<1>1. Kept(Requests)' = Kept(Requests)
  BY DEF Kept
<1> QED
  BY <1>1 DEF MintInv, ChargedIn

(* A debit that is given back is not kept. *)
LEMMA MintBack ==
  ASSUME TypeInv, MintInv, NEW r \in Requests, GivesBack(r),
         UNCHANGED <<charged, earned, paid, deposits>>
  PROVE  MintInv'
<1> DEFINE K == Kept(Requests)
<1> USE DEF TypeInv, LedgerTyped, StoreTyped
<1>1. r \in K /\ K \in SUBSET Requests /\ Kept(Requests)' = K \ {r}
  BY DEF GivesBack, Kept
<1>2. balance = Opening + deposits - Sum(charged, K)
  BY DEF MintInv, ChargedIn
<1> HIDE DEF K
<1>3. Sum(charged, K) = Sum(charged, K \ {r}) + charged[r]
  BY <1>1, SumRemove
<1>4. Sum(charged, K \ {r}) \in Nat /\ charged[r] \in Nat
  BY <1>1, SumType, SpendingAssumption DEF SpendingAssumption, Most
<1>5. balance' = balance + charged[r]
  BY DEF GivesBack
<1>6. balance' = Opening + deposits - Sum(charged, K \ {r})
  BY <1>2, <1>3, <1>4, <1>5, SpendingAssumption DEF SpendingAssumption, RestTyped
<1> QED
  BY <1>1, <1>6 DEF MintInv, ChargedIn

(* A debit is kept until it is given back. *)
LEMMA MintMove ==
  ASSUME TypeInv, MintInv, NEW r \in Kept(Requests) \ paid, NEW n \in 0 .. Most, charged[r] = 0,
         charged' = [charged EXCEPT ![r] = n], balance' = balance - n,
         UNCHANGED <<earned, paid, deposits, record>>
  PROVE  MintInv'
<1> DEFINE K == Kept(Requests)
<1>1. K \in SUBSET Requests /\ Kept(Requests)' = K /\ r \in K /\ r \in Requests \ paid
  BY DEF Kept
<1>2. charged \in [Requests -> 0 .. Most] /\ paid \in SUBSET Requests
  BY DEF TypeInv, LedgerTyped
<1>3. balance = Opening + deposits - Sum(charged, K) /\ earned = Sum(charged, paid)
  BY DEF MintInv, ChargedIn
<1> HIDE DEF K
<1>4. Sum(charged', K) = Sum(charged, K) + n
  BY <1>1, <1>2, SumGrows, ZenonT(60)
<1>5. Sum(charged', paid) = Sum(charged, paid)
  BY <1>1, <1>2, SumOther, ZenonT(60)
<1>6. Sum(charged, K) \in Int /\ n \in Int /\ deposits \in Int /\ Opening \in Int
  BY <1>1, <1>2, SumType, SpendingAssumption DEF SpendingAssumption, TypeInv, RestTyped
<1>7. balance' = Opening + deposits - Sum(charged', K)
  BY <1>3, <1>4, <1>6
<1> QED
  BY <1>1, <1>3, <1>5, <1>7 DEF MintInv, ChargedIn

(* The owner of the invoice gets what the request was charged. *)
LEMMA MintCredit ==
  ASSUME TypeInv, MintInv, NEW r \in Requests \ paid, paid' = paid \cup {r},
         earned' = earned + charged[r], UNCHANGED <<charged, balance, deposits, record>>
  PROVE  MintInv'
<1>1. charged \in [Requests -> 0 .. Most] /\ paid \in SUBSET Requests
  BY DEF TypeInv, LedgerTyped
<1>2. Sum(charged, paid \cup {r}) = Sum(charged, paid) + charged[r]
  BY <1>1, SumAdd
<1>3. Kept(Requests)' = Kept(Requests)
  BY DEF Kept
<1> QED
  BY <1>2, <1>3 DEF MintInv, ChargedIn

(* The ledger moves what a request was charged, and nothing else. *)
LEMMA MintNext ==
  ASSUME TypeInv, TypeInv', PathInv, TransferInv, MintInv, [Next]_vars PROVE MintInv'
<1> USE SpendingAssumption DEF SpendingAssumption, TypeInv, LedgerTyped, Most, StoreTyped,
      RequestTyped, RestTyped, PathInv, TransferInv, Labels, Kinds, External, Amount, At, Goto,
      files, invoice, locks, policy, request, node, bounds
<1>1. ASSUME NEW r \in Requests, Receive(r) PROVE MintInv'
  <2>1. UNCHANGED <<charged, earned, paid, balance, deposits>>
    BY <1>1 DEF Receive
  <2>2. \A q \in Requests : record'[q] = "reversed" <=> record[q] = "reversed"
    BY <1>1 DEF Receive
  <2> QED
    BY <2>1, <2>2, MintQuiet
<1>2. ASSUME NEW r \in Requests, CheckBudget(r) PROVE MintInv'
  <2>1. UNCHANGED <<charged, earned, paid, balance, deposits>>
    BY <1>2 DEF CheckBudget
  <2>2. \A q \in Requests : record'[q] = "reversed" <=> record[q] = "reversed"
    BY <1>2 DEF CheckBudget
  <2> QED
    BY <2>1, <2>2, MintQuiet
<1>3. ASSUME NEW r \in Requests, Screen(r) PROVE MintInv'
  <2>1. UNCHANGED <<charged, earned, paid, balance, deposits>>
    BY <1>3 DEF Screen, Leave
  <2>2. \A q \in Requests : record'[q] = "reversed" <=> record[q] = "reversed"
    BY <1>3 DEF Screen, Leave
  <2> QED
    BY <2>1, <2>2, MintQuiet
<1>4. ASSUME NEW r \in Requests, ReadLimit(r) PROVE MintInv'
  <2>1. UNCHANGED <<charged, earned, paid, balance, deposits>>
    BY <1>4 DEF ReadLimit, Leave
  <2>2. \A q \in Requests : record'[q] = "reversed" <=> record[q] = "reversed"
    BY <1>4 DEF ReadLimit, Leave
  <2> QED
    BY <2>1, <2>2, MintQuiet
<1>5. ASSUME NEW r \in Requests, Reserve(r) PROVE MintInv'
  <2>1. UNCHANGED <<charged, earned, paid, balance, deposits>>
    BY <1>5 DEF Reserve
  <2>2. \A q \in Requests : record'[q] = "reversed" <=> record[q] = "reversed"
    BY <1>5 DEF Reserve
  <2> QED
    BY <2>1, <2>2, MintQuiet
<1>6. ASSUME NEW r \in Requests, Load(r) PROVE MintInv'
  <2>1. UNCHANGED <<charged, earned, paid, balance, deposits>>
    BY <1>6 DEF Load, Leave, Total, OverCap
  <2>2. \A q \in Requests : record'[q] = "reversed" <=> record[q] = "reversed"
    BY <1>6 DEF Load, Leave, Total, OverCap
  <2> QED
    BY <2>1, <2>2, MintQuiet
<1>7. ASSUME NEW r \in Requests, ReadFrozen(r) PROVE MintInv'
  <2>1. UNCHANGED <<charged, earned, paid, balance, deposits>>
    BY <1>7 DEF ReadFrozen
  <2>2. \A q \in Requests : record'[q] = "reversed" <=> record[q] = "reversed"
    BY <1>7 DEF ReadFrozen
  <2> QED
    BY <2>1, <2>2, MintQuiet
<1>8. ASSUME NEW r \in Requests, LedgerCheck(r) PROVE MintInv'
  <2>1. UNCHANGED <<charged, earned, paid, balance, deposits>>
    BY <1>8 DEF LedgerCheck, Leave, Total
  <2>2. \A q \in Requests : record'[q] = "reversed" <=> record[q] = "reversed"
    BY <1>8 DEF LedgerCheck, Leave, Total
  <2> QED
    BY <2>1, <2>2, MintQuiet
<1>9. ASSUME NEW r \in Requests, LedgerMove(r) PROVE MintInv'
  <2>1. CASE balance < Total(r)
    <3>1. UNCHANGED <<charged, earned, paid, balance, deposits, record>>
      BY <1>9, <2>1 DEF LedgerMove, Leave
    <3> QED
      BY <3>1, MintQuiet
  <2>2. CASE ~(balance < Total(r))
    <3>1. r \in Kept(Requests) \ paid /\ charged[r] = 0 /\ Total(r) \in 0 .. Most
      BY <1>9 DEF LedgerMove, Kept, Total
    <3>2. /\ charged' = [charged EXCEPT ![r] = Total(r)] /\ balance' = balance - Total(r)
          /\ UNCHANGED <<earned, paid, deposits, record>>
      BY <1>9, <2>2 DEF LedgerMove
    <3> QED
      BY <3>1, <3>2, MintMove
  <2> QED
    BY <2>1, <2>2
<1>10. ASSUME NEW r \in Requests, Count(r) PROVE MintInv'
  <2>1. UNCHANGED <<charged, earned, paid, balance, deposits>>
    BY <1>10 DEF Count
  <2>2. \A q \in Requests : record'[q] = "reversed" <=> record[q] = "reversed"
    BY <1>10 DEF Count
  <2> QED
    BY <2>1, <2>2, MintQuiet
<1>11. ASSUME NEW r \in Requests, Record(r) PROVE MintInv'
  <2>1. UNCHANGED <<charged, earned, paid, balance, deposits>>
    BY <1>11 DEF Record
  <2>2. \A q \in Requests : record'[q] = "reversed" <=> record[q] = "reversed"
    BY <1>11 DEF Record
  <2> QED
    BY <2>1, <2>2, MintQuiet
<1>12. ASSUME NEW r \in Requests, CreditLoad(r) PROVE MintInv'
  <2>1. UNCHANGED <<charged, earned, paid, balance, deposits>>
    BY <1>12 DEF CreditLoad
  <2>2. \A q \in Requests : record'[q] = "reversed" <=> record[q] = "reversed"
    BY <1>12 DEF CreditLoad
  <2> QED
    BY <2>1, <2>2, MintQuiet
<1>13. ASSUME NEW r \in Requests, CreditLock(r) PROVE MintInv'
  <2>1. UNCHANGED <<charged, earned, paid, balance, deposits>>
    BY <1>13 DEF CreditLock, Leave
  <2>2. \A q \in Requests : record'[q] = "reversed" <=> record[q] = "reversed"
    BY <1>13 DEF CreditLock, Leave
  <2> QED
    BY <2>1, <2>2, MintQuiet
<1>14. ASSUME NEW r \in Requests, CreditMove(r) PROVE MintInv'
  <2>1. /\ r \in Requests \ paid /\ charged[r] = Amount + tipOf[r]
        /\ paid' = paid \cup {r} /\ earned' = earned + charged[r]
        /\ UNCHANGED <<charged, balance, deposits, record>>
    BY <1>14 DEF CreditMove
  <2> QED
    BY <2>1, MintCredit
<1>15. ASSUME NEW r \in Requests, CreditSave(r) PROVE MintInv'
  <2>1. UNCHANGED <<charged, earned, paid, balance, deposits>>
    BY <1>15 DEF CreditSave, AfterCredit
  <2>2. \A q \in Requests : record'[q] = "reversed" <=> record[q] = "reversed"
    BY <1>15 DEF CreditSave, AfterCredit
  <2> QED
    BY <2>1, <2>2, MintQuiet
<1>16. ASSUME NEW r \in Requests, KeysendPays(r) PROVE MintInv'
  <2>1. UNCHANGED <<charged, earned, paid, balance, deposits>>
    BY <1>16 DEF KeysendPays, Pays, AfterCredit
  <2>2. \A q \in Requests : record'[q] = "reversed" <=> record[q] = "reversed"
    BY <1>16 DEF KeysendPays, Pays, AfterCredit
  <2> QED
    BY <2>1, <2>2, MintQuiet
<1>17. ASSUME NEW r \in Requests, KeysendThrows(r) PROVE MintInv'
  <2>1. CASE GivesBack(r)
    BY <1>17, <2>1, MintBack DEF KeysendThrows
  <2>2. CASE ~GivesBack(r)
    <3>1. UNCHANGED <<charged, earned, paid, balance, deposits>>
      BY <1>17, <2>2 DEF KeysendThrows
    <3>2. \A q \in Requests : record'[q] = "reversed" <=> record[q] = "reversed"
      BY <1>17, <2>2 DEF KeysendThrows
    <3> QED
      BY <3>1, <3>2, MintQuiet
  <2> QED
    BY <2>1, <2>2
<1>18. ASSUME NEW r \in Requests, Push(r) PROVE MintInv'
  <2>1. UNCHANGED <<charged, earned, paid, balance, deposits>>
    BY <1>18 DEF Push, Leave
  <2>2. \A q \in Requests : record'[q] = "reversed" <=> record[q] = "reversed"
    BY <1>18 DEF Push, Leave
  <2> QED
    BY <2>1, <2>2, MintQuiet
<1>19. ASSUME NEW r \in Requests, Resolve(r) PROVE MintInv'
  <2>1. CASE GivesBack(r)
    BY <1>19, <2>1, MintBack DEF Resolve
  <2>2. CASE ~GivesBack(r)
    <3>1. UNCHANGED <<charged, earned, paid, balance, deposits>>
      BY <1>19, <2>2 DEF Resolve
    <3>2. \A q \in Requests : record'[q] = "reversed" <=> record[q] = "reversed"
      BY <1>19, <2>2 DEF Resolve, Pays
    <3> QED
      BY <3>1, <3>2, MintQuiet
  <2> QED
    BY <2>1, <2>2
<1>20. ASSUME NEW r \in Requests, KeysendHangs(r) PROVE MintInv'
  <2>1. UNCHANGED <<charged, earned, paid, balance, deposits>>
    BY <1>20 DEF KeysendHangs
  <2>2. \A q \in Requests : record'[q] = "reversed" <=> record[q] = "reversed"
    BY <1>20 DEF KeysendHangs
  <2> QED
    BY <2>1, <2>2, MintQuiet
<1>21. ASSUME NEW r \in Requests, LatePay(r) PROVE MintInv'
  <2>1. UNCHANGED <<charged, earned, paid, balance, deposits>>
    BY <1>21 DEF LatePay, Pays
  <2>2. \A q \in Requests : record'[q] = "reversed" <=> record[q] = "reversed"
    BY <1>21 DEF LatePay, Pays
  <2> QED
    BY <2>1, <2>2, MintQuiet
<1>22. ASSUME RefreshRead PROVE MintInv'
  <2>1. UNCHANGED <<charged, earned, paid, balance, deposits>>
    BY <1>22 DEF RefreshRead
  <2>2. \A q \in Requests : record'[q] = "reversed" <=> record[q] = "reversed"
    BY <1>22 DEF RefreshRead
  <2> QED
    BY <2>1, <2>2, MintQuiet
<1>23. ASSUME RefreshWrite PROVE MintInv'
  <2>1. UNCHANGED <<charged, earned, paid, balance, deposits>>
    BY <1>23 DEF RefreshWrite
  <2>2. \A q \in Requests : record'[q] = "reversed" <=> record[q] = "reversed"
    BY <1>23 DEF RefreshWrite
  <2> QED
    BY <2>1, <2>2, MintQuiet
<1>24. ASSUME Deposit PROVE MintInv'
  <2>1. ChargedIn(paid)' = ChargedIn(paid)
    BY <1>24 DEF Deposit, ChargedIn
  <2>2. ChargedIn(Kept(Requests))' = ChargedIn(Kept(Requests))
    BY <1>24 DEF Deposit, ChargedIn, Kept
  <2>3. ChargedIn(Kept(Requests)) \in Nat
    BY SumType DEF ChargedIn, Kept
  <2> QED
    BY <1>24, <2>1, <2>2, <2>3 DEF Deposit, MintInv
<1>25. ASSUME EditRead PROVE MintInv'
  <2>1. UNCHANGED <<charged, earned, paid, balance, deposits>>
    BY <1>25 DEF EditRead
  <2>2. \A q \in Requests : record'[q] = "reversed" <=> record[q] = "reversed"
    BY <1>25 DEF EditRead
  <2> QED
    BY <2>1, <2>2, MintQuiet
<1>26. ASSUME EditWrite PROVE MintInv'
  <2>1. UNCHANGED <<charged, earned, paid, balance, deposits>>
    BY <1>26 DEF EditWrite
  <2>2. \A q \in Requests : record'[q] = "reversed" <=> record[q] = "reversed"
    BY <1>26 DEF EditWrite
  <2> QED
    BY <2>1, <2>2, MintQuiet
<1>27. ASSUME CreditLockExpires PROVE MintInv'
  <2>1. UNCHANGED <<charged, earned, paid, balance, deposits>>
    BY <1>27 DEF CreditLockExpires
  <2>2. \A q \in Requests : record'[q] = "reversed" <=> record[q] = "reversed"
    BY <1>27 DEF CreditLockExpires
  <2> QED
    BY <2>1, <2>2, MintQuiet
<1>28. ASSUME Crash PROVE MintInv'
  <2>1. UNCHANGED <<charged, earned, paid, balance, deposits>>
    BY <1>28 DEF Crash
  <2>2. \A q \in Requests : record'[q] = "reversed" <=> record[q] = "reversed"
    BY <1>28 DEF Crash
  <2> QED
    BY <2>1, <2>2, MintQuiet
<1>29. CASE UNCHANGED vars
  BY <1>29, MintQuiet DEF vars
<1> QED
  BY <1>1, <1>2, <1>3, <1>4, <1>5, <1>6, <1>7, <1>8, <1>9, <1>10, <1>11, <1>12, <1>13, <1>14,
     <1>15, <1>16, <1>17, <1>18, <1>19, <1>20, <1>21, <1>22, <1>23, <1>24, <1>25, <1>26, <1>27,
     <1>28, <1>29 DEF Next, Step

(* A transfer mints nothing: the owner of the invoice has what its payers   *)
(* were charged, and the user the rest, whatever happens to the tip or to a *)
(* request between debit() and credit(): NothingMinted.                     *)
THEOREM NothingIsMinted == Spec => []NothingMinted
<1>1. ASSUME Init PROVE TransferInv /\ MintInv
  <2> USE <1>1 DEF Init
  <2>1. \A S \in SUBSET Requests : Sum(charged, S) = 0
    <3> SUFFICES ASSUME NEW S \in SUBSET Requests PROVE Sum(charged, S) = 0
      OBVIOUS
    <3>1. Units(charged, S) = {}
      BY DEF Units
    <3> QED
      BY <3>1, FS_EmptySet DEF Sum
  <2>2. Kept(Requests) \in SUBSET Requests
    BY DEF Kept
  <2>3. MintInv
    BY <2>1, <2>2, SpendingAssumption DEF SpendingAssumption, MintInv, ChargedIn
  <2>4. TransferInv
    BY DEF TransferInv
  <2> QED
    BY <2>3, <2>4
<1>2. TypeInv /\ LostInv /\ MintInv => NothingMinted
  <2> SUFFICES ASSUME TypeInv, LostInv, MintInv PROVE NothingMinted
    OBVIOUS
  <2>1. paid \subseteq OfKind({"internal"}) /\ OfKind({"internal"}) \subseteq Requests
    BY DEF LostInv, OfKind, TypeInv, LedgerTyped
  <2>2. Sum(charged, paid) <= Sum(charged, OfKind({"internal"}))
    BY <2>1, SumSubset DEF TypeInv, LedgerTyped
  <2> QED
    BY <2>2 DEF MintInv, NothingMinted, ChargedIn
<1>3. Spec => []LostInv
  BY LostHolds
<1> QED
  BY <1>1, <1>2, <1>3, TypeInvHolds, TransferNext, MintNext, PTL DEF Spec

-----------------------------------------------------------------------------
(* The budget of an app *)

(* What the budget counts is a number. *)
LEMMA SpentType == ASSUME TypeInv PROVE Spent \in Nat
<1>1. {r \in pushed : record[r] # "reversed"} \in SUBSET Requests
  BY DEF TypeInv, StoreTyped
<1> QED
  BY <1>1, SumType DEF Spent, TypeInv, LedgerTyped

(* A step that charges nobody and adds nothing to the app's list. *)
LEMMA SpentQuiet ==
  ASSUME TypeInv, TypeInv', UNCHANGED <<charged, pushed>>,
         \A q \in Requests : record[q] = "reversed" => record'[q] = "reversed"
  PROVE  Spent' \in Nat /\ Spent' <= Spent
<1> DEFINE S == {r \in pushed : record[r] # "reversed"}
           T == {r \in pushed : record'[r] # "reversed"}
<1>1. S \in SUBSET Requests /\ T \in SUBSET Requests /\ T \subseteq S
  BY DEF TypeInv, StoreTyped
<1>2. Spent = Sum(charged, S) /\ Spent' = Sum(charged, T)
  BY DEF Spent
<1> HIDE DEF S, T
<1>3. Sum(charged, T) <= Sum(charged, S) /\ Sum(charged, T) \in Nat
  BY <1>1, SumSubset, SumType DEF TypeInv, LedgerTyped
<1> QED
  BY <1>2, <1>3

(* What is not in the list does not count. *)
LEMMA SpentOther ==
  ASSUME TypeInv, NEW r \in Requests \ pushed, NEW n,
         charged' = [charged EXCEPT ![r] = n], UNCHANGED <<pushed, record>>
  PROVE  Spent' = Spent
<1> DEFINE S == {q \in pushed : record[q] # "reversed"}
<1>1. S \in SUBSET Requests /\ r \in Requests \ S /\ charged \in [Requests -> 0 .. Most]
  BY DEF TypeInv, StoreTyped, LedgerTyped
<1>2. Spent = Sum(charged, S) /\ Spent' = Sum(charged', S)
  BY DEF Spent
<1> HIDE DEF S
<1> QED
  BY <1>1, <1>2, SumOther

(* One more in the list. *)
LEMMA SpentPush ==
  ASSUME TypeInv, NEW r \in Requests \ pushed, pushed' = pushed \cup {r},
         UNCHANGED <<charged, record>>
  PROVE  Spent' \in Nat /\ Spent' <= Spent + charged[r]
<1> DEFINE S == {q \in pushed : record[q] # "reversed"}
           T == {q \in pushed \cup {r} : record[q] # "reversed"}
<1>1. /\ S \in SUBSET Requests /\ T \in SUBSET Requests /\ S \cup {r} \in SUBSET Requests
      /\ r \in Requests \ S /\ T \subseteq S \cup {r} /\ charged \in [Requests -> 0 .. Most]
  BY DEF TypeInv, StoreTyped, LedgerTyped
<1>2. Spent = Sum(charged, S) /\ Spent' = Sum(charged, T)
  BY DEF Spent
<1> HIDE DEF S, T
<1>3. Sum(charged, T) \in Nat /\ Sum(charged, T) <= Sum(charged, S \cup {r})
  BY <1>1, SumType, SumSubset
<1>4. Sum(charged, S \cup {r}) = Sum(charged, S) + charged[r]
  BY <1>1, SumAdd
<1> QED
  BY <1>2, <1>3, <1>4

(* The lock leaves an app one request at a time between the check of its      *)
(* budget and the list that the next check counts.                            *)
LEMMA BudgetNext ==
  ASSUME TypeInv, TypeInv', PathInv, BudgetInv, [Next]_vars PROVE BudgetInv'
<1> USE SpendingAssumption, SpentType DEF SpendingAssumption, TypeInv, LedgerTyped, Most, StoreTyped,
      RequestTyped, RestTyped, PathInv, BudgetInv, RoomFor, Inside, Labels, Kinds, External, Amount, Total,
      At, Goto, files, invoice, locks, policy, request, node, bounds
<1>1. ASSUME NEW r \in Requests, Receive(r) PROVE BudgetInv'
  <2>1. Spent' \in Nat /\ Spent' <= Spent
    BY <1>1, SpentQuiet DEF Receive
  <2> QED
    BY <1>1, <2>1 DEF Receive
<1>2. ASSUME NEW r \in Requests, CheckBudget(r) PROVE BudgetInv'
  <2>1. Spent \in Nat /\ Spent' = Spent
    BY <1>2, SpentType DEF CheckBudget, Spent
  <2> QED
    BY <1>2, <2>1 DEF CheckBudget
<1>3. ASSUME NEW r \in Requests, Screen(r) PROVE BudgetInv'
  <2>1. Spent' \in Nat /\ Spent' <= Spent
    BY <1>3, SpentQuiet DEF Screen, Leave
  <2> QED
    BY <1>3, <2>1 DEF Screen, Leave
<1>4. ASSUME NEW r \in Requests, ReadLimit(r) PROVE BudgetInv'
  <2>1. Spent' \in Nat /\ Spent' <= Spent
    BY <1>4, SpentQuiet DEF ReadLimit, Leave
  <2> QED
    BY <1>4, <2>1 DEF ReadLimit, Leave
<1>5. ASSUME NEW r \in Requests, Reserve(r) PROVE BudgetInv'
  <2>1. Spent' \in Nat /\ Spent' <= Spent
    BY <1>5, SpentQuiet DEF Reserve
  <2> QED
    BY <1>5, <2>1 DEF Reserve
<1>6. ASSUME NEW r \in Requests, Load(r) PROVE BudgetInv'
  <2>1. Spent' \in Nat /\ Spent' <= Spent
    BY <1>6, SpentQuiet DEF Load, Leave, Total, OverCap
  <2> QED
    BY <1>6, <2>1 DEF Load, Leave, Total, OverCap
<1>7. ASSUME NEW r \in Requests, ReadFrozen(r) PROVE BudgetInv'
  <2>1. Spent' \in Nat /\ Spent' <= Spent
    BY <1>7, SpentQuiet DEF ReadFrozen
  <2> QED
    BY <1>7, <2>1 DEF ReadFrozen
<1>8. ASSUME NEW r \in Requests, LedgerCheck(r) PROVE BudgetInv'
  <2>1. Spent' \in Nat /\ Spent' <= Spent
    BY <1>8, SpentQuiet DEF LedgerCheck, Leave, Total
  <2> QED
    BY <1>8, <2>1 DEF LedgerCheck, Leave, Total
<1>9. ASSUME NEW r \in Requests, LedgerMove(r) PROVE BudgetInv'
  <2>1. CASE balance < Total(r)
    <3>1. Spent' \in Nat /\ Spent' <= Spent
      BY <1>9, <2>1, SpentQuiet DEF LedgerMove, Leave
    <3> QED
      BY <1>9, <2>1, <3>1 DEF LedgerMove, Leave
  <2>2. CASE ~(balance < Total(r))
    <3>1. /\ charged[r] = 0 /\ r \notin dead /\ pc[r] = "move" /\ pc[r] \in Inside
          /\ Total(r) \in Nat /\ Total(r) # 0 /\ r \notin pushed
      BY <1>9, SMTT(60) DEF LedgerMove
    <3>2. /\ charged' = [charged EXCEPT ![r] = Total(r)]
          /\ \A q \in Requests \ {r} : pc'[q] = pc[q]
          /\ pc'[r] \notin {"freeze", "check", "move"}
          /\ UNCHANGED <<app, dead, pushed, record, budgetLock, remaining, kind, tipOf>>
      BY <1>9, <2>2 DEF LedgerMove
    <3>3. Spent' = Spent
      BY <3>1, <3>2, SpentOther
    <3>4. app[r] => budgetLock = r /\ remaining[r] # None /\ Spent + remaining[r] <= Budget
                      /\ Total(r) <= remaining[r]
      BY <3>1
    <3>5. Spent \in Nat /\ remaining[r] \in Nat \cup {None}
      BY SpentType
    <3> DEFINE t == Total(r)
    <3> HIDE DEF t
    <3>6. app[r] => Spent + t <= Budget /\ budgetLock = r /\ remaining[r] # None
      BY <3>1, <3>4, <3>5 DEF t
    <3>7. charged'[r] = t /\ t # 0 /\ \A q \in Requests \ {r} : charged'[q] = charged[q]
      BY <3>1, <3>2 DEF t
    <3>8. \A q \in Requests \ {r} : Total(q)' = Total(q)
      BY <3>2
    <3>9. \A q \in Requests \ {r} : app[q] => RoomFor(q)'
      BY <3>2, <3>3, <3>7, <3>8
    <3>10. app[r] => RoomFor(r)'
      BY <3>1, <3>2, <3>3, <3>6, <3>7
    <3> HIDE DEF RoomFor
    <3>11. \A q \in Requests : app'[q] => RoomFor(q)'
      BY <3>2, <3>9, <3>10
    <3>12. \A q \in Requests : q \in pushed' \/ pc'[q] = "push" => app'[q]
      BY <1>9, <3>2 DEF LedgerMove
    <3> QED
      BY <3>3, <3>11, <3>12
  <2> QED
    BY <2>1, <2>2
<1>10. ASSUME NEW r \in Requests, Count(r) PROVE BudgetInv'
  <2>1. Spent' \in Nat /\ Spent' <= Spent
    BY <1>10, SpentQuiet DEF Count
  <2> QED
    BY <1>10, <2>1 DEF Count
<1>11. ASSUME NEW r \in Requests, Record(r) PROVE BudgetInv'
  <2>1. Spent' \in Nat /\ Spent' <= Spent
    BY <1>11, SpentQuiet DEF Record
  <2> QED
    BY <1>11, <2>1 DEF Record
<1>12. ASSUME NEW r \in Requests, CreditLoad(r) PROVE BudgetInv'
  <2>1. Spent' \in Nat /\ Spent' <= Spent
    BY <1>12, SpentQuiet DEF CreditLoad
  <2> QED
    BY <1>12, <2>1 DEF CreditLoad
<1>13. ASSUME NEW r \in Requests, CreditLock(r) PROVE BudgetInv'
  <2>1. Spent' \in Nat /\ Spent' <= Spent
    BY <1>13, SpentQuiet DEF CreditLock, Leave
  <2> QED
    BY <1>13, <2>1 DEF CreditLock, Leave
<1>14. ASSUME NEW r \in Requests, CreditMove(r) PROVE BudgetInv'
  <2>1. Spent' \in Nat /\ Spent' <= Spent
    BY <1>14, SpentQuiet DEF CreditMove
  <2> QED
    BY <1>14, <2>1 DEF CreditMove
<1>15. ASSUME NEW r \in Requests, CreditSave(r) PROVE BudgetInv'
  <2>1. Spent' \in Nat /\ Spent' <= Spent
    BY <1>15, SpentQuiet DEF CreditSave, AfterCredit
  <2> QED
    BY <1>15, <2>1 DEF CreditSave, AfterCredit
<1>16. ASSUME NEW r \in Requests, KeysendPays(r) PROVE BudgetInv'
  <2>1. Spent' \in Nat /\ Spent' <= Spent
    BY <1>16, SpentQuiet DEF KeysendPays, Pays, AfterCredit
  <2> QED
    BY <1>16, <2>1 DEF KeysendPays, Pays, AfterCredit
<1>17. ASSUME NEW r \in Requests, KeysendThrows(r) PROVE BudgetInv'
  <2>1. Spent' \in Nat /\ Spent' <= Spent
    BY <1>17, SpentQuiet DEF KeysendThrows, GivesBack, Leave
  <2> QED
    BY <1>17, <2>1 DEF KeysendThrows, GivesBack, Leave
<1>18. ASSUME NEW r \in Requests, Push(r) PROVE BudgetInv'
  <2>1. /\ At(r, "push") /\ pushed' = pushed \cup {r} /\ Leave(r)
        /\ UNCHANGED <<app, dead, charged, record, remaining, kind, tipOf>>
    BY <1>18 DEF Push
  <2>2. app[r] /\ Spent + charged[r] <= Budget /\ budgetLock = r /\ r \notin pushed
    BY <2>1, SMTT(60)
  <2>3. Spent' <= Spent + charged[r] /\ Spent' \in Nat
    BY <2>1, <2>2, SpentPush
  <2>4. Spent' <= Budget
    BY <2>1, <2>2, <2>3
  <2> QED
    BY <2>1, <2>2, <2>4 DEF Leave
<1>19. ASSUME NEW r \in Requests, Resolve(r) PROVE BudgetInv'
  <2>1. Spent' \in Nat /\ Spent' <= Spent
    BY <1>19, SpentQuiet DEF Resolve, Pays, GivesBack
  <2> QED
    BY <1>19, <2>1 DEF Resolve, Pays, GivesBack
<1>20. ASSUME NEW r \in Requests, KeysendHangs(r) PROVE BudgetInv'
  <2>1. Spent' \in Nat /\ Spent' <= Spent
    BY <1>20, SpentQuiet DEF KeysendHangs
  <2> QED
    BY <1>20, <2>1 DEF KeysendHangs
<1>21. ASSUME NEW r \in Requests, LatePay(r) PROVE BudgetInv'
  <2>1. Spent' \in Nat /\ Spent' <= Spent
    BY <1>21, SpentQuiet DEF LatePay, Pays
  <2> QED
    BY <1>21, <2>1 DEF LatePay, Pays
<1>22. ASSUME RefreshRead PROVE BudgetInv'
  <2>1. Spent' \in Nat /\ Spent' <= Spent
    BY <1>22, SpentQuiet DEF RefreshRead
  <2> QED
    BY <1>22, <2>1 DEF RefreshRead
<1>23. ASSUME RefreshWrite PROVE BudgetInv'
  <2>1. Spent' \in Nat /\ Spent' <= Spent
    BY <1>23, SpentQuiet DEF RefreshWrite
  <2> QED
    BY <1>23, <2>1 DEF RefreshWrite
<1>24. ASSUME Deposit PROVE BudgetInv'
  <2>1. Spent' \in Nat /\ Spent' <= Spent
    BY <1>24, SpentQuiet DEF Deposit
  <2> QED
    BY <1>24, <2>1 DEF Deposit
<1>25. ASSUME EditRead PROVE BudgetInv'
  <2>1. Spent' \in Nat /\ Spent' <= Spent
    BY <1>25, SpentQuiet DEF EditRead
  <2> QED
    BY <1>25, <2>1 DEF EditRead
<1>26. ASSUME EditWrite PROVE BudgetInv'
  <2>1. Spent' \in Nat /\ Spent' <= Spent
    BY <1>26, SpentQuiet DEF EditWrite
  <2> QED
    BY <1>26, <2>1 DEF EditWrite
<1>27. ASSUME CreditLockExpires PROVE BudgetInv'
  <2>1. Spent' \in Nat /\ Spent' <= Spent
    BY <1>27, SpentQuiet DEF CreditLockExpires
  <2> QED
    BY <1>27, <2>1 DEF CreditLockExpires
<1>28. ASSUME Crash PROVE BudgetInv'
  <2>1. Spent' \in Nat /\ Spent' <= Spent
    BY <1>28, SpentQuiet DEF Crash
  <2> QED
    BY <1>28, <2>1 DEF Crash
<1>29. CASE UNCHANGED vars
  BY <1>29, SpentQuiet DEF vars, Total
<1> QED
  BY <1>1, <1>2, <1>3, <1>4, <1>5, <1>6, <1>7, <1>8, <1>9, <1>10, <1>11, <1>12, <1>13, <1>14,
     <1>15, <1>16, <1>17, <1>18, <1>19, <1>20, <1>21, <1>22, <1>23, <1>24, <1>25, <1>26, <1>27,
     <1>28, <1>29 DEF Next, Step

(* An app spends no more than its budget, however many of its requests     *)
(* arrive at once, but for what the budget cannot see: BudgetHolds, of     *)
(* withBudgetLock and checkBudget.                                         *)
THEOREM BudgetKept == Spec => []BudgetHolds
<1>1. ASSUME Init PROVE BudgetInv
  <2>1. Units(charged, {r \in pushed : record[r] # "reversed"}) = {}
    BY <1>1 DEF Init, Units
  <2>2. Spent = 0
    BY <2>1, FS_EmptySet DEF Spent, Sum
  <2> QED
    BY <1>1, <2>2, SpendingAssumption DEF SpendingAssumption, Init, BudgetInv, RoomFor, Inside
<1>2. TypeInv /\ PathInv /\ BudgetInv => BudgetHolds
  <2> SUFFICES ASSUME TypeInv, PathInv, BudgetInv PROVE BudgetHolds
    OBVIOUS
  <2> DEFINE A == Kept({r \in Requests : app[r]} \ Unseen)
             S == {r \in pushed : record[r] # "reversed"}
  <2>1. A \in SUBSET Requests /\ S \in SUBSET Requests /\ charged \in [Requests -> 0 .. Most]
    BY DEF Kept, TypeInv, StoreTyped, LedgerTyped
  <2>2. Spent = Sum(charged, S) /\ Spent <= Budget
    BY DEF Spent, BudgetInv
  <2>3. \A r \in A \ S : charged[r] = 0
          \/ (app[r] /\ r \notin dead /\ pc[r] \in Inside /\ r \notin S)
    BY DEF Kept, Unseen, PathInv, Inside, TypeInv, RequestTyped
  <2>4. \A r \in A \ S : charged[r] = 0 \/ (r = budgetLock /\ Spent + charged[r] <= Budget)
    BY <2>1, <2>3 DEF BudgetInv, RoomFor
  <2> HIDE DEF A, S
  <2>5. CASE \A r \in A \ S : charged[r] = 0
    <3>1. Sum(charged, A) <= Sum(charged, S)
      BY <2>1, <2>5, SumSubset
    <3>2. Sum(charged, A) \in Nat /\ Sum(charged, S) \in Nat /\ Budget \in Nat
      BY <2>1, SumType, SpendingAssumption DEF SpendingAssumption
    <3> QED
      BY <2>2, <3>1, <3>2 DEF A, BudgetHolds, ChargedIn
  <2>6. ASSUME NEW h \in A \ S, charged[h] # 0 PROVE BudgetHolds
    <3>1. h = budgetLock /\ Spent + charged[h] <= Budget
      BY <2>4, <2>6
    <3>2. \A r \in A \ (S \cup {h}) : charged[r] = 0
      BY <2>4, <3>1
    <3>3. S \cup {h} \in SUBSET Requests /\ h \in Requests \ S
      BY <2>1
    <3>4. Sum(charged, A) <= Sum(charged, S \cup {h})
      BY <2>1, <3>2, <3>3, SumSubset
    <3>5. Sum(charged, S \cup {h}) = Sum(charged, S) + charged[h]
      BY <2>1, <3>3, SumAdd
    <3>6. /\ Sum(charged, A) \in Nat /\ Sum(charged, S) \in Nat /\ Budget \in Nat
          /\ charged[h] \in Int
      BY <2>1, <3>3, SumType, SpendingAssumption DEF SpendingAssumption
    <3> QED
      BY <2>2, <3>1, <3>4, <3>5, <3>6 DEF A, BudgetHolds, ChargedIn
  <2> QED
    BY <2>5, <2>6
<1> QED
  BY <1>1, <1>2, TypeInvHolds, BudgetNext, PTL DEF Spec
=============================================================================
