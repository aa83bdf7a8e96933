------------------------------ MODULE LedgerProofs ------------------------------
(***************************************************************************)
(* Theorems about the ledger and its conversions, and about the funds that *)
(* are kept on it: for any number of payments, requests, failing calls,    *)
(* flags and restarts, any amounts and any rates.                          *)
(***************************************************************************)
EXTENDS Funds, Migrations, FiniteSetTheorems, TLAPS

-----------------------------------------------------------------------------
(* FUNDS *)

(* A request goes the way of its kind. *)
PathInv ==
  /\ \A r \in Requests :
       /\ pc[r] \in {"managers", "read", "claim", "charge", "fill", "mark", "release",
                     "debit", "credit"} => kind[r] = "take"
       /\ pc[r] = "start" => r \notin served \cup inflight
       /\ pc[r] \in {"give", "giveFill"} => kind[r] = "give"
       /\ pc[r] \in {"token", "gate", "payDebit", "xpay", "note", "giveBack"} =>
            kind[r] = "withdraw"
  /\ \A r \in inflight : kind[r] = "withdraw"
  /\ \A r \in served : kind[r] \in {"take", "withdraw"}

(* Who works on the authorization holds the claim, and while the founder is *)
(* not charged for it there is room for one charge.                         *)
Uncharged == claim = None \/ \E r \in Requests : claim = r /\ pc[r] \in {"charge", "release"}

ClaimInv ==
  /\ \A r \in Requests : pc[r] \in {"charge", "fill", "mark", "release"} => claim = r
  /\ charged <= 1 + faults
  /\ Uncharged => charged <= faults

(* The withdrawals that got past the token, of which there is one. *)
Past ==
  {r \in Requests : kind[r] = "withdraw" /\
     (pc[r] \in {"gate", "payDebit", "xpay", "note", "giveBack"} \/ r \in inflight \/ r \in served)}

TokenInv ==
  /\ token = "live" => Past = {}
  /\ \A r, q \in Past : r = q

(* A late request gets no further than the switches, unless its taker is on *)
(* the whitelist.                                                           *)
ClosedInv ==
  \A r \in closed :
    /\ disabled
    /\ kind[r] = "take" => role[r] = "whitelisted" \/ (pc[r] = "done" /\ r \notin served)
    /\ kind[r] = "withdraw" =>
         pc[r] \in {"token", "gate", "done"} /\ r \notin served /\ r \notin inflight

(* What has left one account and not reached the next. *)
Transit == {r \in Requests : pc[r] \in {"fill", "giveFill", "credit", "xpay", "giveBack"}}

MoneyInv == founder + fund + out + Cardinality(Transit) <= Opening + Filled + late

-----------------------------------------------------------------------------
(* Types *)

(* Every step keeps the types. *)
LEMMA TypeNext == ASSUME TypeOK, [Next]_vars PROVE TypeOK'
<1> USE FundsAssumption DEF FundsAssumption, TypeOK, Labels, Kinds, Roles, At, Goto, money, redis,
      gates, request, bounds
<1>1. ASSUME NEW r \in Requests, TakeStart(r) PROVE TypeOK'
  BY <1>1 DEF TakeStart
<1>2. ASSUME NEW r \in Requests, TakeManagers(r) PROVE TypeOK'
  BY <1>2 DEF TakeManagers
<1>3. ASSUME NEW r \in Requests, TakeRead(r) PROVE TypeOK'
  BY <1>3 DEF TakeRead
<1>4. ASSUME NEW r \in Requests, TakeClaim(r) PROVE TypeOK'
  BY <1>4 DEF TakeClaim
<1>5. ASSUME NEW r \in Requests, TakeCharge(r) PROVE TypeOK'
  BY <1>5 DEF TakeCharge
<1>6. ASSUME NEW r \in Requests, TakeFill(r) PROVE TypeOK'
  BY <1>6 DEF TakeFill
<1>7. ASSUME NEW r \in Requests, TakeMark(r) PROVE TypeOK'
  BY <1>7 DEF TakeMark
<1>8. ASSUME NEW r \in Requests, TakeRelease(r) PROVE TypeOK'
  BY <1>8 DEF TakeRelease
<1>9. ASSUME NEW r \in Requests, TakeDebit(r) PROVE TypeOK'
  BY <1>9 DEF TakeDebit
<1>10. ASSUME NEW r \in Requests, TakeCredit(r) PROVE TypeOK'
  BY <1>10 DEF TakeCredit
<1>11. ASSUME NEW r \in Requests, TakeFails(r) PROVE TypeOK'
  BY <1>11 DEF TakeFails
<1>12. ASSUME NEW r \in Requests, GiveStart(r) PROVE TypeOK'
  BY <1>12 DEF GiveStart
<1>13. ASSUME NEW r \in Requests, GiveDebit(r) PROVE TypeOK'
  BY <1>13 DEF GiveDebit
<1>14. ASSUME NEW r \in Requests, GiveFill(r) PROVE TypeOK'
  BY <1>14 DEF GiveFill
<1>15. ASSUME NEW r \in Requests, PayStart(r) PROVE TypeOK'
  BY <1>15 DEF PayStart
<1>16. ASSUME NEW r \in Requests, PayToken(r) PROVE TypeOK'
  BY <1>16 DEF PayToken
<1>17. ASSUME NEW r \in Requests, PayGate(r) PROVE TypeOK'
  BY <1>17 DEF PayGate
<1>18. ASSUME NEW r \in Requests, PayDebit(r) PROVE TypeOK'
  BY <1>18 DEF PayDebit
<1>19. ASSUME NEW r \in Requests, PaySettles(r) PROVE TypeOK'
  BY <1>19 DEF PaySettles
<1>19a. ASSUME NEW r \in Requests, PayNoted(r) PROVE TypeOK'
  BY <1>19a DEF PayNoted
<1>19b. ASSUME NEW r \in Requests, PayNoteFails(r) PROVE TypeOK'
  BY <1>19b DEF PayNoteFails
<1>20. ASSUME NEW r \in Requests, PayThrows(r) PROVE TypeOK'
  BY <1>20 DEF PayThrows
<1>21. ASSUME NEW r \in Requests, PayGiveBack(r) PROVE TypeOK'
  BY <1>21 DEF PayGiveBack
<1>22. ASSUME NEW r \in Requests, PaysLate(r) PROVE TypeOK'
  BY <1>22 DEF PaysLate
<1>23. ASSUME RevokeRead PROVE TypeOK'
  BY <1>23 DEF RevokeRead
<1>24. ASSUME RevokeDelete PROVE TypeOK'
  BY <1>24 DEF RevokeDelete
<1>25. ASSUME AddManager PROVE TypeOK'
  BY <1>25 DEF AddManager
<1>26. ASSUME DeleteManager PROVE TypeOK'
  BY <1>26 DEF DeleteManager
<1>27. ASSUME Evict PROVE TypeOK'
  BY <1>27 DEF Evict
<1>28. ASSUME Crash PROVE TypeOK'
  <2>1. dead' \subseteq Requests
    BY <1>28 DEF Crash
  <2>2. {founder, fund, out, charged, late, faults, crashes}' \subseteq Nat
    BY <1>28 DEF Crash
  <2>3. /\ auth' \in {"open", "claimed", "gone"} /\ claim' \in Requests \cup {None}
        /\ token' \in {"live", "used"} /\ {managed, disabled, revoking}' \subseteq BOOLEAN
    BY <1>28 DEF Crash
  <2>4. /\ pc' \in [Requests -> Labels]
        /\ kind' \in [Requests -> Kinds] /\ role' \in [Requests -> Roles]
    BY <1>28 DEF Crash
  <2> QED
    BY <1>28, <2>1, <2>2, <2>3, <2>4 DEF Crash
<1>29. CASE UNCHANGED vars
  BY <1>29 DEF vars
<1> QED
  BY <1>1, <1>2, <1>3, <1>4, <1>5, <1>6, <1>7, <1>8, <1>9, <1>10, <1>11, <1>12, <1>13, <1>14,
     <1>15, <1>16, <1>17, <1>18, <1>19, <1>19a, <1>19b, <1>20, <1>21, <1>22, <1>23,
     <1>24, <1>25, <1>26, <1>27,
     <1>28, <1>29 DEF Next, Take, Give, Pay

(* Every variable has its type in every reachable state. *)
THEOREM TypeCorrect == Spec => []TypeOK
<1>1. ASSUME Init PROVE TypeOK
  <2> USE <1>1, FundsAssumption DEF FundsAssumption, Init
  <2>1. {founder, fund, out, charged, late, faults, crashes} \subseteq Nat
    OBVIOUS
  <2>2. /\ auth \in {"open", "claimed", "gone"} /\ claim \in Requests \cup {None}
        /\ token \in {"live", "used"} /\ {managed, disabled, revoking} \subseteq BOOLEAN
    OBVIOUS
  <2>3. /\ pc \in [Requests -> Labels]
        /\ kind \in [Requests -> Kinds] /\ role \in [Requests -> Roles]
    BY DEF Labels
  <2>4. {dead, inflight, closed, served} \subseteq SUBSET Requests
    OBVIOUS
  <2> QED
    BY <2>1, <2>2, <2>3, <2>4 DEF TypeOK
<1> QED
  BY <1>1, TypeNext, PTL DEF Spec

-----------------------------------------------------------------------------
(* Authorization and token *)

(* No step takes a request to a place that is not of its kind. *)
LEMMA PathNext == ASSUME TypeOK, PathInv, [Next]_vars PROVE PathInv'
<1> USE DEF TypeOK, PathInv, At, Goto, money, redis, gates, request, bounds
<1>1. ASSUME NEW r \in Requests, TakeStart(r) PROVE PathInv'
  BY <1>1 DEF TakeStart
<1>2. ASSUME NEW r \in Requests, TakeManagers(r) PROVE PathInv'
  BY <1>2 DEF TakeManagers
<1>3. ASSUME NEW r \in Requests, TakeRead(r) PROVE PathInv'
  BY <1>3 DEF TakeRead
<1>4. ASSUME NEW r \in Requests, TakeClaim(r) PROVE PathInv'
  BY <1>4 DEF TakeClaim
<1>5. ASSUME NEW r \in Requests, TakeCharge(r) PROVE PathInv'
  BY <1>5 DEF TakeCharge
<1>6. ASSUME NEW r \in Requests, TakeFill(r) PROVE PathInv'
  BY <1>6 DEF TakeFill
<1>7. ASSUME NEW r \in Requests, TakeMark(r) PROVE PathInv'
  BY <1>7 DEF TakeMark
<1>8. ASSUME NEW r \in Requests, TakeRelease(r) PROVE PathInv'
  BY <1>8 DEF TakeRelease
<1>9. ASSUME NEW r \in Requests, TakeDebit(r) PROVE PathInv'
  BY <1>9 DEF TakeDebit
<1>10. ASSUME NEW r \in Requests, TakeCredit(r) PROVE PathInv'
  BY <1>10 DEF TakeCredit
<1>11. ASSUME NEW r \in Requests, TakeFails(r) PROVE PathInv'
  BY <1>11 DEF TakeFails
<1>12. ASSUME NEW r \in Requests, GiveStart(r) PROVE PathInv'
  BY <1>12 DEF GiveStart
<1>13. ASSUME NEW r \in Requests, GiveDebit(r) PROVE PathInv'
  BY <1>13 DEF GiveDebit
<1>14. ASSUME NEW r \in Requests, GiveFill(r) PROVE PathInv'
  BY <1>14 DEF GiveFill
<1>15. ASSUME NEW r \in Requests, PayStart(r) PROVE PathInv'
  BY <1>15 DEF PayStart
<1>16. ASSUME NEW r \in Requests, PayToken(r) PROVE PathInv'
  BY <1>16 DEF PayToken
<1>17. ASSUME NEW r \in Requests, PayGate(r) PROVE PathInv'
  BY <1>17 DEF PayGate
<1>18. ASSUME NEW r \in Requests, PayDebit(r) PROVE PathInv'
  BY <1>18 DEF PayDebit
<1>19. ASSUME NEW r \in Requests, PaySettles(r) PROVE PathInv'
  BY <1>19 DEF PaySettles
<1>19a. ASSUME NEW r \in Requests, PayNoted(r) PROVE PathInv'
  BY <1>19a DEF PayNoted
<1>19b. ASSUME NEW r \in Requests, PayNoteFails(r) PROVE PathInv'
  BY <1>19b DEF PayNoteFails
<1>20. ASSUME NEW r \in Requests, PayThrows(r) PROVE PathInv'
  BY <1>20 DEF PayThrows
<1>21. ASSUME NEW r \in Requests, PayGiveBack(r) PROVE PathInv'
  BY <1>21 DEF PayGiveBack
<1>22. ASSUME NEW r \in Requests, PaysLate(r) PROVE PathInv'
  BY <1>22 DEF PaysLate
<1>23. ASSUME RevokeRead PROVE PathInv'
  BY <1>23 DEF RevokeRead
<1>24. ASSUME RevokeDelete PROVE PathInv'
  BY <1>24 DEF RevokeDelete
<1>25. ASSUME AddManager PROVE PathInv'
  BY <1>25 DEF AddManager
<1>26. ASSUME DeleteManager PROVE PathInv'
  BY <1>26 DEF DeleteManager
<1>27. ASSUME Evict PROVE PathInv'
  BY <1>27 DEF Evict
<1>28. ASSUME Crash PROVE PathInv'
  BY <1>28 DEF Crash
<1>29. CASE UNCHANGED vars
  BY <1>29 DEF vars
<1> QED
  BY <1>1, <1>2, <1>3, <1>4, <1>5, <1>6, <1>7, <1>8, <1>9, <1>10, <1>11, <1>12, <1>13, <1>14,
     <1>15, <1>16, <1>17, <1>18, <1>19, <1>19a, <1>19b, <1>20, <1>21, <1>22, <1>23,
     <1>24, <1>25, <1>26, <1>27,
     <1>28, <1>29 DEF Next, Take, Give, Pay

(* Each request keeps to the way of its kind (take, payment, withdrawal). *)
THEOREM PathInvariant == Spec => []PathInv
<1>1. Init => PathInv
  BY DEF Init, PathInv
<1> QED
  BY <1>1, PathNext, TypeCorrect, PTL DEF Spec

(* A claim lets one request charge the founder, and is free again only after *)
(* a call that threw.                                                        *)
LEMMA ClaimNext == ASSUME TypeOK, ClaimInv, [Next]_vars PROVE ClaimInv'
<1> USE FundsAssumption DEF FundsAssumption, TypeOK, ClaimInv, Uncharged, At, Goto, money, redis,
      gates, request, bounds
<1>1. ASSUME NEW r \in Requests, TakeStart(r) PROVE ClaimInv'
  BY <1>1 DEF TakeStart
<1>2. ASSUME NEW r \in Requests, TakeManagers(r) PROVE ClaimInv'
  BY <1>2 DEF TakeManagers
<1>3. ASSUME NEW r \in Requests, TakeRead(r) PROVE ClaimInv'
  BY <1>3 DEF TakeRead
<1>4. ASSUME NEW r \in Requests, TakeClaim(r) PROVE ClaimInv'
  BY <1>4 DEF TakeClaim
<1>5. ASSUME NEW r \in Requests, TakeCharge(r) PROVE ClaimInv'
  BY <1>5 DEF TakeCharge
<1>6. ASSUME NEW r \in Requests, TakeFill(r) PROVE ClaimInv'
  BY <1>6 DEF TakeFill
<1>7. ASSUME NEW r \in Requests, TakeMark(r) PROVE ClaimInv'
  BY <1>7 DEF TakeMark
<1>8. ASSUME NEW r \in Requests, TakeRelease(r) PROVE ClaimInv'
  BY <1>8 DEF TakeRelease
<1>9. ASSUME NEW r \in Requests, TakeDebit(r) PROVE ClaimInv'
  BY <1>9 DEF TakeDebit
<1>10. ASSUME NEW r \in Requests, TakeCredit(r) PROVE ClaimInv'
  BY <1>10 DEF TakeCredit
<1>11. ASSUME NEW r \in Requests, TakeFails(r) PROVE ClaimInv'
  BY <1>11 DEF TakeFails
<1>12. ASSUME NEW r \in Requests, GiveStart(r) PROVE ClaimInv'
  BY <1>12 DEF GiveStart
<1>13. ASSUME NEW r \in Requests, GiveDebit(r) PROVE ClaimInv'
  BY <1>13 DEF GiveDebit
<1>14. ASSUME NEW r \in Requests, GiveFill(r) PROVE ClaimInv'
  BY <1>14 DEF GiveFill
<1>15. ASSUME NEW r \in Requests, PayStart(r) PROVE ClaimInv'
  BY <1>15 DEF PayStart
<1>16. ASSUME NEW r \in Requests, PayToken(r) PROVE ClaimInv'
  BY <1>16 DEF PayToken
<1>17. ASSUME NEW r \in Requests, PayGate(r) PROVE ClaimInv'
  BY <1>17 DEF PayGate
<1>18. ASSUME NEW r \in Requests, PayDebit(r) PROVE ClaimInv'
  BY <1>18 DEF PayDebit
<1>19. ASSUME NEW r \in Requests, PaySettles(r) PROVE ClaimInv'
  BY <1>19 DEF PaySettles
<1>19a. ASSUME NEW r \in Requests, PayNoted(r) PROVE ClaimInv'
  BY <1>19a DEF PayNoted
<1>19b. ASSUME NEW r \in Requests, PayNoteFails(r) PROVE ClaimInv'
  BY <1>19b DEF PayNoteFails
<1>20. ASSUME NEW r \in Requests, PayThrows(r) PROVE ClaimInv'
  BY <1>20 DEF PayThrows
<1>21. ASSUME NEW r \in Requests, PayGiveBack(r) PROVE ClaimInv'
  BY <1>21 DEF PayGiveBack
<1>22. ASSUME NEW r \in Requests, PaysLate(r) PROVE ClaimInv'
  BY <1>22 DEF PaysLate
<1>23. ASSUME RevokeRead PROVE ClaimInv'
  BY <1>23 DEF RevokeRead
<1>24. ASSUME RevokeDelete PROVE ClaimInv'
  BY <1>24 DEF RevokeDelete
<1>25. ASSUME AddManager PROVE ClaimInv'
  BY <1>25 DEF AddManager
<1>26. ASSUME DeleteManager PROVE ClaimInv'
  BY <1>26 DEF DeleteManager
<1>27. ASSUME Evict PROVE ClaimInv'
  BY <1>27 DEF Evict
<1>28. ASSUME Crash PROVE ClaimInv'
  BY <1>28 DEF Crash
<1>29. CASE UNCHANGED vars
  BY <1>29 DEF vars
<1> QED
  BY <1>1, <1>2, <1>3, <1>4, <1>5, <1>6, <1>7, <1>8, <1>9, <1>10, <1>11, <1>12, <1>13, <1>14,
     <1>15, <1>16, <1>17, <1>18, <1>19, <1>19a, <1>19b, <1>20, <1>21, <1>22, <1>23,
     <1>24, <1>25, <1>26, <1>27,
     <1>28, <1>29 DEF Next, Take, Give, Pay

(* The token lets one withdrawal pass. *)
LEMMA TokenNext == ASSUME TypeOK, PathInv, TokenInv, [Next]_vars PROVE TokenInv'
<1> USE DEF TypeOK, PathInv, TokenInv, Past, At, Goto, money, redis, gates, request, bounds
<1>1. ASSUME NEW r \in Requests, TakeStart(r) PROVE TokenInv'
  BY <1>1 DEF TakeStart
<1>2. ASSUME NEW r \in Requests, TakeManagers(r) PROVE TokenInv'
  BY <1>2 DEF TakeManagers
<1>3. ASSUME NEW r \in Requests, TakeRead(r) PROVE TokenInv'
  BY <1>3 DEF TakeRead
<1>4. ASSUME NEW r \in Requests, TakeClaim(r) PROVE TokenInv'
  BY <1>4 DEF TakeClaim
<1>5. ASSUME NEW r \in Requests, TakeCharge(r) PROVE TokenInv'
  BY <1>5 DEF TakeCharge
<1>6. ASSUME NEW r \in Requests, TakeFill(r) PROVE TokenInv'
  BY <1>6 DEF TakeFill
<1>7. ASSUME NEW r \in Requests, TakeMark(r) PROVE TokenInv'
  BY <1>7 DEF TakeMark
<1>8. ASSUME NEW r \in Requests, TakeRelease(r) PROVE TokenInv'
  BY <1>8 DEF TakeRelease
<1>9. ASSUME NEW r \in Requests, TakeDebit(r) PROVE TokenInv'
  BY <1>9 DEF TakeDebit
<1>10. ASSUME NEW r \in Requests, TakeCredit(r) PROVE TokenInv'
  BY <1>10 DEF TakeCredit
<1>11. ASSUME NEW r \in Requests, TakeFails(r) PROVE TokenInv'
  BY <1>11 DEF TakeFails
<1>12. ASSUME NEW r \in Requests, GiveStart(r) PROVE TokenInv'
  BY <1>12 DEF GiveStart
<1>13. ASSUME NEW r \in Requests, GiveDebit(r) PROVE TokenInv'
  BY <1>13 DEF GiveDebit
<1>14. ASSUME NEW r \in Requests, GiveFill(r) PROVE TokenInv'
  BY <1>14 DEF GiveFill
<1>15. ASSUME NEW r \in Requests, PayStart(r) PROVE TokenInv'
  BY <1>15 DEF PayStart
<1>16. ASSUME NEW r \in Requests, PayToken(r) PROVE TokenInv'
  BY <1>16 DEF PayToken
<1>17. ASSUME NEW r \in Requests, PayGate(r) PROVE TokenInv'
  BY <1>17 DEF PayGate
<1>18. ASSUME NEW r \in Requests, PayDebit(r) PROVE TokenInv'
  BY <1>18 DEF PayDebit
<1>19. ASSUME NEW r \in Requests, PaySettles(r) PROVE TokenInv'
  BY <1>19 DEF PaySettles
<1>19a. ASSUME NEW r \in Requests, PayNoted(r) PROVE TokenInv'
  BY <1>19a DEF PayNoted
<1>19b. ASSUME NEW r \in Requests, PayNoteFails(r) PROVE TokenInv'
  BY <1>19b DEF PayNoteFails
<1>20. ASSUME NEW r \in Requests, PayThrows(r) PROVE TokenInv'
  BY <1>20 DEF PayThrows
<1>21. ASSUME NEW r \in Requests, PayGiveBack(r) PROVE TokenInv'
  BY <1>21 DEF PayGiveBack
<1>22. ASSUME NEW r \in Requests, PaysLate(r) PROVE TokenInv'
  BY <1>22 DEF PaysLate
<1>23. ASSUME RevokeRead PROVE TokenInv'
  BY <1>23 DEF RevokeRead
<1>24. ASSUME RevokeDelete PROVE TokenInv'
  BY <1>24 DEF RevokeDelete
<1>25. ASSUME AddManager PROVE TokenInv'
  BY <1>25 DEF AddManager
<1>26. ASSUME DeleteManager PROVE TokenInv'
  BY <1>26 DEF DeleteManager
<1>27. ASSUME Evict PROVE TokenInv'
  BY <1>27 DEF Evict
<1>28. ASSUME Crash PROVE TokenInv'
  BY <1>28 DEF Crash
<1>29. CASE UNCHANGED vars
  BY <1>29 DEF vars
<1> QED
  BY <1>1, <1>2, <1>3, <1>4, <1>5, <1>6, <1>7, <1>8, <1>9, <1>10, <1>11, <1>12, <1>13, <1>14,
     <1>15, <1>16, <1>17, <1>18, <1>19, <1>19a, <1>19b, <1>20, <1>21, <1>22, <1>23,
     <1>24, <1>25, <1>26, <1>27,
     <1>28, <1>29 DEF Next, Take, Give, Pay

(* What may be used once is used once: UsedOnce, of take()'s claim and of the *)
(* DEL of the withdraw token.                                                 *)
THEOREM OnceUsed == Spec => []UsedOnce
<1>1. Init => ClaimInv /\ TokenInv
  BY FundsAssumption DEF FundsAssumption, Init, ClaimInv, Uncharged, TokenInv, Past
<1>2. TypeOK /\ ClaimInv /\ TokenInv => UsedOnce
  <2> SUFFICES ASSUME TypeOK, ClaimInv, TokenInv PROVE UsedOnce
    OBVIOUS
  <2> DEFINE S == {r \in served : kind[r] = "withdraw"}
  <2>1. \A r, q \in S : r = q
    BY DEF TypeOK, TokenInv, Past
  <2>2. Cardinality(S) <= 1
    <3>1. CASE S = {}
      BY <3>1, FS_EmptySet
    <3>2. CASE S # {}
      <4>1. PICK r \in S : TRUE
        BY <3>2
      <4>2. S = {r}
        BY <2>1, <4>1
      <4>3. Cardinality({r}) = 1
        BY FS_Singleton
      <4> HIDE DEF S
      <4> QED
        BY <4>2, <4>3
    <3> QED
      BY <3>1, <3>2
  <2> QED
    BY <2>2 DEF UsedOnce, ClaimInv
<1> QED
  BY <1>1, <1>2, ClaimNext, TokenNext, PathInvariant, TypeCorrect, PTL DEF Spec

-----------------------------------------------------------------------------
(* Eviction *)

(* A request that came after the eviction stays outside. *)
LEMMA ClosedNext == ASSUME TypeOK, PathInv, ClosedInv, [Next]_vars PROVE ClosedInv'
<1> USE DEF TypeOK, PathInv, ClosedInv, Refused, Kinds, Roles, At, Goto, money, redis, gates,
      request, bounds
<1>1. ASSUME NEW r \in Requests, TakeStart(r) PROVE ClosedInv'
  BY <1>1 DEF TakeStart
<1>2. ASSUME NEW r \in Requests, TakeManagers(r) PROVE ClosedInv'
  BY <1>2 DEF TakeManagers
<1>3. ASSUME NEW r \in Requests, TakeRead(r) PROVE ClosedInv'
  BY <1>3 DEF TakeRead
<1>4. ASSUME NEW r \in Requests, TakeClaim(r) PROVE ClosedInv'
  BY <1>4 DEF TakeClaim
<1>5. ASSUME NEW r \in Requests, TakeCharge(r) PROVE ClosedInv'
  BY <1>5 DEF TakeCharge
<1>6. ASSUME NEW r \in Requests, TakeFill(r) PROVE ClosedInv'
  BY <1>6 DEF TakeFill
<1>7. ASSUME NEW r \in Requests, TakeMark(r) PROVE ClosedInv'
  BY <1>7 DEF TakeMark
<1>8. ASSUME NEW r \in Requests, TakeRelease(r) PROVE ClosedInv'
  BY <1>8 DEF TakeRelease
<1>9. ASSUME NEW r \in Requests, TakeDebit(r) PROVE ClosedInv'
  BY <1>9 DEF TakeDebit
<1>10. ASSUME NEW r \in Requests, TakeCredit(r) PROVE ClosedInv'
  BY <1>10 DEF TakeCredit
<1>11. ASSUME NEW r \in Requests, TakeFails(r) PROVE ClosedInv'
  BY <1>11 DEF TakeFails
<1>12. ASSUME NEW r \in Requests, GiveStart(r) PROVE ClosedInv'
  BY <1>12 DEF GiveStart
<1>13. ASSUME NEW r \in Requests, GiveDebit(r) PROVE ClosedInv'
  BY <1>13 DEF GiveDebit
<1>14. ASSUME NEW r \in Requests, GiveFill(r) PROVE ClosedInv'
  BY <1>14 DEF GiveFill
<1>15. ASSUME NEW r \in Requests, PayStart(r) PROVE ClosedInv'
  BY <1>15 DEF PayStart
<1>16. ASSUME NEW r \in Requests, PayToken(r) PROVE ClosedInv'
  BY <1>16 DEF PayToken
<1>17. ASSUME NEW r \in Requests, PayGate(r) PROVE ClosedInv'
  BY <1>17 DEF PayGate
<1>18. ASSUME NEW r \in Requests, PayDebit(r) PROVE ClosedInv'
  BY <1>18 DEF PayDebit
<1>19. ASSUME NEW r \in Requests, PaySettles(r) PROVE ClosedInv'
  BY <1>19 DEF PaySettles
<1>19a. ASSUME NEW r \in Requests, PayNoted(r) PROVE ClosedInv'
  BY <1>19a DEF PayNoted
<1>19b. ASSUME NEW r \in Requests, PayNoteFails(r) PROVE ClosedInv'
  BY <1>19b DEF PayNoteFails
<1>20. ASSUME NEW r \in Requests, PayThrows(r) PROVE ClosedInv'
  BY <1>20 DEF PayThrows
<1>21. ASSUME NEW r \in Requests, PayGiveBack(r) PROVE ClosedInv'
  BY <1>21 DEF PayGiveBack
<1>22. ASSUME NEW r \in Requests, PaysLate(r) PROVE ClosedInv'
  BY <1>22 DEF PaysLate
<1>23. ASSUME RevokeRead PROVE ClosedInv'
  BY <1>23 DEF RevokeRead
<1>24. ASSUME RevokeDelete PROVE ClosedInv'
  BY <1>24 DEF RevokeDelete
<1>25. ASSUME AddManager PROVE ClosedInv'
  BY <1>25 DEF AddManager
<1>26. ASSUME DeleteManager PROVE ClosedInv'
  BY <1>26 DEF DeleteManager
<1>27. ASSUME Evict PROVE ClosedInv'
  BY <1>27 DEF Evict
<1>28. ASSUME Crash PROVE ClosedInv'
  BY <1>28 DEF Crash
<1>29. CASE UNCHANGED vars
  BY <1>29 DEF vars
<1> QED
  BY <1>1, <1>2, <1>3, <1>4, <1>5, <1>6, <1>7, <1>8, <1>9, <1>10, <1>11, <1>12, <1>13, <1>14,
     <1>15, <1>16, <1>17, <1>18, <1>19, <1>19a, <1>19b, <1>20, <1>21, <1>22, <1>23,
     <1>24, <1>25, <1>26, <1>27,
     <1>28, <1>29 DEF Next, Take, Give, Pay

(* Nothing leaves the fund for who comes after its founder was evicted:      *)
(* DisabledIsClosed, of disableFoundedFunds and the checks on the three ways. *)
THEOREM ClosedToAll == Spec => []DisabledIsClosed
<1>1. Init => ClosedInv
  BY DEF Init, ClosedInv
<1>2. TypeOK /\ PathInv /\ ClosedInv => DisabledIsClosed
  BY DEF TypeOK, PathInv, ClosedInv, DisabledIsClosed, Kinds
<1> QED
  BY <1>1, <1>2, ClosedNext, PathInvariant, TypeCorrect, PTL DEF Spec

-----------------------------------------------------------------------------
(* Money *)

(* What is in transit can be counted. *)
LEMMA TransitCount ==
  ASSUME TypeOK
  PROVE  IsFiniteSet(Transit) /\ Cardinality(Transit) \in Nat
<1>1. Transit \subseteq Requests /\ IsFiniteSet(Requests)
  BY FundsAssumption DEF FundsAssumption, Transit
<1> QED
  BY <1>1, FS_Subset, FS_CardinalityType

(* No step makes money, but a withdrawal that is paid although it is reversed. *)
LEMMA MoneyNext == ASSUME TypeOK, MoneyInv, [Next]_vars PROVE MoneyInv'
<1>a. TypeOK'
  BY TypeNext
<1>b. IsFiniteSet(Transit) /\ Cardinality(Transit) \in Nat
  BY TransitCount
<1> USE FundsAssumption DEF FundsAssumption, TypeOK, MoneyInv, At, Goto, money, redis, gates,
      request, bounds
<1>1. ASSUME NEW r \in Requests, TakeStart(r) PROVE MoneyInv'
  <2>1. Transit' = Transit
    BY <1>1 DEF TakeStart, Transit
  <2>2. UNCHANGED <<founder, fund, out, late>>
    BY <1>1 DEF TakeStart
  <2> QED
    BY <2>1, <2>2
<1>2. ASSUME NEW r \in Requests, TakeManagers(r) PROVE MoneyInv'
  <2>1. Transit' = Transit
    BY <1>2 DEF TakeManagers, Transit
  <2>2. UNCHANGED <<founder, fund, out, late>>
    BY <1>2 DEF TakeManagers
  <2> QED
    BY <2>1, <2>2
<1>3. ASSUME NEW r \in Requests, TakeRead(r) PROVE MoneyInv'
  <2>1. Transit' = Transit
    BY <1>3 DEF TakeRead, Transit
  <2>2. UNCHANGED <<founder, fund, out, late>>
    BY <1>3 DEF TakeRead
  <2> QED
    BY <2>1, <2>2
<1>4. ASSUME NEW r \in Requests, TakeClaim(r) PROVE MoneyInv'
  <2>1. Transit' = Transit
    BY <1>4 DEF TakeClaim, Transit
  <2>2. UNCHANGED <<founder, fund, out, late>>
    BY <1>4 DEF TakeClaim
  <2> QED
    BY <2>1, <2>2
<1>5. ASSUME NEW r \in Requests, TakeCharge(r) PROVE MoneyInv'
  <2>1. CASE Transit' = Transit
    <3>1. founder' + fund' + out' <= founder + fund + out /\ late' = late
      BY <1>5, <2>1 DEF TakeCharge, Transit
    <3> QED
      BY <2>1, <3>1, <1>a, <1>b
  <2>2. CASE Transit' # Transit
    <3>1. r \notin Transit /\ Transit' = Transit \cup {r}
      BY <1>5, <2>2 DEF TakeCharge, Transit
    <3>2. Cardinality(Transit') = Cardinality(Transit) + 1
      BY <3>1, <1>b, FS_AddElement
    <3>3. founder' + fund' + out' = founder + fund + out - 1 /\ late' = late
      BY <1>5, <2>2 DEF TakeCharge, Transit
    <3> QED
      BY <3>2, <3>3, <1>a, <1>b
  <2> QED
    BY <2>1, <2>2
<1>6. ASSUME NEW r \in Requests, TakeFill(r) PROVE MoneyInv'
  <2>1. r \in Transit /\ Transit' = Transit \ {r}
    BY <1>6 DEF TakeFill, Transit
  <2>2. Cardinality(Transit') = Cardinality(Transit) - 1
    BY <2>1, <1>b, FS_RemoveElement
  <2>3. founder' + fund' + out' <= founder + fund + out + 1 /\ late' = late
    BY <1>6 DEF TakeFill
  <2> QED
    BY <2>2, <2>3, <1>a, <1>b
<1>7. ASSUME NEW r \in Requests, TakeMark(r) PROVE MoneyInv'
  <2>1. Transit' = Transit
    BY <1>7 DEF TakeMark, Transit
  <2>2. UNCHANGED <<founder, fund, out, late>>
    BY <1>7 DEF TakeMark
  <2> QED
    BY <2>1, <2>2
<1>8. ASSUME NEW r \in Requests, TakeRelease(r) PROVE MoneyInv'
  <2>1. Transit' = Transit
    BY <1>8 DEF TakeRelease, Transit
  <2>2. UNCHANGED <<founder, fund, out, late>>
    BY <1>8 DEF TakeRelease
  <2> QED
    BY <2>1, <2>2
<1>9. ASSUME NEW r \in Requests, TakeDebit(r) PROVE MoneyInv'
  <2>1. CASE Transit' = Transit
    <3>1. founder' + fund' + out' <= founder + fund + out /\ late' = late
      BY <1>9, <2>1 DEF TakeDebit, Transit
    <3> QED
      BY <2>1, <3>1, <1>a, <1>b
  <2>2. CASE Transit' # Transit
    <3>1. r \notin Transit /\ Transit' = Transit \cup {r}
      BY <1>9, <2>2 DEF TakeDebit, Transit
    <3>2. Cardinality(Transit') = Cardinality(Transit) + 1
      BY <3>1, <1>b, FS_AddElement
    <3>3. founder' + fund' + out' = founder + fund + out - 1 /\ late' = late
      BY <1>9, <2>2 DEF TakeDebit, Transit
    <3> QED
      BY <3>2, <3>3, <1>a, <1>b
  <2> QED
    BY <2>1, <2>2
<1>10. ASSUME NEW r \in Requests, TakeCredit(r) PROVE MoneyInv'
  <2>1. r \in Transit /\ Transit' = Transit \ {r}
    BY <1>10 DEF TakeCredit, Transit
  <2>2. Cardinality(Transit') = Cardinality(Transit) - 1
    BY <2>1, <1>b, FS_RemoveElement
  <2>3. founder' + fund' + out' <= founder + fund + out + 1 /\ late' = late
    BY <1>10 DEF TakeCredit
  <2> QED
    BY <2>2, <2>3, <1>a, <1>b
<1>11. ASSUME NEW r \in Requests, TakeFails(r) PROVE MoneyInv'
  <2>1. Transit' = Transit \ {r}
    BY <1>11 DEF TakeFails, Transit
  <2>2. Cardinality(Transit') <= Cardinality(Transit) /\ Cardinality(Transit') \in Nat
    BY <2>1, <1>b, FS_Subset, FS_CardinalityType
  <2>3. UNCHANGED <<founder, fund, out, late>>
    BY <1>11 DEF TakeFails
  <2> QED
    BY <2>2, <2>3, <1>a, <1>b
<1>12. ASSUME NEW r \in Requests, GiveStart(r) PROVE MoneyInv'
  <2>1. Transit' = Transit
    BY <1>12 DEF GiveStart, Transit
  <2>2. UNCHANGED <<founder, fund, out, late>>
    BY <1>12 DEF GiveStart
  <2> QED
    BY <2>1, <2>2
<1>13. ASSUME NEW r \in Requests, GiveDebit(r) PROVE MoneyInv'
  <2>1. CASE Transit' = Transit
    <3>1. founder' + fund' + out' <= founder + fund + out /\ late' = late
      BY <1>13, <2>1 DEF GiveDebit, Transit
    <3> QED
      BY <2>1, <3>1, <1>a, <1>b
  <2>2. CASE Transit' # Transit
    <3>1. r \notin Transit /\ Transit' = Transit \cup {r}
      BY <1>13, <2>2 DEF GiveDebit, Transit
    <3>2. Cardinality(Transit') = Cardinality(Transit) + 1
      BY <3>1, <1>b, FS_AddElement
    <3>3. founder' + fund' + out' = founder + fund + out - 1 /\ late' = late
      BY <1>13, <2>2 DEF GiveDebit, Transit
    <3> QED
      BY <3>2, <3>3, <1>a, <1>b
  <2> QED
    BY <2>1, <2>2
<1>14. ASSUME NEW r \in Requests, GiveFill(r) PROVE MoneyInv'
  <2>1. r \in Transit /\ Transit' = Transit \ {r}
    BY <1>14 DEF GiveFill, Transit
  <2>2. Cardinality(Transit') = Cardinality(Transit) - 1
    BY <2>1, <1>b, FS_RemoveElement
  <2>3. founder' + fund' + out' <= founder + fund + out + 1 /\ late' = late
    BY <1>14 DEF GiveFill
  <2> QED
    BY <2>2, <2>3, <1>a, <1>b
<1>15. ASSUME NEW r \in Requests, PayStart(r) PROVE MoneyInv'
  <2>1. Transit' = Transit
    BY <1>15 DEF PayStart, Transit
  <2>2. UNCHANGED <<founder, fund, out, late>>
    BY <1>15 DEF PayStart
  <2> QED
    BY <2>1, <2>2
<1>16. ASSUME NEW r \in Requests, PayToken(r) PROVE MoneyInv'
  <2>1. Transit' = Transit
    BY <1>16 DEF PayToken, Transit
  <2>2. UNCHANGED <<founder, fund, out, late>>
    BY <1>16 DEF PayToken
  <2> QED
    BY <2>1, <2>2
<1>17. ASSUME NEW r \in Requests, PayGate(r) PROVE MoneyInv'
  <2>1. Transit' = Transit
    BY <1>17 DEF PayGate, Transit
  <2>2. UNCHANGED <<founder, fund, out, late>>
    BY <1>17 DEF PayGate
  <2> QED
    BY <2>1, <2>2
<1>18. ASSUME NEW r \in Requests, PayDebit(r) PROVE MoneyInv'
  <2>1. CASE Transit' = Transit
    <3>1. founder' + fund' + out' <= founder + fund + out /\ late' = late
      BY <1>18, <2>1 DEF PayDebit, Transit
    <3> QED
      BY <2>1, <3>1, <1>a, <1>b
  <2>2. CASE Transit' # Transit
    <3>1. r \notin Transit /\ Transit' = Transit \cup {r}
      BY <1>18, <2>2 DEF PayDebit, Transit
    <3>2. Cardinality(Transit') = Cardinality(Transit) + 1
      BY <3>1, <1>b, FS_AddElement
    <3>3. founder' + fund' + out' = founder + fund + out - 1 /\ late' = late
      BY <1>18, <2>2 DEF PayDebit, Transit
    <3> QED
      BY <3>2, <3>3, <1>a, <1>b
  <2> QED
    BY <2>1, <2>2
<1>19. ASSUME NEW r \in Requests, PaySettles(r) PROVE MoneyInv'
  <2>1. r \in Transit /\ Transit' = Transit \ {r}
    BY <1>19 DEF PaySettles, Transit
  <2>2. Cardinality(Transit') = Cardinality(Transit) - 1
    BY <2>1, <1>b, FS_RemoveElement
  <2>3. founder' + fund' + out' <= founder + fund + out + 1 /\ late' = late
    BY <1>19 DEF PaySettles
  <2> QED
    BY <2>2, <2>3, <1>a, <1>b
<1>19a. ASSUME NEW r \in Requests, PayNoted(r) PROVE MoneyInv'
  <2>1. Transit' = Transit
    BY <1>19a DEF PayNoted, Transit
  <2>2. UNCHANGED <<founder, fund, out, late>>
    BY <1>19a DEF PayNoted
  <2> QED
    BY <2>1, <2>2
<1>19b. ASSUME NEW r \in Requests, PayNoteFails(r) PROVE MoneyInv'
  <2>1. r \notin Transit /\ Transit' = Transit \cup {r}
    BY <1>19b DEF PayNoteFails, Transit
  <2>2. Cardinality(Transit') = Cardinality(Transit) + 1
    BY <2>1, <1>b, FS_AddElement
  <2>3. late' = late + 1 /\ UNCHANGED <<founder, fund, out>>
    BY <1>19b DEF PayNoteFails
  <2> QED
    BY <2>2, <2>3, <1>a, <1>b
<1>20. ASSUME NEW r \in Requests, PayThrows(r) PROVE MoneyInv'
  <2>1. Transit' = Transit
    BY <1>20 DEF PayThrows, Transit
  <2>2. UNCHANGED <<founder, fund, out, late>>
    BY <1>20 DEF PayThrows
  <2> QED
    BY <2>1, <2>2
<1>21. ASSUME NEW r \in Requests, PayGiveBack(r) PROVE MoneyInv'
  <2>1. r \in Transit /\ Transit' = Transit \ {r}
    BY <1>21 DEF PayGiveBack, Transit
  <2>2. Cardinality(Transit') = Cardinality(Transit) - 1
    BY <2>1, <1>b, FS_RemoveElement
  <2>3. founder' + fund' + out' <= founder + fund + out + 1 /\ late' = late
    BY <1>21 DEF PayGiveBack
  <2> QED
    BY <2>2, <2>3, <1>a, <1>b
<1>22. ASSUME NEW r \in Requests, PaysLate(r) PROVE MoneyInv'
  <2>1. Transit' = Transit
    BY <1>22 DEF PaysLate, Transit
  <2>2. out' = out + 1 /\ late' = late + 1 /\ UNCHANGED <<founder, fund>>
    BY <1>22 DEF PaysLate
  <2> QED
    BY <2>1, <2>2, <1>a, <1>b
<1>23. ASSUME RevokeRead PROVE MoneyInv'
  <2>1. Transit' = Transit
    BY <1>23 DEF RevokeRead, Transit
  <2>2. UNCHANGED <<founder, fund, out, late>>
    BY <1>23 DEF RevokeRead
  <2> QED
    BY <2>1, <2>2
<1>24. ASSUME RevokeDelete PROVE MoneyInv'
  <2>1. Transit' = Transit
    BY <1>24 DEF RevokeDelete, Transit
  <2>2. UNCHANGED <<founder, fund, out, late>>
    BY <1>24 DEF RevokeDelete
  <2> QED
    BY <2>1, <2>2
<1>25. ASSUME AddManager PROVE MoneyInv'
  <2>1. Transit' = Transit
    BY <1>25 DEF AddManager, Transit
  <2>2. UNCHANGED <<founder, fund, out, late>>
    BY <1>25 DEF AddManager
  <2> QED
    BY <2>1, <2>2
<1>26. ASSUME DeleteManager PROVE MoneyInv'
  <2>1. Transit' = Transit
    BY <1>26 DEF DeleteManager, Transit
  <2>2. UNCHANGED <<founder, fund, out, late>>
    BY <1>26 DEF DeleteManager
  <2> QED
    BY <2>1, <2>2
<1>27. ASSUME Evict PROVE MoneyInv'
  <2>1. Transit' = Transit
    BY <1>27 DEF Evict, Transit
  <2>2. UNCHANGED <<founder, fund, out, late>>
    BY <1>27 DEF Evict
  <2> QED
    BY <2>1, <2>2
<1>28. ASSUME Crash PROVE MoneyInv'
  <2>1. Transit' = Transit
    BY <1>28 DEF Crash, Transit
  <2>2. UNCHANGED <<founder, fund, out, late>>
    BY <1>28 DEF Crash
  <2> QED
    BY <2>1, <2>2
<1>29. CASE UNCHANGED vars
  BY <1>29 DEF vars, Transit
<1> QED
  BY <1>1, <1>2, <1>3, <1>4, <1>5, <1>6, <1>7, <1>8, <1>9, <1>10, <1>11, <1>12, <1>13, <1>14,
     <1>15, <1>16, <1>17, <1>18, <1>19, <1>19a, <1>19b, <1>20, <1>21, <1>22, <1>23,
     <1>24, <1>25, <1>26, <1>27,
     <1>28, <1>29 DEF Next, Take, Give, Pay

(* The fund pays no more than was paid into it, but for late settlements:     *)
(* FundCovered, of take(), the payments into a fund and the withdraw callback. *)
THEOREM Covered == Spec => []FundCovered
<1>1. Init => MoneyInv
  <2> SUFFICES ASSUME Init PROVE MoneyInv
    OBVIOUS
  <2>1. Transit = {}
    BY DEF Init, Transit
  <2> QED
    BY <2>1, FS_EmptySet, FundsAssumption DEF FundsAssumption, Init, MoneyInv
<1>2. TypeOK /\ MoneyInv => FundCovered
  BY TransitCount, FundsAssumption DEF FundsAssumption, TypeOK, MoneyInv, FundCovered
<1> QED
  BY <1>1, <1>2, MoneyNext, TypeCorrect, PTL DEF Spec

-----------------------------------------------------------------------------
(* THE LEDGER *)

-----------------------------------------------------------------------------
(* Division *)
LEMMA DivIs ==
  ASSUME NEW n \in Nat, NEW d \in Nat \ {0}
  PROVE  n \div d \in Nat /\ d * (n \div d) <= n /\ n < d * (n \div d) + d
OBVIOUS

(* A product grows with its factors. *)
LEMMA TimesGrows ==
  ASSUME NEW a \in Nat, NEW b \in Nat, NEW d \in Nat, a <= b
  PROVE  a * d <= b * d /\ d * a <= d * b
OBVIOUS

(* A quotient grows with its dividend. *)
LEMMA DivGrows ==
  ASSUME NEW m \in Nat, NEW n \in Nat, NEW d \in Nat \ {0}, m <= n
  PROVE  m \div d <= n \div d
<1> DEFINE p == m \div d
           q == n \div d
<1>1. p \in Nat /\ q \in Nat /\ d * p <= m /\ n < d * q + d
  BY DivIs
<1> HIDE DEF p, q
<1>2. SUFFICES ASSUME q + 1 <= p PROVE FALSE
  BY <1>1 DEF p, q
<1>3. d * (q + 1) <= d * p
  BY <1>1, <1>2, TimesGrows
<1>4. d * (q + 1) = d * q + d
  BY <1>1
<1>5. d * q \in Nat /\ d * p \in Nat
  BY <1>1
<1> QED
  BY <1>1, <1>3, <1>4, <1>5

-----------------------------------------------------------------------------
(* Types *)

(* The places of a payment and what it notes of itself. *)
SendLabels == {"start", "credit", "check", "move", "paid", "done"}

PaymentRecord == [pc : SendLabels, base : Nat, rate : Nat, frozen : Nat, cover : Nat, ourfee : Nat]

(* What is left of a scan. *)
AllThree == <<"balance", "pending", "credit">>
LastTwo  == <<"pending", "credit">>
LastOne  == <<"credit">>
TheFund  == <<"fund">>

Todos == {AllThree, LastTwo, LastOne, TheFund, <<>>}

(* The types of what requests work on, *)
MoneyTyped ==
  /\ tb \in [Accounts -> Nat] /\ live \in [Accounts -> Int]
  /\ created \subseteq Accounts
  /\ send \in [Sends -> PaymentRecord]
  /\ noFree \in BOOLEAN /\ evicted \in BOOLEAN /\ loose \in BOOLEAN
  /\ held \in Nat /\ excess \in Int /\ onFee \in Int

(* and of what the conversions do. *)
ScansTyped ==
  /\ conv \in [Conversions -> [todo : Todos, at : {"create", "read", "move"}, read : Nat]]
  /\ migrated \subseteq Conversions /\ moved \subseteq Conversions \X Accounts
  /\ tainted \subseteq Accounts
  /\ from \in {"redis", "sats", "microsats"}

LedgerTypeInv == MoneyTyped /\ ScansTyped

(* The platform fee is a whole number of sats. *)
LEMMA FeeType == ASSUME NEW x \in Nat, NEW rate \in Nat PROVE Fee(x, rate) \in Nat
<1>1. x * rate \in Nat
  OBVIOUS
<1>2. 2 * (x * rate) + Scale \in Nat /\ 2 * Scale \in Nat \ {0}
  BY <1>1, LedgerAssumption DEF LedgerAssumption
<1> QED
  BY <1>2, DivIs DEF Fee, Round

(* So is its rate. *)
LEMMA RateType == Rate \in Nat
BY LedgerAssumption DEF LedgerAssumption, Rate

(* Linked transfers leave what an account has had before the requests. *)
LEMMA MoveKeeps ==
  ASSUME MoneyTyped, NEW ch, \A a \in DOMAIN ch : ch[a] \in Int,
         \A a \in Accounts : a \in DOMAIN ch => tb[a] + ch[a] >= 0, Move(ch)
  PROVE  /\ tb' \in [Accounts -> Nat] /\ live' \in [Accounts -> Int]
         /\ \A a \in Accounts : tb'[a] - live'[a] = tb[a] - live[a]
         /\ \A a \in Accounts : tb'[a] = tb[a] + (IF a \in DOMAIN ch THEN ch[a] ELSE 0)
<1>1. \A a \in Accounts : (IF a \in DOMAIN ch THEN ch[a] ELSE 0) \in Int
  OBVIOUS
<1>2. \A a \in Accounts : tb[a] + (IF a \in DOMAIN ch THEN ch[a] ELSE 0) \in Nat
  BY <1>1 DEF MoneyTyped
<1> QED
  BY <1>1, <1>2 DEF MoneyTyped, Move

(* What a request does to the balance, in whole sats, and to the amounts. *)
Kept ==
  /\ tb' \in [Accounts -> Nat] /\ live' \in [Accounts -> Int]
  /\ \A a \in Accounts : tb'[a] - live'[a] = tb[a] - live[a]

Grown == Kept /\ \E k \in Nat : tb'["balance"] = tb["balance"] + k * Msats

(* Nothing moved is zero sats more. *)
LEMMA Still == ASSUME MoneyTyped, UNCHANGED <<tb, live>> PROVE Grown
<1>1. 0 * Msats = 0
  BY LedgerAssumption DEF LedgerAssumption
<1> QED
  BY <1>1 DEF MoneyTyped, Grown, Kept, Accounts

(* A refund adds whole sats to the balance. *)
LEMMA RefundGrows == ASSUME MoneyTyped, NEW s \in Sends, Refund(s) PROVE Grown
<1>1. PICK rest \in 0 .. Reserve :
        IF rest > 0 /\ "balance" \in created THEN Move([a \in {"balance"} |-> rest * Msats])
                                             ELSE UNCHANGED <<tb, live>>
  BY DEF Refund
<1>2. rest \in Nat /\ rest * Msats \in Nat
  BY LedgerAssumption DEF LedgerAssumption
<1>3. CASE Move([a \in {"balance"} |-> rest * Msats])
  <2> DEFINE ch == [a \in {"balance"} |-> rest * Msats]
  <2>1. DOMAIN ch = {"balance"} /\ ch["balance"] = rest * Msats
    OBVIOUS
  <2> HIDE DEF ch
  <2>2. \A a \in DOMAIN ch : ch[a] \in Int
    BY <1>2, <2>1
  <2>3. \A a \in Accounts : a \in DOMAIN ch => tb[a] + ch[a] >= 0
    BY <1>2, <2>1 DEF MoneyTyped, Accounts
  <2>4. Move(ch)
    BY <1>3 DEF ch
  <2>5. Kept /\ tb'["balance"] = tb["balance"] + rest * Msats
    BY <2>1, <2>2, <2>3, <2>4, MoveKeeps DEF Kept, Accounts
  <2> QED
    BY <1>2, <2>5 DEF Grown
<1> QED
  BY <1>1, <1>3, Still

(* What is moved in a reversal: the total. *)
LEMMA ReversalGrows ==
  ASSUME MoneyTyped, NEW s \in Sends, NEW c \in Int, Reversal(s, c)
  PROVE  Grown /\ excess' \in Int /\ onFee' \in Int
<1> DEFINE back == IF c > 0 THEN c ELSE 0
           ch   == [a \in {"balance"} \cup (IF back > 0 THEN {"credit"} ELSE {}) |->
                      IF a = "credit" THEN back * Msats ELSE Total(s)]
           T    == send[s].base + send[s].ourfee
<1>1. back \in Nat /\ T \in Nat /\ back * Msats \in Nat /\ T * Msats \in Nat /\ Total(s) = T * Msats
  BY LedgerAssumption DEF LedgerAssumption, MoneyTyped, PaymentRecord, Total
<1>2. DOMAIN ch = {"balance"} \cup (IF back > 0 THEN {"credit"} ELSE {})
  OBVIOUS
<1>3. ch["balance"] = T * Msats /\ \A a \in DOMAIN ch : ch[a] \in Nat
  BY <1>1
<1>4. IF Possible(ch) THEN Move(ch) ELSE UNCHANGED <<tb, live>>
  BY DEF Reversal
<1>5. excess' \in Int /\ onFee' \in Int
  <2>1. Fee(send[s].base + send[s].ourfee, Rate) \in Nat /\ Fee(send[s].base, Rate) \in Nat
        /\ send[s].cover \in Nat
    BY <1>1, FeeType, RateType DEF MoneyTyped, PaymentRecord
  <2> DEFINE more == Fee(send[s].base + send[s].ourfee, Rate) - Fee(send[s].base, Rate)
  <2>2. /\ excess' = IF send[s].rate = Rate THEN back * Msats - send[s].cover ELSE 0
        /\ onFee' = IF send[s].rate = Rate THEN more ELSE 0
    BY DEF Reversal
  <2>3. more \in Int
    BY <2>1
  <2> QED
    BY <1>1, <2>1, <2>2, <2>3
<1>6. CASE Move(ch)
  <2> HIDE DEF ch, back, T
  <2>1. \A a \in DOMAIN ch : ch[a] \in Int
    BY <1>3
  <2>2. \A a \in Accounts : a \in DOMAIN ch => tb[a] + ch[a] >= 0
    BY <1>3 DEF MoneyTyped
  <2>3. Kept /\ tb'["balance"] = tb["balance"] + ch["balance"]
    BY <1>2, <1>6, <2>1, <2>2, MoveKeeps DEF Kept, Accounts
  <2> QED
    BY <1>1, <1>3, <1>5, <2>3 DEF Grown
<1> QED
  BY <1>4, <1>5, <1>6, Still

(* A deposit adds whole sats to the balance, or none. *)
LEMMA CreditGrows ==
  ASSUME MoneyTyped, NEW target \in {"balance", "pending"}, Credit(target)
  PROVE  Grown
<1>1. PICK amount \in Amounts :
        LET free == Round(amount * Msats * Standard, Scale)
            also == IF target = "balance" /\ ~noFree /\ free > 0 /\ "credit" \in created
                      THEN {"credit"} ELSE {}
        IN  Move([a \in {target} \cup also |-> IF a = "credit" THEN free ELSE amount * Msats])
  BY DEF Credit
<1> DEFINE free == Round(amount * Msats * Standard, Scale)
           also == IF target = "balance" /\ ~noFree /\ free > 0 /\ "credit" \in created
                     THEN {"credit"} ELSE {}
           ch   == [a \in {target} \cup also |-> IF a = "credit" THEN free ELSE amount * Msats]
<1>2. amount \in Nat /\ amount * Msats \in Nat /\ Standard \in Nat
  BY LedgerAssumption DEF LedgerAssumption
<1>3. free \in Nat
  BY <1>2, FeeType DEF Fee
<1>4. Move(ch)
  BY <1>1
<1>5. /\ DOMAIN ch = {target} \cup also /\ \A a \in DOMAIN ch : ch[a] \in Nat
      /\ "balance" \in DOMAIN ch => ch["balance"] = amount * Msats
  BY <1>2, <1>3
<1> HIDE DEF ch, also, free
<1>6. \A a \in DOMAIN ch : ch[a] \in Int
  BY <1>5
<1>7. \A a \in Accounts : a \in DOMAIN ch => tb[a] + ch[a] >= 0
  BY <1>5 DEF MoneyTyped
<1>8. Kept /\ tb'["balance"] = tb["balance"] + IF "balance" \in DOMAIN ch THEN ch["balance"] ELSE 0
  BY <1>4, <1>6, <1>7, MoveKeeps DEF Kept, Accounts
<1>9. 0 * Msats = 0
  BY LedgerAssumption DEF LedgerAssumption
<1> QED
  BY <1>2, <1>5, <1>8, <1>9 DEF Grown, MoneyTyped, Accounts

(* So does a confirmed deposit. *)
LEMMA ConfirmGrows == ASSUME MoneyTyped, Confirm PROVE Grown
<1>1. PICK amount \in Amounts :
        LET ch == [a \in {"pending", "balance"} |->
                     IF a = "pending" THEN -amount * Msats ELSE amount * Msats]
        IN  Possible(ch) /\ Move(ch)
  BY DEF Confirm
<1> DEFINE ch == [a \in {"pending", "balance"} |->
                    IF a = "pending" THEN -amount * Msats ELSE amount * Msats]
<1>2. amount \in Nat /\ amount * Msats \in Nat /\ -amount * Msats \in Int
  BY LedgerAssumption DEF LedgerAssumption
<1>3. Possible(ch) /\ Move(ch)
  BY <1>1
<1>4. /\ DOMAIN ch = {"pending", "balance"} /\ \A a \in DOMAIN ch : ch[a] \in Int
      /\ ch["balance"] = amount * Msats
  BY <1>2
<1> HIDE DEF ch
<1>5. \A a \in Accounts : a \in DOMAIN ch => tb[a] + ch[a] >= 0
  BY <1>3 DEF Possible
<1>6. Kept /\ tb'["balance"] = tb["balance"] + ch["balance"]
  BY <1>3, <1>4, <1>5, MoveKeeps DEF Kept, Accounts
<1> QED
  BY <1>2, <1>4, <1>6 DEF Grown

(* The fund's payments leave the balance alone. *)
LEMMA FundKeeps == ASSUME MoneyTyped, FundCredit \/ FundDebit PROVE Grown
<1>1. PICK n \in Int : /\ Move([a \in {"fund"} |-> n]) /\ tb["fund"] + n >= 0
  <2>1. CASE FundCredit
    <3>1. PICK amount \in Amounts : Move([a \in {"fund"} |-> amount * Msats])
      BY <2>1 DEF FundCredit
    <3> DEFINE n == amount * Msats
    <3>2. n \in Nat
      BY LedgerAssumption DEF LedgerAssumption
    <3>3. Move([a \in {"fund"} |-> n])
      BY <3>1
    <3> HIDE DEF n
    <3>4. n \in Int /\ tb["fund"] + n >= 0
      BY <3>2 DEF MoneyTyped, Accounts
    <3> QED
      BY <3>3, <3>4
  <2>2. CASE FundDebit
    <3>1. PICK amount \in Amounts : /\ Possible([a \in {"fund"} |-> -amount * Msats])
                                    /\ Move([a \in {"fund"} |-> -amount * Msats])
      BY <2>2 DEF FundDebit
    <3>2. -amount * Msats \in Int
      BY LedgerAssumption DEF LedgerAssumption
    <3> QED
      BY <3>1, <3>2 DEF Possible
  <2> QED
    BY <2>1, <2>2
<1> DEFINE ch == [a \in {"fund"} |-> n]
<1>2. DOMAIN ch = {"fund"} /\ ch["fund"] = n
  OBVIOUS
<1>3. Move(ch)
  BY <1>1
<1> HIDE DEF ch
<1>4. \A a \in DOMAIN ch : ch[a] \in Int
  BY <1>2
<1>5. \A a \in Accounts : a \in DOMAIN ch => tb[a] + ch[a] >= 0
  BY <1>1, <1>2
<1>6. Kept /\ tb'["balance"] = tb["balance"] + 0
  BY <1>2, <1>3, <1>4, <1>5, MoveKeeps DEF Kept, Accounts
<1>7. 0 * Msats = 0
  BY LedgerAssumption DEF LedgerAssumption
<1> QED
  BY <1>6, <1>7 DEF Grown

(* A debit moves its total, or nothing. *)
LEMMA DebitMoves ==
  ASSUME MoneyTyped, NEW s \in Sends, DebitMove(s)
  PROVE  Kept /\ (tb'["balance"] = tb["balance"] - Total(s) \/ UNCHANGED tb)
<1> DEFINE ch == [a \in {"balance"} \cup (IF send[s].cover > 0 THEN {"credit"} ELSE {}) |->
                    IF a = "credit" THEN -send[s].cover ELSE -Total(s)]
<1>1. Total(s) \in Nat /\ send[s].cover \in Nat
  <2>1. send[s].base + send[s].ourfee \in Nat /\ Msats \in Nat
    BY LedgerAssumption DEF LedgerAssumption, MoneyTyped, PaymentRecord
  <2> QED
    BY <2>1 DEF Total, MoneyTyped, PaymentRecord
<1>2. /\ DOMAIN ch = {"balance"} \cup (IF send[s].cover > 0 THEN {"credit"} ELSE {})
      /\ \A a \in DOMAIN ch : ch[a] \in Int
      /\ ch["balance"] = -Total(s)
  BY <1>1
<1>3. (Possible(ch) /\ Move(ch)) \/ UNCHANGED <<tb, live>>
  BY DEF DebitMove
<1> HIDE DEF ch
<1>4. CASE Possible(ch) /\ Move(ch)
  <2>1. \A a \in Accounts : a \in DOMAIN ch => tb[a] + ch[a] >= 0
    BY <1>4 DEF Possible
  <2>2. Kept /\ tb'["balance"] = tb["balance"] + ch["balance"]
    BY <1>2, <1>4, <2>1, MoveKeeps DEF Kept, Accounts
  <2> QED
    BY <1>1, <1>2, <2>2 DEF MoneyTyped, Accounts
<1> QED
  BY <1>3, <1>4 DEF Kept, MoneyTyped

-----------------------------------------------------------------------------
(* The types hold *)

(* A payment keeps the types, and what an account has had before it. *)
LEMMA PaymentTyped ==
  ASSUME MoneyTyped, NEW s \in Sends, Payment(s)
  PROVE  MoneyTyped' /\ Kept /\ UNCHANGED <<created, noFree, evicted, held>>
<1> USE DEF MoneyTyped, SendGoto
<1>1. CASE DebitStart(s)
  <2>1. PICK amount \in Amounts :
          send' = [send EXCEPT ![s] =
                     [pc |-> "credit", base |-> amount + Reserve, rate |-> Rate,
                      frozen |-> IF evicted THEN tb["balance"] \div Msats ELSE 0,
                      cover |-> 0, ourfee |-> Fee(amount + Reserve, Rate)]]
    BY <1>1 DEF DebitStart
  <2>2. amount + Reserve \in Nat /\ Rate \in Nat /\ Msats \in Nat \ {0} /\ tb["balance"] \in Nat
    BY RateType, LedgerAssumption DEF LedgerAssumption, Accounts
  <2>3. Fee(amount + Reserve, Rate) \in Nat
    BY <2>2, FeeType
  <2>4. tb["balance"] \div Msats \in Nat
    BY <2>2, DivIs
  <2>5. send' \in [Sends -> PaymentRecord]
    BY <2>1, <2>2, <2>3, <2>4 DEF PaymentRecord, SendLabels
  <2> QED
    BY <1>1, <2>5 DEF DebitStart, Kept
<1>2. CASE DebitCredit(s)
  <2> DEFINE due   == send[s].ourfee * Msats
             cover == IF tb["credit"] < due THEN tb["credit"] ELSE due
  <2>1. send' = [send EXCEPT ![s].pc = "check", ![s].cover = cover,
                             ![s].ourfee = (due - cover) \div Msats]
    BY <1>2 DEF DebitCredit
  <2>2. due \in Nat /\ tb["credit"] \in Nat /\ Msats \in Nat \ {0}
    BY LedgerAssumption DEF LedgerAssumption, Accounts, PaymentRecord
  <2>3. cover \in Nat /\ due - cover \in Nat
    BY <2>2
  <2>4. (due - cover) \div Msats \in Nat
    BY <2>2, <2>3, DivIs
  <2> HIDE DEF due, cover
  <2> DEFINE next == [send[s] EXCEPT !.pc = "check", !.cover = cover,
                                     !.ourfee = (due - cover) \div Msats]
  <2>5. send' \in [Sends -> PaymentRecord]
    <3>1. send[s] \in PaymentRecord
      OBVIOUS
    <3>2. next \in PaymentRecord
      BY <2>3, <2>4, <3>1 DEF PaymentRecord, SendLabels
    <3>3. send' = [send EXCEPT ![s] = next]
      BY <2>1
    <3> HIDE DEF next
    <3> QED
      BY <3>2, <3>3
  <2> QED
    BY <1>2, <2>5 DEF DebitCredit, history, Kept
<1>3. CASE DebitCheck(s)
  <2>1. send' \in [Sends -> PaymentRecord]
    BY <1>3 DEF DebitCheck, PaymentRecord, SendLabels
  <2> QED
    BY <1>3, <2>1 DEF DebitCheck, history, Kept
<1>4. CASE DebitMove(s)
  <2>1. send' \in [Sends -> PaymentRecord]
    BY <1>4 DEF DebitMove, PaymentRecord, SendLabels
  <2>2. Kept
    BY <1>4, DebitMoves
  <2> QED
    BY <1>4, <2>1, <2>2 DEF DebitMove, Kept
<1>5. CASE Refund(s)
  <2>1. send' \in [Sends -> PaymentRecord]
    BY <1>5 DEF Refund, PaymentRecord, SendLabels
  <2>2. Kept
    BY <1>5, RefundGrows DEF Grown
  <2> QED
    BY <1>5, <2>1, <2>2 DEF Refund, Kept
<1>6. CASE Reverse(s)
  <2>1. send' \in [Sends -> PaymentRecord]
    BY <1>6 DEF Reverse, PaymentRecord, SendLabels
  <2> DEFINE c == Fee(send[s].base + send[s].ourfee, Rate) - send[s].ourfee
  <2>2. c \in Int
    <3>1. send[s].base + send[s].ourfee \in Nat /\ send[s].ourfee \in Nat
      BY DEF PaymentRecord
    <3>2. Fee(send[s].base + send[s].ourfee, Rate) \in Nat
      BY <3>1, FeeType, RateType
    <3> QED
      BY <3>1, <3>2
  <2>3. Reversal(s, c)
    BY <1>6 DEF Reverse
  <2> HIDE DEF c
  <2>4. Kept /\ excess' \in Int /\ onFee' \in Int
    BY <2>2, <2>3, ReversalGrows DEF Grown
  <2> QED
    BY <1>6, <2>1, <2>4 DEF Reverse, Kept
<1> QED
  BY <1>1, <1>2, <1>3, <1>4, <1>5, <1>6 DEF Payment

(* So does every request. *)
LEMMA RequestTyped ==
  ASSUME MoneyTyped, LedgerNext
  PROVE  /\ MoneyTyped' /\ \A a \in Accounts : tb'[a] - live'[a] = tb[a] - live[a]
         /\ created \subseteq created'
<1>1. ASSUME NEW s \in Sends, Payment(s) PROVE MoneyTyped' /\ Kept /\ created' = created
  BY <1>1, PaymentTyped
<1>2. ASSUME NEW target \in {"balance", "pending"}, Credit(target)
      PROVE  MoneyTyped' /\ Kept /\ created' = created
  <2>1. Kept
    BY <1>2, CreditGrows DEF Grown
  <2> QED
    BY <1>2, <2>1 DEF Credit, MoneyTyped, Kept
<1>3. CASE Confirm
  <2>1. Kept
    BY <1>3, ConfirmGrows DEF Grown
  <2> QED
    BY <1>3, <2>1 DEF Confirm, MoneyTyped, Kept
<1>4. CASE FundCredit \/ FundDebit
  <2>1. Kept
    BY <1>4, FundKeeps DEF Grown
  <2> QED
    BY <1>4, <2>1 DEF FundCredit, FundDebit, MoneyTyped, Kept, Accounts
<1>5. CASE Flag \/ EvictUser
  BY <1>5 DEF Flag, EvictUser, MoneyTyped, history, Accounts
<1> QED
  BY <1>1, <1>2, <1>3, <1>4, <1>5 DEF LedgerNext, Kept

(* A scan goes on with the rest. *)
LEMMA TodoTyped ==
  ASSUME NEW t \in Todos, t # <<>>
  PROVE  Head(t) \in Accounts /\ Tail(t) \in Todos
<1>1. CASE t = AllThree
  BY <1>1 DEF Todos, Accounts, AllThree, LastTwo, LastOne, TheFund
<1>2. CASE t = LastTwo
  BY <1>2 DEF Todos, Accounts, AllThree, LastTwo, LastOne, TheFund
<1>3. CASE t = LastOne
  BY <1>3 DEF Todos, Accounts, AllThree, LastTwo, LastOne, TheFund
<1>4. CASE t = TheFund
  BY <1>4 DEF Todos, Accounts, AllThree, LastTwo, LastOne, TheFund
<1> QED
  BY <1>1, <1>2, <1>3, <1>4 DEF Todos

(* A conversion of one account keeps the types. *)
LEMMA ConvertedTyped ==
  ASSUME LedgerTypeInv, NEW c \in Conversions, NEW diff \in Int, Converted(c, diff)
  PROVE  LedgerTypeInv'
<1> USE DEF LedgerTypeInv, MoneyTyped, ScansTyped
<1>1. conv[c].todo \in Todos /\ conv[c].todo # <<>> /\ First(c) \in {"create", "read", "move"}
  BY DEF Converted, Pending, First
<1>2. Account(c) \in Accounts /\ Tail(conv[c].todo) \in Todos
  BY <1>1, TodoTyped DEF Account
<1>3. conv' \in [Conversions -> [todo : Todos, at : {"create", "read", "move"}, read : Nat]]
  BY <1>1, <1>2 DEF Converted
<1>4. CASE UNCHANGED <<tb, moved, tainted, loose>>
  BY <1>3, <1>4 DEF Converted
<1>5. CASE /\ tb[Account(c)] + diff >= 0 /\ tb' = [tb EXCEPT ![Account(c)] = @ + diff]
           /\ moved' = moved \cup {<<c, Account(c)>>}
           /\ tainted' = tainted \cup (IF Ahead(Account(c)) \ {c} # {} THEN {Account(c)} ELSE {})
           /\ loose' = (loose \/ Account(c) = "balance")
  <2>1. tb' \in [Accounts -> Nat]
    BY <1>2, <1>5
  <2>2. moved' \subseteq Conversions \X Accounts /\ tainted' \subseteq Accounts
    BY <1>2, <1>5
  <2>3. loose' \in BOOLEAN
    BY <1>5
  <2> QED
    BY <1>3, <2>1, <2>2, <2>3 DEF Converted
<1> QED
  BY <1>4, <1>5 DEF Converted

(* A conversion adds a whole number of microsats. *)
LEMMA ConversionIs ==
  ASSUME LedgerTypeInv, Set \/ Multiply \/ Fund
  PROVE  \E c \in Conversions, diff \in Int : Converted(c, diff)
<1> USE DEF LedgerTypeInv
<1>1. CASE Set
  <2>1. Account("set") \in Accounts
    BY <1>1, TodoTyped DEF Set, Converted, Pending, Account, ScansTyped, Conversions
  <2>2. OpeningSats[Account("set")] * Msats - conv["set"].read \in Int
    BY <2>1, LedgerAssumption DEF LedgerAssumption, ScansTyped, Conversions, Accounts
  <2> QED
    BY <1>1, <2>2 DEF Set, Conversions
<1>2. CASE Multiply
  <2>1. conv["multiply"].read * (Msats - 1) \in Int
    BY LedgerAssumption DEF LedgerAssumption, ScansTyped, Conversions
  <2> QED
    BY <1>2, <2>1 DEF Multiply, Conversions
<1>3. CASE Fund
  <2>1. OpeningSats["fund"] * Msats \in Int
    BY LedgerAssumption DEF LedgerAssumption
  <2> QED
    BY <1>3, <2>1 DEF Fund, Conversions
<1> QED
  BY <1>1, <1>2, <1>3

(* Every step keeps the types. *)
LEMMA LedgerTypeNext ==
  ASSUME LedgerTypeInv, [MigrationsNext]_migrationsVars
  PROVE  LedgerTypeInv'
<1> USE DEF LedgerTypeInv
<1>1. CASE Request
  <2>1. MoneyTyped'
    BY <1>1, RequestTyped DEF Request
  <2> QED
    BY <1>1, <2>1 DEF Request, ScansTyped
<1>2. ASSUME NEW c \in Conversions, Create(c) PROVE LedgerTypeInv'
  <2>1. Account(c) \in Accounts
    BY <1>2, TodoTyped DEF Create, Pending, Account, ScansTyped
  <2> QED
    BY <1>2, <2>1 DEF Create, MoneyTyped, ScansTyped, Accounts, history
<1>3. ASSUME NEW c \in Conversions, Read(c) PROVE LedgerTypeInv'
  <2>1. Account(c) \in Accounts
    BY <1>3, TodoTyped DEF Read, Pending, Account, ScansTyped
  <2> QED
    BY <1>3, <2>1 DEF Read, MoneyTyped, ScansTyped, ledger, history
<1>4. ASSUME NEW c \in Conversions, Through(c) PROVE LedgerTypeInv'
  BY <1>4 DEF Through, MoneyTyped, ScansTyped, ledger, history
<1>5. CASE Set \/ Multiply \/ Fund
  BY <1>5, ConversionIs, ConvertedTyped
<1>8. CASE ServerStops
  <2>1. \A c \in Conversions : Scanned[c] \in Todos /\ First(c) \in {"create", "read", "move"}
    BY DEF Conversions, Scanned, Users, Todos, First, AllThree, TheFund
  <2>2. conv' \in [Conversions -> [todo : Todos, at : {"create", "read", "move"}, read : Nat]]
    BY <1>8, <2>1 DEF ServerStops, Begin, Todos
  <2>3. Idle \in PaymentRecord
    BY DEF Idle, PaymentRecord, SendLabels
  <2>4. tainted' \subseteq Accounts
    BY <1>8 DEF ServerStops, ScansTyped
  <2> QED
    BY <1>8, <2>2, <2>3, <2>4 DEF ServerStops, MoneyTyped, ScansTyped, history
<1>9. CASE UNCHANGED migrationsVars
  BY <1>9 DEF migrationsVars, ledger, migration, history, MoneyTyped, ScansTyped
<1> QED
  BY <1>1, <1>2, <1>3, <1>4, <1>5, <1>8, <1>9 DEF MigrationsNext

(* The ledger starts with them. *)
LEMMA LedgerTypeInit == ASSUME MigrationsInit PROVE LedgerTypeInv
<1>1. Idle \in PaymentRecord
  BY DEF Idle, PaymentRecord, SendLabels
<1>2. MoneyTyped
  <2>1. \A a \in Accounts : OpeningSats[a] \in Nat /\ OpeningSats[a] * Msats \in Nat
    BY LedgerAssumption DEF LedgerAssumption, Accounts
  <2>2. created \subseteq Accounts
    BY DEF MigrationsInit, Accounts
  <2>3. tb \in [Accounts -> Nat]
    BY <2>1 DEF MigrationsInit
  <2>4. send \in [Sends -> PaymentRecord] /\ live \in [Accounts -> Int]
    BY <1>1 DEF MigrationsInit, LedgerInit
  <2>5. held \in Nat /\ excess \in Int /\ onFee \in Int
    BY DEF MigrationsInit, LedgerInit
  <2>6. noFree \in BOOLEAN /\ evicted \in BOOLEAN /\ loose \in BOOLEAN
    BY Zenon DEF MigrationsInit, LedgerInit
  <2> QED
    BY <2>2, <2>3, <2>4, <2>5, <2>6 DEF MoneyTyped
<1>3. ScansTyped
  <2>1. \A c \in Conversions : Scanned[c] \in Todos /\ First(c) \in {"create", "read", "move"}
    BY DEF Conversions, Scanned, Users, Todos, First, AllThree, TheFund
  <2>2. conv \in [Conversions -> [todo : Todos, at : {"create", "read", "move"}, read : Nat]]
    BY <2>1 DEF MigrationsInit, Begin, Todos
  <2>3. migrated \subseteq Conversions
    BY DEF MigrationsInit, Conversions
  <2> QED
    BY <2>2, <2>3 DEF MigrationsInit, ScansTyped
<1> QED
  BY <1>2, <1>3 DEF LedgerTypeInv

(* The money and the scans keep their types. *)
LEMMA LedgerTyped == MigrationsSpec => []LedgerTypeInv
<1> QED
  BY LedgerTypeInit, LedgerTypeNext, PTL DEF MigrationsSpec

(* What is counted only grows. *)
LEMMA CountsNext ==
  ASSUME requests \in Nat, flags \in Nat, stops \in Nat, [MigrationsNext]_migrationsVars
  PROVE  requests' \in Nat /\ flags' \in Nat /\ stops' \in Nat
<1>1. ASSUME NEW s \in Sends, Payment(s) PROVE UNCHANGED <<requests, flags>>
  BY <1>1 DEF Payment, DebitStart, DebitCredit, DebitCheck, DebitMove, Refund, Reverse
<1>2. ASSUME NEW target \in {"balance", "pending"}, Credit(target)
      PROVE  requests' \in Nat /\ flags' = flags
  BY <1>2 DEF Credit, Counted
<1>3. Confirm \/ FundCredit \/ FundDebit => requests' \in Nat /\ flags' = flags
  BY DEF Confirm, FundCredit, FundDebit, Counted
<1>4. Flag \/ EvictUser => requests' = requests /\ flags' \in Nat
  BY DEF Flag, EvictUser
<1>5. CASE Request
  BY <1>1, <1>2, <1>3, <1>4, <1>5 DEF Request, LedgerNext
<1>6. CASE \E c \in Conversions : Create(c) \/ Read(c) \/ Through(c)
  BY <1>6 DEF Create, Read, Through, ledger
<1>7. CASE Set \/ Multiply \/ Fund
  BY <1>7 DEF Set, Multiply, Fund, Converted
<1>8. CASE ServerStops
  BY <1>8 DEF ServerStops
<1>9. CASE UNCHANGED migrationsVars
  BY <1>9 DEF migrationsVars, ledger, migration
<1> QED
  BY <1>5, <1>6, <1>7, <1>8, <1>9 DEF MigrationsNext

(* Types: no account of the ledger is ever below zero, and a scan goes over *)
(* accounts only, whatever requests, conversions and restarts interleave.   *)
THEOREM LedgerTypesHold == MigrationsSpec => []MigrationsTypeOK
<1> DEFINE Counts == requests \in Nat /\ flags \in Nat /\ stops \in Nat
<1>1. MigrationsInit => Counts
  BY DEF MigrationsInit, LedgerInit
<1>2. Counts /\ [MigrationsNext]_migrationsVars => Counts'
  BY CountsNext
<1>3. LedgerTypeInv /\ Counts => MigrationsTypeOK
  <2> SUFFICES ASSUME LedgerTypeInv, Counts PROVE MigrationsTypeOK
    OBVIOUS
  <2>1. LedgerTypeOK
    BY DEF LedgerTypeInv, MoneyTyped, LedgerTypeOK, PaymentRecord, SendLabels
  <2>2. AllThree \in Seq(Accounts) /\ LastTwo \in Seq(Accounts) /\ LastOne \in Seq(Accounts)
    BY DEF AllThree, LastTwo, LastOne, Accounts
  <2>3. TheFund \in Seq(Accounts) /\ <<>> \in Seq(Accounts)
    BY DEF TheFund, Accounts
  <2>4. \A t \in Todos : t \in Seq(Accounts)
    BY <2>2, <2>3 DEF Todos
  <2> QED
    BY <2>1, <2>4 DEF LedgerTypeInv, ScansTyped, MigrationsTypeOK
<1> HIDE DEF Counts
<1> QED
  BY <1>1, <1>2, <1>3, LedgerTyped, PTL DEF MigrationsSpec

-----------------------------------------------------------------------------
(* Reversals *)

(* What a debit has noted: the fee of its base, less what its credit covers. *)
FeeNoted(s) ==
  LET fee == Fee(send[s].base, send[s].rate)
  IN  /\ send[s].pc = "credit" => send[s].ourfee = fee
      /\ send[s].pc \in {"check", "move", "paid"} =>
           /\ send[s].cover <= fee * Msats
           /\ send[s].ourfee = (fee * Msats - send[s].cover) \div Msats

(* The inductive invariant: the notes of every payment, and the last reversal. *)
WholeInv == ReversalMakesWhole /\ \A s \in Sends : FeeNoted(s)

(* The fee grows with the amount. *)
LEMMA FeeGrows ==
  ASSUME NEW x \in Nat, NEW y \in Nat, x <= y, NEW rate \in Nat
  PROVE  Fee(x, rate) <= Fee(y, rate)
<1>1. x * rate \in Nat /\ y * rate \in Nat /\ x * rate <= y * rate
  BY TimesGrows
<1> DEFINE m == 2 * (x * rate) + Scale
           n == 2 * (y * rate) + Scale
           d == 2 * Scale
<1>2. m \in Nat /\ n \in Nat /\ m <= n /\ d \in Nat \ {0}
  BY <1>1, LedgerAssumption DEF LedgerAssumption
<1>3. Fee(x, rate) = m \div d /\ Fee(y, rate) = n \div d
  BY DEF Fee, Round
<1> HIDE DEF m, n, d
<1> QED
  BY <1>2, <1>3, DivGrows

(* A reversal gives back the fee credit that was consumed, and the fee on the fee. *)
LEMMA BackIsWhole ==
  ASSUME NEW fee \in Nat, NEW cover \in Nat, cover <= fee * Msats,
         NEW big \in Nat, fee <= big,
         NEW ourfee, ourfee = (fee * Msats - cover) \div Msats
  PROVE  LET credit == big - ourfee
             back   == IF credit > 0 THEN credit ELSE 0
             more   == big - fee
             over   == back * Msats - cover
         IN  more * Msats <= over /\ over < (more + 1) * Msats
<1>1. Msats \in Nat \ {0} /\ fee * Msats \in Nat
  BY LedgerAssumption DEF LedgerAssumption
<1> DEFINE n == fee * Msats - cover
<1>2. n \in Nat /\ n <= fee * Msats
  BY <1>1
<1>3. ourfee \in Nat /\ Msats * ourfee <= n /\ n < Msats * ourfee + Msats
  BY <1>1, <1>2, DivIs
<1>4. ourfee <= fee
  <2>1. SUFFICES ASSUME fee + 1 <= ourfee PROVE FALSE
    BY <1>3
  <2>2. Msats * (fee + 1) <= Msats * ourfee /\ Msats * (fee + 1) = fee * Msats + Msats
    BY <1>1, <1>3, <2>1, TimesGrows
  <2>3. Msats * ourfee \in Nat
    BY <1>1, <1>3
  <2> QED
    BY <1>1, <1>2, <1>3, <2>2, <2>3
<1> DEFINE credit == big - ourfee
           back   == IF credit > 0 THEN credit ELSE 0
<1>5. back = big - ourfee
  BY <1>3, <1>4
<1>6. /\ back * Msats = big * Msats - Msats * ourfee
      /\ (big - fee) * Msats = big * Msats - fee * Msats
      /\ (big - fee + 1) * Msats = big * Msats - fee * Msats + Msats
  BY <1>1, <1>3, <1>5
<1>7. Msats * ourfee \in Nat /\ big * Msats \in Nat
  BY <1>1, <1>3
<1> HIDE DEF credit
<1>8. n = fee * Msats - cover
  OBVIOUS
<1> HIDE DEF n, back
<1>9. /\ (big - fee) * Msats <= back * Msats - cover
      /\ back * Msats - cover < (big - fee + 1) * Msats
  BY <1>1, <1>2, <1>3, <1>6, <1>7, <1>8
<1> QED
  BY <1>9 DEF back, credit

(* A payment keeps its fee noted, and its reversal makes whole. *)
LEMMA WholePayment ==
  ASSUME MoneyTyped, WholeInv, NEW s \in Sends, Payment(s) PROVE WholeInv'
<1> USE DEF MoneyTyped, WholeInv, SendGoto
<1>1. send[s] \in PaymentRecord
  OBVIOUS
<1>2. ASSUME NEW t \in Sends \ {s} PROVE FeeNoted(t)'
  <2>1. send'[t] = send[t]
    BY DEF Payment, DebitStart, DebitCredit, DebitCheck, DebitMove, Refund, Reverse
  <2> QED
    BY <2>1 DEF FeeNoted, Fee, Round
<1>3. FeeNoted(s)'
  <2>1. CASE DebitStart(s)
    BY <2>1 DEF DebitStart, FeeNoted, Fee, Round
  <2>2. CASE DebitCredit(s)
    <3> DEFINE fee   == Fee(send[s].base, send[s].rate)
               due   == send[s].ourfee * Msats
               cover == IF tb["credit"] < due THEN tb["credit"] ELSE due
    <3>1. send' = [send EXCEPT ![s].pc = "check", ![s].cover = cover,
                               ![s].ourfee = (due - cover) \div Msats]
      BY <2>2 DEF DebitCredit
    <3>2. send[s].ourfee = fee
      BY <2>2 DEF DebitCredit, FeeNoted
    <3>3. fee * Msats \in Nat /\ tb["credit"] \in Nat
      <4>1. fee \in Nat
        BY <1>1, FeeType DEF PaymentRecord
      <4> HIDE DEF fee
      <4> QED
        BY <4>1, LedgerAssumption DEF LedgerAssumption, Accounts
    <3>4. cover <= fee * Msats /\ due = fee * Msats
      BY <3>2, <3>3
    <3> HIDE DEF cover, due
    <3>5. /\ send'[s].pc = "check" /\ send'[s].cover = cover /\ send'[s].base = send[s].base
          /\ send'[s].rate = send[s].rate /\ send'[s].ourfee = (due - cover) \div Msats
      BY <1>1, <3>1 DEF PaymentRecord
    <3> QED
      BY <3>4, <3>5 DEF FeeNoted, Fee, Round
  <2>3. CASE DebitCheck(s) \/ DebitMove(s) \/ Refund(s) \/ Reverse(s)
    <3>1. /\ send[s].pc \in {"check", "move", "paid"}
          /\ send'[s] = [send[s] EXCEPT !.pc = send'[s].pc]
          /\ send'[s].pc \in {"done", "move", "paid"}
      BY <1>1, <2>3 DEF DebitCheck, DebitMove, Refund, Reverse, PaymentRecord
    <3>2. /\ send'[s].base = send[s].base /\ send'[s].rate = send[s].rate
          /\ send'[s].cover = send[s].cover /\ send'[s].ourfee = send[s].ourfee
      BY <1>1, <3>1 DEF PaymentRecord
    <3> QED
      BY <3>1, <3>2 DEF FeeNoted, Fee, Round
  <2> QED
    BY <2>1, <2>2, <2>3 DEF Payment
<1>4. ReversalMakesWhole'
  <2>1. CASE Reverse(s)
    <3> DEFINE fee    == Fee(send[s].base, send[s].rate)
               total  == send[s].base + send[s].ourfee
               credit == Fee(total, Rate) - send[s].ourfee
               back   == IF credit > 0 THEN credit ELSE 0
               more   == Fee(total, Rate) - Fee(send[s].base, Rate)
    <3>1. /\ excess' = IF send[s].rate = Rate THEN back * Msats - send[s].cover ELSE 0
          /\ onFee' = IF send[s].rate = Rate THEN more ELSE 0
      BY <2>1 DEF Reverse, Reversal
    <3>2. CASE send[s].rate = Rate
      <4>1. /\ send[s].base \in Nat /\ send[s].ourfee \in Nat /\ total \in Nat
            /\ send[s].cover \in Nat /\ send[s].base <= total /\ Rate \in Nat
        BY <1>1, RateType DEF PaymentRecord
      <4>2. fee \in Nat /\ Fee(total, Rate) \in Nat /\ fee <= Fee(total, Rate)
        BY <3>2, <4>1, FeeType, FeeGrows
      <4>3. send[s].cover <= fee * Msats /\ send[s].ourfee = (fee * Msats - send[s].cover) \div Msats
        BY <2>1 DEF Reverse, FeeNoted
      <4>4. Fee(send[s].base, Rate) = fee
        BY <3>2
      <4> DEFINE big == Fee(total, Rate)
      <4>5. big \in Nat /\ fee <= big
        BY <4>2
      <4> HIDE DEF fee, big
      <4>6. LET c == big - send[s].ourfee
                b == IF c > 0 THEN c ELSE 0
                k == big - fee
                r == b * Msats - send[s].cover
            IN  k * Msats <= r /\ r < (k + 1) * Msats
        BY <4>1, <4>2, <4>3, <4>5, BackIsWhole
      <4>7. more = big - fee /\ credit = big - send[s].ourfee
        BY <4>4 DEF big
      <4> HIDE DEF more, credit
      <4> QED
        BY <3>1, <3>2, <4>6, <4>7 DEF ReversalMakesWhole
    <3>3. CASE send[s].rate # Rate
      BY <3>1, <3>3, LedgerAssumption DEF LedgerAssumption, ReversalMakesWhole
    <3> QED
      BY <3>2, <3>3
  <2>2. CASE ~Reverse(s)
    <3>1. excess' = excess /\ onFee' = onFee
      BY <2>2 DEF Payment, DebitStart, DebitCredit, DebitCheck, DebitMove, Refund, history
    <3> QED
      BY <3>1 DEF ReversalMakesWhole
  <2> QED
    BY <2>1, <2>2
<1> QED
  BY <1>2, <1>3, <1>4

(* Every step does: a payment's notes are its own. *)
LEMMA WholeNext ==
  ASSUME LedgerTypeInv, WholeInv, [MigrationsNext]_migrationsVars
  PROVE  WholeInv'
<1>1. ASSUME NEW s \in Sends, Payment(s) PROVE WholeInv'
  BY <1>1, WholePayment DEF LedgerTypeInv
<1>2. ASSUME UNCHANGED <<send, excess, onFee>> PROVE WholeInv'
  BY <1>2 DEF WholeInv, ReversalMakesWhole, FeeNoted, Fee, Round
<1>3. CASE Request
  <2>1. ASSUME NEW target \in {"balance", "pending"}, Credit(target) PROVE UNCHANGED <<send, excess, onFee>>
    BY <2>1 DEF Credit
  <2>2. ASSUME Confirm \/ FundCredit \/ FundDebit \/ Flag \/ EvictUser PROVE UNCHANGED <<send, excess, onFee>>
    BY <2>2 DEF Confirm, FundCredit, FundDebit, Flag, EvictUser, history
  <2> QED
    BY <1>1, <1>2, <1>3, <2>1, <2>2 DEF Request, LedgerNext
<1>4. CASE \E c \in Conversions : Create(c) \/ Read(c) \/ Through(c)
  BY <1>2, <1>4 DEF Create, Read, Through, ledger, history
<1>5. CASE Set \/ Multiply \/ Fund
  BY <1>2, <1>5 DEF Set, Multiply, Fund, Converted
<1>6. CASE ServerStops
  BY <1>6 DEF ServerStops, history, WholeInv, ReversalMakesWhole, FeeNoted, Idle
<1>7. CASE UNCHANGED migrationsVars
  BY <1>2, <1>7 DEF migrationsVars, ledger, history
<1> QED
  BY <1>1, <1>3, <1>4, <1>5, <1>6, <1>7 DEF MigrationsNext

(* A reversal at the rate of its debit returns no less than the fee credit that was  *)
(* consumed and less than a sat more, whatever the other payments, the flags and the *)
(* conversions do in between (tbDebit, tbReverse, reverse()).                        *)
THEOREM ReversalsAreWhole == MigrationsSpec => []ReversalMakesWhole
<1>1. MigrationsInit => WholeInv
  BY LedgerAssumption DEF LedgerAssumption, MigrationsInit, LedgerInit, WholeInv,
      ReversalMakesWhole, FeeNoted, Idle
<1>2. WholeInv => ReversalMakesWhole
  BY DEF WholeInv
<1> QED
  BY <1>1, <1>2, LedgerTyped, WholeNext, PTL DEF MigrationsSpec

-----------------------------------------------------------------------------
(* Evictions *)

(* Since the eviction the balance has changed by whole sats, one debit at a *)
(* time runs, it has frozen no less than was held then, and it goes on only *)
(* if what it takes is not frozen.                                          *)
Tight ==
  /\ \E k \in Nat : tb["balance"] = held + k * Msats
  /\ \A s, t \in Debiting : s = t
  /\ \A s \in Debiting :
       /\ held \div Msats <= send[s].frozen
       /\ send[s].pc = "move" => tb["balance"] - send[s].frozen * Msats >= Total(s)

(* The inductive invariant of an eviction. *)
FrozenInv == evicted /\ ~loose => Tight

(* What is left of n over the whole sats of h is whole sats over h, too. *)
LEMMA LeavesFrozen ==
  ASSUME NEW h \in Nat, NEW k \in Nat, NEW f \in Nat, NEW n \in Nat,
         h \div Msats <= f, (h + k * Msats) - f * Msats >= n * Msats
  PROVE  k - n \in Nat /\ (h + k * Msats) - n * Msats = h + (k - n) * Msats
<1> DEFINE q == h \div Msats
<1>1. Msats \in Nat \ {0}
  BY LedgerAssumption DEF LedgerAssumption
<1>2. q \in Nat /\ h < Msats * q + Msats
  BY <1>1, DivIs
<1> HIDE DEF q
<1>3. q * Msats <= f * Msats
  BY <1>1, <1>2, TimesGrows DEF q
<1>4. n <= k
  <2>1. SUFFICES ASSUME k + 1 <= n PROVE FALSE
    OBVIOUS
  <2>2. (k + 1) * Msats <= n * Msats
    BY <1>1, <2>1, TimesGrows
  <2>3. (k + 1) * Msats = k * Msats + Msats
    BY <1>1
  <2>4. k * Msats \in Nat /\ f * Msats \in Nat /\ n * Msats \in Nat /\ q * Msats \in Nat
        /\ Msats * q = q * Msats
    BY <1>1, <1>2
  <2> QED
    BY <1>1, <1>2, <1>3, <2>2, <2>3, <2>4
<1>5. (k - n) * Msats = k * Msats - n * Msats
  BY <1>1
<1>6. k * Msats \in Nat /\ n * Msats \in Nat
  BY <1>1
<1> QED
  BY <1>4, <1>5, <1>6

(* More whole sats. *)
LEMMA StaysTight ==
  ASSUME MoneyTyped, MoneyTyped', Tight, Grown, UNCHANGED held,
         \A s \in Debiting' : /\ s \in Debiting
                              /\ send'[s].frozen = send[s].frozen
                              /\ send'[s].pc = "move" => send[s].pc = "move" /\ Total(s)' = Total(s)
  PROVE  Tight'
<1>1. PICK k \in Nat : tb["balance"] = held + k * Msats
  BY DEF Tight
<1>2. PICK n \in Nat : tb'["balance"] = tb["balance"] + n * Msats
  BY DEF Grown
<1>3. Msats \in Nat /\ k * Msats \in Nat /\ n * Msats \in Nat /\ (k + n) * Msats = k * Msats + n * Msats
  BY LedgerAssumption DEF LedgerAssumption
<1>4. k + n \in Nat /\ tb'["balance"] = held' + (k + n) * Msats
  BY <1>1, <1>2, <1>3 DEF MoneyTyped
<1>5. \E j \in Nat : tb'["balance"] = held' + j * Msats
  BY <1>4, Zenon
<1>6. \A s, t \in Debiting' : s = t
  BY DEF Tight
<1>7. ASSUME NEW s \in Debiting'
      PROVE  /\ held' \div Msats <= send'[s].frozen
             /\ send'[s].pc = "move" => tb'["balance"] - send'[s].frozen * Msats >= Total(s)'
  <2>1. s \in Debiting /\ s \in Sends
    BY DEF Debiting
  <2>2. tb["balance"] \in Nat /\ send[s].frozen * Msats \in Nat /\ Total(s) \in Int
    <3>1. send[s].frozen \in Nat /\ send[s].base + send[s].ourfee \in Nat
      BY <2>1 DEF MoneyTyped, PaymentRecord
    <3> QED
      BY <1>3, <3>1 DEF MoneyTyped, Accounts, Total
  <2> QED
    BY <1>2, <1>3, <2>1, <2>2 DEF Tight
<1> QED
  BY <1>5, <1>6, <1>7 DEF Tight

(* A payment of an evicted user leaves what is frozen. *)
LEMMA FrozenPayment ==
  ASSUME MoneyTyped, MoneyTyped', FrozenInv, NEW s \in Sends, Payment(s), evicted', ~loose'
  PROVE  Tight'
<1>1. evicted /\ held' = held
  BY PaymentTyped
<1>2. ~loose
  BY DEF Payment, DebitStart, DebitCredit, DebitCheck, DebitMove, Refund, Reverse, history
<1>3. Tight
  BY <1>1, <1>2 DEF FrozenInv
<1>4. \A t \in Sends \ {s} : send'[t] = send[t]
  BY DEF Payment, DebitStart, DebitCredit, DebitCheck, DebitMove, Refund, Reverse, SendGoto, MoneyTyped
<1>5. \A t \in Sends \ {s} : Total(t)' = Total(t) /\ (t \in Debiting' <=> t \in Debiting)
  BY <1>4 DEF Total, Debiting
<1>6. send[s] \in PaymentRecord /\ send'[s] \in PaymentRecord
  BY DEF MoneyTyped
<1>7. CASE DebitStart(s)
  <2>1. Debiting = {}
    BY <1>1, <1>7 DEF DebitStart
  <2>2. /\ send'[s].frozen = tb["balance"] \div Msats /\ send'[s].pc = "credit"
        /\ UNCHANGED <<tb, held>>
    BY <1>1, <1>7 DEF DebitStart, MoneyTyped
  <2>3. Debiting' \subseteq {s}
    BY <1>5, <2>1 DEF Debiting
  <2>4. PICK k \in Nat : tb["balance"] = held + k * Msats
    BY <1>3 DEF Tight
  <2>5. held \in Nat /\ tb["balance"] \in Nat /\ held <= tb["balance"] /\ Msats \in Nat \ {0}
    <3>1. Msats \in Nat \ {0} /\ k * Msats \in Nat
      BY LedgerAssumption DEF LedgerAssumption
    <3> QED
      BY <2>4, <3>1 DEF MoneyTyped, Accounts
  <2>6. held \div Msats <= tb["balance"] \div Msats
    BY <2>5, DivGrows
  <2>7. \E j \in Nat : tb'["balance"] = held' + j * Msats
    BY <2>2, <2>4
  <2>8. \A t \in Debiting' : /\ held' \div Msats <= send'[t].frozen
                             /\ send'[t].pc # "move"
    BY <2>2, <2>3, <2>6
  <2> QED
    BY <2>3, <2>7, <2>8 DEF Tight
<1>8. CASE DebitCredit(s)
  <2>1. /\ send'[s].pc = "check" /\ send'[s].frozen = send[s].frozen /\ s \in Debiting
        /\ UNCHANGED <<tb, live, held>>
    BY <1>6, <1>8 DEF DebitCredit, PaymentRecord, Debiting, MoneyTyped, history
  <2>2. Grown
    BY <2>1, Still
  <2>3. ASSUME NEW t \in Debiting'
        PROVE  /\ t \in Debiting /\ send'[t].frozen = send[t].frozen
               /\ send'[t].pc = "move" => send[t].pc = "move" /\ Total(t)' = Total(t)
    <3>1. t \in Sends
      BY DEF Debiting
    <3> QED
      BY <1>4, <1>5, <2>1, <3>1
  <2> QED
    BY <1>3, <2>1, <2>2, <2>3, StaysTight
<1>9. CASE DebitCheck(s)
  <2>1. /\ send'[s].frozen = send[s].frozen /\ s \in Debiting /\ Total(s)' = Total(s)
        /\ send'[s].pc = "move" => ~(tb["balance"] - send[s].frozen * Msats < Total(s))
        /\ UNCHANGED <<tb, live, held>>
    BY <1>6, <1>9 DEF DebitCheck, SendGoto, PaymentRecord, Debiting, MoneyTyped, history, Total
  <2>2. /\ send[s].frozen * Msats \in Int /\ Total(s) \in Int /\ tb["balance"] \in Int
    <3>1. send[s].frozen \in Nat /\ send[s].base + send[s].ourfee \in Nat /\ Msats \in Nat
      BY <1>6, LedgerAssumption DEF LedgerAssumption, PaymentRecord
    <3> QED
      BY <3>1 DEF Total, MoneyTyped, Accounts
  <2>3. send'[s].pc = "move" => tb'["balance"] - send'[s].frozen * Msats >= Total(s)'
    BY <2>1, <2>2
  <2>4. Debiting' \subseteq Debiting
    BY <1>5, <2>1 DEF Debiting
  <2>5. \E j \in Nat : tb'["balance"] = held' + j * Msats
    BY <1>3, <2>1 DEF Tight
  <2>6. ASSUME NEW t \in Debiting'
        PROVE  /\ held' \div Msats <= send'[t].frozen
               /\ send'[t].pc = "move" => tb'["balance"] - send'[t].frozen * Msats >= Total(t)'
    <3>1. t \in Debiting /\ t \in Sends
      BY <2>4 DEF Debiting
    <3> QED
      BY <1>3, <1>4, <1>5, <2>1, <2>3, <3>1 DEF Tight
  <2> QED
    BY <1>3, <2>4, <2>5, <2>6 DEF Tight
<1>10. CASE DebitMove(s)
  <2>1. /\ send'[s].pc \notin {"credit", "check", "move"} /\ send[s].pc = "move" /\ s \in Debiting
    BY <1>6, <1>10 DEF DebitMove, SendGoto, PaymentRecord, Debiting, MoneyTyped
  <2>2. Debiting' = {}
    BY <1>3, <1>5, <2>1 DEF Debiting, Tight
  <2>3. PICK k \in Nat : tb["balance"] = held + k * Msats
    BY <1>3 DEF Tight
  <2> DEFINE n == send[s].base + send[s].ourfee
  <2>4. n \in Nat /\ Total(s) = n * Msats /\ send[s].frozen \in Nat /\ held \in Nat
    BY <1>6 DEF PaymentRecord, Total, MoneyTyped
  <2>5. held \div Msats <= send[s].frozen /\ (held + k * Msats) - send[s].frozen * Msats >= n * Msats
    BY <1>3, <2>1, <2>3, <2>4 DEF Tight
  <2> HIDE DEF n
  <2>6. k - n \in Nat /\ (held + k * Msats) - n * Msats = held + (k - n) * Msats
    BY <2>4, <2>5, LeavesFrozen
  <2>7. \E j \in Nat : tb'["balance"] = held' + j * Msats
    <3>1. CASE tb'["balance"] = tb["balance"] - Total(s)
      <4>1. tb'["balance"] = held' + (k - n) * Msats
        BY <1>1, <2>3, <2>4, <2>6, <3>1
      <4> QED
        BY <2>6, <4>1
    <3>2. CASE UNCHANGED tb
      BY <1>1, <2>3, <3>2
    <3> QED
      BY <1>10, <3>1, <3>2, DebitMoves
  <2> QED
    BY <2>2, <2>7 DEF Tight
<1>11. CASE Refund(s) \/ Reverse(s)
  <2>1. Grown
    <3>1. CASE Refund(s)
      BY <3>1, RefundGrows
    <3>2. CASE Reverse(s)
      <4> DEFINE c == Fee(send[s].base + send[s].ourfee, Rate) - send[s].ourfee
      <4>1. send[s].base + send[s].ourfee \in Nat /\ send[s].ourfee \in Nat
        BY <1>6 DEF PaymentRecord
      <4>2. Fee(send[s].base + send[s].ourfee, Rate) \in Nat
        BY <4>1, FeeType, RateType
      <4>3. c \in Int /\ Reversal(s, c)
        BY <3>2, <4>1, <4>2 DEF Reverse
      <4> QED
        BY <4>3, ReversalGrows
    <3> QED
      BY <1>11, <3>1, <3>2
  <2>2. send'[s].pc = "done"
    BY <1>6, <1>11 DEF Refund, Reverse, SendGoto, MoneyTyped, PaymentRecord
  <2>3. ASSUME NEW t \in Debiting'
        PROVE  /\ t \in Debiting /\ send'[t].frozen = send[t].frozen
               /\ send'[t].pc = "move" => send[t].pc = "move" /\ Total(t)' = Total(t)
    <3>1. t \in Sends \ {s}
      BY <2>2 DEF Debiting
    <3> QED
      BY <1>4, <1>5, <3>1
  <2> QED
    BY <1>1, <1>3, <2>1, <2>3, StaysTight
<1> QED
  BY <1>7, <1>8, <1>9, <1>10, <1>11 DEF Payment

(* Every step does, unless debits overlap or a conversion changes the balance. *)
LEMMA FrozenNext ==
  ASSUME LedgerTypeInv, FrozenInv, [MigrationsNext]_migrationsVars
  PROVE  FrozenInv'
<1> SUFFICES ASSUME evicted', ~loose' PROVE Tight'
  BY DEF FrozenInv
<1>1. MoneyTyped /\ MoneyTyped'
  BY LedgerTypeNext DEF LedgerTypeInv
<1>2. ASSUME NEW s \in Sends, Payment(s) PROVE Tight'
  BY <1>1, <1>2, FrozenPayment
<1>3. ASSUME Grown, UNCHANGED <<held, send, evicted, loose>> PROVE Tight'
  <2>1. Tight
    BY <1>3 DEF FrozenInv
  <2>2. \A s \in Debiting' : s \in Debiting /\ Total(s)' = Total(s)
    BY <1>3 DEF Debiting, Total
  <2> QED
    BY <1>1, <1>3, <2>1, <2>2, StaysTight
<1>4. ASSUME UNCHANGED <<tb, live, held, send, evicted, loose>> PROVE Tight'
  <2>1. Grown
    BY <1>1, <1>4, Still
  <2> QED
    BY <1>3, <1>4, <2>1
<1>5. CASE Request
  <2>1. ASSUME NEW target \in {"balance", "pending"}, Credit(target) PROVE Tight'
    BY <1>1, <1>3, <2>1, CreditGrows DEF Credit
  <2>2. CASE Confirm
    BY <1>1, <1>3, <2>2, ConfirmGrows DEF Confirm
  <2>3. CASE FundCredit \/ FundDebit
    BY <1>1, <1>3, <2>3, FundKeeps DEF FundCredit, FundDebit
  <2>4. CASE Flag
    BY <1>4, <2>4 DEF Flag, history
  <2>5. CASE EvictUser
    <3>1. Debiting = {} /\ send' = send /\ tb' = tb /\ held' = tb["balance"]
      BY <2>5 DEF EvictUser
    <3>2. Debiting' = {}
      BY <3>1 DEF Debiting
    <3>3. 0 * Msats = 0 /\ tb["balance"] \in Nat
      BY <1>1, LedgerAssumption DEF LedgerAssumption, MoneyTyped, Accounts
    <3>4. tb'["balance"] = held' + 0 * Msats
      BY <3>1, <3>3
    <3>5. \E k \in Nat : tb'["balance"] = held' + k * Msats
      BY <3>4
    <3> QED
      BY <3>2, <3>5 DEF Tight
  <2> QED
    BY <1>2, <1>5, <2>1, <2>2, <2>3, <2>4, <2>5 DEF Request, LedgerNext
<1>6. CASE \E c \in Conversions : Create(c) \/ Read(c) \/ Through(c)
  BY <1>4, <1>6 DEF Create, Read, Through, ledger, history
<1>7. CASE Set \/ Multiply \/ Fund
  <2>1. PICK c \in Conversions, diff \in Int : Converted(c, diff)
    BY <1>7, ConversionIs
  <2>2. UNCHANGED <<live, held, send, evicted>>
    BY <2>1 DEF Converted
  <2>3. CASE UNCHANGED <<tb, loose>>
    BY <1>4, <2>2, <2>3
  <2>4. CASE tb' = [tb EXCEPT ![Account(c)] = @ + diff] /\ loose' = (loose \/ Account(c) = "balance")
    <3>1. Account(c) # "balance" /\ loose' = loose
      BY <1>1, <2>4 DEF MoneyTyped
    <3>2. tb'["balance"] = tb["balance"]
      BY <1>1, <2>4, <3>1 DEF MoneyTyped, Accounts
    <3>3. Tight
      BY <2>2, <3>1 DEF FrozenInv
    <3>4. Debiting' = Debiting /\ \A s \in Sends : Total(s)' = Total(s)
      BY <2>2 DEF Debiting, Total
    <3>5. Debiting \subseteq Sends
      BY DEF Debiting
    <3> QED
      BY <2>2, <3>2, <3>3, <3>4, <3>5 DEF Tight
  <2> QED
    BY <2>1, <2>3, <2>4 DEF Converted
<1>8. CASE ServerStops
  <2>1. Debiting' = {} /\ UNCHANGED <<tb, held, evicted, loose>>
    BY <1>8 DEF ServerStops, Debiting, Idle, history
  <2>2. Tight
    BY <2>1 DEF FrozenInv
  <2> QED
    BY <2>1, <2>2 DEF Tight
<1>9. CASE UNCHANGED migrationsVars
  BY <1>4, <1>9 DEF migrationsVars, ledger, history
<1> QED
  BY <1>5, <1>6, <1>7, <1>8, <1>9 DEF MigrationsNext

(* What an evicted user had at the eviction stays on the account through any number of      *)
(* deposits, refunds, reversals and restarts, unless two debits overlap (debit(), tbDebit). *)
THEOREM FrozenKept == MigrationsSpec => []FrozenStays
<1>1. MigrationsInit => FrozenInv
  BY DEF MigrationsInit, LedgerInit, FrozenInv
<1>2. LedgerTypeInv /\ FrozenInv => FrozenStays
  <2> SUFFICES ASSUME LedgerTypeInv, FrozenInv, evicted, ~loose PROVE tb["balance"] >= held
    BY DEF FrozenStays
  <2>1. PICK k \in Nat : tb["balance"] = held + k * Msats
    BY DEF FrozenInv, Tight
  <2>2. k * Msats \in Nat /\ held \in Nat
    BY LedgerAssumption DEF LedgerAssumption, LedgerTypeInv, MoneyTyped
  <2> QED
    BY <2>1, <2>2
<1> QED
  BY <1>1, <1>2, LedgerTyped, FrozenNext, PTL DEF MigrationsSpec

-----------------------------------------------------------------------------
(* Conversions *)

(* The accounts that a conversion has still to go through, the one it holds *)
(* what it has read of, and those it is through with.                       *)
In(t)         == {t[i] : i \in DOMAIN t}
Left(c)       == In(conv[c].todo)
Holding(c, a) == a \in Left(c) /\ Account(c) = a /\ conv[c].at = "move"
Awaits(c, a)  == a \in Left(c) /\ ~(Account(c) = a /\ conv[c].at = "move")

(* What an account has had before the requests, and what it had in redis. *)
Base(a) == tb[a] - live[a]
Full(a) == OpeningSats[a] * Msats

(* The scans: in their order, with the flag only at the end, and on accounts *)
(* that have been made.                                                      *)
Shapes ==
  /\ conv["fund"].todo \in {TheFund, <<>>}
  /\ conv["set"].todo \in Todos \ {TheFund}
  /\ conv["multiply"].todo \in Todos \ {TheFund}
  /\ conv["multiply"].at # "create" /\ conv["fund"].at # "read"

Flags ==
  /\ \A c \in migrated : conv[c].todo = <<>>
  /\ from = "sats" => "set" \in migrated
  /\ from = "microsats" => migrated = Conversions

Made ==
  /\ from = "sats" => {"balance", "pending", "credit"} \subseteq created
  /\ conv["set"].todo = AllThree /\ conv["set"].at # "create" => {"balance", "pending"} \subseteq created
  /\ conv["set"].todo = LastTwo => {"balance", "pending"} \subseteq created
  /\ conv["set"].todo = LastOne /\ conv["set"].at # "create" => "credit" \in created
  /\ conv["fund"].todo = TheFund /\ conv["fund"].at = "move" => "fund" \in created

(* The inductive invariant of the conversions. *)
ScanInv == Shapes /\ Flags /\ Made

(* Sats of the ledger, before and after `multiply`. *)
FromSats(a) ==
  /\ <<"multiply", a>> \notin moved => Base(a) = OpeningSats[a]
  /\ Awaits("multiply", a)  => live[a] = 0 /\ Base(a) = OpeningSats[a]
  /\ Holding("multiply", a) => conv["multiply"].read = OpeningSats[a] /\ Base(a) = OpeningSats[a]
  /\ a \notin Left("multiply") => Base(a) = Full(a)

(* Amounts in redis, before and after `set`; `multiply` finds nothing. *)
FromRedis(a) ==
  /\ Base(a) \in {0, Full(a)}
  /\ <<"set", a>> \notin moved => Base(a) = 0
  /\ Awaits("set", a)       => live[a] = 0
  /\ Holding("set", a)      => conv["set"].read = Base(a)
  /\ a \notin Left("set")   => Base(a) = Full(a)
  /\ Awaits("multiply", a)  => live[a] = 0 /\ Base(a) = 0
  /\ Holding("multiply", a) => conv["multiply"].read = 0

(* The fund, which is in redis at first, too. *)
FromFund ==
  /\ <<"fund", "fund">> \notin moved => Base("fund") = 0
  /\ Awaits("fund", "fund")  => live["fund"] = 0
  /\ "fund" \in Left("fund") => Base("fund") = 0
  /\ "fund" \notin Left("fund") => Base("fund") = Full("fund")

(* What an account holds, by where its amounts were at first. *)
Exact(a) ==
  /\ from = "microsats" => Base(a) = Full(a)
  /\ from # "microsats" /\ a = "fund" => FromFund
  /\ from = "sats" /\ a # "fund" => FromSats(a)
  /\ from = "redis" /\ a # "fund" => FromRedis(a)

ExactInv == ScanInv /\ \A a \in Accounts \ tainted : Exact(a)

(* What a scan has to do is one of five sequences. *)
LEMMA TodoIs ==
  ASSUME NEW t \in Todos
  PROVE  /\ t = AllThree =>
              /\ Len(t) = 3 /\ t[1] = "balance" /\ t[2] = "pending" /\ t[3] = "credit"
              /\ Head(t) = "balance" /\ Tail(t) = LastTwo
         /\ t = LastTwo =>
              /\ Len(t) = 2 /\ t[1] = "pending" /\ t[2] = "credit"
              /\ Head(t) = "pending" /\ Tail(t) = LastOne
         /\ t = LastOne => Len(t) = 1 /\ t[1] = "credit" /\ Head(t) = "credit" /\ Tail(t) = <<>>
         /\ t = TheFund => Len(t) = 1 /\ t[1] = "fund" /\ Head(t) = "fund" /\ Tail(t) = <<>>
         /\ t = <<>> => Len(t) = 0
         /\ DOMAIN t = 1 .. Len(t)
<1>1. CASE t = AllThree
  BY <1>1 DEF AllThree, LastTwo, LastOne, TheFund
<1>2. CASE t = LastTwo
  BY <1>2 DEF AllThree, LastTwo, LastOne, TheFund
<1>3. CASE t = LastOne
  BY <1>3 DEF AllThree, LastTwo, LastOne, TheFund
<1>4. CASE t = TheFund
  BY <1>4 DEF AllThree, LastTwo, LastOne, TheFund
<1>5. CASE t = <<>>
  BY <1>5 DEF AllThree, LastTwo, LastOne, TheFund
<1> QED
  BY <1>1, <1>2, <1>3, <1>4, <1>5 DEF Todos

(* They differ. *)
LEMMA TodosDiffer ==
  /\ AllThree # LastTwo
  /\ AllThree # LastOne /\ AllThree # TheFund
  /\ LastTwo # LastOne /\ LastTwo # TheFund
  /\ LastOne # TheFund
  /\ <<>> \notin {AllThree, LastTwo, LastOne, TheFund}
BY TodoIs DEF Todos

(* The accounts of each of them. *)
LEMMA InIs ==
  ASSUME NEW t \in Todos
  PROVE  /\ t = AllThree => In(t) = {"balance", "pending", "credit"}
         /\ t = LastTwo => In(t) = {"pending", "credit"}
         /\ t = LastOne => In(t) = {"credit"}
         /\ t = TheFund => In(t) = {"fund"}
         /\ t = <<>> => In(t) = {}
<1>1. CASE t = AllThree
  <2>1. DOMAIN t = {1, 2, 3} /\ t[1] = "balance" /\ t[2] = "pending" /\ t[3] = "credit"
    BY <1>1, TodoIs
  <2> QED
    BY <1>1, <2>1, TodosDiffer DEF In
<1>2. CASE t = LastTwo
  <2>1. DOMAIN t = {1, 2} /\ t[1] = "pending" /\ t[2] = "credit"
    BY <1>2, TodoIs
  <2> QED
    BY <1>2, <2>1, TodosDiffer DEF In
<1>3. CASE t = LastOne
  <2>1. DOMAIN t = {1} /\ t[1] = "credit"
    BY <1>3, TodoIs
  <2> QED
    BY <1>3, <2>1, TodosDiffer DEF In
<1>4. CASE t = TheFund
  <2>1. DOMAIN t = {1} /\ t[1] = "fund"
    BY <1>4, TodoIs
  <2> QED
    BY <1>4, <2>1, TodosDiffer DEF In
<1>5. CASE t = <<>>
  <2>1. DOMAIN t = {}
    BY <1>5, TodoIs
  <2> QED
    BY <1>5, <2>1, TodosDiffer DEF In
<1> QED
  BY <1>1, <1>2, <1>3, <1>4, <1>5 DEF Todos

(* The head of a scan is in it once. *)
LEMMA HeadIs ==
  ASSUME NEW t \in Todos, t # <<>>
  PROVE  /\ 1 \in DOMAIN t /\ t[1] = Head(t) /\ Head(t) \in In(t)
         /\ \A i \in DOMAIN t : t[i] = Head(t) => i = 1
         /\ Tail(t) \in Todos /\ In(Tail(t)) = In(t) \ {Head(t)}
<1>1. CASE t = AllThree
  <2>1. Tail(t) = LastTwo /\ In(Tail(t)) = {"pending", "credit"}
    BY <1>1, TodoIs, InIs DEF Todos
  <2>2. In(t) = {"balance", "pending", "credit"} /\ DOMAIN t = {1, 2, 3}
    BY <1>1, TodoIs, InIs
  <2> QED
    BY <1>1, <2>1, <2>2, TodoIs, TodoTyped
<1>2. CASE t = LastTwo
  <2>1. Tail(t) = LastOne /\ In(Tail(t)) = {"credit"}
    BY <1>2, TodoIs, InIs DEF Todos
  <2>2. In(t) = {"pending", "credit"} /\ DOMAIN t = {1, 2}
    BY <1>2, TodoIs, InIs
  <2> QED
    BY <1>2, <2>1, <2>2, TodoIs, TodoTyped
<1>3. CASE t = LastOne \/ t = TheFund
  <2>1. Tail(t) = <<>> /\ In(Tail(t)) = {}
    BY <1>3, TodoIs, InIs DEF Todos
  <2>2. In(t) = {Head(t)} /\ DOMAIN t = {1}
    BY <1>3, TodoIs, InIs
  <2> QED
    BY <1>3, <2>1, <2>2, TodoIs, TodoTyped
<1> QED
  BY <1>1, <1>2, <1>3 DEF Todos

(* A conversion is ahead of an account while it awaits it. *)
LEMMA AheadIs ==
  ASSUME LedgerTypeInv, NEW c \in Conversions, NEW a \in Accounts
  PROVE  c \in Ahead(a) <=> Awaits(c, a)
<1> DEFINE t == conv[c].todo
<1>1. t \in Todos
  BY DEF LedgerTypeInv, ScansTyped
<1>2. CASE t = <<>>
  <2>1. In(t) = {} /\ DOMAIN t = {}
    BY <1>1, <1>2, InIs, TodoIs
  <2> QED
    BY <2>1 DEF Ahead, Awaits, Left
<1>3. CASE t # <<>>
  <2>1. /\ 1 \in DOMAIN t /\ t[1] = Head(t)
        /\ \A i \in DOMAIN t : t[i] = Head(t) => i = 1
    BY <1>1, <1>3, HeadIs
  <2>2. Account(c) = Head(t)
    BY DEF Account
  <2>3. a \in Left(c) <=> \E i \in DOMAIN t : t[i] = a
    BY DEF Left, In
  <2>4. c \in Ahead(a) <=> \E i \in DOMAIN t : t[i] = a /\ ~(i = 1 /\ conv[c].at = "move")
    BY DEF Ahead
  <2> HIDE DEF t
  <2> QED
    BY <2>1, <2>2, <2>3, <2>4 DEF Awaits
<1> QED
  BY <1>2, <1>3

-----------------------------------------------------------------------------
(* A conversion goes on *)

(* What a conversion does to its own scan: it makes an account, *)
LEMMA CreateGoes ==
  ASSUME LedgerTypeInv, ScanInv, NEW c \in Conversions, Create(c)
  PROVE  /\ \A d \in Conversions : conv'[d].todo = conv[d].todo /\ conv'[d].read = conv[d].read
         /\ \A d \in Conversions \ {c} : conv'[d] = conv[d]
         /\ conv[c].at = "create" /\ conv'[c].at = IF c = "fund" THEN "move" ELSE "read"
         /\ Account(c) \in Left(c)
BY HeadIs DEF LedgerTypeInv, ScansTyped, Create, Pending, Account, Left

(* reads what is on it, *)
LEMMA ReadGoes ==
  ASSUME LedgerTypeInv, ScanInv, NEW c \in Conversions, Read(c)
  PROVE  /\ \A d \in Conversions : conv'[d].todo = conv[d].todo
         /\ \A d \in Conversions \ {c} : conv'[d] = conv[d]
         /\ conv[c].at = "read" /\ conv'[c].at = "move" /\ conv'[c].read = tb[Account(c)]
         /\ c # "fund" /\ Account(c) \in Left(c)
BY HeadIs DEF LedgerTypeInv, ScansTyped, ScanInv, Shapes, Read, Pending, Account, Left

(* and goes on to the next. *)
LEMMA ConvertedGoes ==
  ASSUME LedgerTypeInv, NEW c \in Conversions, NEW diff, Converted(c, diff)
  PROVE  /\ \A d \in Conversions \ {c} : conv'[d] = conv[d]
         /\ conv[c].at = "move" /\ conv'[c].at = First(c) /\ First(c) # "move"
         /\ conv'[c].todo = Tail(conv[c].todo)
         /\ Left(c)' = Left(c) \ {Account(c)} /\ Account(c) \in Left(c)
         /\ conv[c].todo # <<>> /\ conv[c].todo \in Todos
<1>1. conv[c].todo \in Todos /\ conv[c].todo # <<>>
  BY DEF LedgerTypeInv, ScansTyped, Converted, Pending
<1>2. In(Tail(conv[c].todo)) = In(conv[c].todo) \ {Account(c)} /\ Account(c) \in In(conv[c].todo)
  BY <1>1, HeadIs DEF Account
<1>3. conv' = [conv EXCEPT ![c] = [todo |-> Tail(conv[c].todo), at |-> First(c), read |-> 0]]
  BY DEF Converted
<1>4. /\ conv'[c].todo = Tail(conv[c].todo) /\ conv'[c].at = First(c)
      /\ \A d \in Conversions \ {c} : conv'[d] = conv[d]
  BY <1>3 DEF LedgerTypeInv, ScansTyped
<1> QED
  BY <1>1, <1>2, <1>4 DEF Converted, First, Left

(* The scans keep their order, *)
LEMMA ShapesNext ==
  ASSUME LedgerTypeInv, ScanInv, [MigrationsNext]_migrationsVars
  PROVE  Shapes'
<1> USE DEF Conversions
<1>1. ASSUME UNCHANGED conv PROVE Shapes'
  BY <1>1 DEF ScanInv, Shapes
<1>2. ASSUME NEW c \in Conversions, Create(c) PROVE Shapes'
  <2>1. \A d \in Conversions : conv'[d].todo = conv[d].todo
    BY <1>2, CreateGoes
  <2>2. conv'["multiply"].at \in {conv["multiply"].at, "read"} /\ conv'["fund"].at \in {conv["fund"].at, "move"}
    BY <1>2, CreateGoes
  <2> QED
    BY <2>1, <2>2 DEF ScanInv, Shapes
<1>3. ASSUME NEW c \in Conversions, Read(c) PROVE Shapes'
  <2>1. \A d \in Conversions : conv'[d].todo = conv[d].todo
    BY <1>3, ReadGoes
  <2>2. conv'["multiply"].at \in {conv["multiply"].at, "move"} /\ conv'["fund"].at = conv["fund"].at
    BY <1>3, ReadGoes
  <2> QED
    BY <2>1, <2>2 DEF ScanInv, Shapes
<1>4. ASSUME NEW c \in Conversions, NEW diff, Converted(c, diff) PROVE Shapes'
  <2>1. /\ \A d \in Conversions \ {c} : conv'[d] = conv[d]
        /\ conv'[c].at = First(c) /\ conv'[c].todo = Tail(conv[c].todo)
        /\ conv[c].todo # <<>> /\ conv[c].todo \in Todos
    BY <1>4, ConvertedGoes
  <2>2. conv[c].todo = TheFund => Tail(conv[c].todo) = <<>>
    BY <2>1, TodoIs
  <2>3. conv[c].todo # TheFund => Tail(conv[c].todo) \in Todos \ {TheFund}
    BY <2>1, TodoIs, TodosDiffer DEF Todos
  <2>4. conv'["set"].todo \in Todos \ {TheFund} /\ conv'["multiply"].todo \in Todos \ {TheFund}
    BY <2>1, <2>3 DEF ScanInv, Shapes
  <2>5. conv'["fund"].todo \in {TheFund, <<>>}
    BY <2>1, <2>2 DEF ScanInv, Shapes
  <2>6. conv'["multiply"].at # "create" /\ conv'["fund"].at # "read"
    BY <2>1 DEF ScanInv, Shapes, First
  <2> QED
    BY <2>4, <2>5, <2>6 DEF Shapes
<1>5. CASE ServerStops
  <2>1. \A c \in Conversions : /\ conv'[c].todo \in {<<>>, Scanned[c]} /\ conv'[c].at = First(c)
    BY <1>5 DEF ServerStops, Begin
  <2>2. Scanned["set"] = AllThree /\ Scanned["fund"] = TheFund /\ Scanned["multiply"] = AllThree
    BY DEF Scanned, Users, AllThree, TheFund
  <2> QED
    BY <2>1, <2>2, TodosDiffer DEF Shapes, First, Todos
<1> QED
  BY <1>1, <1>2, <1>3, <1>4, <1>5 DEF MigrationsNext, Request, Through, Set, Multiply, Fund,
      migrationsVars, migration

(* their flags come at the end, *)
LEMMA FlagsNext == ASSUME LedgerTypeInv, ScanInv, [MigrationsNext]_migrationsVars PROVE Flags'
<1> USE DEF Conversions
<1>1. ASSUME UNCHANGED <<from, migrated>>, \A c \in migrated : conv[c].todo = <<>> => conv'[c].todo = <<>>
      PROVE  Flags'
  BY <1>1 DEF ScanInv, Flags
<1>2. migrated \subseteq Conversions
  BY DEF LedgerTypeInv, ScansTyped
<1>3. ASSUME NEW c \in Conversions, Create(c) PROVE Flags'
  BY <1>1, <1>2, <1>3, CreateGoes DEF Create
<1>4. ASSUME NEW c \in Conversions, Read(c) PROVE Flags'
  BY <1>1, <1>2, <1>4, ReadGoes DEF Read
<1>5. ASSUME NEW c \in Conversions, NEW diff, Converted(c, diff) PROVE Flags'
  <2>1. conv[c].todo # <<>> /\ \A d \in Conversions \ {c} : conv'[d] = conv[d]
    BY <1>5, ConvertedGoes
  <2>2. UNCHANGED <<from, migrated>>
    BY <1>5 DEF Converted
  <2> QED
    BY <1>1, <1>2, <2>1, <2>2
<1>6. ASSUME NEW c \in Conversions, Through(c) PROVE Flags'
  BY <1>2, <1>6 DEF Through, Pending, ScanInv, Flags
<1>7. CASE ServerStops
  <2>1. \A c \in migrated : conv'[c].todo = <<>>
    BY <1>2, <1>7 DEF ServerStops, Begin
  <2>2. UNCHANGED <<from, migrated>>
    BY <1>7 DEF ServerStops
  <2> QED
    BY <1>1, <2>1, <2>2
<1>8. CASE Request \/ UNCHANGED migrationsVars
  BY <1>1, <1>8 DEF Request, migrationsVars, migration
<1> QED
  BY <1>3, <1>4, <1>5, <1>6, <1>7, <1>8 DEF MigrationsNext, Set, Multiply, Fund

(* and the accounts they have passed are made. *)
LEMMA MadeNext == ASSUME LedgerTypeInv, ScanInv, [MigrationsNext]_migrationsVars PROVE Made'
<1> USE DEF Conversions
<1>1. ASSUME created \subseteq created', UNCHANGED <<from, conv>> PROVE Made'
  BY <1>1 DEF ScanInv, Made
<1>2. ASSUME NEW c \in Conversions, Create(c) PROVE Made'
  <2>1. /\ created' = created \cup (IF Account(c) = "balance" THEN {"balance", "pending"}
                                   ELSE IF Account(c) = "pending" THEN {} ELSE {Account(c)})
        /\ UNCHANGED from
    BY <1>2 DEF Create
  <2>2. /\ \A d \in Conversions : conv'[d].todo = conv[d].todo
        /\ \A d \in Conversions \ {c} : conv'[d] = conv[d]
        /\ conv[c].todo \in Todos
    BY <1>2, CreateGoes DEF LedgerTypeInv, ScansTyped
  <2>3. /\ conv[c].todo = AllThree => Account(c) = "balance"
        /\ conv[c].todo = LastOne => Account(c) = "credit"
        /\ conv[c].todo = TheFund => Account(c) = "fund"
    BY <2>2, TodoIs DEF Account
  <2>4. created \subseteq created'
    BY <2>1
  <2>5. conv'["set"].todo = AllThree /\ conv'["set"].at # "create" => {"balance", "pending"} \subseteq created'
    BY <2>1, <2>2, <2>3 DEF ScanInv, Made
  <2>6. conv'["set"].todo = LastOne /\ conv'["set"].at # "create" => "credit" \in created'
    BY <2>1, <2>2, <2>3 DEF ScanInv, Made
  <2>7. conv'["fund"].todo = TheFund /\ conv'["fund"].at = "move" => "fund" \in created'
    BY <2>1, <2>2, <2>3 DEF ScanInv, Made
  <2>8. conv'["set"].todo = conv["set"].todo
    BY <2>2
  <2> QED
    BY <2>1, <2>4, <2>5, <2>6, <2>7, <2>8 DEF ScanInv, Made
<1>3. ASSUME NEW c \in Conversions, Read(c) PROVE Made'
  <2>1. UNCHANGED <<from, created>>
    BY <1>3 DEF Read, ledger
  <2>2. /\ conv'["set"].todo = conv["set"].todo /\ conv'["fund"].todo = conv["fund"].todo
        /\ conv'["fund"].at = conv["fund"].at
        /\ conv'["set"].at # "create" => conv["set"].at # "create"
    BY <1>3, ReadGoes
  <2> QED
    BY <2>1, <2>2 DEF ScanInv, Made
<1>4. ASSUME NEW c \in Conversions, NEW diff, Converted(c, diff) PROVE Made'
  <2>1. /\ \A d \in Conversions \ {c} : conv'[d] = conv[d]
        /\ conv[c].at = "move" /\ conv'[c].at = First(c) /\ conv'[c].todo = Tail(conv[c].todo)
        /\ conv[c].todo # <<>> /\ conv[c].todo \in Todos
    BY <1>4, ConvertedGoes
  <2>2. UNCHANGED <<from, created>>
    BY <1>4 DEF Converted
  <2>3. c # "fund" => conv'["fund"] = conv["fund"]
    BY <2>1
  <2>4. c = "fund" => conv'["fund"].todo # TheFund
    BY <2>1, TodoIs, TodosDiffer, ZenonT(60) DEF ScanInv, Shapes
  <2>5. CASE c # "set"
    <3>1. conv'["set"] = conv["set"]
      BY <2>1, <2>5
    <3> QED
      BY <2>2, <2>3, <2>4, <3>1 DEF ScanInv, Made
  <2>6. CASE c = "set"
    <3>1. conv'["set"].at = "create" /\ conv["set"].at = "move"
      BY <2>1, <2>6 DEF First
    <3>2. conv'["set"].todo = LastTwo => conv["set"].todo = AllThree
      BY <2>1, <2>6, TodoIs, TodosDiffer DEF ScanInv, Shapes, Todos
    <3> QED
      BY <2>2, <2>3, <2>6, <3>1, <3>2 DEF ScanInv, Made
  <2> QED
    BY <2>5, <2>6
<1>5. CASE ServerStops
  <2>1. \A c \in Conversions : conv'[c].todo \in {<<>>, Scanned[c]} /\ conv'[c].at = First(c)
    BY <1>5 DEF ServerStops, Begin
  <2>2. Scanned["set"] = AllThree
    BY DEF Scanned, Users, AllThree
  <2>3. conv'["set"].todo # LastTwo /\ conv'["set"].at = "create" /\ conv'["fund"].at = "create"
    BY <2>1, <2>2, TodosDiffer DEF First
  <2> QED
    BY <1>5, <2>3 DEF ServerStops, ScanInv, Made
<1>6. CASE Request
  BY <1>1, <1>6, RequestTyped DEF Request, LedgerTypeInv
<1>7. ASSUME NEW c \in Conversions, Through(c) PROVE Made'
  BY <1>1, <1>7 DEF Through, ledger
<1>8. CASE UNCHANGED migrationsVars
  BY <1>1, <1>8 DEF migrationsVars, ledger, migration
<1> QED
  BY <1>2, <1>3, <1>4, <1>5, <1>6, <1>7, <1>8 DEF MigrationsNext, Set, Multiply, Fund

(* All of it. *)
LEMMA ScanNext == ASSUME LedgerTypeInv, ScanInv, [MigrationsNext]_migrationsVars PROVE ScanInv'
BY ShapesNext, FlagsNext, MadeNext DEF ScanInv

-----------------------------------------------------------------------------
(* What an account has had *)

(* An account is as exact as before when neither it nor a scan's place on it changes. *)
LEMMA ExactSame ==
  ASSUME LedgerTypeInv, NEW a \in Accounts, Exact(a), UNCHANGED from, moved \subseteq moved',
         Base(a)' = Base(a),
         \A c \in Conversions : /\ Awaits(c, a)' => Awaits(c, a) /\ live'[a] = live[a]
                                /\ Holding(c, a)' => Holding(c, a) /\ conv'[c].read = conv[c].read
                                /\ a \in Left(c)' <=> a \in Left(c)
  PROVE  Exact(a)'
<1> USE DEF Conversions
<1>1. Full(a)' = Full(a)
  BY DEF Full
<1>2. ASSUME a = "fund", FromFund PROVE FromFund'
  <2>1. Awaits("fund", "fund")' => Awaits("fund", "fund") /\ live'["fund"] = live["fund"]
    BY <1>2
  <2>2. "fund" \in Left("fund")' <=> "fund" \in Left("fund")
    BY <1>2
  <2>3. Base("fund")' = Base("fund") /\ Full("fund")' = Full("fund")
    BY <1>1, <1>2
  <2> QED
    BY <1>2, <2>1, <2>2, <2>3 DEF FromFund
<1>3. ASSUME NEW c \in {"set", "multiply"}
      PROVE  /\ Awaits(c, a)' => Awaits(c, a) /\ live'[a] = live[a]
             /\ Holding(c, a)' => Holding(c, a) /\ conv'[c].read = conv[c].read
             /\ a \in Left(c)' <=> a \in Left(c)
  OBVIOUS
<1>4. /\ Awaits("set", a)' => Awaits("set", a) /\ live'[a] = live[a]
      /\ Holding("set", a)' => Holding("set", a) /\ conv'["set"].read = conv["set"].read
      /\ a \in Left("set")' <=> a \in Left("set")
  BY <1>3
<1>5. /\ Awaits("multiply", a)' => Awaits("multiply", a) /\ live'[a] = live[a]
      /\ Holding("multiply", a)' => Holding("multiply", a) /\ conv'["multiply"].read = conv["multiply"].read
      /\ a \in Left("multiply")' <=> a \in Left("multiply")
  BY <1>3
<1>6. ASSUME FromSats(a) PROVE FromSats(a)'
  BY <1>1, <1>5, <1>6 DEF FromSats
<1>7. ASSUME FromRedis(a) PROVE FromRedis(a)'
  BY <1>1, <1>4, <1>5, <1>7 DEF FromRedis
<1> QED
  BY <1>1, <1>2, <1>6, <1>7 DEF Exact

(* A request taints what it changes while a conversion awaits it. *)
LEMMA ExactRequest ==
  ASSUME LedgerTypeInv, NEW a \in Accounts \ tainted', Exact(a), Request PROVE Exact(a)'
<1>1. MoneyTyped /\ MoneyTyped' /\ tb'[a] - live'[a] = tb[a] - live[a]
  BY RequestTyped DEF Request, LedgerTypeInv
<1>2. UNCHANGED <<from, moved, conv>> /\ (tb'[a] = tb[a] \/ Ahead(a) = {})
  BY DEF Request
<1>3. tb[a] \in Int /\ live[a] \in Int /\ tb'[a] \in Int /\ live'[a] \in Int
  BY <1>1 DEF MoneyTyped
<1>4. ASSUME NEW c \in Conversions, Awaits(c, a) PROVE live'[a] = live[a]
  BY <1>1, <1>2, <1>3, <1>4, AheadIs
<1>5. ASSUME NEW c \in Conversions
      PROVE  /\ Awaits(c, a)' = Awaits(c, a) /\ Holding(c, a)' = Holding(c, a)
             /\ Left(c)' = Left(c) /\ conv'[c].read = conv[c].read
  BY <1>2 DEF Awaits, Holding, Left, Account
<1>6. Base(a)' = Base(a)
  BY <1>1 DEF Base
<1> QED
  BY <1>2, <1>4, <1>5, <1>6, ExactSame

(* Making an account changes no amount. *)
LEMMA ExactCreate ==
  ASSUME LedgerTypeInv, ScanInv, NEW c \in Conversions, Create(c), NEW a \in Accounts, Exact(a)
  PROVE  Exact(a)'
<1>1. /\ \A d \in Conversions : conv'[d].todo = conv[d].todo /\ conv'[d].read = conv[d].read
      /\ \A d \in Conversions \ {c} : conv'[d] = conv[d]
      /\ conv[c].at = "create" /\ conv'[c].at = IF c = "fund" THEN "move" ELSE "read"
  BY CreateGoes
<1>2. UNCHANGED <<from, moved, tb, live>>
  BY DEF Create, history
<1>3. \A d \in Conversions : Left(d)' = Left(d) /\ Account(d)' = Account(d)
  BY <1>1 DEF Left, Account
<1>4. ASSUME NEW d \in Conversions, Awaits(d, a)' PROVE Awaits(d, a)
  BY <1>1, <1>3, <1>4 DEF Awaits
<1>5. CASE c # "fund" \/ a # "fund"
  <2>1. ASSUME NEW d \in Conversions, Holding(d, a)', d # "fund" PROVE Holding(d, a)
    BY <1>1, <1>3, <2>1 DEF Holding
  <2>2. ASSUME Holding("fund", a)', c # "fund" PROVE Holding("fund", a)
    BY <1>1, <1>3, <2>2 DEF Holding, Conversions
  <2>3. ASSUME Holding("fund", a)' PROVE a = "fund"
    <3>1. conv["fund"].todo \in {TheFund, <<>>} /\ Left("fund") \subseteq {"fund"}
      BY InIs DEF ScanInv, Shapes, Left, Todos
    <3> QED
      BY <1>3, <2>3, <3>1 DEF Holding, Conversions
  <2>4. \A d \in Conversions : Holding(d, a)' => Holding(d, a)
    BY <1>5, <2>1, <2>2, <2>3
  <2> QED
    BY <1>1, <1>2, <1>3, <1>4, <2>4, ExactSame DEF Base
<1>6. CASE c = "fund" /\ a = "fund"
  <2>1. FromFund => FromFund'
    BY <1>2, <1>3, <1>4, <1>6 DEF FromFund, Base, Full, Conversions
  <2> QED
    BY <1>2, <1>6, <2>1 DEF Exact, Base, Full
<1> QED
  BY <1>5, <1>6

(* A conversion reads what the account has had, if no request has used it. *)
LEMMA ExactRead ==
  ASSUME LedgerTypeInv, ScanInv, NEW c \in Conversions, Read(c), NEW a \in Accounts, Exact(a)
  PROVE  Exact(a)'
<1>1. /\ \A d \in Conversions : conv'[d].todo = conv[d].todo
      /\ \A d \in Conversions \ {c} : conv'[d] = conv[d]
      /\ conv[c].at = "read" /\ conv'[c].at = "move" /\ conv'[c].read = tb[Account(c)]
      /\ c # "fund" /\ Account(c) \in Left(c)
  BY ReadGoes
<1>2. UNCHANGED <<from, moved, tb, live>>
  BY DEF Read, ledger, history
<1>3. \A d \in Conversions : Left(d)' = Left(d) /\ Account(d)' = Account(d)
  BY <1>1 DEF Left, Account
<1>4. ASSUME NEW d \in Conversions, Awaits(d, a)' PROVE Awaits(d, a)
  BY <1>1, <1>3, <1>4 DEF Awaits
<1>5. CASE a # Account(c)
  <2>1. ASSUME NEW d \in Conversions, Holding(d, a)'
        PROVE  Holding(d, a) /\ conv'[d].read = conv[d].read
    BY <1>1, <1>3, <1>5, <2>1 DEF Holding
  <2> QED
    BY <1>1, <1>2, <1>3, <1>4, <2>1, ExactSame DEF Base
<1>6. CASE a = Account(c)
  <2>1. Awaits(c, a) /\ Holding(c, a)' /\ ~Awaits(c, a)'
    BY <1>1, <1>3, <1>6 DEF Awaits, Holding
  <2>2. ASSUME NEW d \in Conversions \ {c}
        PROVE  /\ Awaits(d, a)' = Awaits(d, a) /\ Holding(d, a)' = Holding(d, a) /\ conv'[d] = conv[d]
    BY <1>1, <1>3 DEF Awaits, Holding
  <2>3. Base(a)' = Base(a) /\ Full(a)' = Full(a) /\ tb[a] \in Int /\ live[a] \in Int
    BY <1>2 DEF Base, Full, LedgerTypeInv, MoneyTyped
  <2>4. a # "fund" \/ from = "microsats"
    <3>1. Left(c) \subseteq {"balance", "pending", "credit"}
      BY <1>1, InIs, TodosDiffer DEF ScanInv, Shapes, Left, Todos, Conversions
    <3> QED
      BY <1>1, <1>6, <3>1
  <2>5. CASE from = "sats"
    <3>1. FromSats(a)
      BY <2>4, <2>5 DEF Exact
    <3>2. c = "multiply"
      <4>1. conv["set"].todo = <<>>
        BY <2>5 DEF ScanInv, Flags
      <4>2. Left("set") = {}
        BY <4>1, InIs DEF Left, Todos
      <4> QED
        BY <1>1, <4>2 DEF Conversions
    <3>3. live[a] = 0 /\ Base(a) = OpeningSats[a]
      BY <2>1, <3>1, <3>2 DEF FromSats
    <3>4. conv'["multiply"].read = OpeningSats[a]
      BY <1>1, <1>6, <2>3, <3>2, <3>3 DEF Base
    <3>5. FromSats(a)'
      BY <1>2, <1>3, <2>1, <2>3, <3>1, <3>2, <3>3, <3>4 DEF FromSats
    <3> QED
      BY <1>2, <2>4, <2>5, <3>5 DEF Exact
  <2>6. CASE from = "redis"
    <3>1. FromRedis(a)
      BY <2>4, <2>6 DEF Exact
    <3>2. live[a] = 0
      BY <1>1, <2>1, <3>1 DEF FromRedis, Conversions
    <3>3. conv'[c].read = Base(a)
      BY <1>1, <1>6, <2>3, <3>2 DEF Base
    <3>4. CASE c = "set"
      <4>1. FromRedis(a)'
        BY <1>2, <1>3, <2>1, <2>2, <2>3, <3>1, <3>3, <3>4 DEF FromRedis, Conversions
      <4> QED
        BY <1>2, <2>4, <2>6, <4>1 DEF Exact
    <3>5. CASE c = "multiply"
      <4>1. FromRedis(a)'
        BY <1>2, <1>3, <2>1, <2>2, <2>3, <3>1, <3>3, <3>5 DEF FromRedis, Conversions
      <4> QED
        BY <1>2, <2>4, <2>6, <4>1 DEF Exact
    <3> QED
      BY <1>1, <3>4, <3>5 DEF Conversions
  <2>7. CASE from = "microsats"
    BY <1>2, <2>3, <2>7 DEF Exact
  <2> QED
    BY <2>5, <2>6, <2>7 DEF LedgerTypeInv, ScansTyped
<1> QED
  BY <1>5, <1>6

(* A conversion is through with an account. *)
LEMMA ConvertedMoves ==
  ASSUME LedgerTypeInv, NEW c \in Conversions, NEW diff \in Int, Converted(c, diff), NEW b, b = Account(c)
  PROVE  /\ UNCHANGED <<from, live>> /\ moved \subseteq moved' /\ tainted \subseteq tainted'
         /\ \A a \in Accounts \ {b} : Base(a)' = Base(a)
         /\ b \in Accounts
         /\ \/ /\ b \in created /\ diff # 0 /\ tb[b] + diff >= 0
               /\ Base(b)' = Base(b) + diff
               /\ <<c, b>> \in moved'
               /\ b \in tainted' \/ Ahead(b) \ {c} = {}
            \/ /\ ~(b \in created /\ diff # 0 /\ tb[b] + diff >= 0)
               /\ Base(b)' = Base(b)
               /\ UNCHANGED moved
<1>1. conv[c].todo \in Todos /\ conv[c].todo # <<>>
  BY ConvertedGoes
<1>2. b \in Accounts
  BY <1>1, TodoTyped DEF Account
<1>3. UNCHANGED <<from, live>>
  BY DEF Converted
<1>4. CASE b \in created /\ diff # 0 /\ tb[b] + diff >= 0
  <2>1. /\ tb' = [tb EXCEPT ![b] = @ + diff]
        /\ moved' = moved \cup {<<c, b>>}
        /\ tainted' = tainted \cup (IF Ahead(b) \ {c} # {} THEN {b} ELSE {})
    BY <1>4 DEF Converted
  <2>2. tb'[b] = tb[b] + diff /\ \A a \in Accounts \ {b} : tb'[a] = tb[a]
    BY <1>2, <2>1 DEF LedgerTypeInv, MoneyTyped
  <2>3. Base(b)' = Base(b) + diff
    <3>1. tb[b] \in Int /\ live[b] \in Int
      BY <1>2 DEF LedgerTypeInv, MoneyTyped
    <3>2. tb'[b] - live'[b] = (tb[b] - live[b]) + diff
      BY <1>3, <2>2, <3>1
    <3> QED
      BY <3>2 DEF Base
  <2>4. \A a \in Accounts \ {b} : Base(a)' = Base(a)
    BY <1>3, <2>2 DEF Base
  <2> QED
    BY <1>2, <1>3, <1>4, <2>1, <2>3, <2>4
<1>5. CASE ~(b \in created /\ diff # 0 /\ tb[b] + diff >= 0)
  <2>1. UNCHANGED <<tb, moved, tainted>>
    BY <1>5 DEF Converted
  <2> QED
    BY <1>2, <1>3, <1>5, <2>1 DEF Base
<1> QED
  BY <1>4, <1>5

(* An account that was changed while another conversion is ahead is tainted. *)
LEMMA ConvertedThrough ==
  ASSUME LedgerTypeInv, NEW c \in Conversions, NEW diff, Converted(c, diff), NEW a \in Accounts
  PROVE  /\ \A d \in Conversions \ {c} : /\ Awaits(d, a)' = Awaits(d, a)
                                         /\ Holding(d, a)' = Holding(d, a)
                                         /\ a \in Left(d)' <=> a \in Left(d)
                                         /\ conv'[d] = conv[d]
         /\ ~Holding(c, a)'
         /\ a = Account(c) => Holding(c, a) /\ a \notin Left(c)' /\ ~Awaits(c, a)'
         /\ a # Account(c) => (a \in Left(c)' <=> a \in Left(c)) /\ (Awaits(c, a)' => Awaits(c, a))
<1>1. /\ \A d \in Conversions \ {c} : conv'[d] = conv[d]
      /\ conv[c].at = "move" /\ conv'[c].at # "move"
      /\ Left(c)' = Left(c) \ {Account(c)} /\ Account(c) \in Left(c)
  BY ConvertedGoes
<1>2. ASSUME NEW d \in Conversions \ {c}
      PROVE  /\ Awaits(d, a)' = Awaits(d, a) /\ Holding(d, a)' = Holding(d, a)
             /\ Left(d)' = Left(d)
  BY <1>1 DEF Awaits, Holding, Left, Account
<1>3. ~Holding(c, a)'
  BY <1>1 DEF Holding
<1>4. a = Account(c) => Holding(c, a) /\ a \notin Left(c)' /\ ~Awaits(c, a)'
  BY <1>1 DEF Holding, Awaits
<1>5. a # Account(c) => (a \in Left(c)' <=> a \in Left(c)) /\ (Awaits(c, a)' => Awaits(c, a))
  BY <1>1 DEF Awaits
<1> QED
  BY <1>1, <1>2, <1>3, <1>4, <1>5

(* The other accounts stay as they are. *)
LEMMA ExactElsewhere ==
  ASSUME LedgerTypeInv, NEW c \in Conversions, NEW diff \in Int, Converted(c, diff),
         NEW a \in Accounts, a # Account(c), Exact(a)
  PROVE  Exact(a)'
<1>1. UNCHANGED <<from, live>> /\ moved \subseteq moved' /\ Base(a)' = Base(a)
  BY ConvertedMoves
<1>2. ASSUME NEW d \in Conversions
      PROVE  /\ Awaits(d, a)' => Awaits(d, a) /\ live'[a] = live[a]
             /\ Holding(d, a)' => Holding(d, a) /\ conv'[d].read = conv[d].read
             /\ a \in Left(d)' <=> a \in Left(d)
  <2>1. CASE d = c
    BY <1>1, <2>1, ConvertedThrough
  <2>2. CASE d # c
    BY <1>1, <2>2, ConvertedThrough
  <2> QED
    BY <2>1, <2>2
<1> QED
  BY <1>1, <1>2, ExactSame

(* The accounts that the conversions go through. *)
LEMMA LeftIs ==
  ASSUME ScanInv
  PROVE  /\ Left("fund") \subseteq {"fund"}
         /\ Left("set") \subseteq {"balance", "pending", "credit"}
         /\ Left("multiply") \subseteq {"balance", "pending", "credit"}
         /\ \A c \in migrated : Left(c) = {}
         /\ from = "sats" => Left("set") = {}
         /\ from = "microsats" => \A c \in Conversions : Left(c) = {}
<1>1. \A c \in Conversions : conv[c].todo = <<>> => Left(c) = {}
  BY InIs DEF Left, Todos
<1>2. \A c \in migrated : Left(c) = {}
  BY InIs DEF ScanInv, Flags, Left, Todos
<1> QED
  BY <1>2, InIs, TodosDiffer DEF ScanInv, Shapes, Flags, Left, Todos, Conversions

(* The three conversions: the fund's amount is added once, *)
LEMMA FundExact ==
  ASSUME LedgerTypeInv, ScanInv, Fund, NEW a \in Accounts \ tainted', Exact(a) PROVE Exact(a)'
<1> DEFINE diff == OpeningSats["fund"] * Msats
<1>1. diff \in Nat
  BY LedgerAssumption DEF LedgerAssumption
<1>2. Converted("fund", diff) /\ "fund" \in Conversions
  BY DEF Fund, Conversions
<1>3. CASE a # Account("fund")
  BY <1>1, <1>2, <1>3, ExactElsewhere
<1>4. CASE a = Account("fund")
  <2>1. /\ Holding("fund", a) /\ a \notin Left("fund")' /\ ~Awaits("fund", a)'
    BY <1>2, <1>4, ConvertedThrough
  <2>2. a = "fund" /\ from # "microsats"
    BY <1>2, <2>1, LeftIs DEF Holding
  <2>3. FromFund
    BY <2>2 DEF Exact
  <2>4. Base("fund") = 0
    BY <2>1, <2>2, <2>3 DEF FromFund, Holding
  <2>5. "fund" \in created
    <3>1. conv["fund"].todo = TheFund /\ conv["fund"].at = "move"
      <4>1. conv["fund"].todo # <<>> /\ conv["fund"].at = "move"
        BY <1>2 DEF Converted, Pending
      <4> QED
        BY <4>1 DEF ScanInv, Shapes
    <3> QED
      BY <3>1 DEF ScanInv, Made
  <2>6. tb["fund"] + diff >= 0
    BY <1>1 DEF LedgerTypeInv, MoneyTyped, Accounts
  <2>7. /\ UNCHANGED from
        /\ \/ diff # 0 /\ Base("fund")' = Base("fund") + diff /\ <<"fund", "fund">> \in moved'
           \/ diff = 0 /\ Base("fund")' = Base("fund") /\ UNCHANGED moved
    <3>1. diff \in Int /\ "fund" = Account("fund")
      BY <1>1, <1>4, <2>2
    <3> HIDE DEF diff
    <3> QED
      BY <1>2, <2>5, <2>6, <3>1, ConvertedMoves
  <2>8. Base("fund")' = Full("fund") /\ Full("fund")' = Full("fund")
    BY <1>1, <2>4, <2>7 DEF Full
  <2>9. FromFund'
    BY <2>1, <2>2, <2>4, <2>7, <2>8 DEF FromFund
  <2> QED
    BY <2>2, <2>7, <2>9 DEF Exact
<1> QED
  BY <1>3, <1>4

(* the sats are multiplied once, *)
LEMMA MultiplyExact ==
  ASSUME LedgerTypeInv, ScanInv, Multiply, NEW a \in Accounts \ tainted', Exact(a)
  PROVE  Exact(a)'
<1> DEFINE diff == conv["multiply"].read * (Msats - 1)
<1>1. diff \in Nat /\ Msats \in Nat \ {0} /\ conv["multiply"].read \in Nat
  <2>1. conv["multiply"].read \in Nat /\ Msats - 1 \in Nat
    BY LedgerAssumption DEF LedgerAssumption, LedgerTypeInv, ScansTyped, Conversions
  <2> QED
    BY <2>1, LedgerAssumption DEF LedgerAssumption
<1>2. Converted("multiply", diff) /\ "multiply" \in Conversions
  BY DEF Multiply, Conversions
<1>3. CASE a # Account("multiply")
  BY <1>1, <1>2, <1>3, ExactElsewhere
<1>4. CASE a = Account("multiply")
  <2>1. /\ Holding("multiply", a) /\ a \notin Left("multiply")'
        /\ ~Awaits("multiply", a)' /\ ~Holding("multiply", a)'
    BY <1>2, <1>4, ConvertedThrough
  <2>2. a \in {"balance", "pending", "credit"} /\ from # "microsats"
    BY <1>2, <2>1, LeftIs DEF Holding
  <2>3. tb[a] + diff >= 0
    BY <1>1 DEF LedgerTypeInv, MoneyTyped
  <2>4. /\ UNCHANGED from /\ moved \subseteq moved' /\ live' = live
        /\ \/ diff # 0 /\ Base(a)' = Base(a) + diff /\ <<"multiply", a>> \in moved'
           \/ ~(a \in created /\ diff # 0) /\ Base(a)' = Base(a) /\ UNCHANGED moved
    <3>1. diff \in Int
      BY <1>1
    <3> HIDE DEF diff
    <3> QED
      BY <1>2, <1>4, <2>3, <3>1, ConvertedMoves
  <2>5. Full(a)' = Full(a)
    BY DEF Full
  <2>6. CASE from = "sats"
    <3>1. FromSats(a)
      BY <2>2, <2>6 DEF Exact
    <3>2. conv["multiply"].read = OpeningSats[a] /\ Base(a) = OpeningSats[a] /\ a \in created
      BY <2>1, <2>2, <2>6, <3>1 DEF FromSats, ScanInv, Made
    <3>3. OpeningSats[a] \in Nat /\ Full(a) = OpeningSats[a] + diff
      BY <1>1, <3>2 DEF Full
    <3>4. Base(a)' = Full(a)
      BY <1>1, <2>4, <3>2, <3>3
    <3>5. <<"multiply", a>> \notin moved' => Base(a)' = OpeningSats[a]
      BY <2>4, <3>2
    <3>6. FromSats(a)'
      BY <2>1, <2>5, <3>4, <3>5 DEF FromSats
    <3> QED
      BY <2>2, <2>4, <2>6, <3>6 DEF Exact
  <2>7. CASE from = "redis"
    <3>1. FromRedis(a)
      BY <2>2, <2>7 DEF Exact
    <3>2. diff = 0
      BY <1>1, <2>1, <3>1 DEF FromRedis
    <3>3. Base(a)' = Base(a)
      BY <2>4, <3>2
    <3>4. /\ Awaits("set", a)' = Awaits("set", a) /\ Holding("set", a)' = Holding("set", a)
          /\ (a \in Left("set")' <=> a \in Left("set")) /\ conv'["set"] = conv["set"]
      BY <1>2, ConvertedThrough DEF Conversions
    <3>5. FromRedis(a)'
      BY <2>1, <2>4, <2>5, <3>1, <3>3, <3>4 DEF FromRedis
    <3> QED
      BY <2>2, <2>4, <2>7, <3>5 DEF Exact
  <2> QED
    BY <2>2, <2>6, <2>7 DEF LedgerTypeInv, ScansTyped
<1> QED
  BY <1>3, <1>4

(* and what is missing of the amount in redis is added. *)
LEMMA SetExact ==
  ASSUME LedgerTypeInv, ScanInv, Set, NEW a \in Accounts \ tainted', Exact(a) PROVE Exact(a)'
<1> DEFINE full == OpeningSats[Account("set")] * Msats
           diff == full - conv["set"].read
<1>1. Converted("set", diff) /\ "set" \in Conversions
  BY DEF Set, Conversions
<1>2. full \in Nat /\ diff \in Int
  <2>1. Account("set") \in Accounts
    BY <1>1, ConvertedGoes, TodoTyped DEF Account
  <2> QED
    BY <2>1, LedgerAssumption DEF LedgerAssumption, LedgerTypeInv, ScansTyped, Conversions,
        Accounts
<1>3. CASE a # Account("set")
  <2> HIDE DEF diff
  <2> QED
    BY <1>1, <1>2, <1>3, ExactElsewhere
<1>4. CASE a = Account("set")
  <2>1. /\ Holding("set", a) /\ a \notin Left("set")' /\ ~Awaits("set", a)' /\ ~Holding("set", a)'
    <3> HIDE DEF diff
    <3> QED
      BY <1>1, <1>4, ConvertedThrough
  <2>2. a \in {"balance", "pending", "credit"} /\ from = "redis"
    BY <1>1, <2>1, LeftIs DEF Holding, LedgerTypeInv, ScansTyped
  <2>3. FromRedis(a)
    BY <2>2 DEF Exact
  <2>4. /\ full = Full(a) /\ conv["set"].read = Base(a) /\ Base(a) \in {0, Full(a)}
    BY <1>4, <2>1, <2>3 DEF FromRedis, Full
  <2>5. a \in created
    <3>1. conv["set"].todo # <<>> /\ conv["set"].at = "move" /\ conv["set"].todo \in Todos
      BY <1>1, ConvertedGoes
    <3>2. /\ conv["set"].todo = AllThree => a = "balance"
          /\ conv["set"].todo = LastTwo => a = "pending"
          /\ conv["set"].todo = LastOne => a = "credit"
      BY <1>4, <3>1, TodoIs DEF Account
    <3> QED
      BY <3>1, <3>2 DEF ScanInv, Shapes, Made, Todos
  <2>6. Full(a)' = Full(a)
    BY DEF Full
  <2>7. /\ UNCHANGED <<from, live>> /\ moved \subseteq moved'
        /\ \/ /\ diff # 0 /\ Base(a)' = Base(a) + diff /\ <<"set", a>> \in moved'
              /\ Ahead(a) \ {"set"} = {}
           \/ ~(diff # 0 /\ tb[a] + diff >= 0) /\ Base(a)' = Base(a) /\ UNCHANGED moved
    <3> HIDE DEF diff
    <3> QED
      BY <1>1, <1>2, <1>4, <2>5, ConvertedMoves
  <2>8. /\ Awaits("multiply", a)' = Awaits("multiply", a) /\ Holding("multiply", a)' = Holding("multiply", a)
        /\ (a \in Left("multiply")' <=> a \in Left("multiply")) /\ conv'["multiply"] = conv["multiply"]
    <3> HIDE DEF diff
    <3> QED
      BY <1>1, ConvertedThrough DEF Conversions
  <2>9. CASE diff = 0
    <3>1. Base(a)' = Base(a) /\ Base(a) = Full(a) /\ UNCHANGED moved
      BY <1>2, <2>4, <2>7, <2>9
    <3>2. FromRedis(a)'
      BY <2>1, <2>3, <2>6, <2>7, <2>8, <3>1 DEF FromRedis
    <3> QED
      BY <2>2, <2>7, <3>2 DEF Exact
  <2>10. CASE diff # 0
    <3>1. Base(a) = 0 /\ diff = Full(a)
      BY <1>2, <2>4, <2>10
    <3>2. tb[a] + diff >= 0
      BY <1>2, <2>4, <3>1 DEF LedgerTypeInv, MoneyTyped
    <3>3. /\ Base(a)' = Base(a) + diff /\ <<"set", a>> \in moved' /\ Ahead(a) \ {"set"} = {}
      BY <2>7, <2>10, <3>2
    <3>4. ~Awaits("multiply", a)
      BY <3>3, AheadIs DEF Conversions
    <3>5. Base(a)' = Full(a)
      BY <1>2, <2>4, <3>1, <3>3
    <3>6. FromRedis(a)'
      BY <2>1, <2>3, <2>6, <2>8, <3>3, <3>4, <3>5 DEF FromRedis
    <3> QED
      BY <2>2, <2>7, <3>6 DEF Exact
  <2> QED
    BY <2>9, <2>10
<1> QED
  BY <1>3, <1>4


(* A conversion that starts over finds what no other has changed. *)
LEMMA CrashFinds ==
  ASSUME LedgerTypeInv, ScanInv, ServerStops, NEW a \in Accounts \ tainted'
  PROVE  /\ UNCHANGED <<from, moved, migrated>> /\ Base(a)' = Base(a) /\ live'[a] = live[a]
         /\ a \notin tainted
         /\ \A c \in Conversions :
              /\ ~Holding(c, a)'
              /\ c \in migrated => Left(c)' = {} /\ Left(c) = {}
              /\ c \notin migrated /\ (c = "fund" <=> a = "fund") =>
                   /\ a \in Left(c)' /\ live[a] = 0
                   /\ \A d \in Conversions : <<d, a>> \in moved => c = "set" /\ d = "set"
              /\ ~(c = "fund" <=> a = "fund") => a \notin Left(c)'
<1>1. UNCHANGED <<from, moved, migrated, tb, live>> /\ a \notin tainted
  BY DEF ServerStops, history
<1>2. \A c \in Conversions : /\ conv'[c].todo = IF c \in migrated THEN <<>> ELSE Scanned[c]
                             /\ conv'[c].at = First(c)
  BY DEF ServerStops, Begin
<1>3. Scanned["set"] = AllThree /\ Scanned["fund"] = TheFund /\ Scanned["multiply"] = AllThree
  BY DEF Scanned, Users, AllThree, TheFund, Conversions
<1>4. \A c \in Conversions : ~Holding(c, a)'
  BY <1>2 DEF Holding, First
<1>5. \A c \in Conversions : c \in migrated => Left(c)' = {} /\ Left(c) = {}
  BY <1>2, LeftIs, InIs DEF Left, Todos
<1>6. ASSUME NEW c \in Conversions, c \notin migrated PROVE In(Scanned[c]) = Left(c)'
  BY <1>2, <1>6 DEF Left
<1>7. /\ In(Scanned["set"]) = {"balance", "pending", "credit"} /\ In(Scanned["fund"]) = {"fund"}
      /\ In(Scanned["multiply"]) = {"balance", "pending", "credit"}
  BY <1>3, InIs DEF Todos
<1>8. ASSUME NEW c \in Conversions, c \notin migrated, c = "fund" <=> a = "fund"
      PROVE  /\ a \in Left(c)' /\ live[a] = 0
             /\ \A d \in Conversions : <<d, a>> \in moved => c = "set" /\ d = "set"
  <2>1. a \in In(Scanned[c])
    BY <1>7, <1>8 DEF Conversions, Accounts
  <2>2. \E i \in DOMAIN Scanned[c] : Scanned[c][i] = a
    BY <2>1 DEF In
  <2>3. a \notin {b \in Accounts : \E e \in Conversions \ migrated, d \in Conversions :
                    /\ \E i \in DOMAIN Scanned[e] : Scanned[e][i] = b
                    /\ live[b] # 0 \/ (<<d, b>> \in moved /\ ~(e = "set" /\ d = "set"))}
    BY DEF ServerStops
  <2>4. \A d \in Conversions : ~(live[a] # 0 \/ (<<d, a>> \in moved /\ ~(c = "set" /\ d = "set")))
    BY <1>8, <2>2, <2>3
  <2>5. Conversions # {}
    BY DEF Conversions
  <2> QED
    BY <1>6, <1>8, <2>1, <2>4, <2>5
<1>9. ASSUME NEW c \in Conversions, ~(c = "fund" <=> a = "fund") PROVE a \notin Left(c)'
  BY <1>5, <1>6, <1>7, <1>9 DEF Conversions
<1>10. Base(a)' = Base(a)
  BY <1>1 DEF Base
<1> QED
  BY <1>1, <1>4, <1>5, <1>8, <1>9, <1>10

(* After a restart the untainted accounts are as the scans expect them. *)
LEMMA CrashExact ==
  ASSUME LedgerTypeInv, ScanInv, ServerStops, NEW a \in Accounts \ tainted', Exact(a)
  PROVE  Exact(a)'
<1>1. /\ UNCHANGED <<from, moved, migrated>> /\ Base(a)' = Base(a) /\ live'[a] = live[a]
  BY CrashFinds
<1>2. Full(a)' = Full(a)
  BY DEF Full
<1>3. ASSUME NEW c \in Conversions
      PROVE  /\ ~Holding(c, a)'
             /\ c \in migrated => a \notin Left(c)' /\ a \notin Left(c)
             /\ c \notin migrated /\ (c = "fund" <=> a = "fund") =>
                  /\ a \in Left(c)' /\ live[a] = 0
                  /\ \A d \in Conversions : <<d, a>> \in moved => c = "set" /\ d = "set"
             /\ Awaits(c, a)' => a \in Left(c)'
  BY CrashFinds DEF Awaits
<1>4. CASE from = "microsats"
  BY <1>1, <1>2, <1>4 DEF Exact
<1>5. CASE from # "microsats" /\ a = "fund"
  <2>1. FromFund
    BY <1>5 DEF Exact
  <2>2. /\ "fund" \in migrated => "fund" \notin Left("fund")' /\ "fund" \notin Left("fund")
        /\ "fund" \notin migrated => /\ "fund" \in Left("fund")' /\ live["fund"] = 0
                                     /\ <<"fund", "fund">> \notin moved
        /\ Awaits("fund", "fund")' => "fund" \in Left("fund")'
    BY <1>3, <1>5 DEF Conversions
  <2>3. Base("fund")' = Base("fund") /\ Full("fund")' = Full("fund") /\ live'["fund"] = live["fund"]
    BY <1>1, <1>2, <1>5
  <2>4. FromFund'
    BY <1>1, <2>1, <2>2, <2>3 DEF FromFund
  <2> QED
    BY <1>1, <1>5, <2>4 DEF Exact
<1>6. CASE from # "microsats" /\ a # "fund"
  <2>1. /\ "multiply" \in migrated => a \notin Left("multiply")' /\ a \notin Left("multiply")
        /\ "multiply" \notin migrated => /\ a \in Left("multiply")' /\ live[a] = 0
                                         /\ <<"multiply", a>> \notin moved /\ <<"set", a>> \notin moved
        /\ Awaits("multiply", a)' => a \in Left("multiply")'
        /\ ~Holding("multiply", a)'
    BY <1>3, <1>6 DEF Conversions
  <2>2. /\ "set" \in migrated => a \notin Left("set")' /\ a \notin Left("set")
        /\ "set" \notin migrated => a \in Left("set")' /\ live[a] = 0
        /\ Awaits("set", a)' => a \in Left("set")'
        /\ ~Holding("set", a)'
    BY <1>3, <1>6 DEF Conversions
  <2>3. FromSats(a) => FromSats(a)'
    BY <1>1, <1>2, <2>1 DEF FromSats
  <2>4. FromRedis(a) => FromRedis(a)'
    BY <1>1, <1>2, <2>1, <2>2 DEF FromRedis
  <2> QED
    BY <1>1, <1>6, <2>3, <2>4 DEF Exact, LedgerTypeInv, ScansTyped
<1> QED
  BY <1>4, <1>5, <1>6

(* Every step keeps what is not tainted exact. *)
LEMMA ExactNext ==
  ASSUME LedgerTypeInv, ExactInv, [MigrationsNext]_migrationsVars
  PROVE  ExactInv'
<1>1. ScanInv /\ ScanInv'
  BY ScanNext DEF ExactInv
<1> SUFFICES ASSUME NEW a \in Accounts \ tainted' PROVE Exact(a)'
  BY <1>1 DEF ExactInv
<1>2. a \notin tainted
  BY ConvertedMoves DEF MigrationsNext, Request, Create, Read, Through, Set, Multiply, Fund,
      Converted, ServerStops,
                        migrationsVars, migration
<1>3. Exact(a)
  BY <1>2 DEF ExactInv
<1>4. CASE Request
  BY <1>3, <1>4, ExactRequest
<1>5. ASSUME NEW c \in Conversions, Create(c) PROVE Exact(a)'
  BY <1>1, <1>3, <1>5, ExactCreate
<1>6. ASSUME NEW c \in Conversions, Read(c) PROVE Exact(a)'
  BY <1>1, <1>3, <1>6, ExactRead
<1>7. ASSUME UNCHANGED <<tb, live, from, moved, conv>> PROVE Exact(a)'
  BY <1>3, <1>7 DEF Exact, FromFund, FromSats, FromRedis, Base, Full, Awaits, Holding, Left,
      Account
<1>8. ASSUME NEW c \in Conversions, Through(c) PROVE Exact(a)'
  BY <1>7, <1>8 DEF Through, ledger, history
<1>9. CASE Set
  BY <1>1, <1>3, <1>9, SetExact
<1>10. CASE Multiply
  BY <1>1, <1>3, <1>10, MultiplyExact
<1>11. CASE Fund
  BY <1>1, <1>3, <1>11, FundExact
<1>12. CASE ServerStops
  BY <1>1, <1>3, <1>12, CrashExact
<1>13. CASE UNCHANGED migrationsVars
  BY <1>7, <1>13 DEF migrationsVars, ledger, migration, history
<1> QED
  BY <1>4, <1>5, <1>6, <1>8, <1>9, <1>10, <1>11, <1>12, <1>13 DEF MigrationsNext

(* It is so at first. *)
LEMMA ExactInit == ASSUME MigrationsInit PROVE ExactInv
<1>1. /\ Scanned["set"] = AllThree /\ Scanned["fund"] = TheFund /\ Scanned["multiply"] = AllThree
  BY DEF Scanned, Users, AllThree, TheFund, Conversions
<1>2. \A c \in Conversions : /\ conv[c].todo = IF c \in migrated THEN <<>> ELSE Scanned[c]
                             /\ conv[c].at = First(c)
  BY DEF MigrationsInit, Begin
<1>3. ScanInv
  <2>1. Shapes
    BY <1>1, <1>2, TodosDiffer DEF Shapes, Conversions, First, Todos
  <2>2. Flags
    BY <1>2 DEF MigrationsInit, Flags, Conversions
  <2>3. Made
    BY <1>1, <1>2, TodosDiffer DEF MigrationsInit, Made, Conversions, First, Accounts
  <2> QED
    BY <2>1, <2>2, <2>3 DEF ScanInv
<1>4. ASSUME NEW a \in Accounts PROVE Exact(a)
  <2>1. live[a] = 0 /\ moved = {} /\ OpeningSats[a] \in Nat /\ Full(a) \in Nat
    BY LedgerAssumption DEF LedgerAssumption, MigrationsInit, LedgerInit, Full, Accounts
  <2>2. tb[a] = IF a \notin created THEN 0 ELSE IF from = "sats" THEN OpeningSats[a] ELSE Full(a)
    BY DEF MigrationsInit, Full
  <2>3. tb[a] \in Int /\ Base(a) = tb[a]
    BY <2>1, <2>2 DEF Base
  <2>4. \A c \in Conversions : ~Holding(c, a)
    BY <1>2 DEF Holding, First
  <2>5. ASSUME NEW c \in Conversions, c \notin migrated, c = "fund" <=> a = "fund" PROVE a \in Left(c)
    BY <1>1, <1>2, <2>5, InIs DEF Left, Todos, Conversions, Accounts
  <2>6. CASE from = "microsats"
    BY <2>2, <2>3, <2>6 DEF MigrationsInit, Exact
  <2>7. CASE from = "sats"
    <3>1. "multiply" \notin migrated /\ "fund" \notin migrated /\ created = Accounts \ {"fund"}
      BY <2>7 DEF MigrationsInit
    <3>2. CASE a = "fund"
      <4>1. Base("fund") = 0 /\ "fund" \in Left("fund") /\ live["fund"] = 0
        BY <2>1, <2>2, <2>3, <2>5, <3>1, <3>2 DEF Conversions
      <4>2. FromFund
        BY <4>1 DEF FromFund
      <4> QED
        BY <2>7, <3>2, <4>2 DEF Exact
    <3>3. CASE a # "fund"
      <4>1. Base(a) = OpeningSats[a] /\ a \in Left("multiply")
        BY <2>2, <2>3, <2>5, <2>7, <3>1, <3>3 DEF Conversions
      <4>2. FromSats(a)
        BY <2>1, <2>4, <4>1 DEF FromSats, Conversions
      <4> QED
        BY <2>7, <3>3, <4>2 DEF Exact
    <3> QED
      BY <3>2, <3>3
  <2>8. CASE from = "redis"
    <3>1. migrated = {} /\ created = {}
      BY <2>8 DEF MigrationsInit
    <3>2. Base(a) = 0
      BY <2>2, <2>3, <3>1
    <3>3. CASE a = "fund"
      <4>1. FromFund
        BY <2>1, <2>5, <3>1, <3>2, <3>3 DEF FromFund, Conversions
      <4> QED
        BY <2>8, <3>3, <4>1 DEF Exact
    <3>4. CASE a # "fund"
      <4>1. FromRedis(a)
        BY <2>1, <2>4, <2>5, <3>1, <3>2, <3>4 DEF FromRedis, Conversions
      <4> QED
        BY <2>8, <3>4, <4>1 DEF Exact
    <3> QED
      BY <3>3, <3>4
  <2> QED
    BY <2>6, <2>7, <2>8 DEF MigrationsInit
<1> QED
  BY <1>3, <1>4 DEF ExactInv

(* When the three conversions are through, every account that was not changed before its     *)
(* turn, or converted twice by a restart, has exactly what it had in redis and what requests *)
(* have moved since, in any interleaving with each other, with requests and with any number  *)
(* of restarts (lib/migrate.ts, tbSetBalance, tbMultiplyForMicrosats).                       *)
THEOREM MigratesExactly == MigrationsSpec => []MigratedExactly
<1>1. LedgerTypeInv /\ ExactInv => MigratedExactly
  <2> SUFFICES ASSUME LedgerTypeInv, ExactInv, migrated = Conversions, NEW a \in Accounts \ tainted
               PROVE  tb[a] = OpeningSats[a] * Msats + live[a]
    BY DEF MigratedExactly
  <2>1. Exact(a) /\ \A c \in Conversions : Left(c) = {}
    BY LeftIs DEF ExactInv
  <2>2. Base(a) = Full(a)
    BY <2>1 DEF Exact, FromFund, FromSats, FromRedis, Conversions, LedgerTypeInv, ScansTyped
  <2>3. tb[a] \in Int /\ live[a] \in Int /\ OpeningSats[a] * Msats \in Int
    BY LedgerAssumption DEF LedgerAssumption, LedgerTypeInv, MoneyTyped, Accounts
  <2> QED
    BY <2>2, <2>3 DEF Base, Full
<1> QED
  BY <1>1, ExactInit, ExactNext, LedgerTyped, PTL DEF MigrationsSpec
=============================================================================
