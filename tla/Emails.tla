--------------------------------- MODULE Emails ---------------------------------
(***************************************************************************)
(* Verification of an address: request() mails a code, verify() takes it.  *)
(***************************************************************************)
EXTENDS Accounts

VARIABLE codes   \* redis: verify:<code>

redisE == <<byName, byKey, since, used, now, evicted, outlaws, cut, restarts>>

(* Codes may have been mailed before. *)
EmailsInit == codes \in SUBSET [user : used, email : Emails]

-----------------------------------------------------------------------------
RequestBegin(c) ==
  /\ call[c].pc = "start"
  /\ \E u \in Allowed, e \in Emails : Meet(c, [Begin("request", "owner", u) EXCEPT !.email = e])
  /\ UNCHANGED <<rec, emailOwner, redisE, codes>>

(* An address with an owner gets no code. *)
RequestOwner(c) ==
  /\ At(c, "request", "owner")
  /\ Goto(c, IF emailOwner[call[c].email] # None THEN "done"
             ELSE IF call[c].email # Copy(c).email THEN "unverify" ELSE "code")
  /\ UNCHANGED <<rec, emailOwner, redisE, codes>>

(* The record is written before it has the address. *)
RequestRecord(c) ==
  /\ At(c, "request", "unverify") /\ Goto(c, "code")
  /\ rec' = [rec EXCEPT ![call[c].user] = [Copy(c) EXCEPT !.verified = FALSE]]
  /\ UNCHANGED <<emailOwner, redisE, codes>>

RequestCode(c) ==
  /\ At(c, "request", "code") /\ Goto(c, "done")
  /\ codes' = codes \cup {[user |-> call[c].user, email |-> call[c].email]}
  /\ UNCHANGED <<rec, emailOwner, redisE>>

(* A code is good once. *)
VerifyBegin(c) ==
  /\ call[c].pc = "start"
  /\ \E code \in codes :
       /\ codes' = codes \ {code}
       /\ Meet(c, [Idle EXCEPT !.op = "verify", !.pc = "owner", !.user = code.user,
                               !.email = code.email])
  /\ UNCHANGED <<rec, emailOwner, redisE>>

(* Mutant: the owner of the address is not looked up again. *)
VerifyOwnerAny(c) ==
  /\ At(c, "verify", "owner") /\ Goto(c, "read")
  /\ UNCHANGED <<rec, emailOwner, redisE, codes>>

VerifyOwner(c) ==
  /\ At(c, "verify", "owner")
  /\ Goto(c, IF emailOwner[call[c].email] \in {None, call[c].user} THEN "read" ELSE "done")
  /\ UNCHANGED <<rec, emailOwner, redisE, codes>>

VerifyRead(c) ==
  /\ At(c, "verify", "read")
  /\ IF call[c].user \in Live
       THEN Meet(c, [call[c] EXCEPT !.pc = "write", !.copy = rec[call[c].user]])
       ELSE Goto(c, "done")
  /\ UNCHANGED <<rec, emailOwner, redisE, codes>>

VerifyRecord(c) ==
  /\ At(c, "verify", "write") /\ Goto(c, "map")
  /\ rec' = [rec EXCEPT ![call[c].user] = [Copy(c) EXCEPT !.email = call[c].email,
                                                           !.verified = TRUE]]
  /\ UNCHANGED <<emailOwner, redisE, codes>>

VerifyMap(c) ==
  /\ At(c, "verify", "map") /\ Goto(c, "done")
  /\ emailOwner' = [emailOwner EXCEPT ![call[c].email] = call[c].user]
  /\ UNCHANGED <<rec, redisE, codes>>

EmailsNext ==
  \E c \in Calls :
    \/ RequestBegin(c) \/ RequestOwner(c) \/ RequestRecord(c) \/ RequestCode(c)
    \/ VerifyBegin(c) \/ VerifyOwner(c) \/ VerifyRead(c) \/ VerifyRecord(c) \/ VerifyMap(c)

-----------------------------------------------------------------------------
(* Properties *)

(* An account with a verified address is its owner: no other account can    *)
(* verify it.  Unless two calls worked on the account or the address at     *)
(* once, or the server has stopped between both notes, or the account has   *)
(* got another id.                                                          *)
VerifiedIsOwned ==
  \A u \in Live :
    rec[u].verified /\ {u, rec[u].email} \cap Unsettled = {} 
      => rec[u].email # None /\ emailOwner[rec[u].email] = u
=============================================================================
