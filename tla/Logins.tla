--------------------------------- MODULE Logins ---------------------------------
(***************************************************************************)
(* Logins and sessions.  A session is a token with the second in which it  *)
(* was signed; no list of them is kept.  A password login counts failures, *)
(* under the name it was tried with, and may write the record it has read. *)
(***************************************************************************)
EXTENDS Accounts

CONSTANT MaxFails   \* failures after which a name is locked

ASSUME LoginsAssumption == MaxFails \in Nat

VARIABLES
  sessions,   \* tokens: the account, the password's version, the second
  fails,      \* redis: <name>:failures
  armed       \* redis: the counters that will expire

logins == <<sessions, fails, armed>>

LoginsInit == sessions = {} /\ fails = [n \in Names |-> 0] /\ armed = {}

redis == <<byName, byKey, emailOwner, since, used, now, evicted, outlaws, cut, restarts>>

-----------------------------------------------------------------------------
(* login() *)

(* A locked name is refused.  Somebody tries the password of version pw. *)
LoginBegin(c) ==
  /\ call[c].pc = "start"
  /\ \E n \in Names, pw \in 1..2 :
       /\ fails[n] <= MaxFails
       /\ Meet(c, [Idle EXCEPT !.op = "login", !.pc = "read", !.name = n, !.pw = pw])
  /\ UNCHANGED <<rec, redis, logins>>

(* The record is read and its password tried.  The second factor may be wrong. *)
LoginRead(c) ==
  LET u == byName[call[c].name]
      r == [call[c] EXCEPT !.user = u, !.copy = rec[u]]
  IN  /\ At(c, "login", "read")
      /\ \/ (u \in Live => rec[u].pw # r.pw) /\ Goto(c, "count")
         \/ /\ u \in Live /\ rec[u].pw = r.pw
            /\ \/ Meet(c, [r EXCEPT !.pc = IF rec[u].legacy THEN "rehash" ELSE "gate"])
               \/ Goto(c, "done")
      /\ UNCHANGED <<rec, redis, logins>>

(* Mutant: the counter is armed when it is at the limit. *)
LoginCountLate(c) ==
  LET n == call[c].name
  IN  /\ At(c, "login", "count")
      /\ fails' = [fails EXCEPT ![n] = @ + 1]
      /\ Goto(c, IF fails[n] = MaxFails THEN "arm" ELSE "done")
      /\ UNCHANGED <<rec, redis, sessions, armed>>

LoginCount(c) ==
  LET n == call[c].name
  IN  /\ At(c, "login", "count")
      /\ fails' = [fails EXCEPT ![n] = @ + 1] /\ Goto(c, IF fails[n] = 0 THEN "arm" ELSE "done")
      /\ UNCHANGED <<rec, redis, sessions, armed>>

LoginArm(c) ==
  /\ At(c, "login", "arm") /\ Goto(c, "done")
  /\ armed' = armed \cup ({call[c].name} \cap {n \in Names : fails[n] > 0})
  /\ UNCHANGED <<rec, redis, sessions, fails>>

(* An old hash is made anew, and the record written as it was read. *)
LoginRehash(c) ==
  /\ At(c, "login", "rehash") /\ Goto(c, "gate")
  /\ rec' = [rec EXCEPT ![call[c].user] = [Copy(c) EXCEPT !.legacy = FALSE]]
  /\ UNCHANGED <<redis, logins>>

(* Who is evicted gets no further. *)
LoginGate(c) ==
  /\ At(c, "login", "gate")
  /\ IF {call[c].user, Copy(c).name} \cap evicted # {}
       THEN Goto(c, "done")
       ELSE \E pc \in {"attach", "sign"} : Goto(c, pc)
  /\ UNCHANGED <<rec, redis, logins>>

(* A login may bring a key to log in with, which the record lacks; a login by *)
(* passkey counts its uses.                                                   *)
LoginAttach(c) ==
  /\ call[c].pc = "attach" /\ Goto(c, "sign")
  /\ rec' = [rec EXCEPT ![call[c].user] = Copy(c)]
  /\ UNCHANGED <<redis, logins>>

LoginSign(c) ==
  /\ call[c].pc = "sign" /\ Goto(c, "done")
  /\ sessions' = sessions \cup {[user |-> call[c].user, pw |-> Copy(c).pw, iat |-> now]}
  /\ UNCHANGED <<rec, redis, fails, armed>>

(* authKeyLogin(), nostrAuth() of a known key and verifyPasskeyLogin(): with *)
(* no look at the evicted.                                                   *)
KeyLogin(c) ==
  /\ call[c].pc = "start"
  /\ \E u \in Live, pc \in {"attach", "sign"} : Meet(c, Begin("keylogin", pc, u))
  /\ UNCHANGED <<rec, redis, logins>>

(* Ten minutes have passed. *)
Expire(n) ==
  /\ n \in armed /\ armed' = armed \ {n} /\ fails' = [fails EXCEPT ![n] = 0]
  /\ UNCHANGED <<rec, redis, call, mixed, sessions>>

LoginsNext ==
  \/ \E c \in Calls :
       \/ LoginBegin(c) \/ LoginRead(c) \/ LoginCount(c) \/ LoginArm(c) \/ LoginRehash(c)
       \/ LoginGate(c) \/ LoginAttach(c) \/ LoginSign(c) \/ KeyLogin(c)
  \/ \E n \in Names : Expire(n)

-----------------------------------------------------------------------------
(* Properties *)

(* authenticate(), of a full token.  The token of users.ro() for a device that *)
(* prints receipts is spared the look at `since` on purpose, opens two pages   *)
(* and POST /invoice, and is not among the sessions here.                      *)
Accepted(s) ==
  /\ since[s.user] = None \/ s.iat >= since[s.user]
  /\ s.user \in Live /\ ~IsEvicted(s.user)

(* A session that was signed before the request which has changed the       *)
(* password was made is over, however many requests work on the account at  *)
(* once, and under whatever id.                                             *)
OldSessionsEnd ==
  \A s \in sessions :
    Accepted(s) /\ s.pw < rec[s.user].pw => s.iat >= rec[s.user].pwAt

(* A name that was locked will open: its counter expires, or it is about to *)
(* be told so; unless the server has stopped in between.                    *)
LockoutEnds ==
  \A n \in Names :
    fails[n] > 0 => \/ n \in armed
                    \/ \E c \in Calls : At(c, "login", "arm") /\ call[c].name = n
                    \/ n \in cut
=============================================================================
