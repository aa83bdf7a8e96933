-------------------------------- MODULE Accounts --------------------------------
(***************************************************************************)
(* User records and the names and keys that lead to them.  A record is one *)
(* JSON value: a handler reads all of it when it authenticates, and writes *)
(* all of it back after other calls.  Every call below is one request (or  *)
(* a re-keying of an account); its steps are the accesses to redis.        *)
(***************************************************************************)
EXTENDS Integers, FiniteSets, Functions

CONSTANTS
  Users,        \* ids of accounts
  Names, Keys, Emails,
  Calls,        \* requests
  None,
  MaxTime,      \* bound: seconds
  MaxRestarts   \* bound: restarts of the server

(* who: the person, that is the first id; pw: the password's version, 0 when  *)
(* none fits; pwAt: when the call that set it was made; legacy: an old hash.  *)
UserRecords ==
  [name : Names, cased : BOOLEAN, key : Keys, pw : Nat, pwAt : Nat, legacy : BOOLEAN,
   email : Emails \cup {None}, verified : BOOLEAN, who : Users]

(* A name has up to 24 letters and digits, a key 64, an id has hyphens, an *)
(* address an @.                                                           *)
ASSUME AccountsAssumption ==
  /\ None \notin Users \cup Names \cup Keys \cup Emails \cup UserRecords \cup Nat
  /\ Users \cap (Names \cup Keys \cup Emails) = {}
  /\ Names \cap (Keys \cup Emails) = {} /\ Keys \cap Emails = {}
  /\ {MaxTime, MaxRestarts} \subseteq Nat

VARIABLES
  rec,         \* redis: user:<id>
  byName,      \* redis: user:<name>, an id
  byKey,       \* redis: user:<pubkey>, an id
  emailOwner,  \* redis: email:<address>, an id
  since,       \* redis: tokens:since:<id>
  used,        \* ids that were drawn
  now,         \* the second
  call,        \* locals of the calls
  evicted,     \* redis: evicted, ids and names
  outlaws,     \* history: the persons that were evicted
  mixed,       \* history: what two calls worked on at once
  cut,         \* history: what calls that stopped part-way have left behind
  restarts

Live == {u \in Users : rec[u] # None}

Blank == [name |-> None, cased |-> FALSE, key |-> None, pw |-> 1, pwAt |-> 0, legacy |-> FALSE,
          email |-> None, verified |-> FALSE, who |-> None]

Idle == [op |-> None, pc |-> "start", user |-> None, copy |-> None, name |-> None, key |-> None,
         email |-> None, pw |-> 0, at |-> 0, to |-> None, verified |-> FALSE]

AccountsTypeOK ==
  /\ rec \in [Users -> UserRecords \cup {None}]
  /\ byName \in [Names -> Users \cup {None}] /\ byKey \in [Keys -> Users \cup {None}]
  /\ emailOwner \in [Emails -> Users \cup {None}] /\ since \in [Users -> {None} \cup Nat]
  /\ Live \subseteq used /\ now \in 0..MaxTime /\ restarts \in 0..MaxRestarts
  /\ evicted \subseteq Users \cup Names /\ outlaws \subseteq Users
  /\ mixed \cup cut \subseteq Users \cup Names \cup Keys \cup Emails

AccountsInit ==
  /\ \E S \in SUBSET Users \ {{}} : \E name \in Injection(S, Names), key \in Injection(S, Keys), old \in BOOLEAN :
       /\ rec = [u \in Users |->
            IF u \in S THEN [Blank EXCEPT !.name = name[u], !.key = key[u], !.who = u, !.legacy = old]
            ELSE None]
       /\ byName = [n \in Names |-> IF \E u \in S : name[u] = n THEN CHOOSE u \in S : name[u] = n ELSE None]
       /\ byKey = [k \in Keys |-> IF \E u \in S : key[u] = k THEN CHOOSE u \in S : key[u] = k ELSE None]
       /\ used = S
  /\ emailOwner = [e \in Emails |-> None] /\ since = [u \in Users |-> None] /\ now = 0
  /\ call = [c \in Calls |-> Idle] /\ evicted = {} /\ outlaws = {} /\ mixed = {} /\ cut = {}
  /\ restarts = 0

-----------------------------------------------------------------------------
(* Calls *)

At(c, op, pc) == call[c].op = op /\ call[c].pc = pc
Copy(c)       == call[c].copy
Active        == {c \in Calls : call[c].pc \notin {"start", "done"}}

Touched(r) ==
  ({r.user, r.name, r.key, r.email}
     \cup (IF r.copy = None THEN {} ELSE {r.copy.name, r.copy.key, r.copy.email, r.copy.who})) \ {None}

(* Call c goes on as r, and meets the others. *)
Meet(c, r) ==
  /\ call' = [call EXCEPT ![c] = r]
  /\ mixed' = mixed \cup UNION {Touched(r) \cap Touched(call[d]) : d \in Active \ {c}}

(* isEvicted() *)
IsEvicted(u) == {u, rec[u].name} \cap evicted # {}

Allowed == {u \in Live : ~IsEvicted(u)}

Begin(op, pc, u) ==
  [Idle EXCEPT !.op = op, !.pc = pc, !.user = u, !.copy = rec[u], !.at = now]

Done(c) == [Idle EXCEPT !.op = call[c].op, !.pc = "done"]

Goto(c, pc) ==
  /\ call' = [call EXCEPT ![c] = IF pc = "done" THEN Done(c) ELSE [@ EXCEPT !.pc = pc]]
  /\ UNCHANGED mixed

(* What leads nowhere, or astray, if the call goes no further. *)
Left(c) ==
  LET r == call[c]
  IN  CASE r.op = "update" /\ r.pc \in {"name", "email", "since", "keyptr", "nameptr", "record"} ->
               {k \in {r.copy.key} : r.key # None} \cup {n \in {r.name} \ {r.copy.name} : r.pc = "record"}
        [] r.op = "update" /\ r.pc = "retire" -> {r.copy.name}
        [] r.op = "delete" /\ r.pc = "unname" -> {r.copy.name, r.copy.key}
        [] r.op = "delete" /\ r.pc = "unkey"  -> {r.copy.key}
        [] r.op = "rekey" /\ r.pc = "copy"    -> {r.copy.name, r.user}
        [] r.op = "rekey" /\ r.pc = "erase"   -> {r.copy.name, r.user, r.copy.who}
        [] r.op = "verify" /\ r.pc = "map"    -> {r.user}
        [] r.op = "login" /\ r.pc = "arm"     -> {r.name}
        [] OTHER -> {}

Stop(c) == Goto(c, "done") /\ cut' = cut \cup Left(c)

-----------------------------------------------------------------------------
(* register(), by POST /register or by a nostr login with an unknown key *)

RegisterBegin(c) ==
  /\ call[c].pc = "start"
  /\ \E n \in Names, k \in Keys, u \in Users \ used, op \in {"register", "nostr"} :
       /\ byName[n] = None
       /\ op = "nostr" => byKey[k] \notin Live
       /\ used' = used \cup {u}
       /\ Meet(c, [Idle EXCEPT !.op = op, !.pc = "enroll", !.user = u, !.name = n, !.key = k])
  /\ UNCHANGED <<rec, byName, byKey, emailOwner, since, now, evicted, outlaws, cut, restarts>>

(* All keys at once.  The name was free some calls ago; the key may be of   *)
(* another account, whose key it no longer is.  A name may have capitals.   *)
RegisterWrite(c) ==
  LET r == call[c]
  IN  /\ r.pc = "enroll"
      /\ \E cased \in BOOLEAN :
           LET new == [Blank EXCEPT !.name = r.name, !.cased = cased, !.key = r.key, !.who = r.user]
           IN  /\ rec' = [rec EXCEPT ![r.user] = new]
               /\ call' = [call EXCEPT ![c] = IF r.op = "nostr"
                                                THEN [r EXCEPT !.pc = "save", !.copy = new]
                                                ELSE Done(c)]
      /\ byName' = [byName EXCEPT ![r.name] = r.user] /\ byKey' = [byKey EXCEPT ![r.key] = r.user]
      /\ cut' = IF byKey[r.key] = None THEN cut ELSE cut \cup {r.key}
      /\ UNCHANGED <<emailOwner, since, used, now, evicted, outlaws, mixed, restarts>>

-----------------------------------------------------------------------------
(* update(), POST /user: a new name, key, address or password *)

UpdateBegin(c) ==
  /\ call[c].pc = "start"
  /\ \E u \in Allowed, n \in Names, k \in Keys \cup {None}, e \in Emails \cup {None}, p \in {0, 1} :
       Meet(c, [Begin("update", IF k = None THEN "name" ELSE "key", u) EXCEPT
                  !.name = n, !.key = k, !.email = e, !.pw = p, !.verified = rec[u].verified])
  /\ UNCHANGED <<rec, byName, byKey, emailOwner, since, used, now, evicted, outlaws, cut, restarts>>

(* The way to the key that the account has is removed first.  A key under *)
(* which only a nostr profile is kept, without an account, would be taken over.*)
UpdateKey(c) ==
  /\ At(c, "update", "key")
  /\ \/ /\ byKey[call[c].key] \notin Live \ {call[c].user}
        /\ byKey' = [byKey EXCEPT ![Copy(c).key] = None]
        /\ Goto(c, "name") /\ UNCHANGED cut
     \/ Stop(c) /\ UNCHANGED byKey
  /\ UNCHANGED <<rec, byName, emailOwner, since, used, now, evicted, outlaws, restarts>>

(* Mutant: the old name is retired at once. *)
UpdateNameRetires(c) ==
  /\ At(c, "update", "name")
  /\ \/ /\ call[c].name = Copy(c).name \/ byName[call[c].name] = None
        /\ byName' = [byName EXCEPT ![Copy(c).name] = IF call[c].name = Copy(c).name THEN @ ELSE None]
        /\ Goto(c, IF call[c].email # Copy(c).email THEN "email"
                   ELSE IF call[c].pw = 1 THEN "since" ELSE "keyptr")
        /\ UNCHANGED cut
     \/ Stop(c) /\ UNCHANGED byName
  /\ UNCHANGED <<rec, byKey, emailOwner, since, used, now, evicted, outlaws, restarts>>

(* The pin is checked, and the name. *)
UpdateName(c) ==
  /\ At(c, "update", "name")
  /\ \/ /\ call[c].name = Copy(c).name \/ byName[call[c].name] = None
        /\ Goto(c, IF call[c].email # Copy(c).email THEN "email"
                   ELSE IF call[c].pw = 1 THEN "since" ELSE "keyptr")
        /\ UNCHANGED cut
     \/ Stop(c)
  /\ UNCHANGED <<rec, byName, byKey, emailOwner, since, used, now, evicted, outlaws, restarts>>

(* Another address is verified when it was verified by this account before. *)
UpdateEmail(c) ==
  LET e == call[c].email
  IN  /\ At(c, "update", "email")
      /\ call' = [call EXCEPT ![c].verified = e # None /\ emailOwner[e] = call[c].user,
                              ![c].pc = IF call[c].pw = 1 THEN "since" ELSE "keyptr"]
      /\ UNCHANGED <<rec, byName, byKey, emailOwner, since, used, now, evicted, outlaws, mixed, cut,
                     restarts>>

(* Mutant: the password is changed and the sessions stay. *)
UpdateSinceNever(c) ==
  /\ At(c, "update", "since") /\ Goto(c, "keyptr")
  /\ UNCHANGED <<rec, byName, byKey, emailOwner, since, used, now, evicted, outlaws, cut, restarts>>

UpdateSince(c) ==
  /\ At(c, "update", "since") /\ Goto(c, "keyptr")
  /\ since' = [since EXCEPT ![call[c].user] = now]
  /\ UNCHANGED <<rec, byName, byKey, emailOwner, used, now, evicted, outlaws, cut, restarts>>

Updated(c) ==
  LET r == call[c]
  IN  [r.copy EXCEPT !.name = r.name, !.cased = r.copy.cased /\ r.name = r.copy.name,
                     !.key = IF r.key = None THEN r.copy.key ELSE r.key,
                     !.email = r.email, !.verified = r.verified,
                     !.pw = r.copy.pw + r.pw, !.legacy = r.copy.legacy /\ r.pw = 0,
                     !.pwAt = IF r.pw = 1 THEN r.at ELSE r.copy.pwAt]

UpdatePointKey(c) ==
  /\ At(c, "update", "keyptr") /\ Goto(c, "nameptr")
  /\ byKey' = [byKey EXCEPT ![Updated(c).key] = call[c].user]
  /\ UNCHANGED <<rec, byName, emailOwner, since, used, now, evicted, outlaws, cut, restarts>>

UpdatePointName(c) ==
  /\ At(c, "update", "nameptr") /\ Goto(c, "record")
  /\ byName' = [byName EXCEPT ![call[c].name] = call[c].user]
  /\ UNCHANGED <<rec, byKey, emailOwner, since, used, now, evicted, outlaws, cut, restarts>>

UpdateRecord(c) ==
  /\ At(c, "update", "record")
  /\ rec' = [rec EXCEPT ![call[c].user] = Updated(c)]
  /\ Goto(c, IF call[c].name = Copy(c).name THEN "done" ELSE "retire")
  /\ UNCHANGED <<byName, byKey, emailOwner, since, used, now, evicted, outlaws, cut, restarts>>

(* The old name is retired last. *)
UpdateRetire(c) ==
  /\ At(c, "update", "retire") /\ Goto(c, "done")
  /\ byName' = [byName EXCEPT ![Copy(c).name] = None]
  /\ UNCHANGED <<rec, byKey, emailOwner, since, used, now, evicted, outlaws, cut, restarts>>

-----------------------------------------------------------------------------
(* Other handlers that write the record as they read it, but for a field    *)
(* that is not modelled: the second factor, passkeys, the account index.    *)

SaveBegin(c) ==
  /\ call[c].pc = "start"
  /\ \E u \in Allowed : Meet(c, Begin("save", "save", u))
  /\ UNCHANGED <<rec, byName, byKey, emailOwner, since, used, now, evicted, outlaws, cut, restarts>>

SaveRecord(c) ==
  /\ call[c].pc = "save" /\ Goto(c, "done")
  /\ rec' = [rec EXCEPT ![call[c].user] = Copy(c)]
  /\ UNCHANGED <<byName, byKey, emailOwner, since, used, now, evicted, outlaws, cut, restarts>>

-----------------------------------------------------------------------------
(* deleteSelf() removes one key after another; deleteUser() all at once, the *)
(* name as it is written.                                                    *)

DeleteBegin(c) ==
  /\ call[c].pc = "start"
  /\ \E u \in Allowed, pc \in {"gone", "wipe"} : Meet(c, Begin("delete", pc, u))
  /\ UNCHANGED <<rec, byName, byKey, emailOwner, since, used, now, evicted, outlaws, cut, restarts>>

DeleteRecord(c) ==
  /\ At(c, "delete", "gone") /\ Goto(c, "unname")
  /\ rec' = [rec EXCEPT ![call[c].user] = None]
  /\ UNCHANGED <<byName, byKey, emailOwner, since, used, now, evicted, outlaws, cut, restarts>>

DeleteName(c) ==
  /\ At(c, "delete", "unname") /\ Goto(c, "unkey")
  /\ byName' = [byName EXCEPT ![Copy(c).name] = None]
  /\ UNCHANGED <<rec, byKey, emailOwner, since, used, now, evicted, outlaws, cut, restarts>>

DeleteKey(c) ==
  /\ At(c, "delete", "unkey") /\ Goto(c, "done")
  /\ byKey' = [byKey EXCEPT ![Copy(c).key] = None]
  /\ UNCHANGED <<rec, byName, emailOwner, since, used, now, evicted, outlaws, cut, restarts>>

DeleteUser(c) ==
  /\ At(c, "delete", "wipe") /\ Goto(c, "done")
  /\ rec' = [rec EXCEPT ![call[c].user] = None]
  /\ byKey' = [byKey EXCEPT ![Copy(c).key] = None]
  /\ IF Copy(c).cased
       THEN cut' = cut \cup {Copy(c).name} /\ UNCHANGED byName
       ELSE byName' = [byName EXCEPT ![Copy(c).name] = None] /\ UNCHANGED cut
  /\ UNCHANGED <<emailOwner, since, used, now, evicted, outlaws, restarts>>

-----------------------------------------------------------------------------
(* changeid(): the account gets a new id and no password.  The ways to its   *)
(* key and its address still lead to the old id.                             *)

RekeyBegin(c) ==
  /\ call[c].pc = "start"
  /\ \E u \in Live, to \in Users \ used :
       LET old == byName[rec[u].name]
       IN  /\ old \in Live
           /\ used' = used \cup {to}
           /\ Meet(c, [Begin("rekey", "rename", old) EXCEPT !.name = rec[u].name, !.to = to])
  /\ UNCHANGED <<rec, byName, byKey, emailOwner, since, now, evicted, outlaws, cut, restarts>>

RekeyName(c) ==
  /\ At(c, "rekey", "rename") /\ Goto(c, "copy")
  /\ byName' = [byName EXCEPT ![call[c].name] = call[c].to]
  /\ UNCHANGED <<rec, byKey, emailOwner, since, used, now, evicted, outlaws, cut, restarts>>

RekeyCopy(c) ==
  /\ At(c, "rekey", "copy") /\ Goto(c, "erase")
  /\ rec' = [rec EXCEPT ![call[c].to] = [Copy(c) EXCEPT !.pw = 0, !.legacy = FALSE]]
  /\ cut' = cut \cup ({Copy(c).key, Copy(c).email, Copy(c).name} \ {None, call[c].name})
  /\ UNCHANGED <<byName, byKey, emailOwner, since, used, now, evicted, outlaws, restarts>>

RekeyErase(c) ==
  /\ At(c, "rekey", "erase") /\ Goto(c, "done")
  /\ rec' = [rec EXCEPT ![call[c].user] = None]
  /\ UNCHANGED <<byName, byKey, emailOwner, since, used, now, evicted, outlaws, cut, restarts>>

-----------------------------------------------------------------------------
(* evictAccount(): the id and the name, as the caller has read them *)

EvictBegin(c) ==
  /\ call[c].pc = "start"
  /\ \E u \in Live : Meet(c, Begin("evict", "evict", u))
  /\ UNCHANGED <<rec, byName, byKey, emailOwner, since, used, now, evicted, outlaws, cut, restarts>>

(* Mutant: the id alone. *)
EvictId(c) ==
  /\ At(c, "evict", "evict") /\ Goto(c, "done")
  /\ evicted' = evicted \cup {call[c].user}
  /\ outlaws' = outlaws \cup {Copy(c).who}
  /\ UNCHANGED <<rec, byName, byKey, emailOwner, since, used, now, cut, restarts>>

Evict(c) ==
  /\ At(c, "evict", "evict") /\ Goto(c, "done")
  /\ evicted' = evicted \cup {call[c].user, Copy(c).name}
  /\ outlaws' = outlaws \cup {Copy(c).who}
  /\ UNCHANGED <<rec, byName, byKey, emailOwner, since, used, now, cut, restarts>>

-----------------------------------------------------------------------------
Tick ==
  /\ now < MaxTime /\ now' = now + 1
  /\ UNCHANGED <<rec, byName, byKey, emailOwner, since, used, call, evicted, outlaws, mixed, cut,
                 restarts>>

Restart ==
  /\ restarts < MaxRestarts /\ restarts' = restarts + 1
  /\ cut' = cut \cup UNION {Left(c) : c \in Active}
  /\ call' = [c \in Calls |-> IF c \in Active THEN Done(c) ELSE call[c]]
  /\ UNCHANGED <<rec, byName, byKey, emailOwner, since, used, now, evicted, outlaws, mixed>>

AccountsNext ==
  \/ \E c \in Calls :
       \/ RegisterBegin(c) \/ RegisterWrite(c)
       \/ UpdateBegin(c) \/ UpdateKey(c) \/ UpdateName(c) \/ UpdateEmail(c) \/ UpdateSince(c)
       \/ UpdatePointKey(c) \/ UpdatePointName(c) \/ UpdateRecord(c) \/ UpdateRetire(c)
       \/ SaveBegin(c) \/ SaveRecord(c)
       \/ DeleteBegin(c) \/ DeleteRecord(c) \/ DeleteName(c) \/ DeleteKey(c) \/ DeleteUser(c)
       \/ RekeyBegin(c) \/ RekeyName(c) \/ RekeyCopy(c) \/ RekeyErase(c)
       \/ EvictBegin(c) \/ Evict(c)
  \/ Tick \/ Restart

-----------------------------------------------------------------------------
(* Properties *)

(* What no rule is stated for: two calls worked on it at once, or one has   *)
(* stopped, or is, in the middle of it.                                     *)
Unsettled == mixed \cup cut \cup UNION {Left(c) : c \in Active}

(* An account can be reached by the name and by the key in its record, and a *)
(* name that is taken leads to an account; also after a crash and after an   *)
(* update that was refused, but for a key that this update has let go.       *)
NamesLead ==
  /\ \A u \in Live \ Unsettled :
       /\ rec[u].name \in Unsettled \/ byName[rec[u].name] = u
       /\ rec[u].key \in Unsettled \/ byKey[rec[u].key] = u
  /\ \A n \in Names \ Unsettled : byName[n] \in Live \cup Unsettled \cup {None}

(* Who is evicted cannot come in, under another name or another id; unless *)
(* two calls worked on the account at once, such as a change of its name   *)
(* and the eviction.                                                       *)
EvictedStaysOut ==
  \A u \in Live : rec[u].who \in outlaws \ Unsettled => IsEvicted(u)
=============================================================================
