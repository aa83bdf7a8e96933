---------------------------- MODULE UserAccountsProofs ----------------------------
(***************************************************************************)
(* Theorems about UserAccounts, for any number of accounts, names, keys,   *)
(* addresses and requests.  What a request holds is a copy of a record; an *)
(* inductive invariant says what is still true of it where no two requests *)
(* work on the same thing, and what a name, a key, an eviction, an address *)
(* and a password's time are meanwhile.                                    *)
(***************************************************************************)
EXTENDS UserAccounts, TLAPS

-----------------------------------------------------------------------------
(* Types, and the steps of a request *)

Ids(X) == X \cup {None}

Ops ==
  {None, "register", "nostr", "update", "save", "delete", "rekey", "evict", "login", "keylogin",
   "request", "verify"}

Steps ==
  {"start", "done", "enroll", "save", "key", "name", "email", "since", "keyptr", "nameptr",
   "record", "retire", "gone", "wipe", "unname", "unkey", "rename", "copy", "erase", "evict",
   "read", "count", "arm", "rehash", "gate", "attach", "sign", "owner", "unverify", "code",
   "write", "map"}

RequestRecords ==
  [op : Ops, pc : Steps, user : Ids(Users), copy : Ids(UserRecords), name : Ids(Names),
   key : Ids(Keys), email : Ids(Emails), pw : Nat, at : Nat, to : Ids(Users), verified : BOOLEAN]

(* Which steps a call is at, and what it knows there. *)
UpdateSteps == {"key", "name", "email", "since", "keyptr", "nameptr", "record", "retire"}
DeleteSteps == {"gone", "wipe", "unname", "unkey"}
RekeySteps  == {"rename", "copy", "erase"}
LoginSteps  == {"read", "count", "arm", "rehash", "gate", "attach", "sign"}

IsStep(op, pc) ==
  /\ pc = "enroll" => op \in {"register", "nostr"}
  /\ pc = "save" => op \in {"nostr", "save"}
  /\ pc \in UpdateSteps => op = "update"
  /\ pc \in DeleteSteps => op = "delete"
  /\ pc \in RekeySteps => op = "rekey"
  /\ pc = "evict" => op = "evict"
  /\ pc \in {"count", "arm", "rehash", "gate"} => op = "login"
  /\ pc = "read" => op \in {"login", "verify"}
  /\ pc \in {"attach", "sign"} => op \in {"login", "keylogin"}
  /\ pc = "owner" => op \in {"request", "verify"}
  /\ pc \in {"unverify", "code"} => op = "request"
  /\ pc \in {"write", "map"} => op = "verify"

NoCopy(op, pc) == pc \in {"enroll", "read", "count", "arm"} \/ (op = "verify" /\ pc = "owner")

PathOf(r) ==
  /\ r.pc = "start" => r = Idle
  /\ r.pc = "done"  => r = [Idle EXCEPT !.op = r.op, !.pc = "done"]
  /\ r.pc \notin {"start", "done"} =>
       /\ IsStep(r.op, r.pc)
       /\ r.copy # None <=> ~NoCopy(r.op, r.pc)
       /\ r.user # None <=> ~(r.op = "login" /\ r.copy = None)
       /\ r.op \in {"register", "nostr", "update", "login", "rekey"} => r.name # None
       /\ r.op \in {"register", "nostr"} \/ r.pc = "key" => r.key # None
       /\ r.op \in {"request", "verify"} => r.email # None
       /\ r.op = "rekey" <=> r.to # None
       /\ r.pc = "retire" => r.name # r.copy.name
       /\ r.pc = "email" => r.email # r.copy.email
       /\ r.op = "update" => r.pw \in {0, 1}

Holder(c) == call[c].copy # None

CallsTyped == call \in [Calls -> RequestRecords] /\ \A c \in Calls : PathOf(call[c])

DataTyped ==
  /\ rec \in [Users -> Ids(UserRecords)]
  /\ byName \in [Names -> Ids(Users)] /\ byKey \in [Keys -> Ids(Users)]
  /\ emailOwner \in [Emails -> Ids(Users)] /\ since \in [Users -> Ids(Nat)]
  /\ used \subseteq Users /\ now \in Nat
  /\ evicted \subseteq Users \cup Names /\ outlaws \subseteq Users
  /\ sessions \subseteq [user : Users, pw : Nat, iat : Nat]
  /\ fails \in [Names -> Nat] /\ armed \subseteq Names
  /\ codes \subseteq [user : Users, email : Emails]

Typed == CallsTyped /\ DataTyped

-----------------------------------------------------------------------------
(* Who is alone *)

Separate == \A c, d \in Calls : c # d => Touched(call[c]) \cap Touched(call[d]) \subseteq mixed

(* Ids that are drawn and not in use yet. *)
Draws(c) ==
  (IF call[c].pc = "enroll" THEN {call[c].user} ELSE {})
    \cup (IF call[c].pc \in {"rename", "copy"} THEN {call[c].to} ELSE {})

Unborn(x) ==
  /\ x \in used /\ rec[x] = None
  /\ \A d \in Calls : Holder(d) => call[d].user # x
  /\ x \notin outlaws
  /\ \A u \in Live : rec[u].who # x
  /\ \A d \in Calls : Holder(d) => call[d].copy.who # x

DrawInv ==
  /\ \A u \in Live : u \in used /\ rec[u].who \in used
  /\ \A c \in Calls : Holder(c) => call[c].user \in used /\ call[c].copy.who \in used
  /\ outlaws \subseteq used
  /\ \A c \in Calls : \A x \in Draws(c) : Unborn(x)
  /\ \A c, d \in Calls : c # d => Draws(c) \cap Draws(d) = {}

(* The person of an id is one for ever. *)
WhoInv ==
  /\ \A c \in Calls : Holder(c) /\ call[c].user \in Live => rec[call[c].user].who = call[c].copy.who
  /\ \A c, d \in Calls : Holder(c) /\ Holder(d) /\ call[c].user = call[d].user => call[c].copy.who = call[d].copy.who

Quiet(c) == call[c].user \notin mixed \/ call[c].copy.who \notin mixed

(* The record is as the call has read it. *)
Same(r, q) ==
  /\ r # None /\ r.name = q.name /\ r.key = q.key /\ r.who = q.who
  /\ r.email = q.email /\ (r.verified <=> q.verified)

CopyOf(c) ==
  /\ Holder(c) /\ Quiet(c) =>
       /\ call[c].pc \notin {"retire", "unname", "unkey", "code", "map"} => Same(rec[call[c].user], Copy(c))
       /\ call[c].pc = "map" => /\ rec[call[c].user] # None
                                /\ rec[call[c].user].email = call[c].email
  /\ At(c, "rekey", "erase") /\ (Copy(c).who \notin mixed \/ Copy(c).name \notin mixed) =>
       /\ Same(rec[call[c].to], Copy(c))
       /\ \A d \in Calls : Holder(d) => call[d].user # call[c].to

CopyInv == \A c \in Calls : CopyOf(c)

Spoilt == mixed \cup cut

-----------------------------------------------------------------------------
(* Names *)

NameLeft(c) ==
  {n \in Names : \/ call[c].pc = "record" /\ n = call[c].name /\ n # Copy(c).name
                 \/ call[c].pc \in {"retire", "unname", "copy", "erase"} /\ n = Copy(c).name}

Named(n) == {u \in Live : rec[u].name = n}

NamesOfLive == \A u \in Live : rec[u].name \in Spoilt \/ byName[rec[u].name] = u \/ \E d \in Calls : rec[u].name \in NameLeft(d)

NamesTaken == \A n \in Names \ Spoilt :
        \/ byName[n] \in Spoilt \cup {None}
        \/ byName[n] \in Named(n)
        \/ \E d \in Calls : n \in NameLeft(d)

NameOf(c) ==
  LET r == call[c]
      n == r.copy.name
  IN  /\ r.pc = "enroll" => r.name \in Spoilt \/ byName[r.name] = None
      /\ Holder(c) /\ n \notin Spoilt =>
           /\ r.pc \notin {"unkey", "copy", "erase"} => byName[n] = r.user
           /\ r.pc \in {"unname", "retire"} => Named(n) = {}
           /\ r.pc \in {"copy", "erase"} => Named(n) \subseteq {r.user, r.to}
      /\ r.op = "update" /\ Holder(c) /\ r.name # n /\ r.name \notin Spoilt =>
           /\ r.pc \in {"email", "since", "keyptr", "nameptr"} => byName[r.name] = None
           /\ r.pc = "record" => byName[r.name] = r.user /\ Named(r.name) \subseteq {r.user}
           /\ r.pc = "retire" => byName[r.name] = r.user
      /\ r.op = "rekey" /\ Holder(c) => r.name \in Spoilt \/ r.name = n
      /\ r.pc = "erase" => n \in Spoilt \/ r.name = n
      /\ r.pc \in {"copy", "erase"} /\ r.name \notin Spoilt => byName[r.name] = r.to

NameInv == NamesOfLive /\ NamesTaken /\ \A c \in Calls : NameOf(c)

-----------------------------------------------------------------------------
(* Keys *)

KeyLeft(c) ==
  {k \in Keys : /\ \/ call[c].pc \in {"name", "email", "since", "keyptr", "nameptr", "record"} /\ call[c].key # None
                   \/ call[c].pc \in {"unname", "unkey"}
                /\ k = Copy(c).key}

Keyed(k) == {u \in Live : rec[u].key = k}

KeysOfLive == \A u \in Live : rec[u].key \in Spoilt \/ byKey[rec[u].key] = u \/ \E d \in Calls : rec[u].key \in KeyLeft(d)

KeyOf(c) ==
  LET r == call[c]
      k == r.copy.key
  IN  /\ Holder(c) /\ k \notin Spoilt =>
           /\ (r.op = "update" => r.key = None \/ r.pc = "key") => byKey[k] = r.user
           /\ r.pc \in {"unname", "unkey"} => Keyed(k) = {}
           /\ k \in KeyLeft(c) => Keyed(k) \subseteq {r.user}
      /\ r.op = "update" /\ r.key # None /\ r.key \notin Spoilt =>
           /\ r.pc \in {"name", "email", "since", "keyptr", "nameptr", "record"} => Keyed(r.key) \subseteq {r.user}
           /\ r.pc \in {"nameptr", "record", "retire"} => byKey[r.key] = r.user

KeyInv == KeysOfLive /\ \A c \in Calls : KeyOf(c)

-----------------------------------------------------------------------------
(* Evictions *)

Persons(w) == {u \in Live : rec[u].who = w}

Outcasts == \A u \in Live : rec[u].who \in outlaws \ Spoilt => rec[u].name \in evicted

OneEach ==
  \A u, v \in Live : rec[u].who = rec[v].who /\ rec[u].who \notin Spoilt =>
    \/ u = v
    \/ \E d \in Calls : /\ At(d, "rekey", "erase") /\ Copy(d).who = rec[u].who
                        /\ {u, v} = {call[d].user, call[d].to}

OutOf(c) ==
  Holder(c) /\ Copy(c).who \notin Spoilt =>
    /\ call[c].op = "update" => Copy(c).who \notin outlaws
    /\ Persons(Copy(c).who) \subseteq {call[c].user} \cup (IF call[c].pc = "erase" THEN {call[c].to} ELSE {})

OutInv == Outcasts /\ OneEach /\ \A c \in Calls : OutOf(c)

-----------------------------------------------------------------------------
(* Addresses *)

Addressed == \A u \in Live : rec[u].verified => rec[u].email # None

Owned ==
  \A u \in Live :
    rec[u].verified /\ u \notin Spoilt /\ rec[u].email \notin Spoilt =>
      \/ emailOwner[rec[u].email] = u
      \/ \E d \in Calls : At(d, "verify", "map") /\ call[d].user = u

MailOf(c) ==
  LET r == call[c]
      settled == r.user \notin Spoilt /\ r.email \notin Spoilt
  IN  /\ Holder(c) => (Copy(c).verified => Copy(c).email # None)
      /\ r.op = "update" /\ r.verified /\ r.pc \in {"since", "keyptr", "nameptr", "record"} =>
           r.email # None /\ (settled => emailOwner[r.email] = r.user)
      /\ r.pc \in {"key", "name", "email"} => (r.verified <=> r.copy.verified)
      /\ r.pc \in {"key", "name"} /\ r.verified /\ r.email = r.copy.email /\ settled =>
           emailOwner[r.email] = r.user
      /\ r.op = "verify" /\ r.pc \in {"read", "write", "map"} /\ r.email \notin Spoilt =>
           emailOwner[r.email] \in {None, r.user}

MailInv == Addressed /\ Owned /\ \A c \in Calls : MailOf(c)

-----------------------------------------------------------------------------
(* Passwords *)

Kept(u, pw, pwAt) == pw = 0 \/ pwAt = 0 \/ (since[u] # None /\ since[u] >= pwAt)

SinceInv == \A u \in Users : since[u] # None => since[u] <= now

PassOf(c) ==
  LET r == call[c]
  IN  /\ Holder(c) => Kept(r.user, r.copy.pw, r.copy.pwAt)
      /\ r.at <= now
      /\ r.op = "update" /\ r.pw = 1 /\ r.pc \in {"keyptr", "nameptr", "record"} => Kept(r.user, 1, r.at)

PassInv ==
  /\ SinceInv
  /\ \A u \in Live : Kept(u, rec[u].pw, rec[u].pwAt)
  /\ \A c \in Calls : PassOf(c)

-----------------------------------------------------------------------------
(* Types *)

OpenRecords ==
  [name : Ids(Names), cased : BOOLEAN, key : Ids(Keys), pw : Nat, pwAt : Nat, legacy : BOOLEAN,
   email : Ids(Emails), verified : BOOLEAN, who : Ids(Users)]

LEMMA BlankIs ==
  /\ Blank \in OpenRecords
  /\ Blank.pw = 1 /\ Blank.pwAt = 0 /\ Blank.email = None /\ ~Blank.verified
BY DEF Blank, OpenRecords, Ids

LEMMA RecordIs ==
  ASSUME NEW r \in UserRecords
  PROVE  /\ r.name \in Names /\ r.cased \in BOOLEAN /\ r.key \in Keys /\ r.pw \in Nat
         /\ r.pwAt \in Nat /\ r.legacy \in BOOLEAN /\ r.email \in Ids(Emails)
         /\ r.verified \in BOOLEAN /\ r.who \in Users
         /\ r # None
BY AccountsAssumption DEF AccountsAssumption, UserRecords, Ids

LEMMA FieldsAre ==
  ASSUME NEW r \in RequestRecords
  PROVE  /\ r.op \in Ops /\ r.pc \in Steps
         /\ r.user \in Ids(Users) /\ r.copy \in Ids(UserRecords) /\ r.name \in Ids(Names)
         /\ r.key \in Ids(Keys) /\ r.email \in Ids(Emails) /\ r.pw \in Nat /\ r.at \in Nat
         /\ r.to \in Ids(Users) /\ r.verified \in BOOLEAN
BY DEF RequestRecords

LEMMA IdleIs ==
  /\ Idle \in RequestRecords /\ PathOf(Idle)
  /\ Idle.op = None /\ Idle.pc = "start" /\ Idle.user = None /\ Idle.copy = None /\ Idle.name = None
  /\ Idle.key = None /\ Idle.email = None /\ Idle.pw = 0 /\ Idle.at = 0 /\ Idle.to = None
  /\ ~Idle.verified
<1>1. Idle \in RequestRecords
  BY AccountsAssumption DEF AccountsAssumption, Idle, RequestRecords, Ids, Ops, Steps
<1>2. /\ Idle.op = None /\ Idle.pc = "start" /\ Idle.user = None /\ Idle.copy = None /\ Idle.name = None
      /\ Idle.key = None /\ Idle.email = None /\ Idle.pw = 0 /\ Idle.at = 0 /\ Idle.to = None
      /\ ~Idle.verified
  BY DEF Idle
<1> QED
  BY <1>1, <1>2 DEF PathOf

LEMMA DoneIs ==
  ASSUME CallsTyped, NEW c \in Calls
  PROVE  /\ Done(c) \in RequestRecords /\ PathOf(Done(c))
         /\ Done(c).pc = "done" /\ Done(c).copy = None /\ Done(c).user = None /\ Done(c).name = None
         /\ Done(c).key = None /\ Done(c).email = None /\ Done(c).to = None /\ Done(c).at = 0
         /\ Done(c).op = call[c].op /\ Done(c).pw = 0 /\ ~Done(c).verified
<1>1. call[c] \in RequestRecords
  BY DEF CallsTyped
<1>2. /\ Done(c).pc = "done" /\ Done(c).copy = None /\ Done(c).user = None /\ Done(c).name = None
      /\ Done(c).key = None /\ Done(c).email = None /\ Done(c).to = None /\ Done(c).at = 0
      /\ Done(c).op = call[c].op /\ Done(c).pw = 0 /\ ~Done(c).verified
  BY IdleIs DEF Done, RequestRecords
<1>3. Done(c) \in RequestRecords
  BY <1>1, IdleIs DEF Done, RequestRecords, Steps
<1>4. PathOf(Done(c))
  BY <1>2 DEF PathOf, Done
<1> QED
  BY <1>2, <1>3, <1>4

LEMMA CallTyped ==
  ASSUME CallsTyped, NEW c \in Calls, NEW r \in RequestRecords, PathOf(r),
         call' = [call EXCEPT ![c] = r]
  PROVE  CallsTyped' /\ call'[c] = r /\ \A d \in Calls \ {c} : call'[d] = call[d]
BY DEF CallsTyped

(* What a call at work has. *)
LEMMA StepIs ==
  ASSUME CallsTyped, NEW c \in Calls, call[c].pc \notin {"start", "done"}
  PROVE  LET r == call[c]
         IN  /\ r \in RequestRecords /\ PathOf(r) /\ IsStep(r.op, r.pc)
             /\ r.copy # None <=> ~NoCopy(r.op, r.pc)
             /\ r.copy # None => r.copy \in UserRecords
             /\ r.user # None <=> ~(r.op = "login" /\ r.copy = None)
             /\ r.user # None => r.user \in Users
             /\ r.op \in {"register", "nostr", "update", "login", "rekey"} => r.name \in Names
             /\ r.op \in {"register", "nostr"} \/ r.pc = "key" => r.key \in Keys
             /\ r.op \in {"request", "verify"} => r.email \in Emails
             /\ r.op = "rekey" <=> r.to # None
             /\ r.op = "rekey" => r.to \in Users
             /\ r.pc = "retire" => r.name # r.copy.name
             /\ r.pc = "email" => r.email # r.copy.email
             /\ r.op = "update" => r.pw \in {0, 1}
<1>1. call[c] \in RequestRecords /\ PathOf(call[c])
  BY DEF CallsTyped
<1> QED
  BY <1>1, FieldsAre DEF PathOf, Ids

(* A step to the next access. *)
Walks(r, pc) ==
  /\ r.pc \notin {"start", "done"} /\ IsStep(r.op, pc) /\ (NoCopy(r.op, pc) <=> NoCopy(r.op, r.pc))
  /\ pc \in Steps \ {"start", "done", "key"}
  /\ pc = "retire" => r.name # r.copy.name
  /\ pc = "email" => r.email # r.copy.email

LEMMA WalkIs ==
  ASSUME NEW r \in RequestRecords, PathOf(r), NEW pc, Walks(r, pc)
  PROVE  LET q == [r EXCEPT !.pc = pc]
         IN  /\ q \in RequestRecords /\ PathOf(q)
             /\ q.pc = pc /\ q.op = r.op /\ q.copy = r.copy /\ q.user = r.user /\ q.name = r.name
             /\ q.key = r.key /\ q.email = r.email /\ q.to = r.to /\ q.pw = r.pw /\ q.at = r.at
             /\ (q.verified <=> r.verified)
<1> DEFINE q == [r EXCEPT !.pc = pc]
<1>1. q \in RequestRecords
  BY DEF Walks, RequestRecords
<1>2. /\ q.pc = pc /\ q.op = r.op /\ q.copy = r.copy /\ q.user = r.user /\ q.name = r.name /\ q.key = r.key
      /\ q.email = r.email /\ q.to = r.to /\ q.pw = r.pw /\ q.at = r.at /\ (q.verified <=> r.verified)
  BY DEF RequestRecords
<1>3. pc \notin {"start", "done", "key"} /\ (NoCopy(r.op, pc) <=> NoCopy(r.op, r.pc))
  BY DEF Walks
<1> HIDE DEF q
<1>4. PathOf(q)
  BY <1>2, <1>3 DEF Walks, PathOf
<1> QED
  BY <1>1, <1>2, <1>4 DEF q

LEMMA GotoTyped ==
  ASSUME CallsTyped, NEW c \in Calls, NEW pc, Goto(c, pc), pc = "done" \/ Walks(call[c], pc)
  PROVE  CallsTyped'
<1>1. CASE pc = "done"
  BY <1>1, DoneIs, CallTyped DEF Goto
<1>2. CASE pc # "done"
  <2>1. call[c] \in RequestRecords /\ PathOf(call[c])
    BY DEF CallsTyped
  <2>2. call' = [call EXCEPT ![c] = [call[c] EXCEPT !.pc = pc]]
    BY <1>2 DEF Goto
  <2> QED
    BY <1>2, <2>1, <2>2, WalkIs, CallTyped
<1> QED
  BY <1>1, <1>2

(* A call that has read an account. *)
LEMMA BeginIs ==
  ASSUME DataTyped, NEW u \in Live, NEW op \in Ops, NEW pc \in Steps,
         NEW q, q = Begin(op, pc, u)
  PROVE  /\ u \in Users /\ rec[u] \in UserRecords /\ u # None /\ rec[u] # None
         /\ q \in RequestRecords
         /\ q.op = op /\ q.pc = pc /\ q.user = u /\ q.copy = rec[u] /\ q.name = None
         /\ q.key = None /\ q.email = None /\ q.pw = 0 /\ q.at = now /\ q.to = None
         /\ ~q.verified
<1>1. u \in Users /\ rec[u] \in UserRecords /\ u # None /\ rec[u] # None /\ now \in Nat
  BY AccountsAssumption DEF AccountsAssumption, DataTyped, Live, Ids
<1>2. /\ q.op = op /\ q.pc = pc /\ q.user = u /\ q.copy = rec[u] /\ q.name = None
      /\ q.key = None /\ q.email = None /\ q.pw = 0 /\ q.at = now /\ q.to = None
      /\ ~q.verified
  BY IdleIs DEF Begin, RequestRecords
<1>3. q \in RequestRecords
  BY <1>1, IdleIs DEF Begin, RequestRecords, Ids
<1> QED
  BY <1>1, <1>2, <1>3

-----------------------------------------------------------------------------
(* Calls that read a record *)

Untouched == <<rec, byName, byKey, emailOwner, since, now, evicted, outlaws, cut, restarts>>

(* Call c has read a record and goes on as q. *)
ReadsAs(c, q) ==
  /\ q \in RequestRecords /\ PathOf(q) /\ Meet(c, q)
  /\ q.user \in Live /\ q.copy = rec[q.user] /\ q.pc \notin {"start", "done"}
  /\ q.op = "rekey" => /\ q.pc = "rename" /\ q.to \in Users \ used /\ used' = used \cup {q.to}
                       /\ byName[q.name] = q.user /\ \E v \in Live : q.name = rec[v].name
  /\ q.op # "rekey" => used' = used
  /\ q.op = "update" => /\ q.user \in Allowed /\ q.pc = (IF q.key = None THEN "name" ELSE "key")
                        /\ (q.verified <=> rec[q.user].verified)
  /\ q.at \in {call[c].at, now}
  /\ q.pc \in {"key", "name", "save", "gone", "wipe", "rename", "evict", "rehash", "gate", "attach",
               "sign", "owner", "write"}
  /\ q.op = "verify" => /\ call[c].pc = "read" /\ call[c].op = "verify"
                        /\ q.email = call[c].email /\ q.user = call[c].user
  /\ call[c].pc \in {"start", "read"}
  /\ UNCHANGED Untouched

LEMMA UpdateBeginReads ==
  ASSUME Typed, NEW c \in Calls, UpdateBegin(c)
  PROVE  \E q : ReadsAs(c, q)
<1>1. PICK u \in Allowed, n \in Names, k \in Keys \cup {None}, e \in Emails \cup {None}, p \in {0, 1} :
        Meet(c, [Begin("update", IF k = None THEN "name" ELSE "key", u) EXCEPT
                   !.name = n, !.key = k, !.email = e, !.pw = p, !.verified = rec[u].verified])
  BY DEF UpdateBegin
<1>b. PICK b : b = Begin("update", IF k = None THEN "name" ELSE "key", u)
  OBVIOUS
<1> DEFINE q == [b EXCEPT !.name = n, !.key = k, !.email = e, !.pw = p, !.verified = rec[u].verified]
<1>2. u \in Live /\ "update" \in Ops /\ (IF k = None THEN "name" ELSE "key") \in Steps
  BY DEF Allowed, Ops, Steps
<1>3. /\ u \in Users /\ rec[u] \in UserRecords /\ u # None /\ rec[u] # None
      /\ b \in RequestRecords
      /\ b.op = "update" /\ b.pc = (IF k = None THEN "name" ELSE "key") /\ b.user = u /\ b.copy = rec[u]
      /\ b.at = now /\ b.to = None
  BY <1>b, <1>2, BeginIs DEF Typed
<1>4. rec[u].verified \in BOOLEAN
  BY <1>3, RecordIs
<1>5. q \in RequestRecords
  <2>1. b \in RequestRecords
    BY <1>3
  <2>2. n \in Ids(Names) /\ k \in Ids(Keys) /\ e \in Ids(Emails) /\ p \in Nat
    BY DEF Ids
  <2> QED
    BY <1>4, <2>1, <2>2, Zenon DEF RequestRecords
<1>6. /\ q.op = "update" /\ q.pc = (IF k = None THEN "name" ELSE "key") /\ q.user = u /\ q.copy = rec[u]
      /\ q.name = n /\ q.key = k /\ q.email = e /\ q.pw = p /\ (q.verified <=> rec[u].verified)
      /\ q.at = now /\ q.to = None
  BY <1>3 DEF RequestRecords
<1>7. Meet(c, q)
  BY <1>1, <1>b
<1> HIDE DEF q
<1>8. PathOf(q)
  <2>1. IsStep(q.op, q.pc) /\ ~NoCopy(q.op, q.pc)
    BY <1>6 DEF IsStep, NoCopy, UpdateSteps, DeleteSteps, RekeySteps
  <2>2. n # None
    BY AccountsAssumption DEF AccountsAssumption
  <2> QED
    BY <1>3, <1>6, <2>1, <2>2 DEF PathOf
<1>9. UNCHANGED Untouched /\ used' = used /\ call[c].pc = "start"
  BY DEF UpdateBegin, Untouched
<1> QED
  BY <1>2, <1>5, <1>6, <1>7, <1>8, <1>9 DEF ReadsAs

LEMMA OthersRead ==
  ASSUME Typed, NEW c \in Calls,
         SaveBegin(c) \/ DeleteBegin(c) \/ EvictBegin(c) \/ KeyLogin(c)
  PROVE  \E q : ReadsAs(c, q)
<1>1. PICK u \in Live, op \in {"save", "delete", "evict", "keylogin"},
           pc \in {"save", "gone", "wipe", "evict", "attach", "sign"} :
        Meet(c, Begin(op, pc, u)) /\ IsStep(op, pc)
  BY DEF SaveBegin, DeleteBegin, EvictBegin, KeyLogin, Allowed, IsStep, UpdateSteps, DeleteSteps, RekeySteps
<1>q. PICK q : q = Begin(op, pc, u)
  OBVIOUS
<1>2. op \in Ops /\ pc \in Steps
  BY DEF Ops, Steps
<1>3. /\ u \in Users /\ rec[u] \in UserRecords /\ u # None /\ rec[u] # None
      /\ q \in RequestRecords /\ q.op = op /\ q.pc = pc /\ q.user = u /\ q.copy = rec[u]
      /\ q.at = now /\ q.to = None /\ q.name = None /\ q.key = None /\ q.email = None
  BY <1>q, <1>2, BeginIs DEF Typed
<1>4. PathOf(q)
  <2>1. ~NoCopy(q.op, q.pc)
    BY <1>3 DEF NoCopy
  <2> QED
    BY <1>1, <1>3, <2>1 DEF PathOf
<1>5. UNCHANGED Untouched /\ used' = used /\ call[c].pc = "start"
  BY DEF SaveBegin, DeleteBegin, EvictBegin, KeyLogin, Untouched, redis
<1>6. Meet(c, q)
  BY <1>1, <1>q
<1> QED
  BY <1>3, <1>4, <1>5, <1>6 DEF ReadsAs

LEMMA RequestReads ==
  ASSUME Typed, NEW c \in Calls, RequestBegin(c)
  PROVE  \E q : ReadsAs(c, q)
<1>1. PICK u \in Live, e \in Emails : Meet(c, [Begin("request", "owner", u) EXCEPT !.email = e])
  BY DEF RequestBegin, Allowed
<1>b. PICK b : b = Begin("request", "owner", u)
  OBVIOUS
<1> DEFINE q == [b EXCEPT !.email = e]
<1>2. "request" \in Ops /\ "owner" \in Steps
  BY DEF Ops, Steps
<1>3. /\ u \in Users /\ rec[u] \in UserRecords /\ u # None /\ rec[u] # None
      /\ b \in RequestRecords /\ b.op = "request" /\ b.pc = "owner" /\ b.user = u /\ b.copy = rec[u]
      /\ b.at = now /\ b.to = None
  BY <1>b, <1>2, BeginIs DEF Typed
<1>4. /\ q \in RequestRecords /\ q.op = "request" /\ q.pc = "owner" /\ q.user = u /\ q.copy = rec[u]
      /\ q.at = now /\ q.to = None /\ q.email = e
  BY <1>3 DEF RequestRecords, Ids
<1>5. Meet(c, q)
  BY <1>1, <1>b
<1> HIDE DEF q
<1>6. PathOf(q)
  <2>1. IsStep(q.op, q.pc) /\ ~NoCopy(q.op, q.pc)
    BY <1>4 DEF IsStep, NoCopy, UpdateSteps, DeleteSteps, RekeySteps
  <2>2. e # None
    BY AccountsAssumption DEF AccountsAssumption
  <2> QED
    BY <1>3, <1>4, <2>1, <2>2 DEF PathOf
<1>7. UNCHANGED Untouched /\ used' = used /\ call[c].pc = "start"
  BY DEF RequestBegin, Untouched, redisE
<1> QED
  BY <1>4, <1>5, <1>6, <1>7 DEF ReadsAs

LEMMA RekeyReads ==
  ASSUME Typed, NEW c \in Calls, RekeyBegin(c)
  PROVE  \E q : ReadsAs(c, q)
<1>1. PICK v \in Live, to \in Users \ used :
        /\ byName[rec[v].name] \in Live /\ used' = used \cup {to}
        /\ Meet(c, [Begin("rekey", "rename", byName[rec[v].name]) EXCEPT !.name = rec[v].name, !.to = to])
  BY DEF RekeyBegin
<1> DEFINE u == byName[rec[v].name]
           n == rec[v].name
<1>b. PICK b : b = Begin("rekey", "rename", u)
  OBVIOUS
<1> DEFINE q == [b EXCEPT !.name = n, !.to = to]
<1>2. "rekey" \in Ops /\ "rename" \in Steps
  BY DEF Ops, Steps
<1>3. n \in Names
  BY RecordIs DEF Typed, DataTyped, Live, Ids
<1>4. /\ u \in Users /\ rec[u] \in UserRecords /\ u # None /\ rec[u] # None
      /\ b \in RequestRecords /\ b.op = "rekey" /\ b.pc = "rename" /\ b.user = u /\ b.copy = rec[u]
      /\ b.at = now /\ b.to = None
  BY <1>b, <1>1, <1>2, BeginIs DEF Typed
<1>5. u \in Live /\ byName[n] = u /\ \E w \in Live : n = rec[w].name
  BY <1>1
<1>m. Meet(c, q)
  BY <1>1, <1>b
<1> HIDE DEF u, n
<1>6. /\ q \in RequestRecords /\ q.op = "rekey" /\ q.pc = "rename" /\ q.user = u /\ q.copy = rec[u]
      /\ q.at = now /\ q.to = to /\ q.name = n
  BY <1>3, <1>4 DEF RequestRecords, Ids
<1> HIDE DEF q
<1>7. PathOf(q)
  <2>1. IsStep(q.op, q.pc) /\ ~NoCopy(q.op, q.pc)
    BY <1>6 DEF IsStep, NoCopy, UpdateSteps, DeleteSteps, RekeySteps
  <2>2. n # None /\ to # None
    BY <1>3, AccountsAssumption DEF AccountsAssumption
  <2> QED
    BY <1>4, <1>6, <2>1, <2>2 DEF PathOf
<1>8. UNCHANGED Untouched /\ call[c].pc = "start"
  BY DEF RekeyBegin, Untouched
<1> QED
  BY <1>1, <1>5, <1>m, <1>6, <1>7, <1>8 DEF ReadsAs

-----------------------------------------------------------------------------
(* Calls that go on, or end *)

Edges ==
  {<<"update", "key", "name">>, <<"update", "name", "email">>, <<"update", "name", "since">>,
   <<"update", "name", "keyptr">>, <<"update", "since", "keyptr">>, <<"update", "keyptr", "nameptr">>,
   <<"update", "nameptr", "record">>, <<"update", "record", "retire">>,
   <<"delete", "gone", "unname">>, <<"delete", "unname", "unkey">>,
   <<"rekey", "rename", "copy">>, <<"rekey", "copy", "erase">>,
   <<"login", "read", "count">>, <<"login", "count", "arm">>, <<"login", "rehash", "gate">>,
   <<"login", "gate", "attach">>, <<"login", "gate", "sign">>, <<"login", "attach", "sign">>,
   <<"keylogin", "attach", "sign">>,
   <<"request", "owner", "unverify">>, <<"request", "owner", "code">>, <<"request", "unverify", "code">>,
   <<"verify", "owner", "read">>, <<"verify", "write", "map">>}

Ends(q) ==
  /\ q.pc = "done" /\ q.user = None /\ q.copy = None /\ q.name = None /\ q.key = None
  /\ q.email = None /\ q.to = None /\ q.at = 0

SameBut(q, r) ==
  /\ q.user = r.user /\ q.copy = r.copy /\ q.name = r.name /\ q.key = r.key /\ q.email = r.email
  /\ q.pw = r.pw /\ q.at = r.at /\ q.to = r.to

(* Call c has gone from one step to another. *)
Moved(c, pc) ==
  /\ CallsTyped' /\ mixed' = mixed /\ \A d \in Calls \ {c} : call'[d] = call[d]
  /\ call'[c].op = call[c].op /\ call'[c].pc = pc
  /\ pc = "done" => Ends(call'[c])
  /\ pc # "done" => SameBut(call'[c], call[c]) /\ (call'[c].verified <=> call[c].verified)

LEMMA GotoMoves ==
  ASSUME CallsTyped, NEW c \in Calls, call[c].pc \notin {"start", "done"},
         NEW pc, Goto(c, pc), pc = "done" \/ <<call[c].op, call[c].pc, pc>> \in Edges,
         pc = "retire" => call[c].name # call[c].copy.name,
         pc = "email" => call[c].email # call[c].copy.email
  PROVE  Moved(c, pc)
<1>1. CASE pc = "done"
  <2>1. call' = [call EXCEPT ![c] = Done(c)] /\ mixed' = mixed
    BY <1>1 DEF Goto
  <2>2. Done(c) \in RequestRecords /\ PathOf(Done(c)) /\ Ends(Done(c)) /\ Done(c).op = call[c].op
    BY DoneIs DEF Ends
  <2>3. CallsTyped' /\ call'[c] = Done(c) /\ \A d \in Calls \ {c} : call'[d] = call[d]
    BY <2>1, <2>2, CallTyped
  <2> QED
    BY <1>1, <2>1, <2>2, <2>3 DEF Moved, Ends
<1>2. CASE pc # "done"
  <2>1. call[c] \in RequestRecords /\ PathOf(call[c])
    BY DEF CallsTyped
  <2>2. call' = [call EXCEPT ![c] = [call[c] EXCEPT !.pc = pc]] /\ mixed' = mixed
    BY <1>2 DEF Goto
  <2>3. Walks(call[c], pc)
    <3>1. <<call[c].op, call[c].pc, pc>> \in Edges
      BY <1>2
    <3>2. IsStep(call[c].op, pc)
      BY <3>1 DEF Edges, IsStep, UpdateSteps, DeleteSteps, RekeySteps
    <3>3. (NoCopy(call[c].op, pc) <=> NoCopy(call[c].op, call[c].pc))
      BY <3>1 DEF Edges, NoCopy
    <3>4. pc \in Steps \ {"start", "done", "key"}
      BY <3>1 DEF Edges, Steps
    <3> QED
      BY <3>2, <3>3, <3>4 DEF Walks
  <2> DEFINE q == [call[c] EXCEPT !.pc = pc]
  <2>4. /\ q \in RequestRecords /\ PathOf(q)
        /\ q.pc = pc /\ q.op = call[c].op /\ q.copy = call[c].copy /\ q.user = call[c].user
        /\ q.name = call[c].name /\ q.key = call[c].key /\ q.email = call[c].email
        /\ q.to = call[c].to /\ q.pw = call[c].pw /\ q.at = call[c].at
        /\ (q.verified <=> call[c].verified)
    BY <2>1, <2>3, WalkIs
  <2> HIDE DEF q
  <2>5. call' = [call EXCEPT ![c] = q]
    BY <2>2 DEF q
  <2>6. CallsTyped' /\ call'[c] = q /\ \A d \in Calls \ {c} : call'[d] = call[d]
    BY <2>4, <2>5, CallTyped
  <2> QED
    BY <1>2, <2>2, <2>4, <2>6 DEF Moved, SameBut
<1> QED
  BY <1>1, <1>2

(* A step that writes no record, name, key, address or eviction: what it has *)
(* learned is in its next step.                                              *)
LookEdges ==
  {<<"update", "name", "email">>, <<"update", "name", "since">>, <<"update", "name", "keyptr">>,
   <<"update", "since", "keyptr">>, <<"login", "read", "count">>, <<"login", "count", "arm">>,
   <<"login", "gate", "attach">>, <<"login", "gate", "sign">>, <<"request", "owner", "unverify">>,
   <<"request", "owner", "code">>, <<"verify", "owner", "read">>}

Looks(c) ==
  /\ call[c].pc \notin {"start", "done", "map"}
  /\ UNCHANGED <<rec, byName, byKey, emailOwner, used, now, evicted, outlaws>>
  /\ \E pc :
       /\ Moved(c, pc)
       /\ \/ call[c].pc # "since" /\ since' = since
          \/ call[c].pc = "since" /\ since' = [since EXCEPT ![call[c].user] = now]
       /\ \/ /\ pc = "done" /\ cut' = cut \cup Left(c)
             /\ call[c].op = "update" /\ call[c].pc \in {"key", "name"}
          \/ /\ pc = "done" /\ cut' = cut /\ call[c].op \in {"login", "keylogin", "request", "verify"}
          \/ /\ <<call[c].op, call[c].pc, pc>> \in LookEdges /\ cut' = cut
             /\ call[c].pc = "name" => /\ call[c].name = Copy(c).name \/ byName[call[c].name] = None
                                       /\ pc # "email" => call[c].email = Copy(c).email
                                       /\ pc = "keyptr" => call[c].pw # 1
             /\ call[c].op = "verify" => emailOwner[call[c].email] \in {None, call[c].user}

LEMMA LookMoves ==
  ASSUME CallsTyped, NEW c \in Calls, call[c].pc \notin {"start", "done"},
         NEW pc, Goto(c, pc), <<call[c].op, call[c].pc, pc>> \in LookEdges,
         pc = "email" => call[c].email # call[c].copy.email
  PROVE  Moved(c, pc)
<1>1. <<call[c].op, call[c].pc, pc>> \in Edges /\ pc # "retire"
  BY DEF LookEdges, Edges
<1> QED
  BY <1>1, GotoMoves

LEMMA UpdateLooks ==
  ASSUME CallsTyped, NEW c \in Calls, UpdateName(c) \/ UpdateSince(c) \/ (UpdateKey(c) /\ Stop(c) /\ UNCHANGED byKey)
  PROVE  Looks(c)
<1>1. call[c].op = "update" /\ call[c].pc \in {"key", "name", "since"}
  BY DEF UpdateName, UpdateSince, UpdateKey, At
<1>2. UNCHANGED <<rec, byName, byKey, emailOwner, used, now, evicted, outlaws>>
  BY DEF UpdateName, UpdateSince, UpdateKey
<1>3. CASE Stop(c) /\ call[c].pc \in {"key", "name"}
  <2>1. Moved(c, "done") /\ cut' = cut \cup Left(c) /\ since' = since
    BY <1>1, <1>3, GotoMoves DEF Stop, UpdateName, UpdateKey, UpdateSince, At
  <2> QED
    BY <1>1, <1>2, <1>3, <2>1 DEF Looks
<1>4. CASE UpdateSince(c)
  <2>1. /\ Goto(c, "keyptr") /\ cut' = cut /\ call[c].pc = "since"
        /\ since' = [since EXCEPT ![call[c].user] = now]
    BY <1>4 DEF UpdateSince, At
  <2>2. <<call[c].op, call[c].pc, "keyptr">> \in LookEdges
    BY <1>1, <2>1 DEF LookEdges
  <2>3. Moved(c, "keyptr")
    BY <1>1, <2>1, <2>2, LookMoves
  <2> QED
    BY <1>1, <1>2, <2>1, <2>2, <2>3 DEF Looks
<1>5. CASE UpdateName(c) /\ ~Stop(c)
  <2> DEFINE pc == IF call[c].email # Copy(c).email THEN "email"
                   ELSE IF call[c].pw = 1 THEN "since" ELSE "keyptr"
  <2>1. /\ call[c].name = Copy(c).name \/ byName[call[c].name] = None
        /\ Goto(c, pc) /\ cut' = cut /\ call[c].pc = "name" /\ since' = since
    BY <1>5 DEF UpdateName, At
  <2>2. /\ pc \in {"email", "since", "keyptr"} /\ (pc = "email" <=> call[c].email # Copy(c).email)
        /\ pc = "keyptr" => call[c].pw # 1
    OBVIOUS
  <2> HIDE DEF pc
  <2>3. <<call[c].op, call[c].pc, pc>> \in LookEdges
    BY <1>1, <2>1, <2>2 DEF LookEdges
  <2>4. Moved(c, pc)
    BY <1>1, <2>1, <2>2, <2>3, LookMoves DEF Copy
  <2> QED
    BY <1>1, <1>2, <2>1, <2>2, <2>3, <2>4 DEF Looks
<1> QED
  BY <1>1, <1>3, <1>4, <1>5 DEF UpdateName, UpdateKey, At

LEMMA LoginLooks ==
  ASSUME CallsTyped, NEW c \in Calls,
         \/ LoginRead(c) /\ (Goto(c, "count") \/ Goto(c, "done"))
         \/ LoginCount(c) \/ LoginArm(c) \/ LoginGate(c) \/ LoginSign(c)
  PROVE  Looks(c)
<1>1. /\ call[c].op \in {"login", "keylogin"} /\ call[c].pc \in {"read", "count", "arm", "gate", "sign"}
      /\ call[c].pc # "sign" => call[c].op = "login"
  <2>1. CASE LoginSign(c)
    <3>1. call[c].pc = "sign"
      BY <2>1 DEF LoginSign
    <3> QED
      BY <3>1, StepIs DEF IsStep
  <2> QED
    BY <2>1 DEF LoginRead, LoginCount, LoginArm, LoginGate, At
<1>2. UNCHANGED <<rec, byName, byKey, emailOwner, since, used, now, evicted, outlaws, cut>>
  BY DEF LoginRead, LoginCount, LoginArm, LoginGate, LoginSign, redis
<1>3. PICK pc \in {"done", "count", "arm", "attach", "sign"} :
        Goto(c, pc) /\ (pc # "done" => <<call[c].op, call[c].pc, pc>> \in LookEdges)
  <2>1. CASE LoginRead(c) /\ (Goto(c, "count") \/ Goto(c, "done"))
    BY <2>1 DEF LoginRead, At, LookEdges
  <2>2. CASE LoginCount(c)
    BY <2>2 DEF LoginCount, At, LookEdges
  <2>3. CASE LoginArm(c) \/ LoginSign(c)
    BY <2>3 DEF LoginArm, LoginSign
  <2>4. CASE LoginGate(c)
    BY <2>4 DEF LoginGate, At, LookEdges
  <2> QED
    BY <2>1, <2>2, <2>3, <2>4
<1>4. Moved(c, pc)
  <2>1. CASE pc = "done"
    BY <1>1, <1>3, <2>1, GotoMoves
  <2>2. CASE pc # "done"
    BY <1>1, <1>3, <2>2, LookMoves
  <2> QED
    BY <2>1, <2>2
<1> QED
  BY <1>1, <1>2, <1>3, <1>4 DEF Looks

LEMMA MailLooks ==
  ASSUME CallsTyped, NEW c \in Calls,
         RequestOwner(c) \/ RequestCode(c) \/ VerifyOwner(c) \/ (VerifyRead(c) /\ Goto(c, "done"))
  PROVE  Looks(c)
<1>1. call[c].op \in {"request", "verify"} /\ call[c].pc \in {"owner", "code", "read"}
  BY DEF RequestOwner, RequestCode, VerifyOwner, VerifyRead, At
<1>2. UNCHANGED <<rec, byName, byKey, emailOwner, since, used, now, evicted, outlaws, cut>>
  BY DEF RequestOwner, RequestCode, VerifyOwner, VerifyRead, redisE
<1>3. PICK pc \in {"done", "unverify", "code", "read"} :
        /\ Goto(c, pc) /\ (pc # "done" => <<call[c].op, call[c].pc, pc>> \in LookEdges)
        /\ pc # "done" /\ call[c].op = "verify" => emailOwner[call[c].email] \in {None, call[c].user}
  <2>1. CASE RequestOwner(c)
    BY <2>1 DEF RequestOwner, At, LookEdges
  <2>2. CASE RequestCode(c) \/ (VerifyRead(c) /\ Goto(c, "done"))
    BY <2>2 DEF RequestCode, VerifyRead
  <2>3. CASE VerifyOwner(c)
    BY <2>3 DEF VerifyOwner, At, LookEdges
  <2> QED
    BY <2>1, <2>2, <2>3
<1>4. Moved(c, pc)
  <2>1. CASE pc = "done"
    BY <1>1, <1>3, <2>1, GotoMoves
  <2>2. CASE pc # "done"
    BY <1>1, <1>3, <2>2, LookMoves
  <2> QED
    BY <2>1, <2>2
<1> QED
  BY <1>1, <1>2, <1>3, <1>4 DEF Looks

LEMMA LoginReads ==
  ASSUME Typed, NEW c \in Calls, LoginRead(c), ~Goto(c, "count"), ~Goto(c, "done")
  PROVE  \E q : ReadsAs(c, q)
<1> DEFINE u == byName[call[c].name]
           r == call[c]
<1>1. /\ r.op = "login" /\ r.pc = "read" /\ u \in Live
      /\ Meet(c, [[r EXCEPT !.user = u, !.copy = rec[u]] EXCEPT !.pc = IF rec[u].legacy THEN "rehash" ELSE "gate"])
  BY DEF LoginRead, At
<1>2. PICK pc \in {"rehash", "gate"} : pc = IF rec[u].legacy THEN "rehash" ELSE "gate"
  OBVIOUS
<1> DEFINE q == [[r EXCEPT !.user = u, !.copy = rec[u]] EXCEPT !.pc = pc]
<1>3. /\ r \in RequestRecords /\ PathOf(r) /\ r.to = None /\ r.name # None
      /\ u \in Users /\ rec[u] \in UserRecords /\ u # None /\ rec[u] # None
  BY <1>1, StepIs, AccountsAssumption DEF AccountsAssumption, Typed, DataTyped, Live, Ids
<1>4. Meet(c, q)
  BY <1>1, <1>2
<1> HIDE DEF u, r
<1>m. q \in RequestRecords
  <2>1. u \in Ids(Users) /\ rec[u] \in Ids(UserRecords) /\ pc \in Steps
    BY <1>3 DEF Ids, Steps
  <2> QED
    BY <1>3, <2>1, Zenon DEF RequestRecords
<1>5. /\ q.op = "login" /\ q.pc = pc /\ q.user = u /\ q.copy = rec[u] /\ q.at = r.at
      /\ q.to = None /\ q.name = r.name /\ q.key = r.key
  BY <1>1, <1>3 DEF RequestRecords
<1> HIDE DEF q
<1>6. PathOf(q)
  <2>1. IsStep(q.op, q.pc) /\ ~NoCopy(q.op, q.pc)
    BY <1>5 DEF IsStep, NoCopy, UpdateSteps, DeleteSteps, RekeySteps
  <2> QED
    BY <1>3, <1>5, <2>1 DEF PathOf
<1>7. UNCHANGED Untouched /\ used' = used
  BY DEF LoginRead, Untouched, redis
<1> QED
  BY <1>1, <1>4, <1>m, <1>5, <1>6, <1>7 DEF ReadsAs, r

LEMMA VerifyReads ==
  ASSUME Typed, NEW c \in Calls, VerifyRead(c), ~Goto(c, "done")
  PROVE  \E q : ReadsAs(c, q)
<1> DEFINE r == call[c]
           u == r.user
<1>1. /\ r.op = "verify" /\ r.pc = "read" /\ u \in Live
      /\ Meet(c, [r EXCEPT !.pc = "write", !.copy = rec[u]])
  BY DEF VerifyRead, At
<1> DEFINE q == [r EXCEPT !.pc = "write", !.copy = rec[u]]
<1>3. /\ r \in RequestRecords /\ PathOf(r) /\ r.to = None /\ r.email # None
      /\ u \in Users /\ rec[u] \in UserRecords /\ u # None /\ rec[u] # None
  BY <1>1, StepIs, AccountsAssumption DEF AccountsAssumption, Typed, DataTyped, Live, Ids
<1>4. Meet(c, q)
  BY <1>1
<1>u. u = r.user
  OBVIOUS
<1> HIDE DEF u, r
<1>m. q \in RequestRecords
  <2>1. rec[u] \in Ids(UserRecords) /\ "write" \in Steps
    BY <1>3 DEF Ids, Steps
  <2> QED
    BY <1>3, <2>1, Zenon DEF RequestRecords
<1>5. /\ q.op = "verify" /\ q.pc = "write" /\ q.user = u /\ q.copy = rec[u] /\ q.at = r.at
      /\ q.to = None /\ q.email = r.email /\ q.key = r.key
  BY <1>1, <1>3, <1>u DEF RequestRecords
<1> HIDE DEF q
<1>6. PathOf(q)
  <2>1. IsStep(q.op, q.pc) /\ ~NoCopy(q.op, q.pc)
    BY <1>5 DEF IsStep, NoCopy, UpdateSteps, DeleteSteps, RekeySteps
  <2> QED
    BY <1>3, <1>5, <2>1 DEF PathOf
<1>7. UNCHANGED Untouched /\ used' = used
  BY DEF VerifyRead, Untouched, redisE
<1> QED
  BY <1>1, <1>4, <1>m, <1>5, <1>6, <1>7, <1>u DEF ReadsAs, r

LEMMA ReadTyped ==
  ASSUME CallsTyped, NEW c \in Calls, NEW q, ReadsAs(c, q)
  PROVE  CallsTyped' /\ call'[c] = q /\ \A d \in Calls \ {c} : call'[d] = call[d]
BY CallTyped DEF ReadsAs, Meet

-----------------------------------------------------------------------------
(* Calls that begin and read no record *)

StartsAs(c, q) ==
  /\ call[c].pc = "start"
  /\ q \in RequestRecords /\ PathOf(q) /\ Meet(c, q) /\ q.copy = None /\ q.at = 0
  /\ \/ /\ q.pc = "enroll" /\ q.user \in Users \ used /\ used' = used \cup {q.user} /\ byName[q.name] = None
     \/ q.op = "login" /\ q.pc = "read" /\ used' = used
     \/ q.op = "verify" /\ q.pc = "owner" /\ used' = used
  /\ UNCHANGED Untouched

LEMMA RegisterStarts ==
  ASSUME Typed, NEW c \in Calls, RegisterBegin(c)
  PROVE  \E q : StartsAs(c, q)
<1>1. PICK n \in Names, k \in Keys, u \in Users \ used, op \in {"register", "nostr"} :
        /\ byName[n] = None /\ used' = used \cup {u}
        /\ Meet(c, [Idle EXCEPT !.op = op, !.pc = "enroll", !.user = u, !.name = n, !.key = k])
  BY DEF RegisterBegin
<1> DEFINE q == [Idle EXCEPT !.op = op, !.pc = "enroll", !.user = u, !.name = n, !.key = k]
<1>2. q \in RequestRecords
  BY IdleIs DEF RequestRecords, Ids, Ops, Steps
<1>3. /\ q.op = op /\ q.pc = "enroll" /\ q.user = u /\ q.name = n /\ q.key = k /\ q.copy = None
      /\ q.to = None /\ q.at = 0
  BY IdleIs DEF RequestRecords
<1>4. Meet(c, q)
  BY <1>1
<1> HIDE DEF q
<1>5. PathOf(q)
  <2>1. IsStep(q.op, q.pc) /\ NoCopy(q.op, q.pc)
    BY <1>3 DEF IsStep, NoCopy, UpdateSteps, DeleteSteps, RekeySteps
  <2>2. n # None /\ k # None /\ u # None
    BY AccountsAssumption DEF AccountsAssumption
  <2> QED
    BY <1>3, <2>1, <2>2 DEF PathOf
<1>6. UNCHANGED Untouched /\ call[c].pc = "start"
  BY DEF RegisterBegin, Untouched
<1> QED
  BY <1>1, <1>2, <1>3, <1>4, <1>5, <1>6 DEF StartsAs

LEMMA LoginStarts ==
  ASSUME Typed, NEW c \in Calls, LoginBegin(c)
  PROVE  \E q : StartsAs(c, q)
<1>1. PICK n \in Names, pw \in 1..2 :
        Meet(c, [Idle EXCEPT !.op = "login", !.pc = "read", !.name = n, !.pw = pw])
  BY DEF LoginBegin
<1> DEFINE q == [Idle EXCEPT !.op = "login", !.pc = "read", !.name = n, !.pw = pw]
<1>2. q \in RequestRecords
  <2>1. "login" \in Ops /\ "read" \in Steps /\ n \in Ids(Names) /\ pw \in Nat
    BY DEF Ids, Ops, Steps
  <2> QED
    BY <2>1, IdleIs, Zenon DEF RequestRecords
<1>3. /\ q.op = "login" /\ q.pc = "read" /\ q.user = None /\ q.name = n /\ q.copy = None
      /\ q.to = None /\ q.at = 0
  BY IdleIs DEF RequestRecords
<1>4. Meet(c, q)
  BY <1>1
<1> HIDE DEF q
<1>5. PathOf(q)
  <2>1. IsStep(q.op, q.pc) /\ NoCopy(q.op, q.pc)
    BY <1>3 DEF IsStep, NoCopy, UpdateSteps, DeleteSteps, RekeySteps
  <2>2. n # None
    BY AccountsAssumption DEF AccountsAssumption
  <2> QED
    BY <1>3, <2>1, <2>2 DEF PathOf
<1>6. UNCHANGED Untouched /\ call[c].pc = "start" /\ used' = used
  BY DEF LoginBegin, Untouched, redis
<1> QED
  BY <1>2, <1>3, <1>4, <1>5, <1>6 DEF StartsAs

LEMMA VerifyStarts ==
  ASSUME Typed, NEW c \in Calls, VerifyBegin(c)
  PROVE  \E q : StartsAs(c, q)
<1>1. PICK code \in codes :
        Meet(c, [Idle EXCEPT !.op = "verify", !.pc = "owner", !.user = code.user, !.email = code.email])
  BY DEF VerifyBegin
<1> DEFINE q == [Idle EXCEPT !.op = "verify", !.pc = "owner", !.user = code.user, !.email = code.email]
<1>t. code.user \in Users /\ code.email \in Emails
  BY DEF Typed, DataTyped
<1>2. q \in RequestRecords
  BY <1>t, IdleIs DEF RequestRecords, Ids, Ops, Steps
<1>3. /\ q.op = "verify" /\ q.pc = "owner" /\ q.user = code.user /\ q.email = code.email /\ q.copy = None
      /\ q.to = None /\ q.at = 0
  BY IdleIs DEF RequestRecords
<1>4. Meet(c, q)
  BY <1>1
<1> HIDE DEF q
<1>5. PathOf(q)
  <2>1. IsStep(q.op, q.pc) /\ NoCopy(q.op, q.pc)
    BY <1>3 DEF IsStep, NoCopy, UpdateSteps, DeleteSteps, RekeySteps
  <2>2. code.user # None /\ code.email # None
    BY <1>t, AccountsAssumption DEF AccountsAssumption
  <2> QED
    BY <1>3, <2>1, <2>2 DEF PathOf
<1>6. UNCHANGED Untouched /\ call[c].pc = "start" /\ used' = used
  BY DEF VerifyBegin, Untouched, redisE
<1> QED
  BY <1>2, <1>3, <1>4, <1>5, <1>6 DEF StartsAs

LEMMA StartTyped ==
  ASSUME CallsTyped, NEW c \in Calls, NEW q, StartsAs(c, q)
  PROVE  CallsTyped' /\ call'[c] = q /\ \A d \in Calls \ {c} : call'[d] = call[d]
BY CallTyped DEF StartsAs, Meet

-----------------------------------------------------------------------------
(* Calls that write *)

(* Call c has read the record of its account. *)
Held(c) ==
  /\ Holder(c) /\ Copy(c) = call[c].copy /\ Copy(c) \in UserRecords /\ Copy(c) # None
  /\ call[c].user \in Users /\ call[c].user # None
  /\ call[c].pc \notin {"start", "done"} /\ PathOf(call[c])
  /\ call[c].op \in {"nostr", "update", "login", "rekey"} => call[c].name \in Names
  /\ call[c].op \in {"request", "verify"} => call[c].email \in Emails
  /\ call[c].op = "rekey" => call[c].to \in Users

LEMMA HeldIs ==
  ASSUME CallsTyped, NEW c \in Calls, call[c].pc \notin {"start", "done"}, ~NoCopy(call[c].op, call[c].pc)
  PROVE  Held(c)
<1>1. call[c].copy # None /\ call[c].copy \in UserRecords /\ call[c].user # None /\ call[c].user \in Users
  BY StepIs
<1> QED
  BY <1>1, StepIs DEF Held, Holder, Copy

(* The record that an update writes. *)
LEMMA UpdatedIs ==
  ASSUME CallsTyped, NEW c \in Calls, Held(c), call[c].op = "update", NEW new, new = Updated(c)
  PROVE  /\ new \in UserRecords
         /\ new.name = call[c].name /\ new.key = (IF call[c].key = None THEN Copy(c).key ELSE call[c].key)
         /\ new.email = call[c].email /\ (new.verified <=> call[c].verified) /\ new.who = Copy(c).who
         /\ new.pw = Copy(c).pw + call[c].pw
         /\ new.pwAt = (IF call[c].pw = 1 THEN call[c].at ELSE Copy(c).pwAt)
<1> DEFINE r == call[c]
<1>1. /\ r.name \in Names /\ r.key \in Ids(Keys) /\ r.email \in Ids(Emails) /\ r.pw \in Nat /\ r.at \in Nat
      /\ r.verified \in BOOLEAN /\ r.copy \in UserRecords /\ Copy(c) = r.copy
  BY FieldsAre DEF Held, CallsTyped
<1>2. r.copy.key \in Keys /\ r.copy.pw \in Nat /\ r.copy.pwAt \in Nat
  BY <1>1, RecordIs
<1>3. PICK cased \in BOOLEAN, legacy \in BOOLEAN :
        cased = (r.copy.cased /\ r.name = r.copy.name) /\ legacy = (r.copy.legacy /\ r.pw = 0)
  OBVIOUS
<1>4. PICK key \in Keys, pw \in Nat, pwAt \in Nat :
        /\ key = (IF r.key = None THEN r.copy.key ELSE r.key) /\ pw = r.copy.pw + r.pw
        /\ pwAt = (IF r.pw = 1 THEN r.at ELSE r.copy.pwAt)
  BY <1>1, <1>2 DEF Ids
<1>5. new = [r.copy EXCEPT !.name = r.name, !.cased = cased, !.key = key, !.email = r.email, !.verified = r.verified,
                           !.pw = pw, !.legacy = legacy, !.pwAt = pwAt]
  BY <1>3, <1>4 DEF Updated
<1> HIDE DEF r
<1>6. new \in UserRecords
  BY <1>1, <1>5, Zenon DEF UserRecords, Ids
<1>7. /\ new.name = r.name /\ new.key = key /\ new.email = r.email /\ (new.verified <=> r.verified)
      /\ new.who = r.copy.who /\ new.pw = pw /\ new.pwAt = pwAt
  BY <1>1, <1>5 DEF UserRecords
<1> QED
  BY <1>1, <1>4, <1>6, <1>7 DEF r

(* A handler that writes the record back, but for what has no name here. *)
Back(c, new) ==
  /\ Held(c) /\ new \in UserRecords /\ rec' = [rec EXCEPT ![call[c].user] = new]
  /\ new.name = Copy(c).name /\ new.key = Copy(c).key /\ new.who = Copy(c).who /\ new.email = Copy(c).email
  /\ new.verified => Copy(c).verified
  /\ new.pw = Copy(c).pw /\ new.pwAt = Copy(c).pwAt
  /\ UNCHANGED <<byName, byKey, emailOwner, since, used, now, evicted, outlaws, cut, sessions, fails, armed, codes>>
  /\ \E pc : /\ Moved(c, pc)
             /\ pc = "code" \/ (new.verified <=> Copy(c).verified)
             /\ \/ call[c].op \in {"nostr", "save"} /\ call[c].pc = "save" /\ pc = "done"
                \/ call[c].op = "login" /\ call[c].pc = "rehash" /\ pc = "gate"
                \/ call[c].op \in {"login", "keylogin"} /\ call[c].pc = "attach" /\ pc = "sign"
                \/ call[c].op = "request" /\ call[c].pc = "unverify" /\ pc = "code"

LEMMA SaveWritesBack ==
  ASSUME Typed, NEW c \in Calls, SaveRecord(c), UNCHANGED <<sessions, fails, armed, codes>>
  PROVE  \E new : Back(c, new)
<1>1. call[c].pc = "save" /\ Goto(c, "done") /\ CallsTyped
  BY DEF SaveRecord, Typed
<1>2. call[c].op \in {"nostr", "save"} /\ Held(c)
  BY <1>1, StepIs, HeldIs DEF IsStep, NoCopy
<1>3. Moved(c, "done")
  BY <1>1, GotoMoves
<1>4. Back(c, Copy(c))
  BY <1>1, <1>2, <1>3 DEF Back, SaveRecord, Held
<1> QED
  BY <1>4

LEMMA RehashWritesBack ==
  ASSUME Typed, NEW c \in Calls, LoginRehash(c), UNCHANGED codes
  PROVE  \E new : Back(c, new)
<1>1. call[c].pc = "rehash" /\ call[c].op = "login" /\ Goto(c, "gate") /\ CallsTyped
  BY DEF LoginRehash, Typed, At
<1>2. Held(c)
  BY <1>1, HeldIs DEF NoCopy
<1>3. Moved(c, "gate")
  BY <1>1, GotoMoves DEF Edges
<1> DEFINE new == [Copy(c) EXCEPT !.legacy = FALSE]
<1>4. /\ new \in UserRecords /\ new.name = Copy(c).name /\ new.key = Copy(c).key /\ new.who = Copy(c).who
      /\ new.email = Copy(c).email /\ (new.verified <=> Copy(c).verified)
      /\ new.pw = Copy(c).pw /\ new.pwAt = Copy(c).pwAt
  BY <1>2 DEF Held, UserRecords
<1>5. rec' = [rec EXCEPT ![call[c].user] = new]
  BY DEF LoginRehash
<1>6. UNCHANGED <<byName, byKey, emailOwner, since, used, now, evicted, outlaws, cut, sessions, fails, armed, codes>>
  BY DEF LoginRehash, redis, logins
<1> HIDE DEF new
<1> QED
  BY <1>1, <1>2, <1>3, <1>4, <1>5, <1>6 DEF Back

LEMMA AttachWritesBack ==
  ASSUME Typed, NEW c \in Calls, LoginAttach(c), UNCHANGED codes
  PROVE  \E new : Back(c, new)
<1>1. call[c].pc = "attach" /\ Goto(c, "sign") /\ CallsTyped
  BY DEF LoginAttach, Typed
<1>2. call[c].op \in {"login", "keylogin"} /\ Held(c)
  BY <1>1, StepIs, HeldIs DEF IsStep, NoCopy
<1>3. Moved(c, "sign")
  BY <1>1, <1>2, GotoMoves DEF Edges
<1>4. UNCHANGED <<byName, byKey, emailOwner, since, used, now, evicted, outlaws, cut, sessions, fails, armed, codes>>
  BY DEF LoginAttach, redis, logins
<1>5. Back(c, Copy(c))
  BY <1>1, <1>2, <1>3, <1>4 DEF Back, LoginAttach, Held
<1> QED
  BY <1>5

LEMMA RequestWritesBack ==
  ASSUME Typed, NEW c \in Calls, RequestRecord(c), UNCHANGED <<sessions, fails, armed>>
  PROVE  \E new : Back(c, new)
<1>1. call[c].pc = "unverify" /\ call[c].op = "request" /\ Goto(c, "code") /\ CallsTyped
  BY DEF RequestRecord, Typed, At
<1>2. Held(c)
  BY <1>1, HeldIs DEF NoCopy
<1>3. Moved(c, "code")
  BY <1>1, GotoMoves DEF Edges
<1> DEFINE new == [Copy(c) EXCEPT !.verified = FALSE]
<1>4. /\ new \in UserRecords /\ new.name = Copy(c).name /\ new.key = Copy(c).key /\ new.who = Copy(c).who
      /\ new.email = Copy(c).email /\ ~new.verified
      /\ new.pw = Copy(c).pw /\ new.pwAt = Copy(c).pwAt
  BY <1>2 DEF Held, UserRecords
<1>5. rec' = [rec EXCEPT ![call[c].user] = new]
  BY DEF RequestRecord
<1>6. UNCHANGED <<byName, byKey, emailOwner, since, used, now, evicted, outlaws, cut, sessions, fails, armed, codes>>
  BY DEF RequestRecord, redisE
<1> HIDE DEF new
<1> QED
  BY <1>1, <1>2, <1>3, <1>4, <1>5, <1>6 DEF Back

(* The steps of the other writers. *)
LEMMA WriteMoves ==
  ASSUME CallsTyped, NEW c \in Calls
  PROVE
    /\ UpdatePointKey(c) => At(c, "update", "keyptr") /\ Held(c) /\ Moved(c, "nameptr")
    /\ UpdatePointName(c) => At(c, "update", "nameptr") /\ Held(c) /\ Moved(c, "record")
    /\ UpdateRetire(c) => At(c, "update", "retire") /\ Held(c) /\ Moved(c, "done")
    /\ DeleteRecord(c) => At(c, "delete", "gone") /\ Held(c) /\ Moved(c, "unname")
    /\ DeleteName(c) => At(c, "delete", "unname") /\ Held(c) /\ Moved(c, "unkey")
    /\ DeleteKey(c) => At(c, "delete", "unkey") /\ Held(c) /\ Moved(c, "done")
    /\ DeleteUser(c) => At(c, "delete", "wipe") /\ Held(c) /\ Moved(c, "done")
    /\ RekeyName(c) => At(c, "rekey", "rename") /\ Held(c) /\ Moved(c, "copy")
    /\ RekeyCopy(c) => At(c, "rekey", "copy") /\ Held(c) /\ Moved(c, "erase")
    /\ RekeyErase(c) => At(c, "rekey", "erase") /\ Held(c) /\ Moved(c, "done")
    /\ Evict(c) => At(c, "evict", "evict") /\ Held(c) /\ Moved(c, "done")
    /\ VerifyRecord(c) => At(c, "verify", "write") /\ Held(c) /\ Moved(c, "map")
    /\ VerifyMap(c) => At(c, "verify", "map") /\ Held(c) /\ Moved(c, "done")
<1>1. ASSUME NEW op, NEW from, NEW to, At(c, op, from), Goto(c, to),
             to = "done" \/ <<op, from, to>> \in Edges,
             ~NoCopy(op, from), from \notin {"start", "done"}, to \notin {"retire", "email"}
      PROVE  Held(c) /\ Moved(c, to)
  BY <1>1, HeldIs, GotoMoves DEF At
<1>2. UpdatePointKey(c) => At(c, "update", "keyptr") /\ Held(c) /\ Moved(c, "nameptr")
  BY <1>1 DEF UpdatePointKey, NoCopy, Edges
<1>3. UpdatePointName(c) => At(c, "update", "nameptr") /\ Held(c) /\ Moved(c, "record")
  BY <1>1 DEF UpdatePointName, NoCopy, Edges
<1>4. UpdateRetire(c) => At(c, "update", "retire") /\ Held(c) /\ Moved(c, "done")
  BY <1>1 DEF UpdateRetire, NoCopy
<1>5. DeleteRecord(c) => At(c, "delete", "gone") /\ Held(c) /\ Moved(c, "unname")
  BY <1>1 DEF DeleteRecord, NoCopy, Edges
<1>6. DeleteName(c) => At(c, "delete", "unname") /\ Held(c) /\ Moved(c, "unkey")
  BY <1>1 DEF DeleteName, NoCopy, Edges
<1>7. DeleteKey(c) => At(c, "delete", "unkey") /\ Held(c) /\ Moved(c, "done")
  BY <1>1 DEF DeleteKey, NoCopy
<1>8. DeleteUser(c) => At(c, "delete", "wipe") /\ Held(c) /\ Moved(c, "done")
  BY <1>1 DEF DeleteUser, NoCopy
<1>9. RekeyName(c) => At(c, "rekey", "rename") /\ Held(c) /\ Moved(c, "copy")
  BY <1>1 DEF RekeyName, NoCopy, Edges
<1>10. RekeyCopy(c) => At(c, "rekey", "copy") /\ Held(c) /\ Moved(c, "erase")
  BY <1>1 DEF RekeyCopy, NoCopy, Edges
<1>11. RekeyErase(c) => At(c, "rekey", "erase") /\ Held(c) /\ Moved(c, "done")
  BY <1>1 DEF RekeyErase, NoCopy
<1>12. Evict(c) => At(c, "evict", "evict") /\ Held(c) /\ Moved(c, "done")
  BY <1>1 DEF Evict, NoCopy
<1>13. VerifyRecord(c) => At(c, "verify", "write") /\ Held(c) /\ Moved(c, "map")
  BY <1>1 DEF VerifyRecord, NoCopy, Edges
<1>14. VerifyMap(c) => At(c, "verify", "map") /\ Held(c) /\ Moved(c, "done")
  BY <1>1 DEF VerifyMap, NoCopy
<1> QED
  BY <1>2, <1>3, <1>4, <1>5, <1>6, <1>7, <1>8, <1>9, <1>10, <1>11, <1>12, <1>13, <1>14

LEMMA RecordMoves ==
  ASSUME CallsTyped, NEW c \in Calls, UpdateRecord(c)
  PROVE  /\ At(c, "update", "record") /\ Held(c)
         /\ Moved(c, IF call[c].name = Copy(c).name THEN "done" ELSE "retire")
<1>1. At(c, "update", "record") /\ Goto(c, IF call[c].name = Copy(c).name THEN "done" ELSE "retire")
  BY DEF UpdateRecord
<1>2. Held(c)
  BY <1>1, HeldIs DEF At, NoCopy
<1>3. CASE call[c].name = Copy(c).name
  <2>1. Goto(c, "done")
    BY <1>1, <1>3
  <2> QED
    BY <1>1, <1>2, <1>3, <2>1, GotoMoves DEF At
<1>4. CASE call[c].name # Copy(c).name
  <2>1. Goto(c, "retire")
    BY <1>1, <1>4
  <2>2. <<call[c].op, call[c].pc, "retire">> \in Edges
    BY <1>1 DEF At, Edges
  <2> QED
    BY <1>1, <1>2, <1>4, <2>1, <2>2, GotoMoves DEF At, Copy
<1> QED
  BY <1>3, <1>4

LEMMA KeyMoves ==
  ASSUME CallsTyped, NEW c \in Calls, UpdateKey(c), ~(Stop(c) /\ UNCHANGED byKey)
  PROVE  /\ At(c, "update", "key") /\ Held(c) /\ Moved(c, "name")
         /\ byKey[call[c].key] \notin Live \ {call[c].user}
         /\ byKey' = [byKey EXCEPT ![Copy(c).key] = None] /\ cut' = cut
<1>1. /\ At(c, "update", "key") /\ Goto(c, "name")
      /\ byKey[call[c].key] \notin Live \ {call[c].user}
      /\ byKey' = [byKey EXCEPT ![Copy(c).key] = None] /\ cut' = cut
  BY DEF UpdateKey
<1> QED
  BY <1>1, HeldIs, GotoMoves DEF At, NoCopy, Edges

LEMMA EmailMoves ==
  ASSUME Typed, NEW c \in Calls, UpdateEmail(c)
  PROVE  /\ At(c, "update", "email") /\ Held(c)
         /\ CallsTyped' /\ mixed' = mixed /\ \A d \in Calls \ {c} : call'[d] = call[d]
         /\ call'[c].op = "update" /\ call'[c].pc \in {"since", "keyptr"}
         /\ call'[c].pc = "since" \/ call[c].pw # 1
         /\ SameBut(call'[c], call[c])
         /\ (call'[c].verified <=> (call[c].email # None /\ emailOwner[call[c].email] = call[c].user))
<1> DEFINE r == call[c]
<1>1. At(c, "update", "email") /\ Held(c)
  BY HeldIs DEF UpdateEmail, At, NoCopy, Typed
<1>2. PICK v \in BOOLEAN, pc \in {"since", "keyptr"} :
        /\ v = (r.email # None /\ emailOwner[r.email] = r.user) /\ (pc = "since" \/ r.pw # 1)
        /\ pc = IF r.pw = 1 THEN "since" ELSE "keyptr"
  OBVIOUS
<1> DEFINE q == [r EXCEPT !.verified = v, !.pc = pc]
<1>3. r \in RequestRecords /\ PathOf(r) /\ call \in [Calls -> RequestRecords]
  BY DEF Typed, CallsTyped
<1>4. call' = [call EXCEPT ![c] = q] /\ mixed' = mixed
  BY <1>2, <1>3 DEF UpdateEmail
<1> HIDE DEF r
<1>5. q \in RequestRecords
  BY <1>3, Zenon DEF RequestRecords, Steps
<1>6. /\ q.op = r.op /\ q.pc = pc /\ (q.verified <=> v) /\ SameBut(q, r)
  BY <1>3 DEF RequestRecords, SameBut
<1> HIDE DEF q
<1>7. PathOf(q)
  <2>1. IsStep("update", pc) /\ ~NoCopy("update", pc) /\ r.op = "update" /\ r.pc = "email" /\ ~NoCopy(r.op, r.pc)
    BY <1>1 DEF IsStep, NoCopy, UpdateSteps, DeleteSteps, RekeySteps, At, r
  <2> QED
    BY <1>3, <1>6, <2>1 DEF PathOf, SameBut
<1>8. CallsTyped' /\ call'[c] = q /\ \A d \in Calls \ {c} : call'[d] = call[d]
  BY <1>4, <1>5, <1>7, CallTyped DEF Typed
<1> QED
  BY <1>1, <1>2, <1>4, <1>6, <1>8 DEF r, At

LEMMA EnrollMoves ==
  ASSUME Typed, NEW c \in Calls, RegisterWrite(c)
  PROVE  /\ call[c].pc = "enroll" /\ call[c].op \in {"register", "nostr"} /\ call[c].copy = None
         /\ call[c].user \in Users /\ call[c].name \in Names /\ call[c].key \in Keys /\ call[c].to = None
         /\ CallsTyped' /\ mixed' = mixed /\ \A d \in Calls \ {c} : call'[d] = call[d]
         /\ \E new \in UserRecords :
              /\ rec' = [rec EXCEPT ![call[c].user] = new]
              /\ new.name = call[c].name /\ new.key = call[c].key /\ new.who = call[c].user /\ new.email = None
              /\ ~new.verified /\ new.pw = 1 /\ new.pwAt = 0
              /\ \/ Ends(call'[c])
                 \/ /\ call'[c].op = "nostr" /\ call'[c].pc = "save" /\ call'[c].copy = new /\ call'[c].user = call[c].user
                    /\ call'[c].name = call[c].name /\ call'[c].key = call[c].key /\ call'[c].email = call[c].email
                    /\ call'[c].to = None /\ call'[c].at = call[c].at
<1> DEFINE r == call[c]
<1>1. r.pc = "enroll" /\ CallsTyped
  BY DEF RegisterWrite, Typed
<1>2. /\ r \in RequestRecords /\ PathOf(r) /\ r.op \in {"register", "nostr"} /\ r.copy = None
      /\ r.user \in Users /\ r.name \in Names /\ r.key \in Keys
      /\ r.to = None /\ r.user # None /\ r.name # None /\ r.key # None
  BY <1>1, StepIs, AccountsAssumption DEF IsStep, NoCopy, AccountsAssumption
<1>3. PICK cased \in BOOLEAN :
        LET new == [Blank EXCEPT !.name = r.name, !.cased = cased, !.key = r.key, !.who = r.user]
        IN  /\ rec' = [rec EXCEPT ![r.user] = new]
            /\ call' = [call EXCEPT ![c] = IF r.op = "nostr" THEN [r EXCEPT !.pc = "save", !.copy = new] ELSE Done(c)]
  BY DEF RegisterWrite
<1>4. PICK new : new = [Blank EXCEPT !.name = r.name, !.cased = cased, !.key = r.key, !.who = r.user]
  OBVIOUS
<1>5. /\ new \in UserRecords /\ new.name = r.name /\ new.key = r.key /\ new.who = r.user
      /\ new.pw = 1 /\ new.pwAt = 0 /\ new.email = None /\ ~new.verified
  <2>1. PICK n \in Names, k \in Keys, u \in Users : n = r.name /\ k = r.key /\ u = r.user
    BY <1>2
  <2>2. new = [Blank EXCEPT !.name = n, !.cased = cased, !.key = k, !.who = u]
    BY <1>4, <2>1
  <2>3. new \in OpenRecords
    BY <2>2, BlankIs DEF OpenRecords, Ids
  <2>4. /\ new.name = n /\ new.key = k /\ new.who = u
        /\ new.pw = 1 /\ new.pwAt = 0 /\ new.email = None /\ ~new.verified
    BY <2>2, BlankIs DEF OpenRecords
  <2>5. new \in UserRecords
    BY <2>3, <2>4 DEF OpenRecords, UserRecords, Ids
  <2> QED
    BY <2>1, <2>4, <2>5
<1>6. mixed' = mixed
  BY DEF RegisterWrite
<1>7. CASE r.op = "nostr"
  <2> DEFINE q == [r EXCEPT !.pc = "save", !.copy = new]
  <2>1. call' = [call EXCEPT ![c] = q]
    BY <1>3, <1>4, <1>7
  <2>r. r = call[c]
    OBVIOUS
  <2> HIDE DEF r
  <2>2. q \in RequestRecords
    <3>1. new \in Ids(UserRecords) /\ "save" \in Steps
      BY <1>5 DEF Ids, Steps
    <3> QED
      BY <1>2, <3>1, Zenon DEF RequestRecords
  <2>3. /\ q.op = r.op /\ q.pc = "save" /\ q.copy = new /\ q.user = r.user /\ q.name = r.name
        /\ q.key = r.key /\ q.email = r.email /\ q.to = r.to /\ q.at = r.at
    BY <1>2 DEF RequestRecords
  <2> HIDE DEF q
  <2>4. PathOf(q)
    <3>1. IsStep("nostr", "save") /\ ~NoCopy("nostr", "save") /\ new # None
      BY <1>5, RecordIs DEF IsStep, NoCopy, UpdateSteps, DeleteSteps, RekeySteps
    <3> QED
      BY <1>2, <1>7, <2>3, <3>1 DEF PathOf
  <2>5. CallsTyped' /\ call'[c] = q /\ \A d \in Calls \ {c} : call'[d] = call[d]
    BY <1>1, <2>1, <2>2, <2>4, CallTyped
  <2>6. rec' = [rec EXCEPT ![r.user] = new]
    BY <1>3, <1>4
  <2>7. /\ r.pc = "enroll" /\ r.op \in {"register", "nostr"} /\ r.copy = None
        /\ r.user \in Users /\ r.name \in Names /\ r.key \in Keys /\ r.to = None
    BY <1>1, <1>2
  <2>8. /\ call'[c].op = "nostr" /\ call'[c].pc = "save" /\ call'[c].copy = new /\ call'[c].user = r.user
        /\ call'[c].name = r.name /\ call'[c].key = r.key /\ call'[c].email = r.email
        /\ call'[c].to = None /\ call'[c].at = r.at
    BY <1>7, <2>3, <2>5, <2>7
  <2> QED
    BY <1>5, <1>6, <2>5, <2>6, <2>7, <2>8, <2>r
<1>8. CASE r.op # "nostr"
  <2>1. call' = [call EXCEPT ![c] = Done(c)]
    BY <1>3, <1>8
  <2>2. Done(c) \in RequestRecords /\ PathOf(Done(c)) /\ Ends(Done(c))
    BY <1>1, DoneIs DEF Ends
  <2>3. CallsTyped' /\ call'[c] = Done(c) /\ \A d \in Calls \ {c} : call'[d] = call[d]
    BY <1>1, <2>1, <2>2, CallTyped
  <2> QED
    BY <1>1, <1>2, <1>3, <1>4, <1>5, <1>6, <2>2, <2>3
<1> QED
  BY <1>7, <1>8

-----------------------------------------------------------------------------
(* The steps, by what they do to the accounts *)

Sides == <<sessions, fails, armed, codes>>

Acts(c) ==
  \/ \E q : ReadsAs(c, q)
  \/ \E q : StartsAs(c, q)
  \/ Looks(c)
  \/ \E new : Back(c, new)
  \/ UpdateEmail(c)
  \/ UpdateKey(c) /\ ~(Stop(c) /\ UNCHANGED byKey)
  \/ RegisterWrite(c)
  \/ UpdatePointKey(c) \/ UpdatePointName(c) \/ UpdateRecord(c) \/ UpdateRetire(c)
  \/ DeleteRecord(c) \/ DeleteName(c) \/ DeleteKey(c) \/ DeleteUser(c)
  \/ RekeyName(c) \/ RekeyCopy(c) \/ RekeyErase(c)
  \/ Evict(c)
  \/ VerifyRecord(c) \/ VerifyMap(c)

LEMMA StepActs ==
  ASSUME Typed, Next
  PROVE  \/ \E c \in Calls : Acts(c)
         \/ Tick /\ UNCHANGED Sides
         \/ Restart /\ UNCHANGED Sides
         \/ \E n \in Names : Expire(n) /\ UNCHANGED codes
<1>t. CallsTyped
  BY DEF Typed
<1>1. CASE AccountsNext /\ UNCHANGED <<sessions, fails, armed, codes>>
  <2>1. CASE Tick \/ Restart
    BY <1>1, <2>1 DEF Sides
  <2>2. ASSUME NEW c \in Calls, RegisterBegin(c)
        PROVE  Acts(c)
    BY <2>2, RegisterStarts DEF Acts
  <2>3. ASSUME NEW c \in Calls, UpdateBegin(c)
        PROVE  Acts(c)
    BY <2>3, UpdateBeginReads DEF Acts
  <2>4. ASSUME NEW c \in Calls, SaveBegin(c) \/ DeleteBegin(c) \/ EvictBegin(c)
        PROVE  Acts(c)
    BY <2>4, OthersRead DEF Acts
  <2>5. ASSUME NEW c \in Calls, RekeyBegin(c)
        PROVE  Acts(c)
    BY <2>5, RekeyReads DEF Acts
  <2>6. ASSUME NEW c \in Calls, UpdateName(c) \/ UpdateSince(c) \/ UpdateKey(c)
        PROVE  Acts(c)
    BY <1>t, <2>6, UpdateLooks DEF Acts
  <2>7. ASSUME NEW c \in Calls, SaveRecord(c)
        PROVE  Acts(c)
    BY <1>1, <2>7, SaveWritesBack DEF Acts
  <2> QED
    BY <1>1, <2>1, <2>2, <2>3, <2>4, <2>5, <2>6, <2>7 DEF AccountsNext, Acts
<1>2. CASE LoginsNext /\ UNCHANGED codes
  <2>1. ASSUME NEW c \in Calls, LoginBegin(c)
        PROVE  Acts(c)
    BY <2>1, LoginStarts DEF Acts
  <2>2. ASSUME NEW c \in Calls, LoginRead(c)
        PROVE  Acts(c)
    BY <1>t, <2>2, LoginReads, LoginLooks DEF Acts
  <2>3. ASSUME NEW c \in Calls, LoginCount(c) \/ LoginArm(c) \/ LoginGate(c) \/ LoginSign(c)
        PROVE  Acts(c)
    BY <1>t, <2>3, LoginLooks DEF Acts
  <2>4. ASSUME NEW c \in Calls, LoginRehash(c) \/ LoginAttach(c)
        PROVE  Acts(c)
    BY <1>2, <2>4, RehashWritesBack, AttachWritesBack DEF Acts
  <2>5. ASSUME NEW c \in Calls, KeyLogin(c)
        PROVE  Acts(c)
    BY <2>5, OthersRead DEF Acts
  <2> QED
    BY <1>2, <2>1, <2>2, <2>3, <2>4, <2>5 DEF LoginsNext
<1>3. CASE EmailsNext /\ UNCHANGED <<sessions, fails, armed>>
  <2>1. ASSUME NEW c \in Calls, RequestBegin(c)
        PROVE  Acts(c)
    BY <2>1, RequestReads DEF Acts
  <2>2. ASSUME NEW c \in Calls, VerifyBegin(c)
        PROVE  Acts(c)
    BY <2>2, VerifyStarts DEF Acts
  <2>3. ASSUME NEW c \in Calls, RequestOwner(c) \/ RequestCode(c) \/ VerifyOwner(c)
        PROVE  Acts(c)
    BY <1>t, <2>3, MailLooks DEF Acts
  <2>4. ASSUME NEW c \in Calls, VerifyRead(c)
        PROVE  Acts(c)
    BY <1>t, <2>4, VerifyReads, MailLooks DEF Acts
  <2>5. ASSUME NEW c \in Calls, RequestRecord(c)
        PROVE  Acts(c)
    BY <1>3, <2>5, RequestWritesBack DEF Acts
  <2> QED
    BY <1>3, <2>1, <2>2, <2>3, <2>4, <2>5 DEF EmailsNext, Acts
<1> QED
  BY <1>1, <1>2, <1>3 DEF Next

-----------------------------------------------------------------------------
(* Types *)

CoreTyped ==
  /\ rec \in [Users -> Ids(UserRecords)]
  /\ byName \in [Names -> Ids(Users)] /\ byKey \in [Keys -> Ids(Users)]
  /\ emailOwner \in [Emails -> Ids(Users)] /\ since \in [Users -> Ids(Nat)]
  /\ used \subseteq Users /\ now \in Nat
  /\ evicted \subseteq Users \cup Names /\ outlaws \subseteq Users

Acted == <<rec, byName, byKey, emailOwner, since, used, now, evicted, outlaws>>

LEMMA ActTyped ==
  ASSUME Typed, NEW c \in Calls, Acts(c)
  PROVE  CallsTyped' /\ CoreTyped'
<1> USE DEF Ids
<1>t. CallsTyped /\ DataTyped /\ CoreTyped
  BY DEF Typed, DataTyped, CoreTyped
<1>1. ASSUME NEW q, ReadsAs(c, q)
      PROVE  CallsTyped' /\ CoreTyped'
  <2>1. CallsTyped'
    BY <1>t, <1>1, ReadTyped
  <2>2. used' \subseteq Users
    BY <1>t, <1>1 DEF ReadsAs, CoreTyped
  <2> QED
    BY <1>t, <1>1, <2>1, <2>2 DEF ReadsAs, CoreTyped, Untouched
<1>2. ASSUME NEW q, StartsAs(c, q)
      PROVE  CallsTyped' /\ CoreTyped'
  <2>1. CallsTyped'
    BY <1>t, <1>2, StartTyped
  <2>2. used' \subseteq Users
    BY <1>t, <1>2 DEF StartsAs, CoreTyped
  <2> QED
    BY <1>t, <1>2, <2>1, <2>2 DEF StartsAs, CoreTyped, Untouched
<1>3. CASE Looks(c)
  <2>1. CallsTyped' /\ UNCHANGED <<rec, byName, byKey, emailOwner, used, now, evicted, outlaws>>
    BY <1>3 DEF Looks, Moved
  <2>2. since' \in [Users -> Ids(Nat)]
    BY <1>t, <1>3 DEF Looks, CoreTyped
  <2> QED
    BY <1>t, <2>1, <2>2 DEF CoreTyped
<1>4. ASSUME NEW new, Back(c, new)
      PROVE  CallsTyped' /\ CoreTyped'
  <2>1. CallsTyped' /\ new \in UserRecords /\ rec' = [rec EXCEPT ![call[c].user] = new]
    BY <1>4 DEF Back, Moved
  <2>2. UNCHANGED <<byName, byKey, emailOwner, since, used, now, evicted, outlaws>>
    BY <1>4 DEF Back
  <2> QED
    BY <1>t, <2>1, <2>2 DEF CoreTyped
<1>5. CASE UpdateEmail(c)
  <2>1. CallsTyped'
    BY <1>5, EmailMoves
  <2>2. UNCHANGED Acted
    BY <1>5 DEF UpdateEmail, Acted
  <2> QED
    BY <1>t, <2>1, <2>2 DEF CoreTyped, Acted
<1>6. CASE UpdateKey(c) /\ ~(Stop(c) /\ UNCHANGED byKey)
  <2>1. CallsTyped' /\ byKey' = [byKey EXCEPT ![Copy(c).key] = None]
    BY <1>t, <1>6, KeyMoves DEF Moved
  <2>2. UNCHANGED <<rec, byName, emailOwner, since, used, now, evicted, outlaws>>
    BY <1>6 DEF UpdateKey
  <2> QED
    BY <1>t, <2>1, <2>2 DEF CoreTyped
<1>7. CASE RegisterWrite(c)
  <2>1. CallsTyped' /\ call[c].user \in Users
    BY <1>7, EnrollMoves
  <2>2. rec' \in [Users -> Ids(UserRecords)]
    BY <1>t, <1>7, EnrollMoves DEF CoreTyped
  <2>3. /\ byName' = [byName EXCEPT ![call[c].name] = call[c].user] /\ byKey' = [byKey EXCEPT ![call[c].key] = call[c].user]
        /\ UNCHANGED <<emailOwner, since, used, now, evicted, outlaws>>
    BY <1>7 DEF RegisterWrite
  <2> QED
    BY <1>t, <2>1, <2>2, <2>3 DEF CoreTyped
<1>8. CASE UpdatePointKey(c) \/ UpdatePointName(c) \/ UpdateRetire(c)
  <2>1. CallsTyped' /\ call[c].user \in Users
    BY <1>t, <1>8, WriteMoves DEF Moved, Held
  <2>2. UNCHANGED <<rec, emailOwner, since, used, now, evicted, outlaws>>
    BY <1>8 DEF UpdatePointKey, UpdatePointName, UpdateRetire
  <2>3. byName' \in [Names -> Ids(Users)] /\ byKey' \in [Keys -> Ids(Users)]
    BY <1>t, <1>8, <2>1 DEF CoreTyped, UpdatePointKey, UpdatePointName, UpdateRetire
  <2> QED
    BY <1>t, <2>1, <2>2, <2>3 DEF CoreTyped
<1>9. CASE UpdateRecord(c)
  <2>1. CallsTyped' /\ Held(c) /\ call[c].op = "update"
    BY <1>t, <1>9, RecordMoves DEF Moved, At
  <2>2. Updated(c) \in UserRecords
    BY <1>t, <2>1, UpdatedIs
  <2>3. /\ rec' = [rec EXCEPT ![call[c].user] = Updated(c)]
        /\ UNCHANGED <<byName, byKey, emailOwner, since, used, now, evicted, outlaws>>
    BY <1>9 DEF UpdateRecord
  <2> QED
    BY <1>t, <2>1, <2>2, <2>3 DEF CoreTyped
<1>10. CASE DeleteRecord(c) \/ RekeyErase(c)
  <2>1. CallsTyped'
    BY <1>t, <1>10, WriteMoves DEF Moved
  <2>2. /\ rec' = [rec EXCEPT ![call[c].user] = None]
        /\ UNCHANGED <<byName, byKey, emailOwner, since, used, now, evicted, outlaws>>
    BY <1>10 DEF DeleteRecord, RekeyErase
  <2> QED
    BY <1>t, <2>1, <2>2 DEF CoreTyped
<1>11. CASE DeleteName(c) \/ DeleteKey(c) \/ RekeyName(c)
  <2>1. CallsTyped' /\ (call[c].op = "rekey" => call[c].to \in Users)
    BY <1>t, <1>11, WriteMoves DEF Moved, Held
  <2>2. UNCHANGED <<rec, emailOwner, since, used, now, evicted, outlaws>>
    BY <1>11 DEF DeleteName, DeleteKey, RekeyName
  <2>3. byName' \in [Names -> Ids(Users)] /\ byKey' \in [Keys -> Ids(Users)]
    BY <1>t, <1>11, <2>1 DEF CoreTyped, DeleteName, DeleteKey, RekeyName, At
  <2> QED
    BY <1>t, <2>1, <2>2, <2>3 DEF CoreTyped
<1>12. CASE DeleteUser(c)
  <2>1. CallsTyped'
    BY <1>t, <1>12, WriteMoves DEF Moved
  <2>2. /\ rec' = [rec EXCEPT ![call[c].user] = None] /\ byKey' = [byKey EXCEPT ![Copy(c).key] = None]
        /\ byName' = byName \/ byName' = [byName EXCEPT ![Copy(c).name] = None]
        /\ UNCHANGED <<emailOwner, since, used, now, evicted, outlaws>>
    BY <1>12 DEF DeleteUser
  <2> QED
    BY <1>t, <2>1, <2>2 DEF CoreTyped
<1>13. CASE RekeyCopy(c)
  <2>1. CallsTyped' /\ Copy(c) \in UserRecords
    BY <1>t, <1>13, WriteMoves DEF Moved, Held
  <2>2. /\ rec' = [rec EXCEPT ![call[c].to] = [Copy(c) EXCEPT !.pw = 0, !.legacy = FALSE]]
        /\ UNCHANGED <<byName, byKey, emailOwner, since, used, now, evicted, outlaws>>
    BY <1>13 DEF RekeyCopy
  <2>3. [Copy(c) EXCEPT !.pw = 0, !.legacy = FALSE] \in UserRecords
    BY <2>1 DEF UserRecords
  <2> QED
    BY <1>t, <2>1, <2>2, <2>3 DEF CoreTyped
<1>14. CASE Evict(c)
  <2>1. CallsTyped' /\ Copy(c) \in UserRecords /\ call[c].user \in Users
    BY <1>t, <1>14, WriteMoves DEF Moved, Held
  <2>2. Copy(c).name \in Names /\ Copy(c).who \in Users
    BY <2>1, RecordIs
  <2>3. /\ evicted' = evicted \cup {call[c].user, Copy(c).name} /\ outlaws' = outlaws \cup {Copy(c).who}
        /\ UNCHANGED <<rec, byName, byKey, emailOwner, since, used, now>>
    BY <1>14 DEF Evict
  <2> QED
    BY <1>t, <2>1, <2>2, <2>3 DEF CoreTyped
<1>15. CASE VerifyRecord(c)
  <2>1. CallsTyped' /\ Copy(c) \in UserRecords /\ call[c].email \in Emails
    BY <1>t, <1>15, WriteMoves DEF Moved, Held, At
  <2>2. /\ rec' = [rec EXCEPT ![call[c].user] = [Copy(c) EXCEPT !.email = call[c].email, !.verified = TRUE]]
        /\ UNCHANGED <<byName, byKey, emailOwner, since, used, now, evicted, outlaws>>
    BY <1>15 DEF VerifyRecord, redisE
  <2>3. [Copy(c) EXCEPT !.email = call[c].email, !.verified = TRUE] \in UserRecords
    BY <2>1 DEF UserRecords
  <2> QED
    BY <1>t, <2>1, <2>2, <2>3 DEF CoreTyped
<1>16. CASE VerifyMap(c)
  <2>1. CallsTyped' /\ call[c].user \in Users
    BY <1>t, <1>16, WriteMoves DEF Moved, Held
  <2>2. /\ emailOwner' = [emailOwner EXCEPT ![call[c].email] = call[c].user]
        /\ UNCHANGED <<rec, byName, byKey, since, used, now, evicted, outlaws>>
    BY <1>16 DEF VerifyMap, redisE
  <2> QED
    BY <1>t, <2>1, <2>2 DEF CoreTyped
<1> QED
  BY <1>1, <1>2, <1>3, <1>4, <1>5, <1>6, <1>7, <1>8, <1>9, <1>10, <1>11, <1>12, <1>13, <1>14, <1>15, <1>16 DEF Acts

LEMMA SidesTyped ==
  ASSUME Typed, Next
  PROVE  /\ sessions' \subseteq [user : Users, pw : Nat, iat : Nat]
         /\ fails' \in [Names -> Nat] /\ armed' \subseteq Names
         /\ codes' \subseteq [user : Users, email : Emails]
<1>t. /\ sessions \subseteq [user : Users, pw : Nat, iat : Nat]
      /\ fails \in [Names -> Nat] /\ armed \subseteq Names /\ now \in Nat
      /\ codes \subseteq [user : Users, email : Emails] /\ CallsTyped
  BY DEF Typed, DataTyped
<1>1. CASE AccountsNext /\ UNCHANGED <<sessions, fails, armed, codes>>
  BY <1>t, <1>1
<1>2. CASE LoginsNext /\ UNCHANGED codes
  <2>1. ASSUME NEW c \in Calls,
               \/ LoginBegin(c) \/ LoginRead(c) \/ LoginRehash(c) \/ LoginGate(c) \/ LoginAttach(c)
               \/ KeyLogin(c)
        PROVE  UNCHANGED <<sessions, fails, armed>>
    BY <2>1 DEF LoginBegin, LoginRead, LoginRehash, LoginGate, LoginAttach, KeyLogin, logins
  <2>2. ASSUME NEW c \in Calls, LoginCount(c)
        PROVE  fails' \in [Names -> Nat] /\ UNCHANGED <<sessions, armed>>
    <3>1. fails' = [fails EXCEPT ![call[c].name] = @ + 1] /\ UNCHANGED <<sessions, armed>>
      BY <2>2 DEF LoginCount
    <3>2. call[c].name \in Names
      BY <1>t, <2>2, StepIs DEF LoginCount, At
    <3>3. fails[call[c].name] + 1 \in Nat
      BY <1>t, <3>2
    <3> QED
      BY <1>t, <3>1, <3>3
  <2>3. ASSUME NEW c \in Calls, LoginArm(c)
        PROVE  armed' \subseteq Names /\ UNCHANGED <<sessions, fails>>
    BY <1>t, <2>3 DEF LoginArm
  <2>4. ASSUME NEW c \in Calls, LoginSign(c)
        PROVE  sessions' \subseteq [user : Users, pw : Nat, iat : Nat] /\ UNCHANGED <<fails, armed>>
    <3>1. Held(c)
      BY <1>t, <2>4, HeldIs DEF LoginSign, NoCopy
    <3>2. call[c].user \in Users /\ Copy(c).pw \in Nat
      BY <3>1, RecordIs DEF Held
    <3>3. /\ sessions' = sessions \cup {[user |-> call[c].user, pw |-> Copy(c).pw, iat |-> now]}
          /\ UNCHANGED <<fails, armed>>
      BY <2>4 DEF LoginSign
    <3> QED
      BY <1>t, <3>2, <3>3
  <2>5. ASSUME NEW n \in Names, Expire(n)
        PROVE  fails' \in [Names -> Nat] /\ armed' \subseteq Names /\ UNCHANGED sessions
    BY <1>t, <2>5 DEF Expire
  <2> QED
    BY <1>t, <1>2, <2>1, <2>2, <2>3, <2>4, <2>5 DEF LoginsNext
<1>3. CASE EmailsNext /\ UNCHANGED <<sessions, fails, armed>>
  <2>1. ASSUME NEW c \in Calls,
               \/ RequestBegin(c) \/ RequestOwner(c) \/ RequestRecord(c) \/ VerifyOwner(c) \/ VerifyRead(c)
               \/ VerifyRecord(c) \/ VerifyMap(c) \/ VerifyBegin(c)
        PROVE  codes' \subseteq codes
    BY <2>1 DEF RequestBegin, RequestOwner, RequestRecord, VerifyOwner, VerifyRead, VerifyRecord, VerifyMap, VerifyBegin
  <2>2. ASSUME NEW c \in Calls, RequestCode(c)
        PROVE  codes' \subseteq [user : Users, email : Emails]
    <3>1. Held(c) /\ call[c].email \in Emails
      BY <1>t, <2>2, HeldIs DEF RequestCode, NoCopy, At, Held
    <3>2. codes' = codes \cup {[user |-> call[c].user, email |-> call[c].email]}
      BY <2>2 DEF RequestCode
    <3> QED
      BY <1>t, <3>1, <3>2 DEF Held
  <2> QED
    BY <1>t, <1>3, <2>1, <2>2 DEF EmailsNext
<1> QED
  BY <1>1, <1>2, <1>3 DEF Next

(* A restart ends the calls that are at work. *)
LEMMA RestartIs ==
  ASSUME CallsTyped, Restart
  PROVE  /\ CallsTyped' /\ UNCHANGED Acted /\ mixed' = mixed
         /\ cut' = cut \cup UNION {Left(c) : c \in Active}
         /\ \A c \in Calls : Ends(call'[c]) \/ (call'[c] = call[c] /\ call[c].pc \in {"start", "done"})
<1>1. call' = [c \in Calls |-> IF c \in Active THEN Done(c) ELSE call[c]]
  BY DEF Restart
<1>2. UNCHANGED Acted /\ mixed' = mixed /\ cut' = cut \cup UNION {Left(c) : c \in Active}
  BY DEF Restart, Acted
<1>3. \A c \in Calls : Done(c) \in RequestRecords /\ PathOf(Done(c)) /\ Ends(Done(c))
  BY DoneIs DEF Ends
<1>4. \A c \in Calls : call[c] \in RequestRecords /\ PathOf(call[c])
  BY DEF CallsTyped
<1>5. CallsTyped'
  BY <1>1, <1>3, <1>4 DEF CallsTyped
<1>6. \A c \in Calls : Ends(call'[c]) \/ (call'[c] = call[c] /\ call[c].pc \in {"start", "done"})
  BY <1>1, <1>3 DEF Active
<1> QED
  BY <1>2, <1>5, <1>6

LEMMA TypedStep ==
  ASSUME Typed, [Next]_vars
  PROVE  Typed'
<1>1. CASE UNCHANGED vars
  BY <1>1 DEF vars, Typed, CallsTyped, DataTyped
<1>2. CASE Next
  <2>1. CallsTyped' /\ CoreTyped'
    <3>1. ASSUME NEW c \in Calls, Acts(c)
          PROVE  CallsTyped' /\ CoreTyped'
      BY <3>1, ActTyped
    <3>2. CASE Tick
      <4>1. now' \in Nat
        BY <3>2 DEF Tick, Typed, DataTyped
      <4> QED
        BY <3>2, <4>1 DEF Tick, Typed, CallsTyped, DataTyped, CoreTyped
    <3>3. CASE Restart
      BY <3>3, RestartIs DEF Acted, Typed, DataTyped, CoreTyped
    <3>4. ASSUME NEW n \in Names, Expire(n)
          PROVE  CallsTyped' /\ CoreTyped'
      BY <3>4 DEF Expire, redis, Typed, CallsTyped, DataTyped, CoreTyped
    <3> QED
      BY <1>2, <3>1, <3>2, <3>3, <3>4, StepActs
  <2> QED
    BY <1>2, <2>1, SidesTyped DEF Typed, DataTyped, CoreTyped
<1> QED
  BY <1>1, <1>2

-----------------------------------------------------------------------------
(* What a step leaves alone *)

(* A call touches what it names and what its copy names. *)
LEMMA Touches ==
  ASSUME CallsTyped, NEW c \in Calls
  PROVE  LET r == call[c]
         IN  /\ r.user # None => r.user \in Touched(r)
             /\ r.name # None => r.name \in Touched(r)
             /\ r.key # None => r.key \in Touched(r)
             /\ r.email # None => r.email \in Touched(r)
             /\ Holder(c) => /\ Copy(c).name \in Touched(r) /\ Copy(c).key \in Touched(r) /\ Copy(c).who \in Touched(r)
                             /\ Copy(c).email # None => Copy(c).email \in Touched(r)
<1>1. call[c].copy # None => call[c].copy \in UserRecords
  BY DEF CallsTyped, RequestRecords, Ids
<1>2. call[c].copy # None => call[c].copy.name # None /\ call[c].copy.key # None /\ call[c].copy.who # None
  BY <1>1, RecordIs, AccountsAssumption DEF AccountsAssumption
<1> QED
  BY <1>2 DEF Touched, Holder, Copy

(* What a step of call c leaves as it is: all that the call does not touch. *)
Frame(c) ==
  /\ \A n \in Names : byName'[n] = byName[n] \/ n \in Touched(call[c])
  /\ \A k \in Keys : byKey'[k] = byKey[k] \/ k \in Touched(call[c])
  /\ \A e \in Emails : emailOwner'[e] = emailOwner[e] \/ e \in Touched(call[c])
  /\ \A u \in Users : rec'[u] = rec[u] \/ u \in Draws(c) \/ (Holder(c) /\ u = call[c].user)
  /\ \A u \in Users :
       \/ rec'[u] \in {rec[u], None}
       \/ /\ {rec'[u].name, rec'[u].key, rec'[u].who} \subseteq Touched(call[c])
          /\ rec'[u].email # None => rec'[u].email \in Touched(call[c])
  /\ evicted \subseteq evicted' /\ outlaws \subseteq outlaws' /\ outlaws' \subseteq outlaws \cup Touched(call[c])
  /\ mixed \subseteq mixed' /\ cut \subseteq cut' /\ used \subseteq used'
  /\ \A d \in Calls \ {c} : call'[d] = call[d]

LEMMA FrameReads ==
  ASSUME Typed, NEW c \in Calls, NEW q, ReadsAs(c, q)
  PROVE  Frame(c)
<1>1. \A d \in Calls \ {c} : call'[d] = call[d]
  BY ReadTyped DEF Typed
<1>2. used \subseteq used' /\ mixed \subseteq mixed'
  BY DEF ReadsAs, Meet
<1>3. UNCHANGED Untouched
  BY DEF ReadsAs
<1> QED
  BY <1>1, <1>2, <1>3 DEF Frame, Untouched

LEMMA FrameStarts ==
  ASSUME Typed, NEW c \in Calls, NEW q, StartsAs(c, q)
  PROVE  Frame(c)
<1>1. \A d \in Calls \ {c} : call'[d] = call[d]
  BY StartTyped DEF Typed
<1>2. used \subseteq used' /\ mixed \subseteq mixed'
  BY DEF StartsAs, Meet
<1>3. UNCHANGED Untouched
  BY DEF StartsAs
<1> QED
  BY <1>1, <1>2, <1>3 DEF Frame, Untouched

(* A step that writes the record of its account. *)
LEMMA FrameWrites ==
  ASSUME Typed, NEW c \in Calls, Held(c), NEW new,
         new = None \/ /\ {new.name, new.key, new.who} \subseteq Touched(call[c])
                       /\ new.email # None => new.email \in Touched(call[c]),
         rec' = [rec EXCEPT ![call[c].user] = new],
         \A n \in Names : byName'[n] = byName[n] \/ n \in Touched(call[c]),
         \A k \in Keys : byKey'[k] = byKey[k] \/ k \in Touched(call[c]),
         emailOwner' = emailOwner, evicted' = evicted, outlaws' = outlaws, mixed \subseteq mixed', cut \subseteq cut',
         used' = used, \A d \in Calls \ {c} : call'[d] = call[d]
  PROVE  Frame(c)
<1>1. rec \in [Users -> Ids(UserRecords)]
  BY DEF Typed, DataTyped
<1>2. \A u \in Users : u # call[c].user => rec'[u] = rec[u]
  BY <1>1
<1>3. rec'[call[c].user] = new
  BY <1>1 DEF Held
<1> QED
  BY <1>2, <1>3 DEF Frame, Held

(* A step that writes no record. *)
LEMMA FramePoints ==
  ASSUME Typed, NEW c \in Calls, rec' = rec,
         \A n \in Names : byName'[n] = byName[n] \/ n \in Touched(call[c]),
         \A k \in Keys : byKey'[k] = byKey[k] \/ k \in Touched(call[c]),
         \A e \in Emails : emailOwner'[e] = emailOwner[e] \/ e \in Touched(call[c]),
         evicted \subseteq evicted', outlaws \subseteq outlaws', outlaws' \subseteq outlaws \cup Touched(call[c]),
         mixed \subseteq mixed', cut \subseteq cut', used' = used, \A d \in Calls \ {c} : call'[d] = call[d]
  PROVE  Frame(c)
BY DEF Frame

LEMMA ActFrame ==
  ASSUME Typed, NEW c \in Calls, Acts(c)
  PROVE  Frame(c)
<1>t. CallsTyped /\ DataTyped
  BY DEF Typed
<1>1. ASSUME NEW q, ReadsAs(c, q) \/ StartsAs(c, q)
      PROVE  Frame(c)
  BY <1>1, FrameReads, FrameStarts
<1>3. CASE Looks(c)
  <2>1. /\ UNCHANGED <<rec, byName, byKey, emailOwner, used, evicted, outlaws>> /\ mixed' = mixed /\ cut \subseteq cut'
        /\ \A d \in Calls \ {c} : call'[d] = call[d]
    BY <1>3 DEF Looks, Moved
  <2> QED
    BY <2>1, FramePoints
<1>4. ASSUME NEW new, Back(c, new)
      PROVE  Frame(c)
  <2>1. /\ Held(c) /\ rec' = [rec EXCEPT ![call[c].user] = new]
        /\ new.name = Copy(c).name /\ new.key = Copy(c).key /\ new.who = Copy(c).who /\ new.email = Copy(c).email
        /\ UNCHANGED <<byName, byKey, emailOwner, used, evicted, outlaws, cut>> /\ mixed' = mixed
        /\ \A d \in Calls \ {c} : call'[d] = call[d]
    BY <1>4 DEF Back, Moved
  <2>2. /\ {new.name, new.key, new.who} \subseteq Touched(call[c])
        /\ new.email # None => new.email \in Touched(call[c])
    BY <1>t, <2>1, Touches DEF Held
  <2> QED
    BY <2>1, <2>2, FrameWrites
<1>5. CASE UpdateEmail(c)
  <2>1. /\ UNCHANGED <<rec, byName, byKey, emailOwner, used, evicted, outlaws, cut>> /\ mixed' = mixed
        /\ \A d \in Calls \ {c} : call'[d] = call[d]
    BY <1>5, EmailMoves DEF UpdateEmail
  <2> QED
    BY <2>1, FramePoints
<1>6. CASE UpdateKey(c) /\ ~(Stop(c) /\ UNCHANGED byKey)
  <2>1. Held(c) /\ Moved(c, "name") /\ byKey' = [byKey EXCEPT ![Copy(c).key] = None] /\ cut' = cut
    BY <1>t, <1>6, KeyMoves
  <2>2. UNCHANGED <<rec, byName, emailOwner, used, evicted, outlaws>>
    BY <1>6 DEF UpdateKey
  <2>3. \A k \in Keys : byKey'[k] = byKey[k] \/ k \in Touched(call[c])
    BY <1>t, <2>1, Touches DEF Held, DataTyped
  <2> QED
    BY <2>1, <2>2, <2>3, FramePoints DEF Moved
<1>7. CASE RegisterWrite(c)
  <2> DEFINE r == call[c]
  <2>1. /\ r.pc = "enroll" /\ r.user \in Users /\ r.name \in Names /\ r.key \in Keys /\ mixed' = mixed
        /\ \A d \in Calls \ {c} : call'[d] = call[d]
    BY <1>7, EnrollMoves
  <2>2. PICK new \in UserRecords :
          /\ rec' = [rec EXCEPT ![r.user] = new]
          /\ new.name = r.name /\ new.key = r.key /\ new.who = r.user /\ new.email = None
    BY <1>7, EnrollMoves
  <2>3. /\ byName' = [byName EXCEPT ![r.name] = r.user] /\ byKey' = [byKey EXCEPT ![r.key] = r.user]
        /\ cut \subseteq cut' /\ UNCHANGED <<emailOwner, used, evicted, outlaws>>
    BY <1>7 DEF RegisterWrite
  <2>4. r.user \in Touched(r) /\ r.name \in Touched(r) /\ r.key \in Touched(r)
    BY <1>t, <2>1, Touches, AccountsAssumption DEF AccountsAssumption
  <2>5. r.user \in Draws(c)
    BY <2>1 DEF Draws
  <2>6. /\ \A n \in Names : byName'[n] = byName[n] \/ n \in Touched(r)
        /\ \A k \in Keys : byKey'[k] = byKey[k] \/ k \in Touched(r)
    BY <1>t, <2>1, <2>3, <2>4 DEF DataTyped
  <2>7. \A u \in Users : rec'[u] = rec[u] \/ (u = r.user /\ rec'[u] = new)
    <3>1. rec \in [Users -> Ids(UserRecords)]
      BY <1>t DEF DataTyped
    <3> QED
      BY <2>1, <2>2, <3>1
  <2> QED
    BY <2>1, <2>2, <2>3, <2>4, <2>5, <2>6, <2>7 DEF Frame
<1>8. CASE UpdatePointKey(c)
  <2>1. Held(c) /\ Moved(c, "nameptr")
    BY <1>t, <1>8, WriteMoves
  <2>2. byKey' = [byKey EXCEPT ![Updated(c).key] = call[c].user] /\ UNCHANGED <<rec, byName, emailOwner, used, evicted, outlaws, cut>>
    BY <1>8 DEF UpdatePointKey
  <2>3. Updated(c).key \in Touched(call[c])
    <3>1. Updated(c).key = IF call[c].key = None THEN Copy(c).key ELSE call[c].key
      BY <1>t, <1>8, <2>1, UpdatedIs DEF UpdatePointKey, At
    <3> QED
      BY <1>t, <2>1, <3>1, Touches DEF Held
  <2>4. \A k \in Keys : byKey'[k] = byKey[k] \/ k \in Touched(call[c])
    BY <1>t, <2>2, <2>3 DEF DataTyped
  <2> QED
    BY <2>1, <2>2, <2>4, FramePoints DEF Moved
<1>9. CASE UpdatePointName(c) \/ UpdateRetire(c) \/ RekeyName(c) \/ DeleteName(c)
  <2>1. Held(c) /\ mixed' = mixed /\ \A d \in Calls \ {c} : call'[d] = call[d]
    BY <1>t, <1>9, WriteMoves DEF Moved
  <2>2. /\ UNCHANGED <<rec, byKey, emailOwner, used, evicted, outlaws, cut>>
        /\ \/ call[c].op \in {"update", "rekey"} /\ \E x : byName' = [byName EXCEPT ![call[c].name] = x]
           \/ byName' = [byName EXCEPT ![Copy(c).name] = None]
    BY <1>9 DEF UpdatePointName, UpdateRetire, RekeyName, DeleteName, At
  <2>3. Copy(c).name \in Touched(call[c]) /\ (call[c].op \in {"update", "rekey"} => call[c].name \in Touched(call[c]))
    BY <1>t, <2>1, Touches, AccountsAssumption DEF AccountsAssumption, Held
  <2>4. \A n \in Names : byName'[n] = byName[n] \/ n \in Touched(call[c])
    BY <1>t, <2>2, <2>3 DEF DataTyped
  <2> QED
    BY <2>1, <2>2, <2>4, FramePoints
<1>10. CASE UpdateRecord(c)
  <2>1. Held(c) /\ call[c].op = "update" /\ mixed' = mixed /\ \A d \in Calls \ {c} : call'[d] = call[d]
    BY <1>t, <1>10, RecordMoves DEF Moved, At
  <2>2. PICK new : new = Updated(c)
    OBVIOUS
  <2>3. rec' = [rec EXCEPT ![call[c].user] = new] /\ UNCHANGED <<byName, byKey, emailOwner, used, evicted, outlaws, cut>>
    BY <1>10, <2>2 DEF UpdateRecord
  <2>4. /\ {new.name, new.key, new.who} \subseteq Touched(call[c])
        /\ new.email # None => new.email \in Touched(call[c])
    <3>1. /\ new.name = call[c].name /\ new.key = (IF call[c].key = None THEN Copy(c).key ELSE call[c].key)
          /\ new.email = call[c].email /\ new.who = Copy(c).who
      BY <1>t, <2>1, <2>2, UpdatedIs
    <3> QED
      BY <1>t, <2>1, <3>1, Touches, AccountsAssumption DEF AccountsAssumption, Held
  <2> QED
    BY <2>1, <2>3, <2>4, FrameWrites
<1>11. CASE DeleteRecord(c) \/ RekeyErase(c) \/ DeleteUser(c)
  <2>1. Held(c) /\ mixed' = mixed /\ \A d \in Calls \ {c} : call'[d] = call[d]
    BY <1>t, <1>11, WriteMoves DEF Moved
  <2>2. /\ rec' = [rec EXCEPT ![call[c].user] = None] /\ UNCHANGED <<emailOwner, used, evicted, outlaws>> /\ cut \subseteq cut'
        /\ byName' = byName \/ byName' = [byName EXCEPT ![Copy(c).name] = None]
        /\ byKey' = byKey \/ byKey' = [byKey EXCEPT ![Copy(c).key] = None]
    BY <1>11 DEF DeleteRecord, RekeyErase, DeleteUser
  <2>3. Copy(c).name \in Touched(call[c]) /\ Copy(c).key \in Touched(call[c])
    BY <1>t, <2>1, Touches DEF Held
  <2>4. /\ \A n \in Names : byName'[n] = byName[n] \/ n \in Touched(call[c])
        /\ \A k \in Keys : byKey'[k] = byKey[k] \/ k \in Touched(call[c])
    BY <1>t, <2>2, <2>3 DEF DataTyped
  <2> QED
    BY <2>1, <2>2, <2>4, FrameWrites
<1>12. CASE DeleteKey(c)
  <2>1. Held(c) /\ mixed' = mixed /\ \A d \in Calls \ {c} : call'[d] = call[d]
    BY <1>t, <1>12, WriteMoves DEF Moved
  <2>2. byKey' = [byKey EXCEPT ![Copy(c).key] = None] /\ UNCHANGED <<rec, byName, emailOwner, used, evicted, outlaws, cut>>
    BY <1>12 DEF DeleteKey
  <2>3. \A k \in Keys : byKey'[k] = byKey[k] \/ k \in Touched(call[c])
    BY <1>t, <2>1, <2>2, Touches DEF Held, DataTyped
  <2> QED
    BY <2>1, <2>2, <2>3, FramePoints
<1>13. CASE RekeyCopy(c)
  <2> DEFINE r == call[c]
             new == [Copy(c) EXCEPT !.pw = 0, !.legacy = FALSE]
  <2>1. /\ At(c, "rekey", "copy") /\ Held(c) /\ mixed' = mixed /\ \A d \in Calls \ {c} : call'[d] = call[d]
    BY <1>t, <1>13, WriteMoves DEF Moved
  <2>2. rec' = [rec EXCEPT ![r.to] = new] /\ cut \subseteq cut' /\ UNCHANGED <<byName, byKey, emailOwner, used, evicted, outlaws>>
    BY <1>13 DEF RekeyCopy
  <2>3. r.to \in Draws(c)
    BY <2>1 DEF Draws, At
  <2>4. new.name = Copy(c).name /\ new.key = Copy(c).key /\ new.who = Copy(c).who /\ new.email = Copy(c).email
    BY <2>1 DEF Held, UserRecords
  <2>5. /\ {new.name, new.key, new.who} \subseteq Touched(r)
        /\ new.email # None => new.email \in Touched(r)
    BY <1>t, <2>1, <2>4, Touches DEF Held
  <2> HIDE DEF new
  <2>6. \A u \in Users : rec'[u] = rec[u] \/ (u = r.to /\ rec'[u] = new)
    <3>1. rec \in [Users -> Ids(UserRecords)]
      BY <1>t DEF DataTyped
    <3> QED
      BY <2>2, <3>1
  <2> QED
    BY <2>1, <2>2, <2>3, <2>5, <2>6 DEF Frame
<1>14. CASE Evict(c)
  <2>1. Held(c) /\ mixed' = mixed /\ \A d \in Calls \ {c} : call'[d] = call[d]
    BY <1>t, <1>14, WriteMoves DEF Moved
  <2>2. /\ evicted \subseteq evicted' /\ outlaws' = outlaws \cup {Copy(c).who}
        /\ UNCHANGED <<rec, byName, byKey, emailOwner, used, cut>>
    BY <1>14 DEF Evict
  <2>3. Copy(c).who \in Touched(call[c])
    BY <1>t, <2>1, Touches DEF Held
  <2> QED
    BY <2>1, <2>2, <2>3, FramePoints
<1>15. CASE VerifyRecord(c)
  <2> DEFINE new == [Copy(c) EXCEPT !.email = call[c].email, !.verified = TRUE]
  <2>1. Held(c) /\ call[c].op = "verify" /\ mixed' = mixed /\ \A d \in Calls \ {c} : call'[d] = call[d]
    BY <1>t, <1>15, WriteMoves DEF Moved, At
  <2>2. rec' = [rec EXCEPT ![call[c].user] = new] /\ UNCHANGED <<byName, byKey, emailOwner, used, evicted, outlaws, cut>>
    BY <1>15 DEF VerifyRecord, redisE
  <2>3. new.name = Copy(c).name /\ new.key = Copy(c).key /\ new.who = Copy(c).who /\ new.email = call[c].email
    BY <2>1 DEF Held, UserRecords
  <2>4. /\ {new.name, new.key, new.who} \subseteq Touched(call[c])
        /\ new.email # None => new.email \in Touched(call[c])
    BY <1>t, <2>1, <2>3, Touches DEF Held
  <2> HIDE DEF new
  <2> QED
    BY <2>1, <2>2, <2>4, FrameWrites
<1>16. CASE VerifyMap(c)
  <2>1. Held(c) /\ call[c].op = "verify" /\ mixed' = mixed /\ \A d \in Calls \ {c} : call'[d] = call[d]
    BY <1>t, <1>16, WriteMoves DEF Moved, At
  <2>2. emailOwner' = [emailOwner EXCEPT ![call[c].email] = call[c].user] /\ UNCHANGED <<rec, byName, byKey, used, evicted, outlaws, cut>>
    BY <1>16 DEF VerifyMap, redisE
  <2>3. call[c].email \in Touched(call[c])
    BY <1>t, <2>1, Touches, AccountsAssumption DEF AccountsAssumption, Held
  <2>4. \A e \in Emails : emailOwner'[e] = emailOwner[e] \/ e \in Touched(call[c])
    BY <1>t, <2>2, <2>3 DEF DataTyped
  <2> QED
    BY <2>1, <2>2, <2>4, FramePoints
<1> QED
  BY <1>1, <1>3, <1>4, <1>5, <1>6, <1>7, <1>8, <1>9, <1>10, <1>11, <1>12, <1>13, <1>14, <1>15, <1>16 DEF Acts

(* A call that has not begun, or has ended, knows nothing. *)
LEMMA RestIs ==
  ASSUME CallsTyped, NEW c \in Calls, call[c].pc \in {"start", "done"}
  PROVE  LET r == call[c]
         IN  /\ r.user = None /\ r.copy = None /\ r.name = None /\ r.key = None /\ r.email = None
             /\ r.to = None /\ r.at = 0 /\ r.pw = 0
             /\ Touched(r) = {} /\ Draws(c) = {} /\ ~Holder(c)
<1> DEFINE r == call[c]
<1>1. PathOf(r)
  BY DEF CallsTyped
<1>2. \/ r = Idle
      \/ r = [Idle EXCEPT !.op = r.op, !.pc = "done"]
  BY <1>1 DEF PathOf
<1> HIDE DEF r
<1>3. /\ r.user = None /\ r.copy = None /\ r.name = None /\ r.key = None /\ r.email = None
      /\ r.to = None /\ r.at = 0 /\ r.pw = 0
  <2>1. CASE r = Idle
    BY <2>1, IdleIs
  <2>2. CASE r = [Idle EXCEPT !.op = r.op, !.pc = "done"]
    BY <2>2, IdleIs DEF RequestRecords
  <2> QED
    BY <1>2, <2>1, <2>2
<1>4. Touched(r) = {}
  BY <1>3 DEF Touched
<1> QED
  BY <1>3, <1>4 DEF Draws, Holder, r

LEMMA KeptGrows ==
  ASSUME Typed, SinceInv, now' >= now, now' \in Nat,
         \A v \in Users : since'[v] = since[v] \/ since'[v] = now,
         NEW u \in Users, NEW pw \in Nat, NEW at \in Nat, Kept(u, pw, at)
  PROVE  Kept(u, pw, at)'
<1>1. since[u] \in Ids(Nat) /\ now \in Nat
  BY DEF Typed, DataTyped
<1>2. since'[u] = since[u] \/ (since'[u] = now /\ now # None)
  BY <1>1, AccountsAssumption DEF AccountsAssumption
<1>3. since[u] # None => since[u] \in Nat /\ since[u] <= now
  BY <1>1 DEF Ids, SinceInv
<1> QED
  BY <1>1, <1>2, <1>3 DEF Kept

(* Since passwords are only set as the other calls leave them. *)
LEMMA PassFrame ==
  ASSUME Typed, PassInv, now' >= now, now' \in Nat,
         \A v \in Users : since'[v] = since[v] \/ since'[v] = now,
         NEW d \in Calls, call'[d] = call[d]
  PROVE  PassOf(d)'
<1> DEFINE r == call[d]
<1>1. r \in RequestRecords /\ PassOf(d) /\ now \in Nat
  BY DEF Typed, CallsTyped, DataTyped, PassInv
<1>2. r.at \in Nat /\ r.at <= now
  BY <1>1, FieldsAre DEF PassOf
<1>3. Holder(d) => /\ r.user \in Users /\ r.copy.pw \in Nat /\ r.copy.pwAt \in Nat
                   /\ Kept(r.user, r.copy.pw, r.copy.pwAt)
  <2>1. ASSUME Holder(d)
        PROVE  r.pc \notin {"start", "done"}
    BY <2>1, RestIs DEF Typed
  <2> QED
    BY <1>1, <2>1, StepIs, RecordIs DEF Holder, Typed, PassOf, NoCopy
<1>4. r.op = "update" /\ r.pw = 1 /\ r.pc \in {"keyptr", "nameptr", "record"} =>
        r.user \in Users /\ Kept(r.user, 1, r.at)
  BY <1>1, StepIs DEF PassOf, Typed, NoCopy
<1>5. Holder(d)' <=> Holder(d)
  BY DEF Holder
<1>6. Holder(d) => Kept(r.user, r.copy.pw, r.copy.pwAt)'
  BY <1>3, KeptGrows DEF PassInv
<1>7. r.op = "update" /\ r.pw = 1 /\ r.pc \in {"keyptr", "nameptr", "record"} => Kept(r.user, 1, r.at)'
  BY <1>2, <1>4, KeptGrows DEF PassInv
<1> QED
  BY <1>1, <1>2, <1>5, <1>6, <1>7 DEF PassOf

(* The times of passwords, when no time changes. *)
LEMMA PassStill ==
  ASSUME Typed, PassInv, NEW c \in Calls, Acts(c), UNCHANGED <<since, now>>,
         \A u \in Users : \/ rec'[u] \in {rec[u], None}
                          \/ Kept(u, rec'[u].pw, rec'[u].pwAt),
         PassOf(c)'
  PROVE  PassInv'
<1>1. now \in Nat
  BY DEF Typed, DataTyped
<1>2. \A d \in Calls \ {c} : PassOf(d)'
  BY <1>1, ActFrame, PassFrame DEF Frame
<1>3. SinceInv'
  BY DEF PassInv, SinceInv
<1>4. \A u \in Users : rec'[u] # None => Kept(u, rec'[u].pw, rec'[u].pwAt)
  BY DEF PassInv, Live
<1> QED
  BY <1>2, <1>3, <1>4 DEF PassInv, Live, Kept

LEMMA PassAct ==
  ASSUME Typed, PassInv, NEW c \in Calls, Acts(c)
  PROVE  PassInv'
<1> DEFINE r == call[c]
<1>t. /\ CallsTyped /\ DataTyped /\ now \in Nat /\ rec \in [Users -> Ids(UserRecords)] /\ PassOf(c)
      /\ r \in RequestRecords /\ r.at \in Nat /\ r.at <= now
  BY FieldsAre DEF Typed, CallsTyped, DataTyped, PassInv, PassOf
<1>h. Held(c) => Holder(c) /\ Copy(c) = r.copy /\ Kept(r.user, Copy(c).pw, Copy(c).pwAt)
  BY <1>t DEF Held, PassOf
<1>1. ASSUME NEW q, ReadsAs(c, q)
      PROVE  PassInv'
  <2>1. call'[c] = q /\ q.user \in Users /\ rec[q.user] # None /\ q.copy = rec[q.user] /\ q.at \in {r.at, now}
        /\ (q.op = "update" => q.pc \in {"key", "name"}) /\ UNCHANGED <<rec, since, now>>
    BY <1>t, <1>1, ReadTyped DEF ReadsAs, Untouched, Live
  <2>2. Kept(q.user, q.copy.pw, q.copy.pwAt)
    BY <2>1 DEF PassInv, Live
  <2>3. PassOf(c)'
    BY <1>t, <2>1, <2>2 DEF PassOf, Kept
  <2> QED
    BY <2>1, <2>3, PassStill
<1>2. ASSUME NEW q, StartsAs(c, q)
      PROVE  PassInv'
  <2>1. call'[c] = q /\ q.copy = None /\ q.at = 0 /\ UNCHANGED <<rec, since, now>>
        /\ q.pc \notin {"keyptr", "nameptr", "record"}
    BY <1>t, <1>2, StartTyped DEF StartsAs, Untouched
  <2>2. PassOf(c)'
    BY <1>t, <2>1 DEF PassOf, Holder
  <2> QED
    BY <2>1, <2>2, PassStill
<1>3. CASE Looks(c)
  <2>1. PICK pc : /\ Moved(c, pc)
                  /\ \/ r.pc # "since" /\ since' = since
                     \/ r.pc = "since" /\ since' = [since EXCEPT ![r.user] = now]
                  /\ pc # "done" => <<r.op, r.pc, pc>> \in LookEdges
                  /\ r.pc = "name" /\ pc = "keyptr" => r.pw # 1
    BY <1>3 DEF Looks
  <2>2. UNCHANGED <<rec, now>> /\ r.pc \notin {"start", "done"}
    BY <1>3 DEF Looks
  <2>3. since \in [Users -> Ids(Nat)]
    BY <1>t DEF DataTyped
  <2>4. \A v \in Users : since'[v] = since[v] \/ since'[v] = now
    BY <2>1, <2>3
  <2>5. SinceInv'
    BY <1>t, <2>2, <2>4 DEF PassInv, SinceInv
  <2>6. \A d \in Calls \ {c} : PassOf(d)'
    BY <1>t, <2>2, <2>4, ActFrame, PassFrame DEF Frame
  <2>7. \A u \in Live : Kept(u, rec[u].pw, rec[u].pwAt)'
    <3>1. ASSUME NEW u \in Live
          PROVE  Kept(u, rec[u].pw, rec[u].pwAt)'
      <4>1. u \in Users /\ rec[u] \in UserRecords /\ rec[u].pw \in Nat /\ rec[u].pwAt \in Nat
        BY <1>t, RecordIs DEF Live, Ids
      <4>2. Kept(u, rec[u].pw, rec[u].pwAt) /\ SinceInv
        BY DEF PassInv
      <4>3. \A pw, at \in Nat : Kept(u, pw, at) => Kept(u, pw, at)'
        BY <1>t, <2>2, <2>4, <4>1, <4>2, KeptGrows
      <4> QED
        BY <2>2, <4>1, <4>2, <4>3
    <3> QED
      BY <3>1
  <2>8. PassOf(c)'
    <3>1. CASE pc = "done"
      BY <1>t, <2>1, <2>2, <3>1 DEF Moved, Ends, PassOf, Holder
    <3>2. CASE pc # "done"
      <4>1. /\ call'[c].pc = pc /\ call'[c].op = r.op /\ call'[c].user = r.user /\ call'[c].copy = r.copy
            /\ call'[c].pw = r.pw /\ call'[c].at = r.at
        BY <2>1, <3>2 DEF Moved, SameBut
      <4>2. Holder(c) => Kept(r.user, r.copy.pw, r.copy.pwAt)'
        <5>1. ASSUME Holder(c)
              PROVE  r.user \in Users /\ r.copy.pw \in Nat /\ r.copy.pwAt \in Nat
          BY <1>t, <2>2, <5>1, StepIs, RecordIs DEF Holder
        <5> QED
          <6>1. ASSUME NEW u \in Users, NEW pw \in Nat, NEW at \in Nat, Kept(u, pw, at)
                PROVE  Kept(u, pw, at)'
            BY <1>t, <2>2, <2>4, <6>1, KeptGrows DEF PassInv
          <6>2. ASSUME Holder(c)
                PROVE  Kept(r.user, r.copy.pw, r.copy.pwAt)
            BY <1>t, <6>2 DEF PassOf
          <6> QED
            BY <4>1, <5>1, <6>1, <6>2
      <4>3. ASSUME r.op = "update", r.pw = 1, pc \in {"keyptr", "nameptr", "record"}
            PROVE  Kept(r.user, 1, r.at)'
        <5>1. r.pc = "since" /\ r.user \in Users
          BY <1>t, <2>1, <2>2, <3>2, <4>3, StepIs DEF LookEdges, NoCopy
        <5>2. since'[r.user] = now /\ now # None
          BY <1>t, <2>1, <2>3, <5>1, AccountsAssumption DEF AccountsAssumption
        <5> QED
          BY <1>t, <4>1, <5>2 DEF Kept
      <4> QED
        BY <1>t, <2>2, <4>1, <4>2, <4>3 DEF PassOf, Holder
    <3> QED
      BY <3>1, <3>2
  <2> QED
    BY <2>2, <2>5, <2>6, <2>7, <2>8 DEF PassInv, Live
<1>4. ASSUME NEW new, Back(c, new)
      PROVE  PassInv'
  <2>1. PICK pc : Moved(c, pc) /\ pc \in {"done", "gate", "sign", "code"}
    BY <1>4 DEF Back
  <2>2. /\ Held(c) /\ rec' = [rec EXCEPT ![r.user] = new] /\ new.pw = Copy(c).pw /\ new.pwAt = Copy(c).pwAt
        /\ UNCHANGED <<since, now>>
    BY <1>4 DEF Back
  <2>3. \A u \in Users : rec'[u] \in {rec[u], None} \/ Kept(u, rec'[u].pw, rec'[u].pwAt)
    <3>1. \A u \in Users : rec'[u] = rec[u] \/ (u = r.user /\ rec'[u] = new)
      BY <1>t, <2>2
    <3> QED
      BY <1>h, <2>2, <3>1
  <2>4. PassOf(c)'
    BY <1>t, <1>h, <2>1, <2>2 DEF PassOf, Holder, Moved, Ends, SameBut, Kept
  <2> QED
    BY <2>2, <2>3, <2>4, PassStill
<1>5. CASE UpdateEmail(c)
  <2>1. /\ Held(c) /\ call'[c].pc \in {"since", "keyptr"} /\ (call'[c].pc = "since" \/ r.pw # 1) /\ SameBut(call'[c], r)
    BY <1>5, EmailMoves
  <2>2. UNCHANGED <<rec, since, now>>
    BY <1>5 DEF UpdateEmail
  <2>3. PassOf(c)'
    BY <1>t, <1>h, <2>1, <2>2 DEF PassOf, Holder, SameBut, Kept
  <2> QED
    BY <2>2, <2>3, PassStill
<1>6. CASE UpdateKey(c) /\ ~(Stop(c) /\ UNCHANGED byKey)
  <2>1. Held(c) /\ Moved(c, "name")
    BY <1>t, <1>6, KeyMoves
  <2>2. UNCHANGED <<rec, since, now>>
    BY <1>6 DEF UpdateKey
  <2>3. PassOf(c)'
    BY <1>t, <1>h, <2>1, <2>2 DEF PassOf, Holder, Moved, SameBut, Kept
  <2> QED
    BY <2>2, <2>3, PassStill
<1>7. CASE RegisterWrite(c)
  <2>1. PICK new \in UserRecords :
          /\ rec' = [rec EXCEPT ![r.user] = new] /\ new.pwAt = 0
          /\ \/ Ends(call'[c])
             \/ call'[c].pc = "save" /\ call'[c].copy = new /\ call'[c].user = r.user /\ call'[c].at = r.at
    BY <1>7, EnrollMoves
  <2>2. UNCHANGED <<since, now>>
    BY <1>7 DEF RegisterWrite
  <2>3. \A u \in Users : rec'[u] \in {rec[u], None} \/ Kept(u, rec'[u].pw, rec'[u].pwAt)
    <3>1. \A u \in Users : rec'[u] = rec[u] \/ rec'[u] = new
      BY <1>t, <2>1
    <3> QED
      BY <2>1, <3>1 DEF Kept
  <2>4. PassOf(c)'
    BY <1>t, <2>1, <2>2 DEF PassOf, Holder, Ends, Kept
  <2> QED
    BY <2>2, <2>3, <2>4, PassStill
<1>8. CASE UpdatePointKey(c) \/ UpdatePointName(c) \/ UpdateRetire(c)
  <2>1. /\ Held(c) /\ r.pc \in {"keyptr", "nameptr", "retire"} /\ r.op = "update"
        /\ \E pc \in {"nameptr", "record", "done"} : Moved(c, pc) /\ (r.pc = "retire" => pc = "done")
    BY <1>t, <1>8, WriteMoves DEF At
  <2>2. UNCHANGED <<rec, since, now>>
    BY <1>8 DEF UpdatePointKey, UpdatePointName, UpdateRetire
  <2>3. PassOf(c)'
    BY <1>t, <1>h, <2>1, <2>2 DEF PassOf, Holder, Moved, Ends, SameBut, Kept
  <2> QED
    BY <2>2, <2>3, PassStill
<1>9. CASE UpdateRecord(c)
  <2>1. /\ Held(c) /\ r.pc = "record" /\ r.op = "update" /\ r.pw \in {0, 1}
        /\ \E pc \in {"retire", "done"} : Moved(c, pc)
    BY <1>t, <1>9, RecordMoves, StepIs DEF At
  <2>2. PICK new : new = Updated(c)
    OBVIOUS
  <2>3. rec' = [rec EXCEPT ![r.user] = new] /\ UNCHANGED <<since, now>>
    BY <1>9, <2>2 DEF UpdateRecord
  <2>4. new.pw = Copy(c).pw + r.pw /\ new.pwAt = (IF r.pw = 1 THEN r.at ELSE Copy(c).pwAt) /\ Copy(c).pw \in Nat
    BY <1>t, <2>1, <2>2, UpdatedIs, RecordIs DEF Held
  <2>5. Kept(r.user, new.pw, new.pwAt)
    <3>1. CASE r.pw = 1
      BY <1>t, <2>1, <2>4, <3>1 DEF PassOf, Kept
    <3>2. CASE r.pw = 0
      BY <1>h, <2>1, <2>4, <3>2
    <3> QED
      BY <2>1, <3>1, <3>2
  <2>6. \A u \in Users : rec'[u] \in {rec[u], None} \/ Kept(u, rec'[u].pw, rec'[u].pwAt)
    <3>1. \A u \in Users : rec'[u] = rec[u] \/ (u = r.user /\ rec'[u] = new)
      BY <1>t, <2>3
    <3> QED
      BY <2>5, <3>1
  <2>7. PassOf(c)'
    BY <1>t, <1>h, <2>1, <2>3 DEF PassOf, Holder, Moved, Ends, SameBut, Kept
  <2> QED
    BY <2>3, <2>6, <2>7, PassStill
<1>10. CASE DeleteRecord(c) \/ RekeyErase(c) \/ DeleteUser(c)
  <2>1. Held(c) /\ \E pc \in {"unname", "done"} : Moved(c, pc)
    BY <1>t, <1>10, WriteMoves
  <2>2. rec' = [rec EXCEPT ![r.user] = None] /\ UNCHANGED <<since, now>>
    BY <1>10 DEF DeleteRecord, RekeyErase, DeleteUser
  <2>3. \A u \in Users : rec'[u] \in {rec[u], None}
    BY <1>t, <2>2
  <2>4. PassOf(c)'
    BY <1>t, <1>h, <2>1, <2>2 DEF PassOf, Holder, Moved, Ends, SameBut, Kept
  <2> QED
    BY <2>2, <2>3, <2>4, PassStill
<1>11. CASE DeleteName(c) \/ DeleteKey(c) \/ RekeyName(c) \/ Evict(c) \/ VerifyMap(c)
  <2>1. Held(c) /\ \E pc \in {"unkey", "copy", "done"} : Moved(c, pc)
    BY <1>t, <1>11, WriteMoves
  <2>2. UNCHANGED <<rec, since, now>>
    BY <1>11 DEF DeleteName, DeleteKey, RekeyName, Evict, VerifyMap, redisE
  <2>3. PassOf(c)'
    BY <1>t, <1>h, <2>1, <2>2 DEF PassOf, Holder, Moved, Ends, SameBut, Kept
  <2> QED
    BY <2>2, <2>3, PassStill
<1>12. CASE RekeyCopy(c)
  <2>1. Held(c) /\ Moved(c, "erase")
    BY <1>t, <1>12, WriteMoves
  <2>2. PICK new : new = [Copy(c) EXCEPT !.pw = 0, !.legacy = FALSE]
    OBVIOUS
  <2>3. rec' = [rec EXCEPT ![r.to] = new] /\ UNCHANGED <<since, now>>
    BY <1>12, <2>2 DEF RekeyCopy
  <2>4. new.pw = 0
    BY <2>1, <2>2 DEF Held, UserRecords
  <2>5. \A u \in Users : rec'[u] \in {rec[u], None} \/ Kept(u, rec'[u].pw, rec'[u].pwAt)
    <3>1. \A u \in Users : rec'[u] = rec[u] \/ rec'[u] = new
      BY <1>t, <2>3
    <3> QED
      BY <2>4, <3>1 DEF Kept
  <2>6. PassOf(c)'
    BY <1>t, <1>h, <2>1, <2>3 DEF PassOf, Holder, Moved, Ends, SameBut, Kept
  <2> QED
    BY <2>3, <2>5, <2>6, PassStill
<1>13. CASE VerifyRecord(c)
  <2>1. Held(c) /\ Moved(c, "map")
    BY <1>t, <1>13, WriteMoves
  <2>2. PICK new : new = [Copy(c) EXCEPT !.email = call[c].email, !.verified = TRUE]
    OBVIOUS
  <2>3. rec' = [rec EXCEPT ![r.user] = new] /\ UNCHANGED <<since, now>>
    BY <1>13, <2>2 DEF VerifyRecord, redisE
  <2>4. new.pw = Copy(c).pw /\ new.pwAt = Copy(c).pwAt
    BY <2>1, <2>2 DEF Held, UserRecords
  <2>5. \A u \in Users : rec'[u] \in {rec[u], None} \/ Kept(u, rec'[u].pw, rec'[u].pwAt)
    <3>1. \A u \in Users : rec'[u] = rec[u] \/ (u = r.user /\ rec'[u] = new)
      BY <1>t, <2>3
    <3> QED
      BY <1>h, <2>1, <2>4, <3>1
  <2>6. PassOf(c)'
    BY <1>t, <1>h, <2>1, <2>3 DEF PassOf, Holder, Moved, Ends, SameBut, Kept
  <2> QED
    BY <2>3, <2>5, <2>6, PassStill
<1> QED
  BY <1>1, <1>2, <1>3, <1>4, <1>5, <1>6, <1>7, <1>8, <1>9, <1>10, <1>11, <1>12, <1>13 DEF Acts

LEMMA PassStep ==
  ASSUME Typed, PassInv, [Next]_vars
  PROVE  PassInv'
<1>t. CallsTyped /\ DataTyped /\ now \in Nat /\ \A c \in Calls : call[c] \in RequestRecords /\ call[c].at \in Nat
  BY FieldsAre DEF Typed, CallsTyped, DataTyped
<1>1. CASE UNCHANGED vars \/ \E n \in Names : Expire(n)
  BY <1>1 DEF vars, Expire, redis, PassInv, SinceInv, PassOf, Kept, Live, Holder
<1>2. CASE Tick
  <2>1. now' = now + 1 /\ UNCHANGED <<rec, since, call>>
    BY <1>2 DEF Tick
  <2>2. SinceInv'
    <3>1. \A u \in Users : since[u] # None => since[u] \in Nat
      BY <1>t DEF DataTyped, Ids
    <3> QED
      BY <1>t, <2>1, <3>1 DEF PassInv, SinceInv
  <2>3. \A c \in Calls : PassOf(c)'
    BY <1>t, <2>1, PassFrame
  <2> QED
    BY <2>1, <2>2, <2>3 DEF PassInv, Live, Kept
<1>3. CASE Restart
  <2>1. UNCHANGED <<rec, since, now>> /\ \A c \in Calls : Ends(call'[c]) \/ call'[c] = call[c]
    BY <1>t, <1>3, RestartIs DEF Acted
  <2>2. ASSUME NEW c \in Calls
        PROVE  PassOf(c)'
    <3>1. CASE Ends(call'[c])
      BY <1>t, <2>1, <3>1 DEF Ends, PassOf, Holder
    <3>2. CASE call'[c] = call[c]
      BY <1>t, <2>1, <3>2, PassFrame
    <3> QED
      BY <2>1, <3>1, <3>2
  <2> QED
    BY <2>1, <2>2 DEF PassInv, SinceInv, Live, Kept
<1> QED
  BY <1>1, <1>2, <1>3, StepActs, PassAct

LEMMA PassHolds ==
  ASSUME Typed, PassInv
  PROVE  OldSessionsEnd
<1>1. ASSUME NEW s \in sessions, Accepted(s), s.pw < rec[s.user].pw
      PROVE  s.iat >= rec[s.user].pwAt
  <2>1. s.user \in Live /\ (since[s.user] = None \/ s.iat >= since[s.user])
    BY <1>1 DEF Accepted
  <2>2. /\ rec[s.user] \in UserRecords /\ rec[s.user].pw \in Nat /\ rec[s.user].pwAt \in Nat
        /\ s.pw \in Nat /\ s.iat \in Nat /\ since[s.user] \in Ids(Nat)
    BY <2>1, RecordIs DEF Typed, DataTyped, Live, Ids
  <2>3. Kept(s.user, rec[s.user].pw, rec[s.user].pwAt)
    BY <2>1 DEF PassInv
  <2> QED
    BY <1>1, <2>1, <2>2, <2>3 DEF Kept, Ids
<1> QED
  BY <1>1 DEF OldSessionsEnd

-----------------------------------------------------------------------------
(* Who is who *)

LEMMA EndsRests ==
  ASSUME NEW q, Ends(q)
  PROVE  Touched(q) = {}
BY DEF Ends, Touched

LEMMA SameTouches ==
  ASSUME NEW q, NEW r, SameBut(q, r)
  PROVE  Touched(q) = Touched(r)
BY DEF SameBut, Touched

(* Whom a step writes a record for, whom its call has read, which ids it has *)
(* drawn, and whom it casts out.                                             *)
WhoKind(c) ==
  \A u \in Users :
    \/ rec'[u] \in {rec[u], None}
    \/ Holder(c) /\ u = call[c].user /\ rec'[u].who = Copy(c).who
    \/ Holder(c) /\ u \in Draws(c) /\ rec'[u].who = Copy(c).who
    \/ call[c].pc = "enroll" /\ u = call[c].user /\ rec'[u].who = u

HolderKind(c) ==
  Holder(c)' =>
    LET q == call'[c]
    IN  \/ Holder(c) /\ q.user = call[c].user /\ q.copy = call[c].copy
        \/ q.user \in Live /\ q.copy = rec[q.user] /\ rec' = rec
        \/ call[c].pc = "enroll" /\ q.user = call[c].user /\ rec'[q.user] = q.copy /\ q.copy.who = q.user

DrawKind(c) ==
  \A x \in Draws(c)' :
    \/ x \in Draws(c) /\ rec' = rec
    \/ x \in used' \ used /\ x \in Users /\ rec' = rec /\ outlaws' = outlaws

MarkKind(c) == outlaws' = outlaws \/ (Holder(c) /\ outlaws' = outlaws \cup {Copy(c).who})

Kinds(c) ==
  /\ WhoKind(c) /\ HolderKind(c) /\ DrawKind(c) /\ MarkKind(c)
  /\ \/ mixed' = mixed /\ Touched(call'[c]) \subseteq Touched(call[c])
     \/ Meet(c, call'[c])

LEMMA KindStays ==
  ASSUME Typed, NEW c \in Calls, Holder(c), mixed' = mixed, Ends(call'[c]) \/ SameBut(call'[c], call[c]),
         call'[c].pc \notin {"enroll", "rename", "copy"} \/ (call[c].pc = "rename" /\ call'[c].pc = "copy" /\ rec' = rec),
         outlaws' = outlaws \/ outlaws' = outlaws \cup {Copy(c).who},
         WhoKind(c)
  PROVE  Kinds(c)
<1>1. HolderKind(c)
  BY DEF HolderKind, Holder, Ends, SameBut
<1>2. DrawKind(c)
  BY DEF DrawKind, Draws, Ends, SameBut
<1>3. Touched(call'[c]) \subseteq Touched(call[c])
  BY EndsRests, SameTouches
<1> QED
  BY <1>1, <1>2, <1>3 DEF Kinds, MarkKind

LEMMA ActKinds ==
  ASSUME Typed, NEW c \in Calls, Acts(c)
  PROVE  Kinds(c)
<1> DEFINE r == call[c]
<1>t. CallsTyped /\ DataTyped /\ rec \in [Users -> Ids(UserRecords)]
  BY DEF Typed, DataTyped
<1>1. ASSUME NEW q, ReadsAs(c, q)
      PROVE  Kinds(c)
  <2>1. /\ call'[c] = q /\ Meet(c, q) /\ rec' = rec /\ outlaws' = outlaws /\ q.user \in Live /\ q.copy = rec[q.user]
        /\ q.pc = "rename" => q.to \in Users \ used /\ used' = used \cup {q.to}
        /\ q.pc \notin {"enroll", "copy"}
    <3>1. q.pc = "rename" => q.op = "rekey"
      BY <1>1 DEF ReadsAs, PathOf, IsStep, RekeySteps
    <3> QED
      BY <1>t, <1>1, <3>1, ReadTyped DEF ReadsAs, Untouched
  <2> QED
    BY <2>1 DEF Kinds, WhoKind, HolderKind, DrawKind, MarkKind, Draws
<1>2. ASSUME NEW q, StartsAs(c, q)
      PROVE  Kinds(c)
  <2>1. /\ call'[c] = q /\ Meet(c, q) /\ rec' = rec /\ outlaws' = outlaws /\ q.copy = None
        /\ q.pc = "enroll" => q.user \in Users \ used /\ used' = used \cup {q.user}
        /\ q.pc \notin {"rename", "copy"}
    BY <1>t, <1>2, StartTyped DEF StartsAs, Untouched
  <2> QED
    BY <2>1 DEF Kinds, WhoKind, HolderKind, DrawKind, MarkKind, Draws, Holder
<1>3. CASE Looks(c)
  <2>1. PICK pc : Moved(c, pc) /\ (pc # "done" => <<r.op, r.pc, pc>> \in LookEdges)
    BY <1>3 DEF Looks
  <2>2. rec' = rec /\ outlaws' = outlaws
    BY <1>3 DEF Looks
  <2>3. call'[c].pc \notin {"enroll", "rename", "copy"}
    BY <2>1 DEF Moved, LookEdges
  <2>4. /\ mixed' = mixed /\ (Ends(call'[c]) \/ SameBut(call'[c], r))
    BY <2>1 DEF Moved
  <2>5. Touched(call'[c]) \subseteq Touched(r)
    BY <2>4, EndsRests, SameTouches
  <2>6. HolderKind(c)
    BY <2>4 DEF HolderKind, Holder, Ends, SameBut
  <2> QED
    BY <2>2, <2>3, <2>4, <2>5, <2>6 DEF Kinds, WhoKind, DrawKind, MarkKind, Draws
<1>4. ASSUME NEW new, Back(c, new)
      PROVE  Kinds(c)
  <2>1. PICK pc : Moved(c, pc) /\ pc \in {"done", "gate", "sign", "code"}
    BY <1>4 DEF Back
  <2>2. Held(c) /\ rec' = [rec EXCEPT ![r.user] = new] /\ new.who = Copy(c).who /\ outlaws' = outlaws
    BY <1>4 DEF Back
  <2>3. WhoKind(c)
    BY <1>t, <2>2 DEF WhoKind, Held
  <2> QED
    BY <2>1, <2>2, <2>3, KindStays DEF Moved, Held
<1>5. CASE UpdateEmail(c)
  <2>1. Held(c) /\ mixed' = mixed /\ SameBut(call'[c], r) /\ call'[c].pc \in {"since", "keyptr"}
    BY <1>5, EmailMoves
  <2>2. rec' = rec /\ outlaws' = outlaws
    BY <1>5 DEF UpdateEmail
  <2> QED
    BY <2>1, <2>2, KindStays DEF Held, WhoKind
<1>6. CASE UpdateKey(c) /\ ~(Stop(c) /\ UNCHANGED byKey)
  <2>1. Held(c) /\ Moved(c, "name")
    BY <1>t, <1>6, KeyMoves
  <2>2. rec' = rec /\ outlaws' = outlaws
    BY <1>6 DEF UpdateKey
  <2> QED
    BY <2>1, <2>2, KindStays DEF Held, WhoKind, Moved
<1>7. CASE RegisterWrite(c)
  <2>1. PICK new \in UserRecords :
          /\ rec' = [rec EXCEPT ![r.user] = new] /\ new.who = r.user /\ new.name = r.name /\ new.key = r.key
          /\ new.email = None
          /\ \/ Ends(call'[c])
             \/ /\ call'[c].pc = "save" /\ call'[c].copy = new /\ call'[c].user = r.user
                /\ call'[c].name = r.name /\ call'[c].key = r.key /\ call'[c].email = r.email
    BY <1>7, EnrollMoves
  <2>2. r.pc = "enroll" /\ mixed' = mixed /\ r.user \in Users /\ r.name \in Names /\ r.key \in Keys
    BY <1>7, EnrollMoves
  <2>3. outlaws' = outlaws
    BY <1>7 DEF RegisterWrite
  <2>4. Touched(call'[c]) \subseteq Touched(r)
    <3>1. r.user \in Touched(r) /\ r.name \in Touched(r) /\ r.key \in Touched(r) /\ (r.email # None => r.email \in Touched(r))
      BY <1>t, <2>2, Touches, AccountsAssumption DEF AccountsAssumption
    <3>2. CASE Ends(call'[c])
      BY <3>2, EndsRests
    <3>3. CASE ~Ends(call'[c])
      <4> DEFINE q == call'[c]
      <4>1. q.copy = new /\ q.user = r.user /\ q.name = r.name /\ q.key = r.key /\ q.email = r.email
        BY <2>1, <3>3
      <4> HIDE DEF q, r
      <4>2. Touched(q) \subseteq Touched(r)
        BY <2>1, <3>1, <4>1 DEF Touched
      <4> QED
        BY <4>2 DEF q, r
    <3> QED
      BY <3>2, <3>3
  <2>5. WhoKind(c)
    BY <1>t, <2>1, <2>2 DEF WhoKind
  <2>6. HolderKind(c)
    BY <1>t, <2>1, <2>2 DEF HolderKind, Holder, Ends
  <2>7. Draws(c)' = {}
    BY <2>1 DEF Draws, Ends
  <2> QED
    BY <2>2, <2>3, <2>4, <2>5, <2>6, <2>7 DEF Kinds, DrawKind, MarkKind
<1>8. CASE UpdatePointKey(c) \/ UpdatePointName(c) \/ UpdateRetire(c) \/ DeleteName(c) \/ DeleteKey(c) \/ VerifyMap(c) \/ RekeyName(c)
  <2>1. /\ Held(c)
        /\ \E pc \in {"nameptr", "record", "done", "unkey", "copy"} : Moved(c, pc) /\ (pc = "copy" => r.pc = "rename")
    BY <1>t, <1>8, WriteMoves DEF At
  <2>2. rec' = rec /\ outlaws' = outlaws
    BY <1>8 DEF UpdatePointKey, UpdatePointName, UpdateRetire, DeleteName, DeleteKey, VerifyMap, RekeyName, redisE
  <2> QED
    BY <2>1, <2>2, KindStays DEF Held, WhoKind, Moved
<1>9. CASE UpdateRecord(c)
  <2>1. Held(c) /\ r.op = "update" /\ \E pc \in {"retire", "done"} : Moved(c, pc)
    BY <1>t, <1>9, RecordMoves DEF At
  <2>2. PICK new : new = Updated(c)
    OBVIOUS
  <2>3. rec' = [rec EXCEPT ![r.user] = new] /\ outlaws' = outlaws
    BY <1>9, <2>2 DEF UpdateRecord
  <2>4. new.who = Copy(c).who
    BY <1>t, <2>1, <2>2, UpdatedIs
  <2>5. WhoKind(c)
    BY <1>t, <2>1, <2>3, <2>4 DEF WhoKind, Held
  <2> QED
    BY <2>1, <2>3, <2>5, KindStays DEF Held, Moved
<1>10. CASE DeleteRecord(c) \/ RekeyErase(c) \/ DeleteUser(c)
  <2>1. Held(c) /\ \E pc \in {"unname", "done"} : Moved(c, pc)
    BY <1>t, <1>10, WriteMoves
  <2>2. rec' = [rec EXCEPT ![r.user] = None] /\ outlaws' = outlaws
    BY <1>10 DEF DeleteRecord, RekeyErase, DeleteUser
  <2>3. WhoKind(c)
    BY <1>t, <2>2 DEF WhoKind
  <2> QED
    BY <2>1, <2>2, <2>3, KindStays DEF Held, Moved
<1>11. CASE RekeyCopy(c)
  <2>1. Held(c) /\ Moved(c, "erase") /\ At(c, "rekey", "copy")
    BY <1>t, <1>11, WriteMoves
  <2>2. PICK new : new = [Copy(c) EXCEPT !.pw = 0, !.legacy = FALSE]
    OBVIOUS
  <2>3. rec' = [rec EXCEPT ![r.to] = new] /\ outlaws' = outlaws
    BY <1>11, <2>2 DEF RekeyCopy
  <2>4. new.who = Copy(c).who
    BY <2>1, <2>2 DEF Held, UserRecords
  <2>5. WhoKind(c)
    BY <1>t, <2>1, <2>3, <2>4 DEF WhoKind, Held, Draws, At
  <2> QED
    BY <2>1, <2>3, <2>5, KindStays DEF Held, Moved
<1>12. CASE Evict(c)
  <2>1. Held(c) /\ Moved(c, "done")
    BY <1>t, <1>12, WriteMoves
  <2>2. rec' = rec /\ outlaws' = outlaws \cup {Copy(c).who}
    BY <1>12 DEF Evict
  <2> QED
    BY <2>1, <2>2, KindStays DEF Held, WhoKind, Moved
<1>13. CASE VerifyRecord(c)
  <2>1. Held(c) /\ Moved(c, "map")
    BY <1>t, <1>13, WriteMoves
  <2>2. PICK new : new = [Copy(c) EXCEPT !.email = call[c].email, !.verified = TRUE]
    OBVIOUS
  <2>3. rec' = [rec EXCEPT ![r.user] = new] /\ outlaws' = outlaws
    BY <1>13, <2>2 DEF VerifyRecord, redisE
  <2>4. new.who = Copy(c).who
    BY <2>1, <2>2 DEF Held, UserRecords
  <2>5. WhoKind(c)
    BY <1>t, <2>1, <2>3, <2>4 DEF WhoKind, Held
  <2> QED
    BY <2>1, <2>3, <2>5, KindStays DEF Held, Moved
<1> QED
  BY <1>1, <1>2, <1>3, <1>4, <1>5, <1>6, <1>7, <1>8, <1>9, <1>10, <1>11, <1>12, <1>13 DEF Acts

(* A step that does no more than end calls, if anything. *)
Still ==
  /\ UNCHANGED <<rec, byName, byKey, emailOwner, used, evicted, outlaws, mixed>> /\ cut \subseteq cut'
  /\ \A c \in Calls : call'[c] = call[c] \/ (Ends(call'[c]) /\ Left(c) \subseteq cut')

LEMMA StepKinds ==
  ASSUME Typed, [Next]_vars
  PROVE  Still \/ \E c \in Calls : Acts(c)
<1>1. CASE UNCHANGED vars
  BY <1>1 DEF vars, Still
<1>2. CASE Tick
  BY <1>2 DEF Tick, Still
<1>3. CASE Restart
  <2>1. /\ UNCHANGED Acted /\ mixed' = mixed /\ cut' = cut \cup UNION {Left(c) : c \in Active}
        /\ \A c \in Calls : Ends(call'[c]) \/ (call'[c] = call[c] /\ call[c].pc \in {"start", "done"})
    BY <1>3, RestartIs DEF Typed
  <2>2. \A c \in Calls : call'[c] = call[c] \/ (Ends(call'[c]) /\ Left(c) \subseteq cut')
    <3>1. ASSUME NEW c \in Calls, call'[c] # call[c]
          PROVE  Ends(call'[c]) /\ Left(c) \subseteq cut'
      <4>1. Ends(call'[c])
        BY <2>1, <3>1
      <4>2. CASE c \in Active
        BY <2>1, <4>1, <4>2
      <4>3. CASE c \notin Active
        BY <1>3, <3>1, <4>3 DEF Restart
      <4> QED
        BY <4>2, <4>3
    <3> QED
      BY <3>1
  <2> QED
    BY <2>1, <2>2 DEF Still, Acted
<1>4. ASSUME NEW n \in Names, Expire(n)
      PROVE  Still
  BY <1>4 DEF Expire, redis, Still
<1> QED
  BY <1>1, <1>2, <1>3, <1>4, StepActs

LEMMA ApartStep ==
  ASSUME Typed, Separate, [Next]_vars
  PROVE  Separate'
<1>1. CASE Still
  BY <1>1, EndsRests DEF Still, Separate
<1>2. ASSUME NEW c \in Calls, Acts(c)
      PROVE  Separate'
  <2>1. Kinds(c) /\ Frame(c)
    BY <1>2, ActKinds, ActFrame
  <2>2. mixed \subseteq mixed' /\ \A d \in Calls \ {c} : call'[d] = call[d]
    BY <2>1 DEF Frame
  <2>3. \A d \in Calls \ {c} : Touched(call'[c]) \cap Touched(call[d]) \subseteq mixed'
    <3>1. CASE mixed' = mixed /\ Touched(call'[c]) \subseteq Touched(call[c])
      BY <3>1 DEF Separate
    <3>2. CASE Meet(c, call'[c])
      <4>1. ASSUME NEW d \in Calls \ {c}
            PROVE  Touched(call'[c]) \cap Touched(call[d]) \subseteq mixed'
        <5>1. CASE d \in Active
          BY <3>2, <5>1 DEF Meet
        <5>2. CASE d \notin Active
          BY <5>2, RestIs DEF Active, Typed
        <5> QED
          BY <5>1, <5>2
      <4> QED
        BY <4>1
    <3> QED
      BY <2>1, <3>1, <3>2 DEF Kinds
  <2> QED
    BY <2>2, <2>3 DEF Separate
<1> QED
  BY <1>1, <1>2, StepKinds

-----------------------------------------------------------------------------
(* Ids are drawn once *)

LEMMA StillDraws ==
  ASSUME Typed, Still
  PROVE  \A d \in Calls : /\ Holder(d)' => Holder(d) /\ call'[d] = call[d]
                          /\ Draws(d)' \subseteq Draws(d)
BY DEF Still, Ends, Holder, Draws

LEMMA DrawStep ==
  ASSUME Typed, DrawInv, [Next]_vars
  PROVE  DrawInv'
<1>t. /\ CallsTyped /\ DataTyped /\ rec \in [Users -> Ids(UserRecords)]
  BY DEF Typed, DataTyped
<1>1. CASE Still
  <2>1. \A d \in Calls : (Holder(d)' => Holder(d) /\ call'[d] = call[d]) /\ Draws(d)' \subseteq Draws(d)
    BY <1>1, StillDraws
  <2>2. UNCHANGED <<rec, used, outlaws>>
    BY <1>1 DEF Still
  <2>3. Live' = Live
    BY <2>2 DEF Live
  <2>4. \A x : Unborn(x) => Unborn(x)'
    BY <2>1, <2>2, <2>3 DEF Unborn
  <2> QED
    BY <2>1, <2>2, <2>3, <2>4 DEF DrawInv
<1>2. ASSUME NEW c \in Calls, Acts(c)
      PROVE  DrawInv'
  <2>1. Kinds(c) /\ Frame(c)
    BY <1>2, ActKinds, ActFrame
  <2>2. /\ used \subseteq used' /\ \A d \in Calls \ {c} : call'[d] = call[d]
        /\ \A u \in Users : rec'[u] = rec[u] \/ u \in Draws(c) \/ (Holder(c) /\ u = call[c].user)
    BY <2>1 DEF Frame
  <2>3. /\ WhoKind(c) /\ HolderKind(c) /\ DrawKind(c) /\ MarkKind(c)
    BY <2>1 DEF Kinds
  <2>4. call[c].pc = "enroll" => call[c].user \in Draws(c)
    BY DEF Draws
  <2>5. \A x \in Draws(c) : x \in used
    BY DEF DrawInv, Unborn
  <2>6. Holder(c) => call[c].user \in used /\ Copy(c).who \in used
    BY DEF DrawInv, Copy
  <2>7. \A u \in Live' : u \in used' /\ rec'[u].who \in used'
    BY <2>2, <2>3, <2>4, <2>5, <2>6 DEF DrawInv, WhoKind, Live
  <2>8. \A d \in Calls : Holder(d)' => call'[d].user \in used' /\ call'[d].copy.who \in used'
    <3>1. ASSUME NEW d \in Calls \ {c}, Holder(d)'
          PROVE  call'[d].user \in used' /\ call'[d].copy.who \in used'
      BY <2>2, <3>1 DEF DrawInv, Holder
    <3>2. ASSUME Holder(c)'
          PROVE  call'[c].user \in used' /\ call'[c].copy.who \in used'
      BY <2>2, <2>3, <2>4, <2>5, <2>6, <3>2 DEF DrawInv, HolderKind, Copy
    <3> QED
      BY <3>1, <3>2
  <2>9. outlaws' \subseteq used'
    BY <2>2, <2>3, <2>6 DEF DrawInv, MarkKind
  <2>10. ASSUME NEW d \in Calls \ {c}, NEW x \in Draws(d)
         PROVE  Unborn(x)'
    <3>1. Unborn(x) /\ x \notin Draws(c) /\ x \in Users
      BY <1>t DEF DrawInv, Unborn, DataTyped
    <3>2. rec'[x] = rec[x]
      BY <2>2, <3>1 DEF Unborn
    <3>3. \A e \in Calls : Holder(e)' => call'[e].user # x /\ call'[e].copy.who # x
      <4>1. ASSUME NEW e \in Calls \ {c}, Holder(e)'
            PROVE  call'[e].user # x /\ call'[e].copy.who # x
        BY <2>2, <3>1, <4>1 DEF Unborn, Holder
      <4>2. ASSUME Holder(c)'
            PROVE  call'[c].user # x /\ call'[c].copy.who # x
        BY <2>3, <2>4, <3>1, <4>2 DEF Unborn, HolderKind, Live
      <4> QED
        BY <4>1, <4>2
    <3>4. x \notin outlaws'
      BY <2>3, <3>1 DEF MarkKind, Unborn, Copy
    <3>5. \A u \in Live' : rec'[u].who # x
      BY <2>3, <2>4, <3>1 DEF WhoKind, Unborn, Live, Copy
    <3> QED
      BY <2>2, <3>1, <3>2, <3>3, <3>4, <3>5 DEF Unborn
  <2>11. ASSUME NEW x \in Draws(c)'
         PROVE  Unborn(x)' /\ \A d \in Calls \ {c} : x \notin Draws(d)
    <3>1. CASE x \in Draws(c) /\ rec' = rec
      <4>1. Unborn(x) /\ \A d \in Calls \ {c} : x \notin Draws(d)
        BY <3>1 DEF DrawInv
      <4>2. \A e \in Calls : Holder(e)' => call'[e].user # x /\ call'[e].copy.who # x
        <5>1. ASSUME NEW e \in Calls \ {c}, Holder(e)'
              PROVE  call'[e].user # x /\ call'[e].copy.who # x
          BY <2>2, <4>1, <5>1 DEF Unborn, Holder
        <5>2. ASSUME Holder(c)'
              PROVE  call'[c].user # x /\ call'[c].copy.who # x
          <6>1. ~(rec'[call'[c].user] = call'[c].copy /\ call'[c].user = x)
            BY <3>1, <4>1, <5>2 DEF Unborn, Holder
          <6>2. call[c].pc = "enroll" => Draws(c) = {call[c].user}
            BY DEF Draws
          <6> QED
            BY <2>3, <3>1, <4>1, <5>2, <6>1, <6>2 DEF Unborn, HolderKind, Live
        <5> QED
          BY <5>1, <5>2
      <4>3. x \notin outlaws'
        BY <2>3, <4>1 DEF MarkKind, Unborn, Copy
      <4> QED
        BY <2>2, <3>1, <4>1, <4>2, <4>3 DEF Unborn, Live
    <3>2. CASE x \in used' \ used /\ x \in Users /\ rec' = rec /\ outlaws' = outlaws
      <4>1. /\ x \notin Live /\ x \notin outlaws /\ \A u \in Live : rec[u].who # x
            /\ \A d \in Calls : Holder(d) => call[d].user # x /\ call[d].copy.who # x
            /\ \A d \in Calls : x \notin Draws(d)
        BY <3>2 DEF DrawInv, Unborn
      <4>2. \A e \in Calls : Holder(e)' => call'[e].user # x /\ call'[e].copy.who # x
        <5>1. ASSUME NEW e \in Calls \ {c}, Holder(e)'
              PROVE  call'[e].user # x /\ call'[e].copy.who # x
          BY <2>2, <4>1, <5>1 DEF Holder
        <5>2. ASSUME Holder(c)'
              PROVE  call'[c].user # x /\ call'[c].copy.who # x
          BY <2>3, <2>4, <3>2, <4>1, <5>2 DEF HolderKind
        <5> QED
          BY <5>1, <5>2
      <4> QED
        BY <3>2, <4>1, <4>2 DEF Unborn, Live
    <3> QED
      BY <2>3, <3>1, <3>2 DEF DrawKind
  <2>12. \A d \in Calls \ {c} : Draws(d)' = Draws(d)
    BY <2>2 DEF Draws
  <2> QED
    BY <2>7, <2>8, <2>9, <2>10, <2>11, <2>12 DEF DrawInv
<1> QED
  BY <1>1, <1>2, StepKinds

-----------------------------------------------------------------------------
(* A person keeps an id *)

LEMMA WhoStep ==
  ASSUME Typed, DrawInv, WhoInv, [Next]_vars
  PROVE  WhoInv'
<1>1. CASE Still
  BY <1>1, StillDraws DEF Still, WhoInv, Live
<1>2. ASSUME NEW c \in Calls, Acts(c)
      PROVE  WhoInv'
  <2>1. Kinds(c) /\ Frame(c)
    BY <1>2, ActKinds, ActFrame
  <2>2. /\ \A d \in Calls \ {c} : call'[d] = call[d]
        /\ \A u \in Users : rec'[u] = rec[u] \/ u \in Draws(c) \/ (Holder(c) /\ u = call[c].user)
    BY <2>1 DEF Frame
  <2>3. WhoKind(c) /\ HolderKind(c)
    BY <2>1 DEF Kinds
  <2>4. /\ call[c].pc = "enroll" => call[c].user \in Draws(c)
        /\ \A d \in Calls, x \in Draws(c) : Holder(d) => call[d].user # x
    BY DEF Draws, DrawInv, Unborn
  <2>5. ASSUME NEW d \in Calls \ {c}, Holder(d)', call'[d].user \in Live'
        PROVE  rec'[call'[d].user].who = call'[d].copy.who
    <3>1. Holder(d) /\ call'[d] = call[d] /\ call[d].user \in Users /\ rec'[call[d].user] # None
      BY <2>2, <2>5 DEF Holder, Live
    <3> DEFINE u == call[d].user
    <3>2. u \notin Draws(c) /\ (call[c].pc = "enroll" => u # call[c].user)
      BY <2>4, <3>1
    <3>3. CASE rec'[u] = rec[u]
      BY <3>1, <3>3 DEF WhoInv, Live
    <3>4. CASE Holder(c) /\ u = call[c].user /\ rec'[u].who = Copy(c).who
      BY <3>1, <3>4 DEF WhoInv, Copy
    <3> QED
      BY <2>3, <3>1, <3>2, <3>3, <3>4 DEF WhoKind
  <2>6. ASSUME Holder(c)', call'[c].user \in Live'
        PROVE  rec'[call'[c].user].who = call'[c].copy.who
    <3> DEFINE u == call'[c].user
    <3>1. CASE Holder(c) /\ u = call[c].user /\ call'[c].copy = call[c].copy
      <4>1. u \in Users /\ rec'[u] # None /\ u \notin Draws(c) /\ (call[c].pc = "enroll" => u # call[c].user)
        BY <2>4, <2>6, <3>1 DEF Live
      <4>2. CASE rec'[u] = rec[u]
        BY <3>1, <4>1, <4>2 DEF WhoInv, Live
      <4>3. CASE Holder(c) /\ u = call[c].user /\ rec'[u].who = Copy(c).who
        BY <3>1, <4>3 DEF Copy
      <4> QED
        BY <2>3, <4>1, <4>2, <4>3 DEF WhoKind
    <3>2. CASE u \in Live /\ call'[c].copy = rec[u] /\ rec' = rec
      BY <3>2
    <3>3. CASE rec'[u] = call'[c].copy
      BY <3>3
    <3> QED
      BY <2>3, <2>6, <3>1, <3>2, <3>3 DEF HolderKind
  <2>7. ASSUME NEW d \in Calls \ {c}, Holder(d)', Holder(c)', call'[d].user = call'[c].user
        PROVE  call'[d].copy.who = call'[c].copy.who
    <3>1. Holder(d) /\ call'[d] = call[d]
      BY <2>2, <2>7 DEF Holder
    <3> DEFINE u == call'[c].user
    <3>2. CASE Holder(c) /\ u = call[c].user /\ call'[c].copy = call[c].copy
      BY <2>7, <3>1, <3>2 DEF WhoInv
    <3>3. CASE u \in Live /\ call'[c].copy = rec[u] /\ rec' = rec
      BY <2>7, <3>1, <3>3 DEF WhoInv
    <3>4. CASE call[c].pc = "enroll" /\ u = call[c].user
      BY <2>4, <2>7, <3>1, <3>4
    <3> QED
      BY <2>3, <2>7, <3>2, <3>3, <3>4 DEF HolderKind
  <2>8. ASSUME NEW d \in Calls \ {c}, NEW e \in Calls \ {c}, Holder(d)', Holder(e)', call'[d].user = call'[e].user
        PROVE  call'[d].copy.who = call'[e].copy.who
    BY <2>2, <2>8 DEF WhoInv, Holder
  <2> QED
    BY <2>5, <2>6, <2>7, <2>8 DEF WhoInv
<1> QED
  BY <1>1, <1>2, StepKinds

-----------------------------------------------------------------------------
(* What a call has read stays true *)

LEMMA CopyOther ==
  ASSUME Typed, Separate, DrawInv, WhoInv, CopyInv, Separate', NEW c \in Calls, Acts(c), NEW d \in Calls \ {c}
  PROVE  CopyOf(d)'
<1> DEFINE r == call[d]
<1>t. CallsTyped
  BY DEF Typed
<1>1. Frame(c) /\ Kinds(c) /\ HolderKind(c)
  BY ActFrame, ActKinds DEF Kinds
<1>2. call'[d] = r /\ mixed \subseteq mixed' /\ CopyOf(d)
  BY <1>1 DEF Frame, CopyInv
<1>3. ASSUME Holder(d), Quiet(d)
      PROVE  rec'[r.user] = rec[r.user]
  <2>1. r.user # None /\ r.user \in Users /\ r.pc \notin {"start", "done"}
    BY <1>t, <1>3, StepIs, RestIs DEF Holder
  <2>2. r.user \notin Draws(c)
    BY <1>3 DEF DrawInv, Unborn
  <2>3. ASSUME Holder(c), call[c].user = r.user
        PROVE  FALSE
    <3>1. call[c].copy.who = r.copy.who
      BY <1>3, <2>3 DEF WhoInv
    <3>2. /\ r.user \in Touched(call[c]) \cap Touched(r)
          /\ r.copy.who \in Touched(call[c]) \cap Touched(r)
      BY <1>t, <1>3, <2>1, <2>3, <3>1, Touches DEF Copy
    <3> QED
      BY <1>3, <3>2 DEF Separate, Quiet
  <2> QED
    BY <1>1, <2>1, <2>2, <2>3 DEF Frame
<1>4. ASSUME Holder(d)', Quiet(d)'
      PROVE  /\ call'[d].pc \notin {"retire", "unname", "unkey", "code", "map"} => Same(rec'[call'[d].user], call'[d].copy)
             /\ call'[d].pc = "map" => /\ rec'[call'[d].user] # None
                                       /\ rec'[call'[d].user].email = call'[d].email
  <2>1. Holder(d) /\ Quiet(d)
    BY <1>2, <1>4 DEF Holder, Quiet
  <2> QED
    BY <1>2, <1>3, <2>1 DEF CopyOf, Copy
<1>5. ASSUME At(d, "rekey", "erase")', call'[d].copy.who \notin mixed' \/ call'[d].copy.name \notin mixed'
      PROVE  /\ Same(rec'[call'[d].to], call'[d].copy)
             /\ \A e \in Calls : Holder(e)' => call'[e].user # call'[d].to
  <2>1. At(d, "rekey", "erase") /\ (Copy(d).who \notin mixed \/ Copy(d).name \notin mixed)
    BY <1>2, <1>5 DEF At, Copy
  <2>2. Same(rec[r.to], r.copy) /\ \A e \in Calls : Holder(e) => call[e].user # r.to
    BY <1>2, <2>1 DEF CopyOf, Copy
  <2>3. r.to \in Users /\ rec[r.to] # None /\ r.to \notin Draws(c) /\ Holder(d)
    <3>1. r.to \in Users /\ Holder(d)
      BY <1>t, <2>1, StepIs DEF At, NoCopy, Holder
    <3> QED
      BY <2>2, <3>1 DEF DrawInv, Unborn, Same
  <2>4. rec'[r.to] = rec[r.to]
    BY <1>1, <2>2, <2>3 DEF Frame
  <2>5. ASSUME Holder(c)', call'[c].user = r.to
        PROVE  FALSE
    <3>1. ~(Holder(c) /\ call'[c].user = call[c].user)
      BY <2>2, <2>5
    <3>2. ~(call[c].pc = "enroll" /\ call'[c].user = call[c].user)
      BY <2>3, <2>5 DEF Draws
    <3>3. call'[c].copy = rec[r.to]
      BY <1>1, <2>5, <3>1, <3>2 DEF HolderKind
    <3>4. r.copy.who \in Touched(r) /\ r.copy.name \in Touched(r)
      BY <1>t, <2>3, Touches DEF Copy
    <3>5. CallsTyped'
      BY ActTyped
    <3>6. call'[c].copy.who \in Touched(call'[c]) /\ call'[c].copy.name \in Touched(call'[c])
      <4> DEFINE q == call'[c]
      <4>1. q.copy # None /\ q.copy.name # None /\ q.copy.who # None
        <5>1. q.copy \in UserRecords
          BY <2>3, <3>3 DEF Typed, DataTyped, Ids
        <5> QED
          BY <5>1, RecordIs, AccountsAssumption DEF AccountsAssumption
      <4> HIDE DEF q
      <4>2. q.copy.who \in Touched(q) /\ q.copy.name \in Touched(q)
        BY <4>1 DEF Touched
      <4> QED
        BY <4>2 DEF q
    <3>7. Touched(call'[c]) \cap Touched(r) \subseteq mixed'
      BY <1>2 DEF Separate
    <3> QED
      BY <1>2, <1>5, <2>2, <3>3, <3>4, <3>6, <3>7 DEF Same
  <2>6. \A e \in Calls \ {c} : call'[e] = call[e]
    BY <1>1 DEF Frame
  <2> QED
    BY <1>2, <2>2, <2>4, <2>5, <2>6 DEF Holder
<1> QED
  BY <1>4, <1>5 DEF CopyOf, Copy


LEMMA CopyActor ==
  ASSUME Typed, DrawInv, CopyInv, NEW c \in Calls, Acts(c)
  PROVE  CopyOf(c)'
<1> DEFINE r == call[c]
           q == call'[c]
<1>t. CallsTyped /\ rec \in [Users -> Ids(UserRecords)] /\ mixed \subseteq mixed'
  BY ActFrame DEF Typed, DataTyped, Frame
(* Nothing is read, or forgotten. *)
<1>a. ASSUME ~Holder(c)'
      PROVE  CopyOf(c)'
  <2>1. CallsTyped'
    BY ActTyped
  <2>2. ~At(c, "rekey", "erase")'
    BY <1>a, <2>1, StepIs DEF At, Holder, NoCopy, Typed, CallsTyped, PathOf
  <2> QED
    BY <1>a, <2>2 DEF CopyOf
<1>e. ASSUME Ends(q)
      PROVE  CopyOf(c)'
  BY <1>a, <1>e DEF Ends, Holder
(* The call goes on, its record is as it was. *)
<1>b. ASSUME Held(c), SameBut(q, r), rec'[r.user] = rec[r.user],
             r.pc \notin {"retire", "unname", "unkey", "code", "map"}, q.pc \notin {"map", "erase"}
      PROVE  CopyOf(c)'
  <2>1. Holder(c) /\ CopyOf(c) /\ q.user = r.user /\ q.copy = r.copy /\ Copy(c)' = Copy(c)
    BY <1>b DEF Held, SameBut, CopyInv, Copy
  <2>2. Quiet(c)' => Quiet(c)
    BY <1>t, <2>1 DEF Quiet
  <2>3. ~At(c, "rekey", "erase")'
    BY <1>b DEF At
  <2>4. Quiet(c)' => Same(rec'[q.user], Copy(c)')
    BY <1>b, <2>1, <2>2 DEF CopyOf
  <2> QED
    BY <1>b, <2>3, <2>4 DEF CopyOf
(* The call has just written or read what it knows. *)
<1>d. ASSUME q.pc \notin {"retire", "unname", "unkey", "code"} => Same(rec'[q.user], Copy(c)'), q.pc \notin {"map", "erase"}
      PROVE  CopyOf(c)'
  BY <1>d DEF CopyOf, At
(* Nothing is claimed of it. *)
<1>f. ASSUME q.pc \in {"retire", "unname", "unkey", "code"}
      PROVE  CopyOf(c)'
  BY <1>f DEF CopyOf, At
<1>1. ASSUME NEW p, ReadsAs(c, p)
      PROVE  CopyOf(c)'
  <2>1. q = p /\ p.user \in Live /\ p.copy = rec[p.user] /\ rec' = rec
    BY <1>t, <1>1, ReadTyped DEF ReadsAs, Untouched
  <2>2. p.pc \notin {"map", "erase"}
    BY <1>1 DEF ReadsAs
  <2> QED
    BY <1>d, <2>1, <2>2 DEF Same, Live, Copy
<1>2. ASSUME NEW p, StartsAs(c, p)
      PROVE  CopyOf(c)'
  <2>1. q = p /\ p.copy = None
    BY <1>t, <1>2, StartTyped DEF StartsAs
  <2> QED
    BY <1>a, <2>1 DEF Holder
<1>3. CASE Looks(c)
  <2>1. PICK pc : Moved(c, pc) /\ (pc # "done" => <<r.op, r.pc, pc>> \in LookEdges)
    BY <1>3 DEF Looks
  <2>2. CASE pc = "done"
    BY <1>e, <2>1, <2>2 DEF Moved
  <2>3. CASE pc # "done"
    <3>1. /\ SameBut(q, r) /\ q.pc = pc
          /\ r.pc \notin {"retire", "unname", "unkey", "code", "map"} /\ pc \notin {"map", "erase"}
      BY <2>1, <2>3 DEF Moved, LookEdges
    <3>2. rec' = rec /\ r.pc \notin {"start", "done"}
      BY <1>3 DEF Looks
    <3>3. Holder(c)' => Held(c)
      BY <1>t, <3>1, <3>2, StepIs, HeldIs DEF Holder, SameBut
    <3> QED
      BY <1>a, <1>b, <3>1, <3>2, <3>3
  <2> QED
    BY <2>2, <2>3
<1>4. ASSUME NEW new, Back(c, new)
      PROVE  CopyOf(c)'
  <2>1. PICK pc : Moved(c, pc) /\ pc \in {"done", "gate", "sign", "code"} /\ (pc = "code" \/ (new.verified <=> Copy(c).verified))
    BY <1>4 DEF Back
  <2>2. /\ rec' = [rec EXCEPT ![r.user] = new] /\ r.user \in Users /\ new # None
        /\ new.name = Copy(c).name /\ new.key = Copy(c).key /\ new.who = Copy(c).who /\ new.email = Copy(c).email
    BY <1>4, RecordIs DEF Back, Held
  <2>3. CASE pc = "done"
    BY <1>e, <2>1, <2>3 DEF Moved
  <2>4. CASE pc = "code"
    BY <1>f, <2>1, <2>4 DEF Moved
  <2>5. CASE pc \in {"gate", "sign"}
    <3>1. q.user = r.user /\ q.copy = r.copy /\ q.pc = pc
      BY <2>1, <2>5 DEF Moved, SameBut
    <3>2. rec'[r.user] = new
      BY <1>t, <2>2
    <3> QED
      BY <1>d, <2>1, <2>2, <2>5, <3>1, <3>2 DEF Same, Copy
  <2> QED
    BY <2>1, <2>3, <2>4, <2>5
<1>5. CASE UpdateEmail(c)
  <2>1. At(c, "update", "email") /\ Held(c) /\ SameBut(q, r) /\ q.pc \in {"since", "keyptr"}
    BY <1>5, EmailMoves
  <2>2. rec' = rec
    BY <1>5 DEF UpdateEmail
  <2> QED
    BY <1>b, <2>1, <2>2 DEF At
<1>6. CASE UpdateKey(c) /\ ~(Stop(c) /\ UNCHANGED byKey)
  <2>1. At(c, "update", "key") /\ Held(c) /\ Moved(c, "name")
    BY <1>t, <1>6, KeyMoves
  <2>2. rec' = rec
    BY <1>6 DEF UpdateKey
  <2> QED
    BY <1>b, <2>1, <2>2 DEF At, Moved
<1>7. CASE RegisterWrite(c)
  <2>1. PICK new \in UserRecords :
          /\ rec' = [rec EXCEPT ![r.user] = new]
          /\ Ends(q) \/ (q.pc = "save" /\ q.copy = new /\ q.user = r.user)
    BY <1>7, EnrollMoves
  <2>2. r.user \in Users /\ new # None
    BY <1>7, EnrollMoves, RecordIs
  <2>3. rec'[r.user] = new
    BY <1>t, <2>1, <2>2
  <2> QED
    BY <1>d, <1>e, <2>1, <2>2, <2>3 DEF Same, Copy
<1>8. CASE UpdatePointKey(c) \/ UpdatePointName(c) \/ RekeyName(c)
  <2>1. Held(c) /\ r.pc \in {"keyptr", "nameptr", "rename"} /\ \E pc \in {"nameptr", "record", "copy"} : Moved(c, pc)
    BY <1>t, <1>8, WriteMoves DEF At
  <2>2. rec' = rec
    BY <1>8 DEF UpdatePointKey, UpdatePointName, RekeyName
  <2> QED
    BY <1>b, <2>1, <2>2 DEF Moved
<1>9. CASE UpdateRecord(c)
  <2>1. \E pc \in {"retire", "done"} : Moved(c, pc)
    BY <1>t, <1>9, RecordMoves
  <2> QED
    BY <1>e, <1>f, <2>1 DEF Moved
<1>10. CASE UpdateRetire(c) \/ DeleteKey(c) \/ VerifyMap(c) \/ RekeyErase(c) \/ DeleteUser(c) \/ Evict(c) \/ DeleteRecord(c) \/ DeleteName(c)
  <2>1. \E pc \in {"done", "unname", "unkey"} : Moved(c, pc)
    BY <1>t, <1>10, WriteMoves
  <2> QED
    BY <1>e, <1>f, <2>1 DEF Moved
<1>11. CASE RekeyCopy(c)
  <2>1. Held(c) /\ Moved(c, "erase") /\ At(c, "rekey", "copy") /\ SameBut(q, r) /\ q.pc = "erase"
    BY <1>t, <1>11, WriteMoves DEF Moved
  <2>2. PICK new : new = [Copy(c) EXCEPT !.pw = 0, !.legacy = FALSE]
    OBVIOUS
  <2>3. rec' = [rec EXCEPT ![r.to] = new] /\ r.to \in Users
    BY <1>11, <2>1, <2>2 DEF RekeyCopy, Held, At
  <2>4. new \in UserRecords /\ new.name = Copy(c).name /\ new.key = Copy(c).key /\ new.who = Copy(c).who /\ new.email = Copy(c).email
        /\ (new.verified <=> Copy(c).verified)
    BY <2>1, <2>2 DEF Held, UserRecords
  <2>5. Holder(c) /\ q.user = r.user /\ q.copy = r.copy /\ q.to = r.to /\ Copy(c)' = Copy(c)
    BY <2>1 DEF Held, SameBut, Copy
  <2>6. Unborn(r.to)
    BY <2>1 DEF DrawInv, Draws, At
  <2>7. rec'[r.to] = new /\ rec'[r.user] = rec[r.user]
    BY <1>t, <2>3, <2>5, <2>6 DEF Unborn
  <2>8. Same(rec'[q.to], Copy(c)')
    BY <2>4, <2>5, <2>7, RecordIs DEF Same
  <2>9. \A e \in Calls : Holder(e)' => call'[e].user # q.to
    BY <2>1, <2>5, <2>6 DEF Unborn, Moved, Holder
  <2>10. Quiet(c)' => Same(rec'[q.user], Copy(c)')
    BY <1>t, <2>1, <2>5, <2>7 DEF Quiet, CopyInv, CopyOf, At
  <2> QED
    BY <2>1, <2>8, <2>9, <2>10 DEF CopyOf
<1>12. CASE VerifyRecord(c)
  <2>1. Held(c) /\ Moved(c, "map") /\ At(c, "verify", "write") /\ SameBut(q, r) /\ q.pc = "map" /\ r.email \in Emails
    BY <1>t, <1>12, WriteMoves DEF Moved, Held, At
  <2>2. PICK new : new = [Copy(c) EXCEPT !.email = r.email, !.verified = TRUE]
    OBVIOUS
  <2>3. rec' = [rec EXCEPT ![r.user] = new] /\ r.user \in Users
    BY <1>12, <2>1, <2>2 DEF VerifyRecord, Held
  <2>4. new \in UserRecords /\ new.email = r.email
    BY <2>1, <2>2 DEF Held, UserRecords
  <2>5. rec'[r.user] = new
    BY <1>t, <2>3
  <2> QED
    BY <2>1, <2>4, <2>5, RecordIs DEF CopyOf, At, SameBut
<1> QED
  BY <1>1, <1>2, <1>3, <1>4, <1>5, <1>6, <1>7, <1>8, <1>9, <1>10, <1>11, <1>12 DEF Acts

LEMMA CopyStep ==
  ASSUME Typed, Separate, DrawInv, WhoInv, CopyInv, [Next]_vars
  PROVE  CopyInv'
<1>1. CASE Still
  <2>1. mixed' = mixed /\ rec' = rec
    BY <1>1 DEF Still
  <2> SUFFICES ASSUME NEW d \in Calls PROVE CopyOf(d)'
    BY DEF CopyInv
  <2>2. Typed'
    BY TypedStep
  <2>3. \A e \in Calls : Holder(e)' => Holder(e) /\ call'[e] = call[e]
    BY <1>1, StillDraws
  <2>4. CASE call'[d] = call[d]
    BY <2>1, <2>3, <2>4 DEF CopyInv, CopyOf, Same, At, Copy, Holder, Quiet
  <2>5. CASE call'[d].copy = None /\ call'[d].pc = "done"
    BY <2>5 DEF CopyOf, At, Holder
  <2> QED
    BY <1>1, <2>4, <2>5 DEF Still, Ends
<1>2. ASSUME NEW c \in Calls, Acts(c)
      PROVE  CopyInv'
  <2>1. Separate'
    BY ApartStep
  <2> QED
    BY <1>2, <2>1, CopyOther, CopyActor DEF CopyInv
<1> QED
  BY <1>1, <1>2, StepKinds

(* Only some steps write a record. *)
LEMMA WritersAre ==
  ASSUME Typed, NEW c \in Calls, Acts(c)
  PROVE  \/ rec' = rec
         \/ call[c].pc \in {"enroll", "save", "rehash", "attach", "unverify", "record", "gone", "wipe",
                            "copy", "erase", "write"}
<1>t. CallsTyped
  BY DEF Typed
<1>1. CASE \/ \E q : ReadsAs(c, q)
           \/ \E q : StartsAs(c, q)
           \/ Looks(c) \/ UpdateEmail(c) \/ UpdateKey(c)
           \/ UpdatePointKey(c) \/ UpdatePointName(c) \/ UpdateRetire(c)
           \/ DeleteName(c) \/ DeleteKey(c) \/ RekeyName(c) \/ Evict(c) \/ VerifyMap(c)
  BY <1>1 DEF ReadsAs, StartsAs, Untouched, Looks, UpdateEmail, UpdateKey, UpdatePointKey, UpdatePointName, UpdateRetire,
              DeleteName, DeleteKey, RekeyName, Evict, VerifyMap, redisE
<1>2. CASE \E new : Back(c, new)
  BY <1>2 DEF Back
<1>3. CASE RegisterWrite(c)
  BY <1>3, EnrollMoves
<1>4. CASE UpdateRecord(c) \/ DeleteRecord(c) \/ DeleteUser(c) \/ RekeyCopy(c) \/ RekeyErase(c) \/ VerifyRecord(c)
  BY <1>t, <1>4, RecordMoves, WriteMoves DEF At
<1> QED
  BY <1>1, <1>2, <1>3, <1>4 DEF Acts

(* A name that a call touches is the one it works for, or the one of the record. *)
LEMMA OwnsAre ==
  ASSUME CallsTyped, NEW c \in Calls, NEW x \in Touched(call[c])
  PROVE  /\ x \in Names => x = call[c].name \/ (Holder(c) /\ x = Copy(c).name)
         /\ x \in Keys => x = call[c].key \/ (Holder(c) /\ x = Copy(c).key)
         /\ x \in Emails => x = call[c].email \/ (Holder(c) /\ x = Copy(c).email)
         /\ x \in Users => x = call[c].user \/ (Holder(c) /\ x = Copy(c).who)
<1> DEFINE r == call[c]
<1>1. /\ r.user \in Ids(Users) /\ r.name \in Ids(Names) /\ r.key \in Ids(Keys) /\ r.email \in Ids(Emails)
      /\ r.copy \in Ids(UserRecords)
  BY FieldsAre DEF CallsTyped
<1>2. r.copy # None => /\ r.copy.name \in Names /\ r.copy.key \in Keys /\ r.copy.email \in Ids(Emails) /\ r.copy.who \in Users
  BY <1>1, RecordIs DEF Ids
<1>3. x \in {r.user, r.name, r.key, r.email} \/ (r.copy # None /\ x \in {r.copy.name, r.copy.key, r.copy.email, r.copy.who})
  BY DEF Touched
<1>4. x # None
  BY DEF Touched
<1> HIDE DEF r
<1>5. /\ x \in Names => x = r.name \/ (r.copy # None /\ x = r.copy.name)
      /\ x \in Keys => x = r.key \/ (r.copy # None /\ x = r.copy.key)
      /\ x \in Emails => x = r.email \/ (r.copy # None /\ x = r.copy.email)
      /\ x \in Users => x = r.user \/ (r.copy # None /\ x = r.copy.who)
  BY <1>1, <1>2, <1>3, <1>4, AccountsAssumption DEF AccountsAssumption, Ids
<1> QED
  BY <1>5 DEF r, Holder, Copy

LEMMA LeftsAre ==
  ASSUME CallsTyped, NEW c \in Calls
  PROVE  NameLeft(c) \subseteq Touched(call[c]) /\ KeyLeft(c) \subseteq Touched(call[c])
<1>1. NameLeft(c) # {} \/ KeyLeft(c) # {} => Held(c)
  <2>1. NameLeft(c) # {} \/ KeyLeft(c) # {} =>
          /\ call[c].pc \notin {"start", "done"}
          /\ call[c].pc \in {"retire", "unname", "copy", "erase", "record", "name", "email", "since", "keyptr", "nameptr", "unkey"}
    BY DEF NameLeft, KeyLeft
  <2> QED
    BY <2>1, StepIs, HeldIs DEF NoCopy, IsStep
<1>2. Held(c) /\ call[c].name # None => call[c].name \in Touched(call[c])
  BY Touches
<1>3. Held(c) => Copy(c).name \in Touched(call[c]) /\ Copy(c).key \in Touched(call[c])
  BY Touches DEF Held
<1>4. \A n \in NameLeft(c) : n \in {call[c].name, Copy(c).name} /\ n # None
  BY AccountsAssumption DEF NameLeft, AccountsAssumption
<1>5. \A k \in KeyLeft(c) : k = Copy(c).key
  BY DEF KeyLeft
<1> QED
  BY <1>1, <1>2, <1>3, <1>4, <1>5

-----------------------------------------------------------------------------
(* What no other call works on *)

(* What a call touches and no two have worked on, the others do not touch. *)
LEMMA OwnIs ==
  ASSUME Typed, Separate, NEW c \in Calls, Acts(c), NEW x \in Touched(call[c]), x \notin Spoilt', NEW d \in Calls \ {c}
  PROVE  x \notin Touched(call[d]) /\ x \notin Spoilt
BY ActFrame DEF Separate, Frame, Spoilt

(* What another call touches is left as it is. *)
LEMMA OthersKeep ==
  ASSUME Typed, Separate, NEW c \in Calls, Acts(c), NEW d \in Calls \ {c}, NEW x \in Touched(call[d]), x \notin Spoilt'
  PROVE  /\ x \notin Spoilt /\ x \notin Touched(call[c])
         /\ x \in Names => byName'[x] = byName[x] /\ Named(x)' \subseteq Named(x)
         /\ x \in Keys => byKey'[x] = byKey[x] /\ Keyed(x)' \subseteq Keyed(x)
         /\ x \in Emails => emailOwner'[x] = emailOwner[x]
         /\ Persons(x)' \subseteq Persons(x)
         /\ x \in outlaws' => x \in outlaws
<1>1. Frame(c)
  BY ActFrame
<1>2. x \notin Spoilt /\ x \notin Touched(call[c])
  BY <1>1 DEF Separate, Frame, Spoilt
<1>3. \A u \in Users : rec'[u] \in {rec[u], None} \/ {rec'[u].name, rec'[u].key, rec'[u].who} \subseteq Touched(call[c])
  BY <1>1 DEF Frame
<1>4. Named(x)' \subseteq Named(x) /\ Keyed(x)' \subseteq Keyed(x) /\ Persons(x)' \subseteq Persons(x)
  BY <1>2, <1>3 DEF Named, Keyed, Persons, Live
<1> QED
  BY <1>1, <1>2, <1>4 DEF Frame

-----------------------------------------------------------------------------
(* Names *)

NameAt(n, c) ==
  /\ \A u \in Named(n) : byName[n] = u \/ n \in NameLeft(c)
  /\ byName[n] \in Spoilt \cup {None} \/ byName[n] \in Named(n) \/ n \in NameLeft(c)

NameAmong(n) ==
  /\ \A u \in Named(n) : byName[n] = u \/ \E d \in Calls : n \in NameLeft(d)
  /\ byName[n] \in Spoilt \cup {None} \/ byName[n] \in Named(n) \/ \E d \in Calls : n \in NameLeft(d)

LEMMA NamesAmong ==
  ASSUME DataTyped
  PROVE  NamesOfLive /\ NamesTaken <=> \A n \in Names \ Spoilt : NameAmong(n)
<1>1. \A u \in Live : rec[u].name \in Names
  BY RecordIs DEF DataTyped, Live, Ids
<1> QED
  BY <1>1 DEF NamesOfLive, NamesTaken, NameAmong, Named

LEMMA NameAtIs ==
  ASSUME Typed, Separate, NameInv, NEW c \in Calls, Acts(c), NEW n \in Names, n \in Touched(call[c]), n \notin Spoilt'
  PROVE  NameAt(n, c) /\ n \notin Spoilt /\ \A d \in Calls \ {c} : n \notin NameLeft(d)
<1>1. n \notin Spoilt /\ \A d \in Calls \ {c} : n \notin Touched(call[d])
  BY OwnIs, ActFrame DEF Spoilt, Frame
<1>2. \A d \in Calls \ {c} : n \notin NameLeft(d)
  BY <1>1, LeftsAre DEF Typed
<1>3. NameAmong(n)
  BY <1>1, NamesAmong DEF NameInv, Typed
<1> QED
  BY <1>1, <1>2, <1>3 DEF NameAmong, NameAt

(* The names that the call does not touch. *)
LEMMA NameRest ==
  ASSUME Typed, DrawInv, CopyInv, NameInv, NEW c \in Calls, Acts(c),
         NEW n \in Names, n \notin Touched(call[c]), n \notin Spoilt'
  PROVE  NameAmong(n)'
<1>1. Frame(c)
  BY ActFrame
<1>2. n \notin Spoilt /\ NameAmong(n) /\ byName'[n] = byName[n] /\ Spoilt \subseteq Spoilt'
  BY <1>1, NamesAmong DEF Frame, Spoilt, NameInv, Typed
<1>3. \A d \in Calls : n \in NameLeft(d) => d # c /\ n \in NameLeft(d)'
  <2>1. \A d \in Calls \ {c} : call'[d] = call[d]
    BY <1>1 DEF Frame
  <2> QED
    BY <2>1, LeftsAre DEF NameLeft, Typed, Copy
<1>4. \A u \in Named(n)' : u \in Named(n)
  <2>1. \A u \in Users : rec'[u] \in {rec[u], None} \/ rec'[u].name \in Touched(call[c])
    BY <1>1 DEF Frame
  <2> QED
    BY <2>1 DEF Named, Live
<1>5. ASSUME NEW v \in Named(n), v \notin Spoilt'
      PROVE  v \in Named(n)'
  <2>1. v \in Live /\ v \notin Draws(c) /\ rec[v].name = n
    BY DEF Named, DrawInv, Unborn, Live
  <2>2. ASSUME Holder(c), v = call[c].user, rec' # rec
        PROVE  FALSE
    <3>1. call[c].pc \notin {"retire", "unname", "unkey", "code", "map"}
      BY <2>2, WritersAre
    <3>2. Quiet(c)
      BY <1>2, <1>5, <2>2 DEF Quiet, Spoilt
    <3>3. rec[v].name = Copy(c).name
      BY <2>2, <3>1, <3>2 DEF CopyInv, CopyOf, Same
    <3>4. Copy(c).name \in Touched(call[c])
      BY <2>2, Touches DEF Typed
    <3> QED
      BY <2>1, <3>3, <3>4
  <2>3. rec'[v] = rec[v]
    BY <1>1, <2>1, <2>2 DEF Frame, Live
  <2> QED
    BY <2>1, <2>3 DEF Named, Live
<1> QED
  BY <1>2, <1>3, <1>4, <1>5 DEF NameAmong

(* No record and not the way that the name leads has changed. *)
LEMMA NameStays ==
  ASSUME NEW c, NEW n, NameAt(n, c), Spoilt \subseteq Spoilt', rec' = rec, byName'[n] = byName[n], n \in NameLeft(c) => n \in NameLeft(c)'
  PROVE  NameAt(n, c)'
BY DEF NameAt, Named, Live

(* A record of another name was written. *)
LEMMA NameWritten ==
  ASSUME Typed, CopyInv, NEW c \in Calls, Held(c), NEW n \in Names, NameAt(n, c), Spoilt \subseteq Spoilt', n # Copy(c).name,
         call[c].pc \notin {"retire", "unname", "unkey", "code", "map"},
         NEW new, new # None => new.name # n, rec' = [rec EXCEPT ![call[c].user] = new], byName'[n] = byName[n],
         n \in NameLeft(c) => n \in NameLeft(c)'
  PROVE  NameAt(n, c)'
<1>t. rec \in [Users -> Ids(UserRecords)] /\ call[c].user \in Users /\ Holder(c)
  BY DEF Typed, DataTyped, Held
<1>1. ASSUME NEW v \in Named(n), v \notin Spoilt
      PROVE  v \in Named(n)'
  <2>1. CASE v = call[c].user
    <3>1. Quiet(c)
      BY <1>1, <2>1 DEF Quiet, Spoilt
    <3> QED
      BY <1>t, <1>1, <2>1, <3>1 DEF CopyInv, CopyOf, Same, Named
  <2>2. CASE v # call[c].user
    BY <1>t, <1>1, <2>2 DEF Named, Live
  <2> QED
    BY <2>1, <2>2
<1>2. \A v \in Named(n)' : v \in Named(n)
  BY <1>t DEF Named, Live
<1> QED
  BY <1>1, <1>2 DEF NameAt

(* The record of the name was written. *)
LEMMA NameHeld ==
  ASSUME Typed, NEW c \in Calls, Held(c), NEW n \in Names, NameAt(n, c), Spoilt \subseteq Spoilt', n \notin NameLeft(c),
         NEW new, new # None, new.name = n, rec' = [rec EXCEPT ![call[c].user] = new], byName'[n] = call[c].user,
         byName[n] = call[c].user
  PROVE  NameAt(n, c)'
<1>t. rec \in [Users -> Ids(UserRecords)] /\ call[c].user \in Users
  BY DEF Typed, DataTyped, Held
<1>1. Named(n)' \subseteq {call[c].user} /\ call[c].user \in Named(n)'
  BY <1>t DEF NameAt, Named, Live
<1> QED
  BY <1>1 DEF NameAt

(* What a name leads to, for a name that the call works on. *)
LEMMA NameAct ==
  ASSUME Typed, Separate, DrawInv, CopyInv, NameInv, NEW c \in Calls, Acts(c),
         NEW n \in Names, n \in Touched(call[c]), n \notin Spoilt'
  PROVE  NameAt(n, c)'
<1> DEFINE r == call[c]
           q == call'[c]
<1>t. /\ CallsTyped /\ rec \in [Users -> Ids(UserRecords)] /\ byName \in [Names -> Ids(Users)]
      /\ Typed /\ DataTyped /\ CopyInv
  BY DEF Typed, DataTyped
<1>0. /\ Spoilt \subseteq Spoilt' /\ NameAt(n, c) /\ n \notin Spoilt
      /\ n = r.name \/ (Holder(c) /\ n = Copy(c).name)
  BY <1>t, NameAtIs, OwnsAre, ActFrame DEF Frame, Spoilt
<1>k. NameOf(c)
  BY DEF NameInv
<1>1. ASSUME NEW p, ReadsAs(c, p) \/ StartsAs(c, p)
      PROVE  NameAt(n, c)'
  <2>1. rec' = rec /\ byName' = byName
    BY <1>1 DEF ReadsAs, StartsAs, Untouched
  <2>2. NameLeft(c) = {}
    <3>1. r.pc \in {"start", "read"}
      BY <1>1 DEF ReadsAs, StartsAs
    <3> QED
      BY <3>1 DEF NameLeft
  <2> QED
    BY <1>0, <2>1, <2>2, NameStays
<1>3. CASE Looks(c)
  <2>1. r.pc \notin {"record", "retire", "unname", "copy", "erase"}
    BY <1>t, <1>3, StepIs DEF Looks, LookEdges, IsStep, UpdateSteps, DeleteSteps, RekeySteps
  <2>2. rec' = rec /\ byName' = byName
    BY <1>3 DEF Looks
  <2>3. NameLeft(c) = {}
    BY <2>1 DEF NameLeft
  <2> QED
    BY <1>0, <2>2, <2>3, NameStays
<1>4. ASSUME NEW new, Back(c, new)
      PROVE  NameAt(n, c)'
  <2>1. /\ Held(c) /\ rec' = [rec EXCEPT ![r.user] = new] /\ new # None /\ new.name = Copy(c).name /\ byName' = byName
        /\ r.pc \in {"save", "rehash", "attach", "unverify"}
    BY <1>4, RecordIs DEF Back
  <2>2. NameLeft(c) = {}
    BY <2>1 DEF NameLeft
  <2>3. CASE n = Copy(c).name
    <3>1. byName[n] = r.user
      BY <1>0, <1>k, <2>1, <2>3 DEF NameOf, Held, Copy
    <3> QED
      BY <1>t, <1>0, <2>1, <2>2, <2>3, <3>1, NameHeld
  <2>4. CASE n # Copy(c).name
    BY <1>t, <1>0, <2>1, <2>2, <2>4, NameWritten
  <2> QED
    BY <2>3, <2>4
<1>5. CASE UpdateEmail(c) \/ UpdateKey(c) \/ UpdatePointKey(c) \/ DeleteKey(c) \/ Evict(c) \/ VerifyMap(c)
  <2>1. rec' = rec /\ byName' = byName
    BY <1>5 DEF UpdateEmail, UpdateKey, UpdatePointKey, DeleteKey, Evict, VerifyMap, redisE
  <2>2. r.pc \in {"email", "key", "keyptr", "unkey", "evict", "map"}
    BY <1>5 DEF UpdateEmail, UpdateKey, UpdatePointKey, DeleteKey, Evict, VerifyMap, At
  <2>3. NameLeft(c) = {}
    BY <2>2 DEF NameLeft
  <2> QED
    BY <1>0, <2>1, <2>3, NameStays
<1>6. CASE RegisterWrite(c)
  <2>1. /\ r.pc = "enroll" /\ n = r.name /\ r.user \in Users
        /\ \E new \in UserRecords : rec' = [rec EXCEPT ![r.user] = new] /\ new.name = r.name
    BY <1>0, <1>6, EnrollMoves DEF Holder
  <2>2. byName' = [byName EXCEPT ![r.name] = r.user]
    BY <1>6 DEF RegisterWrite
  <2>3. NameLeft(c) = {}
    BY <2>1 DEF NameLeft
  <2>4. byName[n] = None
    BY <1>0, <1>k, <2>1 DEF NameOf
  <2>5. Named(n) = {}
    BY <1>0, <2>3, <2>4, AccountsAssumption DEF NameAt, Named, Live, AccountsAssumption
  <2>6. Named(n)' = {r.user}
    BY <1>t, <2>1, <2>5, RecordIs DEF Named, Live
  <2>7. byName'[n] = r.user
    BY <1>t, <2>1, <2>2
  <2> QED
    BY <2>6, <2>7 DEF NameAt
<1>7. CASE UpdatePointName(c)
  <2>1. At(c, "update", "nameptr") /\ Held(c) /\ Moved(c, "record")
    BY <1>t, <1>7, WriteMoves
  <2>2. rec' = rec /\ byName' = [byName EXCEPT ![r.name] = r.user]
    BY <1>7 DEF UpdatePointName
  <2>3. q.pc = "record" /\ q.name = r.name /\ q.copy = r.copy /\ Copy(c)' = Copy(c)
    BY <2>1 DEF Moved, SameBut, Copy
  <2>4. NameLeft(c) = {}
    BY <2>1 DEF NameLeft, At
  <2>5. CASE n = r.name /\ n # Copy(c).name
    <3>1. n \in NameLeft(c)'
      BY <2>3, <2>5 DEF NameLeft
    <3> QED
      BY <3>1 DEF NameAt
  <2>6. CASE n = Copy(c).name
    <3>1. byName[n] = r.user
      BY <1>0, <1>k, <2>1, <2>6 DEF NameOf, Held, Copy, At
    <3>2. byName'[n] = byName[n]
      BY <1>t, <2>2, <3>1
    <3> QED
      BY <1>0, <2>2, <2>4, <3>2, NameStays
  <2> QED
    BY <1>0, <2>5, <2>6
<1>8. CASE UpdateRecord(c)
  <2>1. /\ At(c, "update", "record") /\ Held(c)
        /\ Moved(c, IF r.name = Copy(c).name THEN "done" ELSE "retire")
    BY <1>t, <1>8, RecordMoves
  <2>2. PICK new : new = Updated(c)
    OBVIOUS
  <2>3. rec' = [rec EXCEPT ![r.user] = new] /\ byName' = byName
    BY <1>8, <2>2 DEF UpdateRecord
  <2>4. new \in UserRecords /\ new.name = r.name /\ new # None
    BY <1>t, <2>1, <2>2, UpdatedIs, RecordIs DEF At
  <2>5. CASE n = Copy(c).name /\ n # r.name
    <3>1. q.pc = "retire" /\ Copy(c)' = Copy(c)
      BY <2>1, <2>5 DEF Moved, SameBut, Copy
    <3>2. n \in NameLeft(c)'
      BY <2>5, <3>1 DEF NameLeft
    <3> QED
      BY <3>2 DEF NameAt
  <2>6. CASE n = r.name
    <3>1. byName[n] = r.user /\ (n # Copy(c).name => Named(n) \subseteq {r.user})
      BY <1>0, <1>k, <2>1, <2>6 DEF NameOf, Held, Copy, At
    <3>2. n = Copy(c).name => n \notin NameLeft(c)
      BY <2>1, <2>6 DEF NameLeft, At
    <3>3. Named(n) \subseteq {r.user}
      BY <1>0, <3>1, <3>2 DEF NameAt
    <3>4. Named(n)' = {r.user}
      BY <1>t, <2>1, <2>3, <2>4, <2>6, <3>3 DEF Named, Live, Held
    <3> QED
      BY <2>3, <3>1, <3>4 DEF NameAt
  <2> QED
    BY <1>0, <2>5, <2>6
<1>9. CASE UpdateRetire(c) \/ DeleteName(c)
  <2>1. /\ At(c, "update", "retire") \/ At(c, "delete", "unname")
        /\ Held(c)
    BY <1>t, <1>9, WriteMoves
  <2>2. rec' = rec /\ byName' = [byName EXCEPT ![Copy(c).name] = None]
    BY <1>9 DEF UpdateRetire, DeleteName
  <2>3. CASE n = Copy(c).name
    <3>1. Named(n) = {}
      BY <1>0, <1>k, <2>1, <2>3 DEF NameOf, Held, Copy, At
    <3>2. Named(n)' = {} /\ byName'[n] = None
      BY <1>t, <2>2, <2>3, <3>1 DEF Named, Live
    <3> QED
      BY <3>2 DEF NameAt
  <2>4. CASE n # Copy(c).name
    <3>1. n \notin NameLeft(c)
      BY <2>1, <2>4 DEF NameLeft, At
    <3>2. byName'[n] = byName[n]
      BY <1>t, <2>2, <2>4
    <3> QED
      BY <1>0, <2>2, <3>1, <3>2, NameStays
  <2> QED
    BY <2>3, <2>4
<1>10. CASE DeleteRecord(c)
  <2>1. At(c, "delete", "gone") /\ Held(c) /\ Moved(c, "unname")
    BY <1>t, <1>10, WriteMoves
  <2>2. rec' = [rec EXCEPT ![r.user] = None] /\ byName' = byName
    BY <1>10 DEF DeleteRecord
  <2>3. CASE n = Copy(c).name
    <3>1. q.pc = "unname" /\ Copy(c)' = Copy(c)
      BY <2>1 DEF Moved, SameBut, Copy
    <3>2. n \in NameLeft(c)'
      BY <2>3, <3>1 DEF NameLeft
    <3> QED
      BY <3>2 DEF NameAt
  <2>4. CASE n # Copy(c).name
    <3>1. n \notin NameLeft(c)
      BY <2>1 DEF NameLeft, At
    <3>2. r.pc = "gone"
      BY <2>1 DEF At
    <3> QED
      BY <1>t, <1>0, <2>1, <2>2, <2>4, <3>1, <3>2, NameWritten
  <2> QED
    BY <2>3, <2>4
<1>11. CASE DeleteUser(c)
  <2>1. At(c, "delete", "wipe") /\ Held(c)
    BY <1>t, <1>11, WriteMoves
  <2>2. /\ rec' = [rec EXCEPT ![r.user] = None]
        /\ \/ Copy(c).name \in cut' /\ byName' = byName
           \/ byName' = [byName EXCEPT ![Copy(c).name] = None]
    BY <1>11 DEF DeleteUser
  <2>3. n \notin NameLeft(c)
    BY <2>1 DEF NameLeft, At
  <2>4. CASE n = Copy(c).name
    <3>1. byName[n] = r.user
      BY <1>0, <1>k, <2>1, <2>4 DEF NameOf, Held, Copy, At
    <3>2. Named(n) \subseteq {r.user}
      BY <1>0, <2>3, <3>1 DEF NameAt
    <3>3. Named(n)' = {}
      BY <1>t, <2>2, <3>2 DEF Named, Live
    <3>4. n \notin cut'
      BY DEF Spoilt
    <3>5. byName'[n] = None
      BY <1>t, <2>2, <2>4, <3>4
    <3> QED
      BY <3>3, <3>5 DEF NameAt
  <2>5. CASE n # Copy(c).name
    <3>1. byName'[n] = byName[n]
      BY <1>t, <2>2, <2>5
    <3>2. r.pc = "wipe"
      BY <2>1 DEF At
    <3> QED
      BY <1>t, <1>0, <2>1, <2>2, <2>3, <2>5, <3>1, <3>2, NameWritten
  <2> QED
    BY <2>4, <2>5
<1>12. CASE RekeyName(c) \/ RekeyCopy(c)
  <2>1. r.op = "rekey" /\ Held(c) /\ q.pc \in {"copy", "erase"} /\ Copy(c)' = Copy(c)
    BY <1>t, <1>12, WriteMoves DEF At, Moved, SameBut, Copy
  <2>2. n = Copy(c).name
    BY <1>0, <1>k, <2>1 DEF NameOf, Held, Copy
  <2>3. n \in NameLeft(c)'
    BY <2>1, <2>2 DEF NameLeft
  <2> QED
    BY <2>3 DEF NameAt
<1>13. CASE RekeyErase(c)
  <2>1. At(c, "rekey", "erase") /\ Held(c) /\ r.to \in Users
    BY <1>t, <1>13, WriteMoves DEF Held, At
  <2>2. rec' = [rec EXCEPT ![r.user] = None] /\ byName' = byName
    BY <1>13 DEF RekeyErase
  <2>3. n = Copy(c).name /\ r.name \notin Spoilt
    BY <1>0, <1>k, <2>1 DEF NameOf, Held, Copy, At
  <2>4. byName[n] = r.to /\ Named(n) \subseteq {r.user, r.to}
    BY <1>0, <1>k, <2>1, <2>3 DEF NameOf, Held, Copy, At
  <2>5. Same(rec[r.to], Copy(c)) /\ r.to # r.user
    BY <1>0, <2>1, <2>3 DEF CopyInv, CopyOf, Spoilt, Held
  <2>6. Named(n)' = {r.to}
    BY <1>t, <2>1, <2>2, <2>3, <2>4, <2>5 DEF Named, Live, Same
  <2> QED
    BY <2>2, <2>4, <2>6 DEF NameAt
<1>14. CASE VerifyRecord(c)
  <2>1. Held(c) /\ At(c, "verify", "write") /\ r.email \in Emails
    BY <1>t, <1>14, WriteMoves DEF Held, At
  <2>2. PICK new : new = [Copy(c) EXCEPT !.email = r.email, !.verified = TRUE]
    OBVIOUS
  <2>3. rec' = [rec EXCEPT ![r.user] = new] /\ byName' = byName
    BY <1>14, <2>2 DEF VerifyRecord, redisE
  <2>4. new \in UserRecords /\ new.name = Copy(c).name /\ new # None
    <3>1. new \in UserRecords /\ new.name = Copy(c).name
      BY <2>1, <2>2 DEF Held, UserRecords
    <3> QED
      BY <3>1, RecordIs
  <2>5. n \notin NameLeft(c) /\ r.pc = "write"
    BY <2>1 DEF NameLeft, At
  <2>6. CASE n = Copy(c).name
    <3>1. byName[n] = r.user
      BY <1>0, <1>k, <2>1, <2>6 DEF NameOf, Held, Copy, At
    <3> QED
      BY <1>t, <1>0, <2>1, <2>3, <2>4, <2>5, <2>6, <3>1, NameHeld
  <2>7. CASE n # Copy(c).name
    BY <1>t, <1>0, <2>1, <2>3, <2>4, <2>5, <2>7, NameWritten
  <2> QED
    BY <2>6, <2>7
<1> QED
  BY <1>1, <1>3, <1>4, <1>5, <1>6, <1>7, <1>8, <1>9, <1>10, <1>11, <1>12, <1>13, <1>14 DEF Acts

(* What the other calls know of names. *)
LEMMA NameOther ==
  ASSUME Typed, Separate, NameInv, NEW c \in Calls, Acts(c), NEW d \in Calls \ {c}
  PROVE  NameOf(d)'
<1>r. PICK r : r = call[d]
  OBVIOUS
<1>n. PICK n : n = r.copy.name
  OBVIOUS
<1>t. CallsTyped
  BY DEF Typed
<1>1. call'[d] = r /\ Spoilt \subseteq Spoilt' /\ NameOf(d)
  BY <1>r, ActFrame DEF Frame, Spoilt, NameInv
<1>2. \A x \in Names \ Spoilt' : x \in Touched(r) => x \notin Spoilt /\ byName'[x] = byName[x] /\ Named(x)' \subseteq Named(x)
  BY <1>r, OthersKeep
<1>3. r.pc \notin {"start", "done"} => Holder(d) \/ r.name \in Names \/ r.pc \notin {"enroll", "unkey", "unname", "retire", "copy", "erase"}
  BY <1>r, <1>n, <1>t, StepIs DEF Holder, IsStep, NoCopy
<1>4. Holder(d) => n \in Names /\ n \in Touched(r)
  BY <1>r, <1>n, <1>t, Touches, RestIs, StepIs, RecordIs DEF Holder, Copy
<1>5. r.pc = "enroll" => r.name \in Names /\ r.name \in Touched(r)
  <2>1. r.pc = "enroll" => r.name \in Names
    BY <1>r, <1>n, <1>t, StepIs DEF IsStep
  <2> QED
    BY <1>r, <1>n, <1>t, <2>1, Touches, AccountsAssumption DEF AccountsAssumption
<1>6. Holder(d) /\ r.op \in {"update", "rekey"} => r.name \in Names /\ r.name \in Touched(r)
  <2>1. Holder(d) /\ r.op \in {"update", "rekey"} => r.name \in Names
    BY <1>r, <1>n, <1>t, StepIs, RestIs DEF Holder
  <2> QED
    BY <1>r, <1>n, <1>t, <2>1, Touches, AccountsAssumption DEF AccountsAssumption
<1>7. r.pc \in {"copy", "erase"} => Holder(d) /\ r.op = "rekey"
  BY <1>r, <1>n, <1>t, StepIs DEF Holder, IsStep, NoCopy, RekeySteps
<1>8. Holder(d)' <=> Holder(d)
  BY <1>r, <1>n, <1>1 DEF Holder
<1>9. r.pc = "enroll" /\ r.name \notin Spoilt' => byName'[r.name] = None
  BY <1>r, <1>1, <1>2, <1>5 DEF NameOf
<1>10. Holder(d) /\ n \notin Spoilt' =>
         /\ r.pc \notin {"unkey", "copy", "erase"} => byName'[n] = r.user
         /\ r.pc \in {"unname", "retire"} => Named(n)' = {}
         /\ r.pc \in {"copy", "erase"} => Named(n)' \subseteq {r.user, r.to}
  <2>1. Holder(d) /\ n \notin Spoilt' => n \notin Spoilt /\ byName'[n] = byName[n] /\ Named(n)' \subseteq Named(n)
    BY <1>2, <1>4
  <2>2. Holder(d) /\ n \notin Spoilt =>
         /\ r.pc \notin {"unkey", "copy", "erase"} => byName[n] = r.user
         /\ r.pc \in {"unname", "retire"} => Named(n) = {}
         /\ r.pc \in {"copy", "erase"} => Named(n) \subseteq {r.user, r.to}
    BY <1>r, <1>n, <1>1 DEF NameOf
  <2> QED
    BY <2>1, <2>2
<1>11. r.op = "update" /\ Holder(d) /\ r.name # n /\ r.name \notin Spoilt' =>
           /\ r.pc \in {"email", "since", "keyptr", "nameptr"} => byName'[r.name] = None
           /\ r.pc = "record" => byName'[r.name] = r.user /\ Named(r.name)' \subseteq {r.user}
           /\ r.pc = "retire" => byName'[r.name] = r.user
  <2>1. r.op = "update" /\ Holder(d) /\ r.name \notin Spoilt' =>
          r.name \notin Spoilt /\ byName'[r.name] = byName[r.name] /\ Named(r.name)' \subseteq Named(r.name)
    BY <1>2, <1>6
  <2>2. r.op = "update" /\ Holder(d) /\ r.name # n /\ r.name \notin Spoilt =>
           /\ r.pc \in {"email", "since", "keyptr", "nameptr"} => byName[r.name] = None
           /\ r.pc = "record" => byName[r.name] = r.user /\ Named(r.name) \subseteq {r.user}
           /\ r.pc = "retire" => byName[r.name] = r.user
    BY <1>r, <1>n, <1>1 DEF NameOf
  <2> QED
    BY <2>1, <2>2
<1>12. /\ r.op = "rekey" /\ Holder(d) => r.name \in Spoilt' \/ r.name = n
       /\ r.pc = "erase" => n \in Spoilt' \/ r.name = n
  BY <1>r, <1>n, <1>1 DEF NameOf
<1>13. r.pc \in {"copy", "erase"} /\ r.name \notin Spoilt' => byName'[r.name] = r.to
  BY <1>r, <1>1, <1>2, <1>6, <1>7 DEF NameOf
<1> QED
  BY <1>r, <1>n, <1>1, <1>8, <1>9, <1>10, <1>11, <1>12, <1>13 DEF NameOf

(* What a name leads to that a call has just read. *)
LEMMA NameRead ==
  ASSUME Typed, Separate, Separate', NameInv, NEW c \in Calls, NEW q, ReadsAs(c, q), NEW v \in Live,
         rec[v].name \notin Spoilt', rec[v].name \in Touched(q)
  PROVE  byName[rec[v].name] = v
<1>1. CallsTyped /\ call'[c] = q /\ \A d \in Calls \ {c} : call'[d] = call[d]
  BY ReadTyped DEF Typed
<1>2. rec[v].name \notin Spoilt /\ mixed' \subseteq Spoilt'
  BY FrameReads DEF Frame, Spoilt
<1>3. \A d \in Calls \ {c} : rec[v].name \notin NameLeft(d)
  BY <1>1, <1>2, LeftsAre DEF Separate
<1>4. rec[v].name \notin NameLeft(c)
  BY DEF ReadsAs, NameLeft
<1> QED
  BY <1>2, <1>3, <1>4 DEF NameInv, NamesOfLive

LEMMA NameActor ==
  ASSUME Typed, Separate, Separate', DrawInv, CopyInv, NameInv, NEW c \in Calls, Acts(c)
  PROVE  NameOf(c)'
<1>r. PICK r : r = call[c]
  OBVIOUS
<1>q. PICK q : q = call'[c]
  OBVIOUS
<1>t. /\ CallsTyped /\ rec \in [Users -> Ids(UserRecords)] /\ byName \in [Names -> Ids(Users)] /\ DataTyped
  BY DEF Typed, DataTyped
<1>0. Spoilt \subseteq Spoilt'
  BY ActFrame DEF Frame, Spoilt
<1>k. NameOf(c)
  BY DEF NameInv
(* A name of this call alone: who has it, can be reached by it. *)
<1>u. ASSUME NEW n \in Names, n \in Touched(r), n \notin Spoilt', n \notin NameLeft(c)
      PROVE  \A u \in Named(n) : byName[n] = u
  BY <1>r, <1>u, NameAtIs DEF NameAt
<1>v. Held(c) => /\ r.copy.name \in Names /\ r.copy.name \in Touched(r)
                 /\ r.name # None => r.name \in Touched(r)
  BY <1>r, <1>t, Touches, RecordIs DEF Held, Copy
<1>e. ASSUME Ends(q)
      PROVE  NameOf(c)'
  BY <1>q, <1>e DEF NameOf, Ends, Holder
<1>b. ASSUME Held(c), SameBut(q, r), q.op = r.op, byName' = byName,
             r.pc \notin {"unkey", "copy", "erase"}, q.pc \notin {"unname", "retire", "copy", "erase", "enroll", "record"},
             r.op = "update" /\ q.pc \in {"email", "since", "keyptr", "nameptr"} =>
               r.pc \in {"email", "since", "keyptr", "nameptr"} \/ r.name = r.copy.name \/ byName[r.name] = None
      PROVE  NameOf(c)'
  <2>1. q.copy = r.copy /\ q.user = r.user /\ q.name = r.name /\ Holder(c)
    BY <1>b DEF SameBut, Held
  <2>2. r.copy.name \notin Spoilt => byName[r.copy.name] = r.user
    BY <1>r, <1>k, <1>b, <2>1 DEF NameOf
  <2>3. r.op = "update" /\ r.name # r.copy.name /\ r.name \notin Spoilt /\ q.pc \in {"email", "since", "keyptr", "nameptr"} =>
          byName[r.name] = None
    BY <1>r, <1>k, <1>b, <2>1 DEF NameOf
  <2>4. r.op = "rekey" => r.name \in Spoilt \/ r.name = r.copy.name
    BY <1>r, <1>k, <2>1 DEF NameOf
  <2> QED
    BY <1>q, <1>0, <1>b, <2>1, <2>2, <2>3, <2>4 DEF NameOf
<1>1. ASSUME NEW p, ReadsAs(c, p)
      PROVE  NameOf(c)'
  <2>1. q = p /\ p.user \in Live /\ p.copy = rec[p.user] /\ byName' = byName
    BY <1>q, <1>t, <1>1, ReadTyped DEF ReadsAs, Untouched
  <2>2. p.copy \in UserRecords /\ p.copy # None /\ p.copy.name \in Names
    BY <1>t, <2>1, RecordIs DEF Live, Ids
  <2>3. p.copy.name \in Touched(p)
    BY <2>2, AccountsAssumption DEF Touched, AccountsAssumption
  <2>4. p.copy.name \notin Spoilt' => byName[p.copy.name] = p.user
    BY <1>1, <2>1, <2>3, NameRead
  <2>5. p.op = "rekey" => p.name \in Spoilt' \/ p.name = p.copy.name
    <3>1. SUFFICES ASSUME p.op = "rekey", p.name \notin Spoilt'
                   PROVE  p.name = p.copy.name
      OBVIOUS
    <3>2. PICK v \in Live : p.name = rec[v].name
      BY <1>1, <3>1 DEF ReadsAs
    <3>3. byName[p.name] = p.user
      BY <1>1, <3>1 DEF ReadsAs
    <3>4. p.name \in Names
      BY <1>t, <3>2, RecordIs DEF Live, Ids
    <3>5. p.name \in Touched(p)
      BY <3>4, AccountsAssumption DEF Touched, AccountsAssumption
    <3>6. byName[p.name] = v
      BY <1>1, <3>1, <3>2, <3>5, NameRead
    <3> QED
      BY <2>1, <3>2, <3>3, <3>6
  <2>6. p.pc \notin {"enroll", "unname", "retire", "copy", "erase", "email", "since", "keyptr", "nameptr", "record"}
    BY <1>1 DEF ReadsAs
  <2> QED
    BY <1>q, <2>1, <2>4, <2>5, <2>6 DEF NameOf
<1>2. ASSUME NEW p, StartsAs(c, p)
      PROVE  NameOf(c)'
  <2>1. q = p /\ p.copy = None /\ byName' = byName /\ (p.pc = "enroll" => byName[p.name] = None)
        /\ p.pc \in {"enroll", "read", "owner"}
    BY <1>q, <1>t, <1>2, StartTyped DEF StartsAs, Untouched
  <2> QED
    BY <1>q, <2>1 DEF NameOf, Holder
<1>3. CASE Looks(c)
  <2>1. PICK pc : /\ Moved(c, pc)
                  /\ pc # "done" =>
                       /\ <<r.op, r.pc, pc>> \in LookEdges
                       /\ r.pc = "name" => r.name = r.copy.name \/ byName[r.name] = None
    BY <1>r, <1>3 DEF Looks, Copy
  <2>2. CASE pc = "done"
    BY <1>e, <1>q, <2>1, <2>2 DEF Moved
  <2>3. CASE pc # "done"
    <3>1. SameBut(q, r) /\ q.op = r.op /\ q.pc = pc
      BY <1>q, <1>r, <2>1, <2>3 DEF Moved
    <3>2. byName' = byName /\ r.pc \notin {"start", "done"}
      BY <1>3, <1>r DEF Looks
    <3>3. /\ r.pc \notin {"unkey", "copy", "erase"} /\ q.pc \notin {"unname", "retire", "copy", "erase", "enroll", "record"}
          /\ r.op = "update" => r.pc \in {"name", "since"}
      BY <2>1, <2>3, <3>1 DEF LookEdges
    <3>4. CASE r.copy # None
      <4>1. Held(c)
        BY <1>r, <1>t, <3>2, <3>4, StepIs, HeldIs
      <4> QED
        BY <1>b, <2>1, <2>3, <3>1, <3>2, <3>3, <4>1
    <3>5. CASE r.copy = None
      BY <1>q, <3>1, <3>3, <3>5 DEF NameOf, SameBut, Holder
    <3> QED
      BY <3>4, <3>5
  <2> QED
    BY <2>2, <2>3
<1>4. ASSUME NEW new, Back(c, new)
      PROVE  NameOf(c)'
  <2>1. PICK pc : Moved(c, pc) /\ pc \in {"done", "gate", "sign", "code"} /\ r.pc \in {"save", "rehash", "attach", "unverify"}
    BY <1>r, <1>4 DEF Back
  <2>2. CASE pc = "done"
    BY <1>e, <1>q, <2>1, <2>2 DEF Moved
  <2>3. CASE pc # "done"
    <3>1. SameBut(q, r) /\ q.op = r.op /\ q.pc = pc
      BY <1>q, <1>r, <2>1, <2>3 DEF Moved
    <3> QED
      BY <1>b, <1>4, <2>1, <2>3, <3>1 DEF Back
  <2> QED
    BY <2>2, <2>3
<1>5. CASE UpdateEmail(c)
  <2>1. At(c, "update", "email") /\ Held(c) /\ SameBut(q, r) /\ q.pc \in {"since", "keyptr"} /\ q.op = "update"
    BY <1>q, <1>r, <1>5, EmailMoves
  <2>2. byName' = byName
    BY <1>5 DEF UpdateEmail
  <2> QED
    BY <1>b, <1>r, <2>1, <2>2 DEF At
<1>6. CASE UpdateKey(c) /\ ~(Stop(c) /\ UNCHANGED byKey)
  <2>1. At(c, "update", "key") /\ Held(c) /\ SameBut(q, r) /\ q.pc = "name" /\ q.op = r.op
    BY <1>q, <1>r, <1>t, <1>6, KeyMoves DEF Moved
  <2>2. byName' = byName
    BY <1>6 DEF UpdateKey
  <2> QED
    BY <1>b, <1>r, <2>1, <2>2 DEF At
<1>7. CASE UpdatePointKey(c) \/ VerifyRecord(c)
  <2>1. /\ At(c, "update", "keyptr") \/ At(c, "verify", "write")
        /\ Held(c) /\ SameBut(q, r) /\ q.pc \in {"nameptr", "map"} /\ q.op = r.op
    BY <1>q, <1>r, <1>t, <1>7, WriteMoves DEF Moved
  <2>2. byName' = byName
    BY <1>7 DEF UpdatePointKey, VerifyRecord, redisE
  <2> QED
    BY <1>b, <1>r, <2>1, <2>2 DEF At
<1>8. CASE RegisterWrite(c)
  <2>1. /\ r.name \in Names
        /\ \/ Ends(q)
           \/ \E new \in UserRecords : /\ q.op = "nostr" /\ q.pc = "save" /\ q.copy = new /\ q.user = r.user /\ new.name = r.name
    BY <1>q, <1>r, <1>8, EnrollMoves
  <2>2. byName' = [byName EXCEPT ![r.name] = r.user]
    BY <1>r, <1>8 DEF RegisterWrite
  <2>3. byName'[r.name] = r.user
    BY <1>t, <2>1, <2>2
  <2> QED
    BY <1>e, <1>q, <2>1, <2>3 DEF NameOf
<1>9. CASE UpdatePointName(c)
  <2>1. At(c, "update", "nameptr") /\ Held(c) /\ SameBut(q, r) /\ q.pc = "record" /\ q.op = "update" /\ r.name \in Names
    BY <1>q, <1>r, <1>t, <1>9, WriteMoves DEF Moved, At, Held
  <2>2. rec' = rec /\ byName' = [byName EXCEPT ![r.name] = r.user]
    BY <1>r, <1>9 DEF UpdatePointName
  <2>3. byName'[r.name] = r.user /\ \A n \in Names : n # r.name => byName'[n] = byName[n]
    BY <1>t, <2>1, <2>2
  <2>4. r.copy.name \notin Spoilt => byName[r.copy.name] = r.user
    BY <1>r, <1>k, <2>1 DEF NameOf, Held, At
  <2>5. r.name # r.copy.name /\ r.name \notin Spoilt' => Named(r.name) = {}
    <3>1. SUFFICES ASSUME r.name # r.copy.name, r.name \notin Spoilt'
                   PROVE  Named(r.name) = {}
      OBVIOUS
    <3>2. byName[r.name] = None
      BY <1>r, <1>k, <1>0, <2>1, <3>1 DEF NameOf, Held, At
    <3>3. r.name \notin NameLeft(c)
      BY <2>1 DEF NameLeft, At
    <3>4. r.name \in Touched(r)
      BY <1>v, <2>1, AccountsAssumption DEF AccountsAssumption
    <3> QED
      BY <1>u, <2>1, <3>1, <3>2, <3>3, <3>4, AccountsAssumption DEF Named, Live, AccountsAssumption
  <2>6. Named(r.name)' = Named(r.name)
    BY <2>2 DEF Named, Live
  <2> QED
    BY <1>q, <1>0, <1>v, <2>1, <2>3, <2>4, <2>5, <2>6 DEF NameOf, SameBut
<1>10. CASE UpdateRecord(c)
  <2>1. At(c, "update", "record") /\ Held(c) /\ Moved(c, IF r.name = r.copy.name THEN "done" ELSE "retire")
    BY <1>r, <1>t, <1>10, RecordMoves DEF Copy
  <2>2. CASE r.name = r.copy.name
    BY <1>e, <1>q, <2>1, <2>2 DEF Moved
  <2>3. CASE r.name # r.copy.name
    <3>1. SameBut(q, r) /\ q.pc = "retire" /\ q.op = "update"
      BY <1>q, <1>r, <2>1, <2>3 DEF Moved, At
    <3>2. PICK new : new = Updated(c)
      OBVIOUS
    <3>3. new.name = r.name
      BY <1>r, <1>t, <2>1, <3>2, UpdatedIs DEF At
    <3>4. rec' = [rec EXCEPT ![r.user] = new] /\ byName' = byName
      BY <1>r, <1>10, <3>2 DEF UpdateRecord
    <3>5. /\ r.copy.name \notin Spoilt => byName[r.copy.name] = r.user
          /\ r.name \notin Spoilt => byName[r.name] = r.user
      BY <1>r, <1>k, <2>1, <2>3 DEF NameOf, Held, At
    <3>6. r.copy.name \notin Spoilt' => Named(r.copy.name)' = {}
      <4>1. SUFFICES ASSUME r.copy.name \notin Spoilt'
                     PROVE  Named(r.copy.name)' = {}
        OBVIOUS
      <4>2. r.copy.name \notin NameLeft(c)
        BY <1>r, <2>1, <2>3 DEF NameLeft, At, Copy
      <4>3. Named(r.copy.name) \subseteq {r.user}
        BY <1>0, <1>u, <1>v, <2>1, <3>5, <4>1, <4>2
      <4> QED
        BY <1>t, <2>3, <3>3, <3>4, <4>3 DEF Named, Live
    <3> QED
      BY <1>q, <1>0, <2>3, <3>1, <3>4, <3>5, <3>6 DEF NameOf, SameBut
  <2> QED
    BY <2>2, <2>3
<1>11. CASE UpdateRetire(c) \/ DeleteKey(c) \/ VerifyMap(c) \/ RekeyErase(c) \/ DeleteUser(c) \/ Evict(c)
  <2>1. Moved(c, "done")
    BY <1>t, <1>11, WriteMoves
  <2> QED
    BY <1>e, <1>q, <2>1 DEF Moved
<1>12. CASE DeleteRecord(c)
  <2>1. At(c, "delete", "gone") /\ Held(c) /\ SameBut(q, r) /\ q.pc = "unname" /\ q.op = "delete"
    BY <1>q, <1>r, <1>t, <1>12, WriteMoves DEF Moved, At
  <2>2. rec' = [rec EXCEPT ![r.user] = None] /\ byName' = byName
    BY <1>r, <1>12 DEF DeleteRecord
  <2>3. r.copy.name \notin Spoilt => byName[r.copy.name] = r.user
    BY <1>r, <1>k, <2>1 DEF NameOf, Held, At
  <2>4. r.copy.name \notin NameLeft(c)
    BY <2>1 DEF NameLeft, At
  <2>5. r.copy.name \notin Spoilt' => Named(r.copy.name) \subseteq {r.user}
    BY <1>0, <1>u, <1>v, <2>1, <2>3, <2>4
  <2>6. r.copy.name \notin Spoilt' => Named(r.copy.name)' = {}
    BY <1>t, <2>2, <2>5 DEF Named, Live
  <2> QED
    BY <1>q, <1>0, <2>1, <2>2, <2>3, <2>6 DEF NameOf, SameBut
<1>13. CASE DeleteName(c)
  <2>1. Held(c) /\ SameBut(q, r) /\ q.pc = "unkey" /\ q.op = "delete"
    BY <1>q, <1>r, <1>t, <1>13, WriteMoves DEF Moved, At
  <2> QED
    BY <1>q, <2>1 DEF NameOf
<1>14. CASE RekeyName(c)
  <2>1. At(c, "rekey", "rename") /\ Held(c) /\ SameBut(q, r) /\ q.pc = "copy" /\ q.op = "rekey" /\ r.name \in Names
    BY <1>q, <1>r, <1>t, <1>14, WriteMoves DEF Moved, At, Held
  <2>2. rec' = rec /\ byName' = [byName EXCEPT ![r.name] = r.to]
    BY <1>r, <1>14 DEF RekeyName
  <2>3. /\ r.copy.name \notin Spoilt => byName[r.copy.name] = r.user
        /\ r.name \in Spoilt \/ r.name = r.copy.name
    BY <1>r, <1>k, <2>1 DEF NameOf, Held, At
  <2>4. r.copy.name \notin NameLeft(c)
    BY <2>1 DEF NameLeft, At
  <2>5. r.copy.name \notin Spoilt' => Named(r.copy.name) \subseteq {r.user}
    BY <1>0, <1>u, <1>v, <2>1, <2>3, <2>4
  <2>6. Named(r.copy.name)' = Named(r.copy.name) /\ byName'[r.name] = r.to
    BY <1>t, <2>1, <2>2 DEF Named, Live
  <2> QED
    BY <1>q, <1>0, <2>1, <2>3, <2>5, <2>6 DEF NameOf, SameBut
<1>15. CASE RekeyCopy(c)
  <2>1. /\ At(c, "rekey", "copy") /\ Held(c) /\ SameBut(q, r) /\ q.pc = "erase" /\ q.op = "rekey" /\ r.name \in Names
        /\ r.to \in Users
    BY <1>q, <1>r, <1>t, <1>15, WriteMoves DEF Moved, At, Held
  <2>2. PICK new : rec' = [rec EXCEPT ![r.to] = new]
    BY <1>r, <1>15 DEF RekeyCopy
  <2>3. byName' = byName /\ (r.copy.name = r.name \/ r.copy.name \in cut')
    BY <1>r, <1>15, <1>v, <2>1, AccountsAssumption DEF RekeyCopy, Copy, AccountsAssumption
  <2>4. /\ r.copy.name \notin Spoilt => Named(r.copy.name) \subseteq {r.user, r.to}
        /\ r.name \in Spoilt \/ r.name = r.copy.name
        /\ r.name \notin Spoilt => byName[r.name] = r.to
    BY <1>r, <1>k, <2>1 DEF NameOf, Held, At
  <2>5. Named(r.copy.name)' \subseteq Named(r.copy.name) \cup {r.to}
    BY <1>t, <2>1, <2>2 DEF Named, Live
  <2>6. r.copy.name \notin Spoilt' => r.copy.name = r.name
    BY <2>3 DEF Spoilt
  <2> QED
    BY <1>q, <1>0, <2>1, <2>3, <2>4, <2>5, <2>6 DEF NameOf, SameBut
<1> QED
  BY <1>1, <1>2, <1>3, <1>4, <1>5, <1>6, <1>7, <1>8, <1>9, <1>10, <1>11, <1>12, <1>13, <1>14, <1>15 DEF Acts

LEMMA NameStep ==
  ASSUME Typed, Separate, DrawInv, CopyInv, NameInv, [Next]_vars
  PROVE  NameInv'
<1>t. \A u \in Live' : rec'[u].name \in Names
  <2>1. DataTyped'
    BY TypedStep DEF Typed
  <2> QED
    BY <2>1, RecordIs DEF DataTyped, Live, Ids
<1>1. CASE Still
  <2>1. rec' = rec /\ byName' = byName /\ mixed' = mixed /\ Spoilt \subseteq Spoilt'
    BY <1>1 DEF Still, Spoilt
  <2>2. \A d \in Calls : call'[d] = call[d] \/ (Ends(call'[d]) /\ Left(d) \subseteq Spoilt')
    BY <1>1 DEF Still, Spoilt
  <2>3. \A d \in Calls : NameOf(d)'
    <3> TAKE d \in Calls
    <3>1. CASE call'[d] = call[d]
      BY <2>1, <3>1 DEF NameInv, NameOf, Named, Live, Holder
    <3>2. CASE Ends(call'[d])
      BY <3>2 DEF NameOf, Ends, Holder
    <3> QED
      BY <2>2, <3>1, <3>2
  <2>4. \A d \in Calls : NameLeft(d) \subseteq Left(d)
    BY StepIs DEF NameLeft, Left, Copy, Typed, IsStep, UpdateSteps, DeleteSteps, RekeySteps
  <2>5. ASSUME NEW n \in Names \ Spoilt', NEW d \in Calls, n \in NameLeft(d)
        PROVE  n \in NameLeft(d)'
    BY <2>2, <2>4, <2>5 DEF NameLeft, Copy
  <2>6. ASSUME NEW n \in Names \ Spoilt'
        PROVE  NameAmong(n)'
    <3>1. NameAmong(n)
      BY <2>1, NamesAmong DEF NameInv, Typed
    <3> QED
      BY <2>1, <2>5, <3>1 DEF NameAmong, Named, Live
  <2>7. (NamesOfLive /\ NamesTaken)'
    BY <1>t, <2>6 DEF NamesOfLive, NamesTaken, NameAmong, Named
  <2> QED
    BY <2>3, <2>7 DEF NameInv
<1>2. ASSUME NEW c \in Calls, Acts(c)
      PROVE  NameInv'
  <2>1. Separate'
    BY ApartStep
  <2>2. \A d \in Calls : NameOf(d)'
    BY <1>2, <2>1, NameActor, NameOther
  <2>3. ASSUME NEW n \in Names \ Spoilt'
        PROVE  NameAmong(n)'
    <3>1. CASE n \in Touched(call[c])
      <4>1. NameAt(n, c)'
        BY <1>2, <3>1, NameAct
      <4> QED
        BY <4>1 DEF NameAt, NameAmong
    <3> QED
      BY <1>2, <3>1, NameRest
  <2>4. (NamesOfLive /\ NamesTaken)'
    BY <1>t, <2>3 DEF NamesOfLive, NamesTaken, NameAmong, Named
  <2> QED
    BY <2>2, <2>4 DEF NameInv
<1> QED
  BY <1>1, <1>2, StepKinds

-----------------------------------------------------------------------------
(* Keys *)

KeyAt(k, c) == \A u \in Keyed(k) : byKey[k] = u \/ k \in KeyLeft(c)

KeyAmong(k) == \A u \in Keyed(k) : byKey[k] = u \/ \E d \in Calls : k \in KeyLeft(d)

LEMMA KeysAmong ==
  ASSUME DataTyped
  PROVE  KeysOfLive <=> \A k \in Keys \ Spoilt : KeyAmong(k)
<1>1. \A u \in Live : rec[u].key \in Keys
  BY RecordIs DEF DataTyped, Live, Ids
<1> QED
  BY <1>1 DEF KeysOfLive, KeyAmong, Keyed

LEMMA KeyAtIs ==
  ASSUME Typed, Separate, KeyInv, NEW c \in Calls, Acts(c), NEW k \in Keys, k \in Touched(call[c]), k \notin Spoilt'
  PROVE  KeyAt(k, c) /\ k \notin Spoilt /\ \A d \in Calls \ {c} : k \notin KeyLeft(d)
<1>1. k \notin Spoilt /\ \A d \in Calls \ {c} : k \notin Touched(call[d])
  BY OwnIs, ActFrame DEF Spoilt, Frame
<1>2. \A d \in Calls \ {c} : k \notin KeyLeft(d)
  BY <1>1, LeftsAre DEF Typed
<1>3. KeyAmong(k)
  BY <1>1, KeysAmong DEF KeyInv, Typed
<1> QED
  BY <1>1, <1>2, <1>3 DEF KeyAmong, KeyAt

(* The keys that the call does not touch. *)
LEMMA KeyRest ==
  ASSUME Typed, KeyInv, NEW c \in Calls, Acts(c),
         NEW k \in Keys, k \notin Touched(call[c]), k \notin Spoilt'
  PROVE  KeyAmong(k)'
<1>1. Frame(c)
  BY ActFrame
<1>2. k \notin Spoilt /\ KeyAmong(k) /\ byKey'[k] = byKey[k]
  BY <1>1, KeysAmong DEF Frame, Spoilt, KeyInv, Typed
<1>3. \A d \in Calls : k \in KeyLeft(d) => k \in KeyLeft(d)'
  <2>1. \A d \in Calls \ {c} : call'[d] = call[d]
    BY <1>1 DEF Frame
  <2> QED
    BY <2>1, LeftsAre DEF KeyLeft, Typed, Copy
<1>4. \A u \in Keyed(k)' : u \in Keyed(k)
  <2>1. \A u \in Users : rec'[u] \in {rec[u], None} \/ rec'[u].key \in Touched(call[c])
    BY <1>1 DEF Frame
  <2> QED
    BY <2>1 DEF Keyed, Live
<1> QED
  BY <1>2, <1>3, <1>4 DEF KeyAmong

(* Nobody else got the key, and the way that it leads is the same. *)
LEMMA KeyStays ==
  ASSUME NEW c, NEW k, KeyAt(k, c), Keyed(k)' \subseteq Keyed(k), byKey'[k] = byKey[k], k \in KeyLeft(c) => k \in KeyLeft(c)'
  PROVE  KeyAt(k, c)'
BY DEF KeyAt

(* The key leads to the only account that has it. *)
LEMMA KeyHeld ==
  ASSUME NEW c, NEW k, NEW u, Keyed(k)' \subseteq {u}, byKey'[k] = u
  PROVE  KeyAt(k, c)'
BY DEF KeyAt

(* What writes a record does to who has a key. *)
LEMMA KeyedWritten ==
  ASSUME Typed, NEW k, NEW v \in Users, NEW new, rec' = [rec EXCEPT ![v] = new]
  PROVE  /\ Keyed(k)' \subseteq Keyed(k) \cup {v}
         /\ new = None \/ new.key # k => Keyed(k)' \subseteq Keyed(k) \ {v}
BY DEF Typed, DataTyped, Keyed, Live

LEMMA KeyAct ==
  ASSUME Typed, Separate, KeyInv, NEW c \in Calls, Acts(c),
         NEW k \in Keys, k \in Touched(call[c]), k \notin Spoilt'
  PROVE  KeyAt(k, c)'
<1>r. PICK r : r = call[c]
  OBVIOUS
<1>q. PICK q : q = call'[c]
  OBVIOUS
<1>t. /\ CallsTyped /\ rec \in [Users -> Ids(UserRecords)] /\ byKey \in [Keys -> Ids(Users)] /\ DataTyped
  BY DEF Typed, DataTyped
<1>0. /\ Spoilt \subseteq Spoilt' /\ KeyAt(k, c) /\ k \notin Spoilt /\ k \notin cut'
      /\ k = r.key \/ (Holder(c) /\ k = r.copy.key)
  BY <1>r, <1>t, KeyAtIs, OwnsAre, ActFrame DEF Frame, Spoilt, Copy
<1>k. KeyOf(c)
  BY DEF KeyInv
<1>a. k \notin KeyLeft(c) => \A u \in Keyed(k) : byKey[k] = u
  BY <1>0 DEF KeyAt
(* Nothing that matters to the key is changed. *)
<1>u. ASSUME rec' = rec, byKey'[k] = byKey[k], k \in KeyLeft(c) => k \in KeyLeft(c)'
      PROVE  KeyAt(k, c)'
  <2>1. Keyed(k)' = Keyed(k)
    BY <1>u DEF Keyed, Live
  <2> QED
    BY <1>0, <1>u, <2>1, KeyStays
(* The record is written with the key that was read. *)
<1>b. ASSUME Held(c), NEW new, new = None \/ new.key = r.copy.key, rec' = [rec EXCEPT ![r.user] = new], byKey' = byKey,
             r.op # "update", k \notin KeyLeft(c)
      PROVE  KeyAt(k, c)'
  <2>1. r.user \in Users
    BY <1>r, <1>b DEF Held
  <2>2. CASE k = r.copy.key
    <3>1. byKey[k] = r.user
      BY <1>r, <1>0, <1>k, <1>b, <2>2 DEF KeyOf, Held
    <3>2. Keyed(k)' \subseteq {r.user}
      BY <1>t, <1>a, <1>b, <2>1, <3>1, KeyedWritten DEF Typed
    <3> QED
      BY <1>b, <3>1, <3>2, KeyHeld
  <2>3. CASE k # r.copy.key
    <3>1. Keyed(k)' \subseteq Keyed(k)
      BY <1>t, <1>b, <2>1, <2>3, KeyedWritten
    <3> QED
      BY <1>0, <1>b, <3>1, KeyStays
  <2> QED
    BY <2>2, <2>3
<1>1. ASSUME NEW p, ReadsAs(c, p) \/ StartsAs(c, p)
      PROVE  KeyAt(k, c)'
  <2>1. rec' = rec /\ byKey' = byKey
    BY <1>1 DEF ReadsAs, StartsAs, Untouched
  <2>2. KeyLeft(c) = {}
    <3>1. r.pc \in {"start", "read"}
      BY <1>1, <1>r DEF ReadsAs, StartsAs
    <3> QED
      BY <1>r, <3>1 DEF KeyLeft
  <2> QED
    BY <1>u, <2>1, <2>2
<1>3. CASE Looks(c)
  <2>1. PICK pc : /\ Moved(c, pc)
                  /\ \/ pc = "done" /\ cut' = cut \cup Left(c)
                     \/ pc = "done" /\ r.op \in {"login", "keylogin", "request", "verify"}
                     \/ <<r.op, r.pc, pc>> \in LookEdges
    BY <1>r, <1>3 DEF Looks
  <2>2. rec' = rec /\ byKey' = byKey /\ r.pc \notin {"start", "done"}
    BY <1>r, <1>3 DEF Looks
  <2>3. CASE cut' = cut \cup Left(c)
    <3>1. k \notin Left(c)
      BY <1>0, <2>3
    <3>2. KeyLeft(c) \subseteq Left(c)
      BY <1>r, <1>t, <2>2, StepIs DEF KeyLeft, Left, Copy, IsStep, UpdateSteps, DeleteSteps, RekeySteps
    <3> QED
      BY <1>u, <2>2, <3>1, <3>2
  <2>4. CASE r.op \in {"login", "keylogin", "request", "verify"}
    <3>1. KeyLeft(c) = {}
      BY <1>r, <1>t, <2>2, <2>4, StepIs DEF KeyLeft, IsStep, UpdateSteps, DeleteSteps
    <3> QED
      BY <1>u, <2>2, <3>1
  <2>5. CASE <<r.op, r.pc, pc>> \in LookEdges
    <3>1. SameBut(q, r) /\ q.pc = pc /\ (r.pc \in {"name", "since"} => pc \in {"email", "since", "keyptr"})
          /\ r.pc \notin {"email", "keyptr", "nameptr", "record", "unname", "unkey"}
      BY <1>q, <1>r, <2>1, <2>5 DEF Moved, LookEdges
    <3>2. k \in KeyLeft(c) => k \in KeyLeft(c)'
      BY <1>q, <1>r, <3>1 DEF KeyLeft, Copy, SameBut
    <3> QED
      BY <1>u, <2>2, <3>2
  <2> QED
    BY <2>1, <2>3, <2>4, <2>5
<1>4. ASSUME NEW new, Back(c, new)
      PROVE  KeyAt(k, c)'
  <2>1. /\ Held(c) /\ rec' = [rec EXCEPT ![r.user] = new] /\ new.key = r.copy.key /\ byKey' = byKey
        /\ r.pc \in {"save", "rehash", "attach", "unverify"} /\ r.op # "update"
    BY <1>r, <1>4 DEF Back, Copy
  <2>2. k \notin KeyLeft(c)
    BY <1>r, <2>1 DEF KeyLeft
  <2> QED
    BY <1>b, <2>1, <2>2
<1>5. CASE UpdateEmail(c) \/ UpdatePointName(c)
  <2>1. rec' = rec /\ byKey' = byKey
    BY <1>5 DEF UpdateEmail, UpdatePointName
  <2>2. SameBut(q, r) /\ r.pc \in {"email", "nameptr"} /\ q.pc \in {"since", "keyptr", "record"}
    BY <1>q, <1>r, <1>t, <1>5, EmailMoves, WriteMoves DEF Moved, At
  <2>3. k \in KeyLeft(c) => k \in KeyLeft(c)'
    BY <1>q, <1>r, <2>2 DEF KeyLeft, Copy, SameBut
  <2> QED
    BY <1>u, <2>1, <2>3
<1>6. CASE UpdateKey(c) /\ ~(Stop(c) /\ UNCHANGED byKey)
  <2>1. /\ At(c, "update", "key") /\ Held(c) /\ SameBut(q, r) /\ q.pc = "name"
        /\ byKey' = [byKey EXCEPT ![r.copy.key] = None]
    BY <1>q, <1>r, <1>t, <1>6, KeyMoves DEF Moved, Copy
  <2>2. rec' = rec
    BY <1>6 DEF UpdateKey
  <2>3. r.key # None /\ KeyLeft(c) = {}
    BY <1>r, <1>t, <2>1, StepIs, AccountsAssumption DEF At, KeyLeft, AccountsAssumption
  <2>4. CASE k = r.copy.key
    <3>1. k \in KeyLeft(c)'
      BY <1>q, <2>1, <2>3, <2>4 DEF KeyLeft, Copy, SameBut
    <3> QED
      BY <3>1 DEF KeyAt
  <2>5. CASE k # r.copy.key
    <3>1. byKey'[k] = byKey[k]
      BY <1>t, <2>1, <2>5
    <3> QED
      BY <1>u, <2>2, <2>3, <3>1
  <2> QED
    BY <2>4, <2>5
<1>7. CASE RegisterWrite(c)
  <2>1. /\ r.pc = "enroll" /\ r.user \in Users /\ r.copy = None
        /\ \E new \in UserRecords : rec' = [rec EXCEPT ![r.user] = new]
    BY <1>r, <1>7, EnrollMoves
  <2>2. byKey' = [byKey EXCEPT ![r.key] = r.user] /\ (byKey[r.key] = None \/ r.key \in cut')
    BY <1>r, <1>7 DEF RegisterWrite
  <2>3. k = r.key /\ k \notin KeyLeft(c)
    BY <1>0, <1>r, <2>1 DEF KeyLeft, Holder
  <2>4. byKey[k] = None
    BY <1>0, <2>2, <2>3
  <2>5. Keyed(k) = {}
    BY <1>a, <2>3, <2>4, AccountsAssumption DEF Keyed, Live, AccountsAssumption
  <2>6. Keyed(k)' \subseteq {r.user} /\ byKey'[k] = r.user
    BY <1>t, <2>1, <2>2, <2>3, <2>5, KeyedWritten
  <2> QED
    BY <2>6, KeyHeld
<1>8. CASE UpdatePointKey(c)
  <2>1. At(c, "update", "keyptr") /\ Held(c) /\ SameBut(q, r) /\ q.pc = "nameptr"
    BY <1>q, <1>r, <1>t, <1>8, WriteMoves DEF Moved
  <2>2. PICK new : new = Updated(c)
    OBVIOUS
  <2>3. rec' = rec /\ byKey' = [byKey EXCEPT ![new.key] = r.user]
    BY <1>r, <1>8, <2>2 DEF UpdatePointKey
  <2>4. new.key = IF r.key = None THEN r.copy.key ELSE r.key
    BY <1>r, <1>t, <2>1, <2>2, UpdatedIs DEF At, Copy
  <2>5. CASE k = new.key
    <3>1. byKey'[k] = r.user
      BY <1>t, <2>3, <2>5
    <3>2. CASE r.key = None
      <4>1. byKey[k] = r.user
        BY <1>r, <1>0, <1>k, <2>1, <2>4, <2>5, <3>2 DEF KeyOf, Held, At
      <4>2. KeyLeft(c) = {}
        BY <1>r, <2>1, <3>2 DEF KeyLeft, At
      <4> QED
        BY <1>u, <2>3, <3>1, <4>1, <4>2
    <3>3. CASE r.key # None
      <4>1. Keyed(k) \subseteq {r.user}
        BY <1>r, <1>0, <1>k, <2>1, <2>4, <2>5, <3>3 DEF KeyOf, At
      <4>2. Keyed(k)' = Keyed(k)
        BY <2>3 DEF Keyed, Live
      <4> QED
        BY <3>1, <4>1, <4>2, KeyHeld
    <3> QED
      BY <3>2, <3>3
  <2>6. CASE k # new.key
    <3>1. byKey'[k] = byKey[k]
      BY <1>t, <2>3, <2>6
    <3>2. k \in KeyLeft(c) => k \in KeyLeft(c)'
      BY <1>q, <1>r, <2>1 DEF At, KeyLeft, Copy, SameBut
    <3> QED
      BY <1>u, <2>3, <3>1, <3>2
  <2> QED
    BY <2>5, <2>6
<1>9. CASE UpdateRecord(c)
  <2>1. At(c, "update", "record") /\ Held(c) /\ r.user \in Users
    BY <1>r, <1>t, <1>9, RecordMoves DEF Held
  <2>2. PICK new : new = Updated(c)
    OBVIOUS
  <2>3. rec' = [rec EXCEPT ![r.user] = new] /\ byKey' = byKey
    BY <1>r, <1>9, <2>2 DEF UpdateRecord
  <2>4. new.key = IF r.key = None THEN r.copy.key ELSE r.key
    BY <1>r, <1>t, <2>1, <2>2, UpdatedIs DEF At, Copy
  <2>5. CASE r.key = None
    <3>1. k = r.copy.key
      BY <1>0, <2>5, AccountsAssumption DEF AccountsAssumption
    <3>2. byKey[k] = r.user /\ k \notin KeyLeft(c)
      BY <1>r, <1>0, <1>k, <2>1, <2>5, <3>1 DEF KeyOf, Held, KeyLeft, At
    <3>3. Keyed(k)' \subseteq {r.user}
      BY <1>a, <2>1, <2>3, <3>2, KeyedWritten
    <3> QED
      BY <2>3, <3>2, <3>3, KeyHeld
  <2>6. CASE r.key # None /\ k = r.key
    <3>1. byKey[k] = r.user /\ Keyed(k) \subseteq {r.user}
      BY <1>r, <1>0, <1>k, <2>1, <2>6 DEF KeyOf, At
    <3>2. Keyed(k)' \subseteq {r.user}
      BY <2>1, <2>3, <3>1, KeyedWritten
    <3> QED
      BY <2>3, <3>1, <3>2, KeyHeld
  <2>7. CASE r.key # None /\ k # r.key
    <3>1. k \in KeyLeft(c) /\ k = r.copy.key
      BY <1>0, <1>r, <2>1, <2>7 DEF KeyLeft, At, Copy
    <3>2. Keyed(k) \subseteq {r.user}
      BY <1>r, <1>0, <1>k, <2>1, <3>1 DEF KeyOf, Held
    <3>3. Keyed(k)' = {}
      <4>1. new.key # k
        BY <2>4, <2>7
      <4>2. Keyed(k)' \subseteq Keyed(k) \ {r.user}
        BY <2>1, <2>3, <4>1, KeyedWritten
      <4> QED
        BY <3>2, <4>2
    <3> QED
      BY <3>3 DEF KeyAt
  <2> QED
    BY <2>5, <2>6, <2>7
<1>10. CASE UpdateRetire(c) \/ Evict(c) \/ VerifyMap(c) \/ RekeyName(c)
  <2>1. rec' = rec /\ byKey' = byKey
    BY <1>10 DEF UpdateRetire, Evict, VerifyMap, RekeyName, redisE
  <2>2. r.pc \in {"retire", "evict", "map", "rename"}
    BY <1>r, <1>10 DEF UpdateRetire, Evict, VerifyMap, RekeyName, At
  <2>3. KeyLeft(c) = {}
    BY <1>r, <2>2 DEF KeyLeft
  <2> QED
    BY <1>u, <2>1, <2>3
<1>11. CASE DeleteRecord(c)
  <2>1. At(c, "delete", "gone") /\ Held(c) /\ SameBut(q, r) /\ q.pc = "unname" /\ r.user \in Users
    BY <1>q, <1>r, <1>t, <1>11, WriteMoves DEF Moved, Held
  <2>2. rec' = [rec EXCEPT ![r.user] = None] /\ byKey' = byKey
    BY <1>r, <1>11 DEF DeleteRecord
  <2>3. CASE k = r.copy.key
    <3>1. k \in KeyLeft(c)'
      BY <1>q, <2>1, <2>3 DEF KeyLeft, Copy, SameBut
    <3> QED
      BY <3>1 DEF KeyAt
  <2>4. CASE k # r.copy.key
    <3>1. k \notin KeyLeft(c)
      BY <1>r, <2>4 DEF KeyLeft, Copy
    <3> QED
      BY <1>0, <2>1, <2>2, <3>1, KeyStays, KeyedWritten
  <2> QED
    BY <2>3, <2>4
<1>12. CASE DeleteName(c)
  <2>1. r.pc = "unname" /\ SameBut(q, r) /\ q.pc = "unkey"
    BY <1>q, <1>r, <1>t, <1>12, WriteMoves DEF Moved, At
  <2>2. rec' = rec /\ byKey' = byKey
    BY <1>12 DEF DeleteName
  <2>3. k \in KeyLeft(c) => k \in KeyLeft(c)'
    BY <1>q, <1>r, <2>1 DEF KeyLeft, Copy, SameBut
  <2> QED
    BY <1>u, <2>2, <2>3
<1>13. CASE DeleteKey(c)
  <2>1. At(c, "delete", "unkey") /\ Held(c)
    BY <1>t, <1>13, WriteMoves
  <2>2. rec' = rec /\ byKey' = [byKey EXCEPT ![r.copy.key] = None]
    BY <1>r, <1>13 DEF DeleteKey, Copy
  <2>3. CASE k = r.copy.key
    <3>1. Keyed(k) = {}
      BY <1>r, <1>0, <1>k, <2>1, <2>3 DEF KeyOf, Held, At
    <3>2. Keyed(k)' = Keyed(k)
      BY <2>2 DEF Keyed, Live
    <3> QED
      BY <3>1, <3>2 DEF KeyAt
  <2>4. CASE k # r.copy.key
    <3>1. k \notin KeyLeft(c) /\ byKey'[k] = byKey[k]
      BY <1>r, <1>t, <2>2, <2>4 DEF KeyLeft, Copy
    <3> QED
      BY <1>u, <2>2, <3>1
  <2> QED
    BY <2>3, <2>4
<1>14. CASE DeleteUser(c)
  <2>1. At(c, "delete", "wipe") /\ Held(c) /\ r.user \in Users
    BY <1>r, <1>t, <1>14, WriteMoves DEF Held
  <2>2. rec' = [rec EXCEPT ![r.user] = None] /\ byKey' = [byKey EXCEPT ![r.copy.key] = None]
    BY <1>r, <1>14 DEF DeleteUser, Copy
  <2>3. k \notin KeyLeft(c)
    BY <1>r, <2>1 DEF KeyLeft, At
  <2>4. Keyed(k)' \subseteq Keyed(k) \ {r.user}
    BY <2>1, <2>2, KeyedWritten
  <2>5. CASE k = r.copy.key
    <3>1. byKey[k] = r.user
      BY <1>r, <1>0, <1>k, <2>1, <2>5 DEF KeyOf, Held, At
    <3>2. Keyed(k)' = {}
      BY <1>a, <2>3, <2>4, <3>1
    <3> QED
      BY <3>2 DEF KeyAt
  <2>6. CASE k # r.copy.key
    <3>1. byKey'[k] = byKey[k]
      BY <1>t, <2>2, <2>6
    <3> QED
      BY <1>0, <2>3, <2>4, <3>1, KeyStays
  <2> QED
    BY <2>5, <2>6
<1>15. CASE RekeyCopy(c)
  <2>1. At(c, "rekey", "copy") /\ Held(c) /\ r.to \in Users
    BY <1>r, <1>t, <1>15, WriteMoves DEF Held, At
  <2>2. PICK new : new = [r.copy EXCEPT !.pw = 0, !.legacy = FALSE]
    OBVIOUS
  <2>3. rec' = [rec EXCEPT ![r.to] = new] /\ byKey' = byKey /\ (r.copy.key \in cut' \/ r.copy.key = r.name)
    <3>1. r.copy.key # None
      BY <1>r, <2>1, RecordIs, AccountsAssumption DEF Held, Copy, AccountsAssumption
    <3> QED
      BY <1>r, <1>15, <2>2, <3>1 DEF RekeyCopy, Copy
  <2>4. new.key = r.copy.key
    BY <1>r, <2>1, <2>2 DEF Held, UserRecords, Copy
  <2>5. k # r.copy.key
    <3>1. r.name \in Names
      BY <1>r, <2>1 DEF Held, At
    <3> QED
      BY <1>0, <2>3, <3>1, AccountsAssumption DEF AccountsAssumption
  <2>6. k \notin KeyLeft(c)
    BY <1>r, <2>1 DEF KeyLeft, At
  <2>7. Keyed(k)' \subseteq Keyed(k)
    BY <2>1, <2>3, <2>4, <2>5, KeyedWritten
  <2> QED
    BY <1>0, <2>3, <2>6, <2>7, KeyStays
<1>16. CASE RekeyErase(c)
  <2>1. At(c, "rekey", "erase") /\ Held(c) /\ r.user \in Users
    BY <1>r, <1>t, <1>16, WriteMoves DEF Held
  <2>2. rec' = [rec EXCEPT ![r.user] = None] /\ byKey' = byKey
    BY <1>r, <1>16 DEF RekeyErase
  <2>3. k \notin KeyLeft(c)
    BY <1>r, <2>1 DEF KeyLeft, At
  <2> QED
    BY <1>0, <2>1, <2>2, <2>3, KeyStays, KeyedWritten
<1>17. CASE VerifyRecord(c)
  <2>1. Held(c) /\ At(c, "verify", "write")
    BY <1>t, <1>17, WriteMoves
  <2>2. PICK new : new = [r.copy EXCEPT !.email = r.email, !.verified = TRUE]
    OBVIOUS
  <2>3. rec' = [rec EXCEPT ![r.user] = new] /\ byKey' = byKey
    BY <1>r, <1>17, <2>2 DEF VerifyRecord, redisE, Copy
  <2>4. new.key = r.copy.key
    BY <1>r, <2>1, <2>2 DEF Held, UserRecords, Copy
  <2>5. r.op # "update" /\ k \notin KeyLeft(c)
    BY <1>r, <2>1 DEF KeyLeft, At
  <2> QED
    BY <1>b, <2>1, <2>3, <2>4, <2>5
<1> QED
  BY <1>1, <1>3, <1>4, <1>5, <1>6, <1>7, <1>8, <1>9, <1>10, <1>11, <1>12, <1>13, <1>14, <1>15, <1>16, <1>17 DEF Acts

(* What the other calls know of keys. *)
LEMMA KeyOther ==
  ASSUME Typed, Separate, KeyInv, NEW c \in Calls, Acts(c), NEW d \in Calls \ {c}
  PROVE  KeyOf(d)'
<1>r. PICK r : r = call[d]
  OBVIOUS
<1>n. PICK k : k = r.copy.key
  OBVIOUS
<1>t. CallsTyped
  BY DEF Typed
<1>1. call'[d] = r /\ KeyOf(d)
  BY <1>r, ActFrame DEF Frame, KeyInv
<1>2. \A x \in Keys \ Spoilt' : x \in Touched(r) => x \notin Spoilt /\ byKey'[x] = byKey[x] /\ Keyed(x)' \subseteq Keyed(x)
  BY <1>r, OthersKeep
<1>3. Holder(d) => k \in Keys /\ k \in Touched(r)
  BY <1>r, <1>n, <1>t, Touches, RestIs, StepIs, RecordIs DEF Holder, Copy
<1>4. r.key # None => r.key \in Keys /\ r.key \in Touched(r)
  <2>1. r.key # None => r.key \in Keys
    BY <1>r, <1>t, FieldsAre DEF CallsTyped, Ids
  <2> QED
    BY <1>r, <1>t, <2>1, Touches
<1>5. (Holder(d)' <=> Holder(d)) /\ KeyLeft(d)' = KeyLeft(d)
  BY <1>r, <1>1 DEF Holder, KeyLeft, Copy
<1>6. Holder(d) /\ k \notin Spoilt' => k \notin Spoilt /\ byKey'[k] = byKey[k] /\ Keyed(k)' \subseteq Keyed(k)
  BY <1>2, <1>3
<1>7. r.key # None /\ r.key \notin Spoilt' => r.key \notin Spoilt /\ byKey'[r.key] = byKey[r.key] /\ Keyed(r.key)' \subseteq Keyed(r.key)
  BY <1>2, <1>4
<1>8. Holder(d) /\ k \notin Spoilt' =>
        /\ (r.op = "update" => r.key = None \/ r.pc = "key") => byKey'[k] = r.user
        /\ r.pc \in {"unname", "unkey"} => Keyed(k)' = {}
        /\ k \in KeyLeft(d) => Keyed(k)' \subseteq {r.user}
  BY <1>r, <1>n, <1>1, <1>6 DEF KeyOf
<1>9. r.op = "update" /\ r.key # None /\ r.key \notin Spoilt' =>
        /\ r.pc \in {"name", "email", "since", "keyptr", "nameptr", "record"} => Keyed(r.key)' \subseteq {r.user}
        /\ r.pc \in {"nameptr", "record", "retire"} => byKey'[r.key] = r.user
  BY <1>r, <1>1, <1>7 DEF KeyOf
<1> QED
  BY <1>r, <1>n, <1>1, <1>5, <1>8, <1>9 DEF KeyOf

LEMMA KeyRead ==
  ASSUME Typed, Separate', KeyInv, NEW c \in Calls, NEW q, ReadsAs(c, q), NEW v \in Live,
         rec[v].key \notin Spoilt', rec[v].key \in Touched(q)
  PROVE  byKey[rec[v].key] = v
<1>1. CallsTyped /\ call'[c] = q /\ \A d \in Calls \ {c} : call'[d] = call[d]
  BY ReadTyped DEF Typed
<1>2. rec[v].key \notin Spoilt /\ mixed' \subseteq Spoilt'
  BY FrameReads DEF Frame, Spoilt
<1>3. \A d \in Calls \ {c} : rec[v].key \notin KeyLeft(d)
  BY <1>1, <1>2, LeftsAre DEF Separate
<1>4. rec[v].key \notin KeyLeft(c)
  BY DEF ReadsAs, KeyLeft
<1> QED
  BY <1>2, <1>3, <1>4 DEF KeyInv, KeysOfLive

LEMMA KeyActor ==
  ASSUME Typed, Separate, Separate', KeyInv, NEW c \in Calls, Acts(c)
  PROVE  KeyOf(c)'
<1>r. PICK r : r = call[c]
  OBVIOUS
<1>q. PICK q : q = call'[c]
  OBVIOUS
<1>t. /\ CallsTyped /\ rec \in [Users -> Ids(UserRecords)] /\ byKey \in [Keys -> Ids(Users)] /\ DataTyped
  BY DEF Typed, DataTyped
<1>0. Spoilt \subseteq Spoilt' /\ cut' \subseteq Spoilt'
  BY ActFrame DEF Frame, Spoilt
<1>k. KeyOf(c)
  BY DEF KeyInv
(* A key of this call alone: who has it, can be reached by it. *)
<1>u. ASSUME NEW x \in Keys, x \in Touched(r), x \notin Spoilt', x \notin KeyLeft(c)
      PROVE  \A v \in Keyed(x) : byKey[x] = v
  BY <1>r, <1>u, KeyAtIs DEF KeyAt
<1>v. /\ Held(c) => r.copy.key \in Keys /\ r.copy.key \in Touched(r) /\ r.user \in Users
      /\ r.key # None => r.key \in Keys /\ r.key \in Touched(r)
  <2>1. r.key # None => r.key \in Keys
    BY <1>r, <1>t, FieldsAre DEF CallsTyped, Ids
  <2> QED
    BY <1>r, <1>t, <2>1, Touches, RecordIs DEF Held, Copy
<1>e. ASSUME Ends(q)
      PROVE  KeyOf(c)'
  BY <1>q, <1>e DEF KeyOf, Ends, Holder
<1>b. ASSUME Held(c), SameBut(q, r), q.op = r.op, byKey' = byKey, \A x \in Keys : Keyed(x)' \subseteq Keyed(x) \cup {r.user},
             q.pc # "key",
             q.pc \in {"unname", "unkey"} => r.pc \in {"unname", "unkey"} /\ rec' = rec,
             q.pc \in {"name", "email", "since", "keyptr", "nameptr", "record"} => r.pc \in {"name", "email", "since", "keyptr", "nameptr", "record"},
             q.pc \in {"nameptr", "record", "retire"} => r.pc \in {"nameptr", "record"}
      PROVE  KeyOf(c)'
  <2>1. q.copy = r.copy /\ q.user = r.user /\ q.key = r.key /\ Holder(c)
    BY <1>b DEF SameBut, Held
  <2>2. r.copy.key \notin Spoilt => /\ (r.op = "update" => r.key = None) => byKey[r.copy.key] = r.user
                                    /\ r.pc \in {"unname", "unkey"} => Keyed(r.copy.key) = {}
                                    /\ r.copy.key \in KeyLeft(c) => Keyed(r.copy.key) \subseteq {r.user}
    BY <1>r, <1>k, <2>1 DEF KeyOf
  <2>3. r.copy.key \in KeyLeft(c)' => r.copy.key \in KeyLeft(c)
    BY <1>q, <1>r, <1>b, <2>1 DEF KeyLeft, Copy
  <2>4. r.op = "update" /\ r.key # None /\ r.key \notin Spoilt =>
           /\ r.pc \in {"name", "email", "since", "keyptr", "nameptr", "record"} => Keyed(r.key) \subseteq {r.user}
           /\ r.pc \in {"nameptr", "record", "retire"} => byKey[r.key] = r.user
    BY <1>r, <1>k DEF KeyOf
  <2>5. rec' = rec => Keyed(r.copy.key)' = Keyed(r.copy.key)
    BY DEF Keyed, Live
  <2>6. Keyed(r.copy.key)' \subseteq Keyed(r.copy.key) \cup {r.user} /\ (r.key # None => Keyed(r.key)' \subseteq Keyed(r.key) \cup {r.user})
    BY <1>b, <1>v
  <2>7. r.copy.key \notin Spoilt' =>
           /\ (r.op = "update" => r.key = None) => byKey'[r.copy.key] = r.user
           /\ q.pc \in {"unname", "unkey"} => Keyed(r.copy.key)' = {}
           /\ r.copy.key \in KeyLeft(c)' => Keyed(r.copy.key)' \subseteq {r.user}
    BY <1>0, <1>b, <2>2, <2>3, <2>5, <2>6
  <2>8. r.op = "update" /\ r.key # None /\ r.key \notin Spoilt' =>
           /\ q.pc \in {"name", "email", "since", "keyptr", "nameptr", "record"} => Keyed(r.key)' \subseteq {r.user}
           /\ q.pc \in {"nameptr", "record", "retire"} => byKey'[r.key] = r.user
    BY <1>0, <1>b, <2>4, <2>6
  <2> QED
    BY <1>q, <1>b, <2>1, <2>7, <2>8 DEF KeyOf
<1>1. ASSUME NEW p, ReadsAs(c, p)
      PROVE  KeyOf(c)'
  <2>1. q = p /\ p.user \in Live /\ p.copy = rec[p.user] /\ byKey' = byKey /\ rec' = rec
    BY <1>q, <1>t, <1>1, ReadTyped DEF ReadsAs, Untouched
  <2>2. p.copy \in UserRecords /\ p.copy # None /\ p.copy.key \in Keys
    BY <1>t, <2>1, RecordIs DEF Live, Ids
  <2>3. p.copy.key \in Touched(p)
    BY <2>2, AccountsAssumption DEF Touched, AccountsAssumption
  <2>4. p.copy.key \notin Spoilt' => byKey[p.copy.key] = p.user
    BY <1>1, <2>1, <2>3, KeyRead
  <2>5. /\ p.pc \notin {"unname", "unkey", "retire", "email", "since", "keyptr", "nameptr", "record"}
        /\ p.op = "update" /\ p.key # None => p.pc = "key"
        /\ p.pc = "name" => p.op = "update"
    BY <1>1 DEF ReadsAs, PathOf, IsStep, UpdateSteps
  <2>6. p.copy.key \notin KeyLeft(c)'
    BY <1>q, <2>1, <2>5 DEF KeyLeft
  <2> QED
    BY <1>q, <2>1, <2>4, <2>5, <2>6 DEF KeyOf
<1>2. ASSUME NEW p, StartsAs(c, p)
      PROVE  KeyOf(c)'
  <2>1. q = p /\ p.copy = None /\ p.pc \in {"enroll", "read", "owner"}
    BY <1>q, <1>t, <1>2, StartTyped DEF StartsAs
  <2> QED
    BY <1>q, <2>1 DEF KeyOf, Holder
<1>w. ASSUME rec' = rec
      PROVE  \A x \in Keys : Keyed(x)' \subseteq Keyed(x) \cup {r.user}
  BY <1>w DEF Keyed, Live
<1>3. CASE Looks(c)
  <2>1. PICK pc : /\ Moved(c, pc)
                  /\ pc # "done" => <<r.op, r.pc, pc>> \in LookEdges
    BY <1>r, <1>3 DEF Looks
  <2>2. CASE pc = "done"
    BY <1>e, <1>q, <2>1, <2>2 DEF Moved
  <2>3. CASE pc # "done"
    <3>1. SameBut(q, r) /\ q.op = r.op /\ q.pc = pc
      BY <1>q, <1>r, <2>1, <2>3 DEF Moved
    <3>2. byKey' = byKey /\ rec' = rec /\ r.pc \notin {"start", "done"}
      BY <1>3, <1>r DEF Looks
    <3>3. /\ q.pc \notin {"key", "name", "unname", "unkey", "nameptr", "record", "retire"}
          /\ q.pc \in {"email", "since", "keyptr"} => r.pc \in {"name", "since"}
          /\ r.copy = None => q.pc \notin {"email", "since", "keyptr"} \/ r.pc \in {"name", "since"}
          /\ r.op # "update" => q.pc \notin {"email", "since", "keyptr"}
      BY <2>1, <2>3, <3>1 DEF LookEdges
    <3>4. CASE r.copy # None
      <4>1. Held(c)
        BY <1>r, <1>t, <3>2, <3>4, StepIs, HeldIs
      <4> QED
        BY <1>b, <1>w, <3>1, <3>2, <3>3, <4>1
    <3>5. CASE r.copy = None
      <4>1. r.op # "update"
        BY <1>r, <1>t, <3>2, <3>5, StepIs DEF IsStep, NoCopy
      <4> QED
        BY <1>q, <3>1, <3>3, <3>5, <4>1 DEF KeyOf, SameBut, Holder
    <3> QED
      BY <3>4, <3>5
  <2> QED
    BY <2>2, <2>3
<1>4. ASSUME NEW new, Back(c, new)
      PROVE  KeyOf(c)'
  <2>1. PICK pc : Moved(c, pc) /\ pc \in {"done", "gate", "sign", "code"}
    BY <1>4 DEF Back
  <2>2. CASE pc = "done"
    BY <1>e, <1>q, <2>1, <2>2 DEF Moved
  <2>3. CASE pc # "done"
    <3>1. SameBut(q, r) /\ q.op = r.op /\ q.pc = pc
      BY <1>q, <1>r, <2>1, <2>3 DEF Moved
    <3>2. Held(c) /\ byKey' = byKey /\ rec' = [rec EXCEPT ![r.user] = new]
      BY <1>r, <1>4 DEF Back
    <3>3. \A x \in Keys : Keyed(x)' \subseteq Keyed(x) \cup {r.user}
      BY <1>v, <3>2, KeyedWritten
    <3> QED
      BY <1>b, <2>1, <2>3, <3>1, <3>2, <3>3
  <2> QED
    BY <2>2, <2>3
<1>5. CASE UpdateEmail(c) \/ UpdatePointName(c)
  <2>1. Held(c) /\ SameBut(q, r) /\ q.op = r.op /\ \/ r.pc = "email" /\ q.pc \in {"since", "keyptr"}
                                                   \/ r.pc = "nameptr" /\ q.pc = "record"
    BY <1>q, <1>r, <1>t, <1>5, EmailMoves, WriteMoves DEF At, Moved
  <2>2. byKey' = byKey /\ rec' = rec
    BY <1>5 DEF UpdateEmail, UpdatePointName
  <2> QED
    BY <1>b, <1>w, <2>1, <2>2
<1>6. CASE UpdateKey(c) /\ ~(Stop(c) /\ UNCHANGED byKey)
  <2>1. /\ At(c, "update", "key") /\ Held(c) /\ SameBut(q, r) /\ q.pc = "name" /\ q.op = "update"
        /\ byKey[r.key] \notin Live \ {r.user}
    BY <1>q, <1>r, <1>t, <1>6, KeyMoves DEF Moved, At
  <2>2. rec' = rec
    BY <1>6 DEF UpdateKey
  <2>3. r.key # None /\ r.key \in Keys /\ KeyLeft(c) = {}
    BY <1>r, <1>v, <1>t, <2>1, StepIs, AccountsAssumption DEF At, KeyLeft, AccountsAssumption
  <2>4. r.copy.key \notin Spoilt => byKey[r.copy.key] = r.user
    BY <1>r, <1>k, <2>1 DEF KeyOf, Held, At
  <2>5. r.copy.key \notin Spoilt' => Keyed(r.copy.key) \subseteq {r.user}
    BY <1>0, <1>u, <1>v, <2>1, <2>3, <2>4
  <2>6. r.key \notin Spoilt' => Keyed(r.key) \subseteq {r.user}
    BY <1>u, <1>v, <2>1, <2>3 DEF Keyed
  <2>7. Keyed(r.copy.key)' = Keyed(r.copy.key) /\ Keyed(r.key)' = Keyed(r.key)
    BY <2>2 DEF Keyed, Live
  <2> QED
    BY <1>q, <2>1, <2>3, <2>5, <2>6, <2>7 DEF KeyOf, SameBut
<1>7. CASE RegisterWrite(c)
  <2>1. /\ r.key \in Keys /\ r.pc = "enroll"
        /\ \/ Ends(q)
           \/ \E new \in UserRecords : /\ q.op = "nostr" /\ q.pc = "save" /\ q.copy = new /\ q.user = r.user /\ new.key = r.key
    BY <1>q, <1>r, <1>7, EnrollMoves
  <2>2. byKey' = [byKey EXCEPT ![r.key] = r.user]
    BY <1>r, <1>7 DEF RegisterWrite
  <2>3. byKey'[r.key] = r.user
    BY <1>t, <2>1, <2>2
  <2>4. q.pc = "save" => KeyLeft(c)' = {}
    BY <1>q DEF KeyLeft
  <2> QED
    BY <1>e, <1>q, <2>1, <2>3, <2>4 DEF KeyOf
<1>8. CASE UpdatePointKey(c)
  <2>1. At(c, "update", "keyptr") /\ Held(c) /\ SameBut(q, r) /\ q.pc = "nameptr" /\ q.op = "update"
    BY <1>q, <1>r, <1>t, <1>8, WriteMoves DEF Moved, At
  <2>2. PICK new : new = Updated(c)
    OBVIOUS
  <2>3. rec' = rec /\ byKey' = [byKey EXCEPT ![new.key] = r.user]
    BY <1>r, <1>8, <2>2 DEF UpdatePointKey
  <2>4. new.key = IF r.key = None THEN r.copy.key ELSE r.key
    BY <1>r, <1>t, <2>1, <2>2, UpdatedIs DEF At, Copy
  <2>5. byKey'[new.key] = r.user
    BY <1>t, <1>v, <2>1, <2>3, <2>4
  <2>6. /\ r.key # None /\ r.key \notin Spoilt => Keyed(r.key) \subseteq {r.user}
        /\ r.copy.key \notin Spoilt /\ r.copy.key \in KeyLeft(c) => Keyed(r.copy.key) \subseteq {r.user}
    BY <1>r, <1>k, <2>1 DEF KeyOf, Held, At
  <2>7. r.copy.key \in KeyLeft(c)' => r.copy.key \in KeyLeft(c)
    BY <1>q, <1>r, <2>1 DEF KeyLeft, Copy, SameBut, At
  <2>8. Keyed(r.copy.key)' = Keyed(r.copy.key) /\ Keyed(r.key)' = Keyed(r.key)
    BY <2>3 DEF Keyed, Live
  <2> QED
    BY <1>q, <1>0, <2>1, <2>4, <2>5, <2>6, <2>7, <2>8 DEF KeyOf, SameBut
<1>9. CASE UpdateRecord(c)
  <2>1. At(c, "update", "record") /\ Held(c) /\ Moved(c, IF r.name = r.copy.name THEN "done" ELSE "retire")
    BY <1>r, <1>t, <1>9, RecordMoves DEF Copy
  <2>2. PICK new : rec' = [rec EXCEPT ![r.user] = new] /\ byKey' = byKey
    BY <1>r, <1>9 DEF UpdateRecord
  <2>3. \A x \in Keys : Keyed(x)' \subseteq Keyed(x) \cup {r.user}
    BY <1>v, <2>1, <2>2, KeyedWritten
  <2>4. Ends(q) \/ (SameBut(q, r) /\ q.pc = "retire" /\ q.op = r.op)
    BY <1>q, <1>r, <2>1 DEF Moved
  <2> QED
    BY <1>b, <1>e, <1>r, <2>1, <2>2, <2>3, <2>4 DEF At
<1>10. CASE UpdateRetire(c) \/ DeleteKey(c) \/ VerifyMap(c) \/ RekeyErase(c) \/ DeleteUser(c) \/ Evict(c)
  <2>1. Moved(c, "done")
    BY <1>t, <1>10, WriteMoves
  <2> QED
    BY <1>e, <1>q, <2>1 DEF Moved
<1>11. CASE DeleteRecord(c)
  <2>1. At(c, "delete", "gone") /\ Held(c) /\ SameBut(q, r) /\ q.pc = "unname" /\ q.op = "delete"
    BY <1>q, <1>r, <1>t, <1>11, WriteMoves DEF Moved, At
  <2>2. rec' = [rec EXCEPT ![r.user] = None] /\ byKey' = byKey
    BY <1>r, <1>11 DEF DeleteRecord
  <2>3. r.copy.key \notin Spoilt => byKey[r.copy.key] = r.user
    BY <1>r, <1>k, <2>1 DEF KeyOf, Held, At
  <2>4. r.copy.key \notin KeyLeft(c)
    BY <2>1 DEF KeyLeft, At
  <2>5. r.copy.key \notin Spoilt' => Keyed(r.copy.key) \subseteq {r.user}
    BY <1>0, <1>u, <1>v, <2>1, <2>3, <2>4
  <2>6. r.copy.key \notin Spoilt' => Keyed(r.copy.key)' = {}
    <3>1. Keyed(r.copy.key)' \subseteq Keyed(r.copy.key) \ {r.user}
      BY <1>v, <2>1, <2>2, KeyedWritten
    <3> QED
      BY <2>5, <3>1
  <2> QED
    BY <1>q, <1>0, <2>1, <2>2, <2>3, <2>6 DEF KeyOf, SameBut
<1>12. CASE DeleteName(c)
  <2>1. Held(c) /\ SameBut(q, r) /\ q.pc = "unkey" /\ r.pc = "unname" /\ q.op = r.op
    BY <1>q, <1>r, <1>t, <1>12, WriteMoves DEF Moved, At
  <2>2. byKey' = byKey /\ rec' = rec
    BY <1>12 DEF DeleteName
  <2> QED
    BY <1>b, <1>w, <2>1, <2>2
<1>13. CASE RekeyName(c)
  <2>1. Held(c) /\ SameBut(q, r) /\ q.pc = "copy" /\ q.op = r.op
    BY <1>q, <1>r, <1>t, <1>13, WriteMoves DEF Moved, At
  <2>2. byKey' = byKey /\ rec' = rec
    BY <1>13 DEF RekeyName
  <2> QED
    BY <1>b, <1>w, <2>1, <2>2
<1>14. CASE RekeyCopy(c)
  <2>1. At(c, "rekey", "copy") /\ Held(c) /\ SameBut(q, r) /\ q.pc = "erase" /\ q.op = "rekey"
    BY <1>q, <1>r, <1>t, <1>14, WriteMoves DEF Moved, At
  <2>2. byKey' = byKey
    BY <1>14 DEF RekeyCopy
  <2>3. r.copy.key \notin Spoilt => byKey[r.copy.key] = r.user
    BY <1>r, <1>k, <2>1 DEF KeyOf, Held, At
  <2>4. KeyLeft(c)' = {}
    BY <1>q, <2>1 DEF KeyLeft
  <2> QED
    BY <1>q, <1>0, <2>1, <2>2, <2>3, <2>4 DEF KeyOf, SameBut
<1>15. CASE VerifyRecord(c)
  <2>1. Held(c) /\ SameBut(q, r) /\ q.pc = "map" /\ q.op = r.op
    BY <1>q, <1>r, <1>t, <1>15, WriteMoves DEF Moved, At
  <2>2. PICK new : rec' = [rec EXCEPT ![r.user] = new] /\ byKey' = byKey
    BY <1>r, <1>15 DEF VerifyRecord, redisE
  <2>3. \A x \in Keys : Keyed(x)' \subseteq Keyed(x) \cup {r.user}
    BY <1>v, <2>1, <2>2, KeyedWritten
  <2> QED
    BY <1>b, <2>1, <2>2, <2>3
<1> QED
  BY <1>1, <1>2, <1>3, <1>4, <1>5, <1>6, <1>7, <1>8, <1>9, <1>10, <1>11, <1>12, <1>13, <1>14, <1>15 DEF Acts

LEMMA KeyStep ==
  ASSUME Typed, Separate, KeyInv, [Next]_vars
  PROVE  KeyInv'
<1>t. \A u \in Live' : rec'[u].key \in Keys
  <2>1. DataTyped'
    BY TypedStep DEF Typed
  <2> QED
    BY <2>1, RecordIs DEF DataTyped, Live, Ids
<1>1. CASE Still
  <2>1. rec' = rec /\ byKey' = byKey /\ Spoilt \subseteq Spoilt'
    BY <1>1 DEF Still, Spoilt
  <2>2. \A d \in Calls : call'[d] = call[d] \/ (Ends(call'[d]) /\ Left(d) \subseteq Spoilt')
    BY <1>1 DEF Still, Spoilt
  <2>3. \A d \in Calls : KeyOf(d)'
    <3> TAKE d \in Calls
    <3>1. CASE call'[d] = call[d]
      <4>1. KeyLeft(d)' = KeyLeft(d) /\ (Holder(d)' <=> Holder(d))
        BY <3>1 DEF KeyLeft, Copy, Holder
      <4>2. KeyOf(d)
        BY DEF KeyInv
      <4>3. \A x : Keyed(x)' = Keyed(x)
        BY <2>1 DEF Keyed, Live
      <4> QED
        BY <2>1, <3>1, <4>1, <4>2, <4>3 DEF KeyOf
    <3>2. CASE Ends(call'[d])
      BY <3>2 DEF KeyOf, Ends, Holder
    <3> QED
      BY <2>2, <3>1, <3>2
  <2>4. \A d \in Calls : KeyLeft(d) \subseteq Left(d)
    <3> TAKE d \in Calls
    <3>1. CASE call[d].pc \in {"start", "done"}
      BY <3>1 DEF KeyLeft
    <3>2. CASE call[d].pc \notin {"start", "done"}
      BY <3>2, StepIs DEF KeyLeft, Left, Copy, Typed, IsStep, UpdateSteps, DeleteSteps, RekeySteps
    <3> QED
      BY <3>1, <3>2
  <2>5. ASSUME NEW k \in Keys \ Spoilt', NEW d \in Calls, k \in KeyLeft(d)
        PROVE  k \in KeyLeft(d)'
    BY <2>2, <2>4, <2>5 DEF KeyLeft, Copy
  <2>6. ASSUME NEW k \in Keys \ Spoilt'
        PROVE  KeyAmong(k)'
    <3>1. KeyAmong(k)
      BY <2>1, KeysAmong DEF KeyInv, Typed
    <3> QED
      BY <2>1, <2>5, <3>1 DEF KeyAmong, Keyed, Live
  <2>7. KeysOfLive'
    BY <1>t, <2>6 DEF KeysOfLive, KeyAmong, Keyed
  <2> QED
    BY <2>3, <2>7 DEF KeyInv
<1>2. ASSUME NEW c \in Calls, Acts(c)
      PROVE  KeyInv'
  <2>1. Separate'
    BY ApartStep
  <2>2. \A d \in Calls : KeyOf(d)'
    BY <1>2, <2>1, KeyActor, KeyOther
  <2>3. ASSUME NEW k \in Keys \ Spoilt'
        PROVE  KeyAmong(k)'
    <3>1. CASE k \in Touched(call[c])
      <4>1. KeyAt(k, c)'
        BY <1>2, <3>1, KeyAct
      <4> QED
        BY <4>1 DEF KeyAt, KeyAmong
    <3> QED
      BY <1>2, <3>1, KeyRest
  <2>4. KeysOfLive'
    BY <1>t, <2>3 DEF KeysOfLive, KeyAmong, Keyed
  <2> QED
    BY <2>2, <2>4 DEF KeyInv
<1> QED
  BY <1>1, <1>2, StepKinds

-----------------------------------------------------------------------------
(* Evictions *)

(* What writes a record does to who is a person. *)
LEMMA PersonsWritten ==
  ASSUME Typed, NEW w, NEW v \in Users, NEW new, rec' = [rec EXCEPT ![v] = new]
  PROVE  /\ Persons(w)' \subseteq Persons(w) \cup {v}
         /\ new = None \/ new.who # w => Persons(w)' \subseteq Persons(w) \ {v}
BY DEF Typed, DataTyped, Persons, Live

LEMMA OutOther ==
  ASSUME Typed, Separate, OutInv, NEW c \in Calls, Acts(c), NEW d \in Calls \ {c}
  PROVE  OutOf(d)'
<1>r. PICK r : r = call[d]
  OBVIOUS
<1>w. PICK w : w = r.copy.who
  OBVIOUS
<1>t. CallsTyped
  BY DEF Typed
<1>1. call'[d] = r /\ OutOf(d)
  BY <1>r, ActFrame DEF Frame, OutInv
<1>2. Holder(d) => w \in Touched(r)
  BY <1>r, <1>w, <1>t, Touches DEF Copy
<1>3. Holder(d) /\ w \notin Spoilt' => w \notin Spoilt /\ Persons(w)' \subseteq Persons(w) /\ (w \in outlaws' => w \in outlaws)
  BY <1>r, <1>2, OthersKeep
<1>4. Holder(d) /\ w \notin Spoilt' =>
         /\ r.op = "update" => w \notin outlaws'
         /\ Persons(w)' \subseteq {r.user} \cup (IF r.pc = "erase" THEN {r.to} ELSE {})
  BY <1>r, <1>w, <1>1, <1>3 DEF OutOf, Copy
<1>5. Holder(d)' <=> Holder(d)
  BY <1>r, <1>1 DEF Holder
<1> QED
  BY <1>w, <1>1, <1>4, <1>5 DEF OutOf, Copy

(* A record that is read is the only one of its person. *)
LEMMA OneRead ==
  ASSUME Typed, Separate', OutInv, NEW c \in Calls, NEW q, ReadsAs(c, q), q.copy.who \notin Spoilt'
  PROVE  /\ Persons(q.copy.who) \subseteq {q.user}
         /\ q.op = "update" => q.copy.who \notin outlaws
<1>1. /\ CallsTyped /\ call'[c] = q /\ (\A d \in Calls \ {c} : call'[d] = call[d])
      /\ q.user \in Live /\ q.copy = rec[q.user] /\ q.copy \in UserRecords
  <2>1. q.user \in Live /\ q.copy = rec[q.user]
    BY DEF ReadsAs
  <2> QED
    BY <2>1, ReadTyped DEF Typed, DataTyped, Live, Ids
<1>2. q.copy.who \notin Spoilt /\ mixed' \subseteq Spoilt'
  BY FrameReads DEF Frame, Spoilt
<1>3. q.copy.who \in Touched(q)
  <2>1. q.copy # None /\ q.copy.who # None
    BY <1>1, RecordIs, AccountsAssumption DEF AccountsAssumption
  <2> QED
    BY <2>1 DEF Touched
<1>4. ASSUME NEW d \in Calls, At(d, "rekey", "erase"), Copy(d).who = q.copy.who
      PROVE  FALSE
  <2>1. d # c
    BY <1>4 DEF ReadsAs, At
  <2>2. Holder(d)
    BY <1>1, <1>4, StepIs DEF At, Holder, NoCopy
  <2>3. q.copy.who \in Touched(call'[d])
    BY <1>1, <1>4, <2>1, <2>2, Touches
  <2> QED
    BY <1>1, <1>2, <1>3, <2>1, <2>3 DEF Separate
<1>5. \A v \in Persons(q.copy.who) : v = q.user
  BY <1>1, <1>2, <1>4 DEF OutInv, OneEach, Persons
<1>6. ASSUME q.op = "update", q.copy.who \in outlaws
      PROVE  FALSE
  <2>1. q.user \in Allowed
    BY <1>6 DEF ReadsAs
  <2>2. rec[q.user].name \in evicted
    BY <1>1, <1>2, <1>6 DEF OutInv, Outcasts
  <2> QED
    BY <2>1, <2>2 DEF Allowed, IsEvicted
<1> QED
  BY <1>5, <1>6

LEMMA OutActor ==
  ASSUME Typed, Separate, Separate', DrawInv, OutInv, NEW c \in Calls, Acts(c)
  PROVE  OutOf(c)'
<1>r. PICK r : r = call[c]
  OBVIOUS
<1>q. PICK q : q = call'[c]
  OBVIOUS
<1>t. CallsTyped /\ rec \in [Users -> Ids(UserRecords)]
  BY DEF Typed, DataTyped
<1>0. Spoilt \subseteq Spoilt'
  BY ActFrame DEF Frame, Spoilt
<1>k. OutOf(c)
  BY DEF OutInv
<1>v. Held(c) => r.user \in Users
  BY <1>r DEF Held
<1>e. ASSUME q.copy = None
      PROVE  OutOf(c)'
  BY <1>q, <1>e DEF OutOf, Holder
<1>b. ASSUME Held(c), SameBut(q, r), q.op = r.op, outlaws' = outlaws, r.pc # "erase",
             \A w \in Users : Persons(w)' \subseteq Persons(w) \cup {r.user} \cup (IF q.pc = "erase" THEN {r.to} ELSE {})
      PROVE  OutOf(c)'
  <2>1. q.copy = r.copy /\ q.user = r.user /\ q.to = r.to /\ Holder(c)
    BY <1>b DEF SameBut, Held
  <2>2. r.copy.who \in Users
    BY <1>r, <1>b, RecordIs DEF Held, Copy
  <2>3. r.copy.who \notin Spoilt => /\ r.op = "update" => r.copy.who \notin outlaws
                                    /\ Persons(r.copy.who) \subseteq {r.user}
    BY <1>r, <1>k, <1>b, <2>1 DEF OutOf, Copy
  <2>4. Persons(r.copy.who)' \subseteq Persons(r.copy.who) \cup {r.user} \cup (IF q.pc = "erase" THEN {r.to} ELSE {})
    BY <1>b, <2>2
  <2>5. r.copy.who \notin Spoilt' => /\ r.op = "update" => r.copy.who \notin outlaws'
                                     /\ Persons(r.copy.who)' \subseteq {r.user} \cup (IF q.pc = "erase" THEN {r.to} ELSE {})
    BY <1>0, <1>b, <2>3, <2>4
  <2> QED
    BY <1>q, <1>b, <2>1, <2>5 DEF OutOf, Copy
<1>w. ASSUME rec' = rec
      PROVE  \A w \in Users : Persons(w)' \subseteq Persons(w)
  BY <1>w DEF Persons, Live
<1>x. ASSUME Held(c), NEW new, rec' = [rec EXCEPT ![r.user] = new]
      PROVE  \A w \in Users : Persons(w)' \subseteq Persons(w) \cup {r.user}
  BY <1>v, <1>x, PersonsWritten
<1>1. ASSUME NEW p, ReadsAs(c, p)
      PROVE  OutOf(c)'
  <2>1. q = p /\ rec' = rec /\ outlaws' = outlaws
    BY <1>q, <1>t, <1>1, ReadTyped DEF ReadsAs, Untouched
  <2>2. p.copy.who \notin Spoilt' => Persons(p.copy.who) \subseteq {p.user} /\ (p.op = "update" => p.copy.who \notin outlaws)
    BY <1>1, OneRead
  <2>3. Persons(p.copy.who)' = Persons(p.copy.who)
    BY <2>1 DEF Persons, Live
  <2> QED
    BY <1>q, <2>1, <2>2, <2>3 DEF OutOf, Copy
<1>2. ASSUME NEW p, StartsAs(c, p)
      PROVE  OutOf(c)'
  <2>1. q = p /\ p.copy = None
    BY <1>q, <1>t, <1>2, StartTyped DEF StartsAs
  <2> QED
    BY <1>e, <2>1
<1>3. CASE Looks(c)
  <2>1. PICK pc : Moved(c, pc)
    BY <1>3 DEF Looks
  <2>2. Ends(q) \/ (SameBut(q, r) /\ q.op = r.op)
    BY <1>q, <1>r, <2>1 DEF Moved
  <2>3. rec' = rec /\ outlaws' = outlaws /\ r.pc \notin {"start", "done", "erase"}
    <3>1. r.pc = "erase" => r.op = "rekey"
      BY <1>3, <1>r, <1>t, StepIs DEF Looks, IsStep, RekeySteps
    <3> QED
      BY <1>3, <1>r, <3>1 DEF Looks, LookEdges
  <2>4. q.copy = None \/ Held(c)
    <3>1. r.copy # None => Held(c)
      BY <1>r, <1>t, <2>3, StepIs, HeldIs
    <3> QED
      BY <2>2, <3>1 DEF Ends, SameBut
  <2> QED
    BY <1>b, <1>e, <1>w, <2>2, <2>3, <2>4 DEF Ends
<1>4. ASSUME NEW new, Back(c, new)
      PROVE  OutOf(c)'
  <2>1. \E pc : Moved(c, pc)
    BY <1>4 DEF Back
  <2>2. Ends(q) \/ (SameBut(q, r) /\ q.op = r.op)
    BY <1>q, <1>r, <2>1 DEF Moved
  <2>3. Held(c) /\ outlaws' = outlaws /\ rec' = [rec EXCEPT ![r.user] = new] /\ r.pc # "erase"
    BY <1>r, <1>4 DEF Back
  <2> QED
    BY <1>b, <1>e, <1>x, <2>2, <2>3 DEF Ends
<1>5. CASE UpdateEmail(c) \/ UpdatePointKey(c) \/ UpdatePointName(c) \/ DeleteName(c) \/ RekeyName(c)
           \/ (UpdateKey(c) /\ ~(Stop(c) /\ UNCHANGED byKey))
  <2>1. Held(c) /\ SameBut(q, r) /\ q.op = r.op /\ r.pc \in {"email", "keyptr", "nameptr", "unname", "rename", "key"}
    BY <1>q, <1>r, <1>t, <1>5, EmailMoves, WriteMoves, KeyMoves DEF At, Moved
  <2>2. outlaws' = outlaws /\ rec' = rec
    BY <1>5 DEF UpdateEmail, UpdatePointKey, UpdatePointName, DeleteName, RekeyName, UpdateKey
  <2> QED
    BY <1>b, <1>w, <2>1, <2>2
<1>6. CASE RegisterWrite(c)
  <2>1. PICK new \in UserRecords :
        /\ rec' = [rec EXCEPT ![r.user] = new] /\ r.user \in Users /\ r.pc = "enroll"
        /\ new.who = r.user
        /\ \/ Ends(q)
           \/ /\ q.op = "nostr" /\ q.pc = "save" /\ q.copy = new /\ q.user = r.user
    BY <1>q, <1>r, <1>6, EnrollMoves
  <2>2. Unborn(r.user)
    BY <1>r, <2>1 DEF DrawInv, Draws
  <2>3. Persons(r.user) = {}
    BY <2>2 DEF Unborn, Persons
  <2>4. Persons(r.user)' \subseteq {r.user}
    BY <2>1, <2>3, PersonsWritten
  <2> QED
    BY <1>q, <1>e, <2>1, <2>4 DEF OutOf, Copy, Ends
<1>7. CASE UpdateRecord(c)
  <2>1. At(c, "update", "record") /\ Held(c) /\ (Ends(q) \/ (SameBut(q, r) /\ q.op = r.op))
    BY <1>q, <1>r, <1>t, <1>7, RecordMoves DEF Moved
  <2>2. outlaws' = outlaws /\ \E new : rec' = [rec EXCEPT ![r.user] = new]
    BY <1>r, <1>7 DEF UpdateRecord
  <2> QED
    BY <1>b, <1>e, <1>r, <1>x, <2>1, <2>2 DEF Ends, At
<1>8. CASE UpdateRetire(c) \/ DeleteKey(c) \/ VerifyMap(c) \/ RekeyErase(c) \/ DeleteUser(c) \/ Evict(c)
  <2>1. Moved(c, "done")
    BY <1>t, <1>8, WriteMoves
  <2> QED
    BY <1>e, <1>q, <2>1 DEF Moved, Ends
<1>9. CASE DeleteRecord(c) \/ VerifyRecord(c)
  <2>1. Held(c) /\ SameBut(q, r) /\ q.op = r.op /\ r.pc # "erase"
    BY <1>q, <1>r, <1>t, <1>9, WriteMoves DEF Moved, At
  <2>2. outlaws' = outlaws /\ \E new : rec' = [rec EXCEPT ![r.user] = new]
    BY <1>r, <1>9 DEF DeleteRecord, VerifyRecord, redisE
  <2> QED
    BY <1>b, <1>x, <2>1, <2>2
<1>10. CASE RekeyCopy(c)
  <2>1. At(c, "rekey", "copy") /\ Held(c) /\ SameBut(q, r) /\ q.op = r.op /\ q.pc = "erase" /\ r.to \in Users
    BY <1>q, <1>r, <1>t, <1>10, WriteMoves DEF Moved, At, Held
  <2>2. PICK new : outlaws' = outlaws /\ rec' = [rec EXCEPT ![r.to] = new]
    BY <1>r, <1>10 DEF RekeyCopy
  <2>3. \A w \in Users : Persons(w)' \subseteq Persons(w) \cup {r.to}
    BY <2>1, <2>2, PersonsWritten
  <2> QED
    BY <1>b, <1>r, <2>1, <2>2, <2>3 DEF At
<1> QED
  BY <1>1, <1>2, <1>3, <1>4, <1>5, <1>6, <1>7, <1>8, <1>9, <1>10 DEF Acts

(* The steps that make two records of a person one again, and two of one. *)
LEMMA StepsAre ==
  ASSUME Typed, NEW c \in Calls, Acts(c)
  PROVE  /\ call[c].pc = "erase" => RekeyErase(c)
         /\ call[c].pc = "copy" => RekeyCopy(c)
         /\ outlaws' # outlaws => Evict(c)
<1>t. CallsTyped
  BY DEF Typed
<1>1. CASE (\E q : ReadsAs(c, q)) \/ (\E q : StartsAs(c, q))
  BY <1>1 DEF ReadsAs, StartsAs, Untouched
<1>2. CASE Looks(c)
  <2>1. call[c].pc \notin {"erase", "copy"}
    <3>1. call[c].pc \in {"erase", "copy"} => call[c].op = "rekey"
      BY <1>t, <1>2, StepIs DEF Looks, IsStep, RekeySteps
    <3> QED
      BY <1>2, <3>1 DEF Looks, LookEdges
  <2> QED
    BY <1>2, <2>1 DEF Looks
<1>3. CASE \E new : Back(c, new)
  BY <1>3 DEF Back
<1>4. CASE RegisterWrite(c)
  <2>1. call[c].pc = "enroll"
    BY <1>4, EnrollMoves
  <2>2. outlaws' = outlaws
    BY <1>4 DEF RegisterWrite
  <2> QED
    BY <2>1, <2>2
<1>5. CASE \/ UpdateEmail(c) \/ UpdateKey(c) \/ UpdatePointKey(c) \/ UpdatePointName(c) \/ UpdateRecord(c) \/ UpdateRetire(c)
           \/ DeleteRecord(c) \/ DeleteName(c) \/ DeleteKey(c) \/ DeleteUser(c) \/ RekeyName(c)
           \/ VerifyRecord(c) \/ VerifyMap(c)
  BY <1>5 DEF UpdateEmail, UpdateKey, UpdatePointKey, UpdatePointName, UpdateRecord, UpdateRetire, DeleteRecord, DeleteName,
              DeleteKey, DeleteUser, RekeyName, VerifyRecord, VerifyMap, redisE, At
<1>6. CASE RekeyCopy(c) \/ RekeyErase(c) \/ Evict(c)
  BY <1>6 DEF RekeyCopy, RekeyErase, Evict, At
<1> QED
  BY <1>1, <1>2, <1>3, <1>4, <1>5, <1>6 DEF Acts

(* Two accounts of one person are the two that a re-keying works on. *)
LEMMA OneEachAct ==
  ASSUME Typed, DrawInv, OutInv, NEW c \in Calls, Acts(c)
  PROVE  OneEach'
<1>r. PICK r : r = call[c]
  OBVIOUS
<1>t. CallsTyped /\ rec \in [Users -> Ids(UserRecords)]
  BY DEF Typed, DataTyped
<1>0. Spoilt \subseteq Spoilt' /\ (\A d \in Calls \ {c} : call'[d] = call[d]) /\ WhoKind(c)
  BY ActFrame, ActKinds DEF Frame, Spoilt, Kinds
<1> SUFFICES ASSUME NEW u \in Live', NEW v \in Live', rec'[u].who = rec'[v].who, rec'[u].who \notin Spoilt', u # v
             PROVE  \E d \in Calls : /\ At(d, "rekey", "erase")' /\ Copy(d)'.who = rec'[u].who
                                     /\ {u, v} = {call'[d].user, call'[d].to}
  BY DEF OneEach
<1>w. PICK w : w = rec'[u].who
  OBVIOUS
<1>1. w \notin Spoilt /\ u \in Users /\ v \in Users /\ rec'[u] # None /\ rec'[v] # None /\ rec'[v].who = w
  BY <1>0, <1>w DEF Live
(* Persons that the step writes a record for. *)
<1>p. ASSUME NEW x \in {u, v}
      PROVE  \/ x \in Persons(w)
             \/ Holder(c) /\ w = r.copy.who /\ x = r.user /\ rec' # rec /\ r.pc # "erase"
             \/ Holder(c) /\ w = r.copy.who /\ x = r.to /\ r.pc = "copy"
             \/ r.pc = "enroll" /\ x = r.user /\ w = r.user
  <2>1. x \in Users /\ rec'[x] # None /\ rec'[x].who = w
    BY <1>1, <1>w
  <2>2. CASE rec'[x] = rec[x]
    BY <2>1, <2>2 DEF Persons, Live
  <2>3. CASE Holder(c) /\ x = r.user /\ rec'[x].who = r.copy.who
    <3>1. r.pc = "erase" => rec'[x] = None
      <4>1. r.pc = "erase" => rec' = [rec EXCEPT ![r.user] = None]
        BY <1>r, StepsAre DEF RekeyErase
      <4> QED
        BY <1>t, <2>1, <2>3, <4>1
    <3>2. rec' = rec => rec'[x] = rec[x]
      OBVIOUS
    <3> QED
      BY <2>1, <2>2, <2>3, <3>1, <3>2
  <2>4. CASE Holder(c) /\ x \in Draws(c) /\ rec'[x].who = r.copy.who
    <3>1. rec' = rec => x \in Persons(w)
      BY <2>1 DEF Persons, Live
    <3>2. rec' # rec => r.pc \notin {"enroll", "rename"} \/ ~Holder(c)
      BY <1>r, <1>t, WritersAre, StepIs DEF Holder, NoCopy
    <3> QED
      BY <1>r, <2>1, <2>4, <3>1, <3>2 DEF Draws
  <2>5. CASE r.pc = "enroll" /\ x = r.user /\ rec'[x].who = x
    BY <2>1, <2>5
  <2> QED
    BY <1>0, <1>r, <2>1, <2>2, <2>3, <2>4, <2>5 DEF WhoKind, Copy
<1>h. r.pc = "enroll" => ~Holder(c)
  BY <1>r, <1>t, StepIs DEF Holder, NoCopy
<1>k. Holder(c) /\ w = r.copy.who /\ r.pc # "erase" => Persons(w) \subseteq {r.user}
  BY <1>r, <1>1 DEF OutInv, OutOf, Copy
<1>e. r.pc = "enroll" => Persons(r.user) = {}
  BY <1>r DEF DrawInv, Draws, Unborn, Persons
<1>2. CASE u \in Persons(w) /\ v \in Persons(w)
  <2>1. PICK d \in Calls : At(d, "rekey", "erase") /\ Copy(d).who = w /\ {u, v} = {call[d].user, call[d].to}
    BY <1>1, <1>2, <1>w DEF OutInv, OneEach, Persons
  <2>2. d # c
    <3>1. ASSUME d = c
          PROVE  FALSE
      <4>1. rec' = [rec EXCEPT ![r.user] = None] /\ r.user \in {u, v}
        BY <1>r, <2>1, <3>1, StepsAre DEF RekeyErase, At
      <4> QED
        BY <1>t, <1>1, <4>1
    <3> QED
      BY <3>1
  <2>3. call'[d] = call[d]
    BY <1>0, <2>2
  <2> QED
    BY <1>w, <2>1, <2>3 DEF At, Copy
<1>3. CASE Holder(c) /\ w = r.copy.who /\ r.pc = "copy"
  <2>1. Moved(c, "erase") /\ At(c, "rekey", "copy")
    BY <1>r, <1>t, <1>3, StepsAre, WriteMoves
  <2>2. At(c, "rekey", "erase")' /\ Copy(c)'.who = w /\ call'[c].user = r.user /\ call'[c].to = r.to
    BY <1>r, <1>3, <2>1 DEF Moved, SameBut, At, Copy
  <2>3. u \in {r.user, r.to} /\ v \in {r.user, r.to}
    BY <1>p, <1>k, <1>3
  <2>4. {u, v} = {r.user, r.to}
    BY <2>3
  <2> QED
    BY <1>w, <2>2, <2>4
<1>4. CASE Holder(c) /\ w = r.copy.who /\ r.pc \notin {"copy", "erase"}
  BY <1>p, <1>k, <1>h, <1>4
<1>5. CASE ~Holder(c)
  BY <1>p, <1>e, <1>2, <1>5
<1>6. CASE Holder(c) /\ (w # r.copy.who \/ r.pc = "erase")
  BY <1>p, <1>h, <1>2, <1>6
<1> QED
  BY <1>3, <1>4, <1>5, <1>6

(* Whoever is out, is out by the name, too. *)
LEMMA OutcastsAct ==
  ASSUME Typed, DrawInv, CopyInv, OutInv, NEW c \in Calls, Acts(c)
  PROVE  Outcasts'
<1>r. PICK r : r = call[c]
  OBVIOUS
<1>t. CallsTyped /\ rec \in [Users -> Ids(UserRecords)]
  BY DEF Typed, DataTyped
<1>0. Spoilt \subseteq Spoilt' /\ evicted \subseteq evicted'
  BY ActFrame DEF Frame, Spoilt
<1> SUFFICES ASSUME NEW u \in Live', rec'[u].who \in outlaws' \ Spoilt'
             PROVE  rec'[u].name \in evicted'
  BY DEF Outcasts
<1>w. PICK w : w = rec'[u].who
  OBVIOUS
<1>1. w \notin Spoilt /\ u \in Users /\ rec'[u] # None
  BY <1>0, <1>w DEF Live
(* A record that tells what it told before. *)
<1>a. ASSUME NEW x \in Live, rec[x].who = w, rec[x].name = rec'[u].name, outlaws' = outlaws
      PROVE  rec'[u].name \in evicted'
  BY <1>0, <1>1, <1>a, <1>w DEF OutInv, Outcasts
<1>b. ASSUME outlaws' = outlaws, rec'[u] = rec[u]
      PROVE  rec'[u].name \in evicted'
  BY <1>1, <1>a, <1>b, <1>w DEF Live
(* The record of a call that has it to itself. *)
<1>c. ASSUME Held(c), r.copy.who = w, r.pc \notin {"retire", "unname", "unkey", "code", "map"}
      PROVE  r.user \in Live /\ rec[r.user].who = w /\ rec[r.user].name = r.copy.name
  <2>1. Quiet(c)
    BY <1>r, <1>1, <1>c DEF Quiet, Spoilt
  <2> QED
    BY <1>r, <1>c, <2>1 DEF CopyInv, CopyOf, Same, Held, Copy, Live
<1>d. ASSUME Held(c), NEW new, rec' = [rec EXCEPT ![r.user] = new], outlaws' = outlaws, new.name = r.copy.name, new.who = r.copy.who,
             r.pc \notin {"retire", "unname", "unkey", "code", "map"}
      PROVE  rec'[u].name \in evicted'
  <2>1. CASE u = r.user
    BY <1>t, <1>a, <1>c, <1>d, <1>w, <1>1, <2>1
  <2>2. CASE u # r.user
    BY <1>t, <1>b, <1>d, <2>2
  <2> QED
    BY <2>1, <2>2
<1>2. CASE rec' = rec /\ outlaws' = outlaws
  BY <1>b, <1>2
<1>3. CASE Evict(c)
  <2>1. At(c, "evict", "evict") /\ Held(c)
    BY <1>t, <1>3, WriteMoves
  <2>2. rec' = rec /\ evicted' = evicted \cup {r.user, r.copy.name} /\ outlaws' = outlaws \cup {r.copy.who}
    BY <1>r, <1>3 DEF Evict, Copy
  <2>3. CASE w = r.copy.who
    <3>1. Persons(w) \subseteq {r.user}
      BY <1>r, <1>1, <2>1, <2>3 DEF OutInv, OutOf, Held, Copy, At
    <3>2. u = r.user
      BY <1>w, <1>1, <2>2, <3>1 DEF Persons, Live
    <3>3. r.pc = "evict"
      BY <1>r, <2>1 DEF At
    <3>4. rec[r.user].name = r.copy.name
      BY <1>c, <2>1, <2>3, <3>3
    <3> QED
      BY <2>2, <3>2, <3>4
  <2>4. CASE w # r.copy.who
    <3>1. w \in outlaws /\ u \in Live /\ rec[u].who = w
      BY <1>w, <1>1, <2>2, <2>4 DEF Live
    <3> QED
      BY <1>0, <1>1, <2>2, <3>1 DEF OutInv, Outcasts
  <2> QED
    BY <2>3, <2>4
<1>4. ASSUME NEW new, Back(c, new)
      PROVE  rec'[u].name \in evicted'
  <2>1. /\ Held(c) /\ rec' = [rec EXCEPT ![r.user] = new] /\ outlaws' = outlaws /\ new.name = r.copy.name /\ new.who = r.copy.who
        /\ r.pc \in {"save", "rehash", "attach", "unverify"}
    BY <1>r, <1>4 DEF Back, Copy
  <2> QED
    BY <1>d, <2>1
<1>5. CASE VerifyRecord(c)
  <2>1. Held(c) /\ At(c, "verify", "write")
    BY <1>t, <1>5, WriteMoves
  <2>2. PICK new : new = [r.copy EXCEPT !.email = r.email, !.verified = TRUE]
    OBVIOUS
  <2>3. rec' = [rec EXCEPT ![r.user] = new] /\ outlaws' = outlaws
    BY <1>r, <1>5, <2>2 DEF VerifyRecord, redisE, Copy
  <2>4. new.name = r.copy.name /\ new.who = r.copy.who
    BY <1>r, <2>1, <2>2 DEF Held, UserRecords, Copy
  <2> QED
    BY <1>d, <1>r, <2>1, <2>3, <2>4 DEF At
<1>6. CASE UpdateRecord(c)
  <2>1. At(c, "update", "record") /\ Held(c)
    BY <1>t, <1>6, RecordMoves
  <2>2. PICK new : new = Updated(c)
    OBVIOUS
  <2>3. rec' = [rec EXCEPT ![r.user] = new] /\ outlaws' = outlaws
    BY <1>r, <1>6, <2>2 DEF UpdateRecord
  <2>4. new.who = r.copy.who
    BY <1>r, <1>t, <2>1, <2>2, UpdatedIs DEF At, Copy
  <2>5. CASE u = r.user
    <3>1. w = r.copy.who
      BY <1>t, <1>w, <1>1, <2>3, <2>4, <2>5
    <3>2. w \notin outlaws
      BY <1>r, <1>1, <2>1, <3>1 DEF OutInv, OutOf, Held, Copy, At
    <3> QED
      BY <1>w, <2>3, <3>2
  <2>6. CASE u # r.user
    BY <1>t, <1>b, <2>3, <2>6
  <2> QED
    BY <2>5, <2>6
<1>7. CASE RekeyCopy(c)
  <2>1. At(c, "rekey", "copy") /\ Held(c)
    BY <1>t, <1>7, WriteMoves
  <2>2. PICK new : new = [r.copy EXCEPT !.pw = 0, !.legacy = FALSE]
    OBVIOUS
  <2>3. rec' = [rec EXCEPT ![r.to] = new] /\ outlaws' = outlaws
    BY <1>r, <1>7, <2>2 DEF RekeyCopy, Copy
  <2>4. new.name = r.copy.name /\ new.who = r.copy.who
    BY <1>r, <2>1, <2>2 DEF Held, UserRecords, Copy
  <2>5. CASE u = r.to
    <3>1. rec'[u] = new
      BY <1>t, <1>1, <2>3, <2>5
    <3>2. r.pc = "copy"
      BY <1>r, <2>1 DEF At
    <3> QED
      BY <1>a, <1>c, <1>w, <2>1, <2>3, <2>4, <3>1, <3>2
  <2>6. CASE u # r.to
    BY <1>t, <1>b, <2>3, <2>6
  <2> QED
    BY <2>5, <2>6
<1>8. CASE RegisterWrite(c)
  <2>1. PICK new \in UserRecords : rec' = [rec EXCEPT ![r.user] = new] /\ r.user \in Users /\ r.pc = "enroll" /\ new.who = r.user
    BY <1>r, <1>8, EnrollMoves
  <2>2. outlaws' = outlaws
    BY <1>8 DEF RegisterWrite
  <2>3. r.user \notin outlaws
    BY <1>r, <2>1 DEF DrawInv, Draws, Unborn
  <2>4. CASE u = r.user
    <3>1. w = r.user
      BY <1>t, <1>w, <2>1, <2>4
    <3> QED
      BY <1>w, <2>2, <2>3, <3>1
  <2>5. CASE u # r.user
    BY <1>t, <1>b, <2>1, <2>2, <2>5
  <2> QED
    BY <2>4, <2>5
<1>9. CASE DeleteRecord(c) \/ DeleteUser(c) \/ RekeyErase(c)
  <2>1. rec' = [rec EXCEPT ![r.user] = None] /\ outlaws' = outlaws
    BY <1>r, <1>9 DEF DeleteRecord, DeleteUser, RekeyErase
  <2>2. u # r.user
    BY <1>t, <1>1, <2>1
  <2> QED
    BY <1>t, <1>b, <2>1, <2>2
<1>10. CASE \/ \E q : ReadsAs(c, q)
            \/ \E q : StartsAs(c, q)
            \/ Looks(c) \/ UpdateEmail(c) \/ UpdateKey(c)
            \/ UpdatePointKey(c) \/ UpdatePointName(c) \/ UpdateRetire(c)
            \/ DeleteName(c) \/ DeleteKey(c) \/ RekeyName(c) \/ VerifyMap(c)
  <2>1. rec' = rec /\ outlaws' = outlaws
    BY <1>10 DEF ReadsAs, StartsAs, Untouched, Looks, UpdateEmail, UpdateKey, UpdatePointKey, UpdatePointName, UpdateRetire,
                DeleteName, DeleteKey, RekeyName, VerifyMap, redisE
  <2> QED
    BY <1>2, <2>1
<1> QED
  BY <1>3, <1>4, <1>5, <1>6, <1>7, <1>8, <1>9, <1>10 DEF Acts

LEMMA OutStep ==
  ASSUME Typed, Separate, DrawInv, CopyInv, OutInv, [Next]_vars
  PROVE  OutInv'
<1>1. CASE Still
  <2>1. rec' = rec /\ outlaws' = outlaws /\ evicted' = evicted /\ Spoilt \subseteq Spoilt'
    BY <1>1 DEF Still, Spoilt
  <2>2. \A d \in Calls : call'[d] = call[d] \/ Ends(call'[d])
    BY <1>1 DEF Still
  <2>3. Outcasts'
    BY <2>1 DEF OutInv, Outcasts, Live
  <2>4. \A d \in Calls : OutOf(d)'
    BY <2>1, <2>2 DEF OutInv, OutOf, Ends, Holder, Copy, Persons, Live
  <2>5. ASSUME NEW d \in Calls, At(d, "rekey", "erase"), Copy(d).who \notin Spoilt'
        PROVE  call'[d] = call[d]
    <3>1. Copy(d).who \in Left(d)
      BY <2>5 DEF Left, At, Copy
    <3>2. Left(d) \subseteq Spoilt' \/ call'[d] = call[d]
      BY <1>1 DEF Still, Spoilt
    <3> QED
      BY <2>5, <3>1, <3>2
  <2>6. OneEach'
    BY <2>1, <2>5 DEF OutInv, OneEach, At, Copy, Live
  <2> QED
    BY <2>3, <2>4, <2>6 DEF OutInv
<1>2. ASSUME NEW c \in Calls, Acts(c)
      PROVE  OutInv'
  <2>1. Separate'
    BY ApartStep
  <2> QED
    BY <1>2, <2>1, OutActor, OutOther, OneEachAct, OutcastsAct DEF OutInv
<1> QED
  BY <1>1, <1>2, StepKinds

-----------------------------------------------------------------------------
(* Addresses *)

LEMMA MapIs ==
  ASSUME Typed, NEW c \in Calls, Acts(c)
  PROVE  /\ call[c].pc = "map" => VerifyMap(c)
         /\ emailOwner' # emailOwner => VerifyMap(c)
<1>t. CallsTyped
  BY DEF Typed
<1>1. CASE \/ \E q : ReadsAs(c, q)
           \/ \E q : StartsAs(c, q)
           \/ Looks(c)
           \/ \E new : Back(c, new)
  BY <1>1 DEF ReadsAs, StartsAs, Untouched, Looks, Back
<1>2. CASE RegisterWrite(c)
  <2>1. call[c].pc = "enroll"
    BY <1>2, EnrollMoves
  <2>2. emailOwner' = emailOwner
    BY <1>2 DEF RegisterWrite
  <2> QED
    BY <2>1, <2>2
<1>3. CASE \/ UpdateEmail(c) \/ UpdateKey(c) \/ UpdatePointKey(c) \/ UpdatePointName(c) \/ UpdateRecord(c) \/ UpdateRetire(c)
           \/ DeleteRecord(c) \/ DeleteName(c) \/ DeleteKey(c) \/ DeleteUser(c) \/ RekeyName(c) \/ RekeyCopy(c) \/ RekeyErase(c)
           \/ Evict(c) \/ VerifyRecord(c)
  BY <1>3 DEF UpdateEmail, UpdateKey, UpdatePointKey, UpdatePointName, UpdateRecord, UpdateRetire, DeleteRecord, DeleteName,
              DeleteKey, DeleteUser, RekeyName, RekeyCopy, RekeyErase, Evict, VerifyRecord, redisE, At
<1> QED
  BY <1>1, <1>2, <1>3 DEF Acts

LEMMA MailOther ==
  ASSUME Typed, Separate, MailInv, NEW c \in Calls, Acts(c), NEW d \in Calls \ {c}
  PROVE  MailOf(d)'
<1>r. PICK r : r = call[d]
  OBVIOUS
<1>t. CallsTyped
  BY DEF Typed
<1>1. call'[d] = r /\ Spoilt \subseteq Spoilt' /\ MailOf(d)
  BY <1>r, ActFrame DEF Frame, Spoilt, MailInv
<1>2. \A x \in Emails \ Spoilt' : x \in Touched(r) => x \notin Spoilt /\ emailOwner'[x] = emailOwner[x]
  BY <1>r, OthersKeep
<1>3. r.email # None => r.email \in Emails /\ r.email \in Touched(r)
  <2>1. r.email # None => r.email \in Emails
    BY <1>r, <1>t, FieldsAre DEF CallsTyped, Ids
  <2> QED
    BY <1>r, <1>t, <2>1, Touches
<1>4. r.email # None /\ r.email \notin Spoilt' => emailOwner'[r.email] = emailOwner[r.email]
  BY <1>2, <1>3
<1>5. r.op = "verify" /\ r.pc \in {"read", "write", "map"} => r.email # None
  BY <1>r, <1>t, StepIs, AccountsAssumption DEF AccountsAssumption
<1>6. r.pc \in {"key", "name"} /\ r.verified /\ r.email = r.copy.email => r.email # None
  <2>1. r.pc \in {"key", "name"} => Holder(d) /\ r.pc \notin {"start", "done"}
    BY <1>r, <1>t, StepIs DEF IsStep, NoCopy, UpdateSteps, Holder
  <2> QED
    BY <1>r, <1>1, <2>1 DEF MailOf, Copy
<1>7. Holder(d)' <=> Holder(d)
  BY <1>r, <1>1 DEF Holder
<1> QED
  BY <1>r, <1>1, <1>4, <1>5, <1>6, <1>7 DEF MailOf, Copy

LEMMA MailActor ==
  ASSUME Typed, Separate, Separate', MailInv, NEW c \in Calls, Acts(c)
  PROVE  MailOf(c)'
<1>r. PICK r : r = call[c]
  OBVIOUS
<1>q. PICK q : q = call'[c]
  OBVIOUS
<1>t. CallsTyped /\ rec \in [Users -> Ids(UserRecords)]
  BY DEF Typed, DataTyped
<1>0. Spoilt \subseteq Spoilt'
  BY ActFrame DEF Frame, Spoilt
<1>k. MailOf(c)
  BY DEF MailInv
<1>e. ASSUME q.copy = None, q.pc \notin {"key", "name", "email"}, q.op # "update" \/ q.pc = "done",
             q.op = "verify" => q.pc \notin {"read", "write", "map"}
      PROVE  MailOf(c)'
  BY <1>q, <1>e DEF MailOf, Holder
<1>f. ASSUME Ends(q)
      PROVE  MailOf(c)'
  BY <1>q, <1>f DEF MailOf, Holder, Ends
<1>b. ASSUME SameBut(q, r), q.op = r.op, q.verified <=> r.verified, emailOwner' = emailOwner,
             r.op = "update" /\ q.pc \in {"since", "keyptr", "nameptr", "record"} =>
               \/ r.pc \in {"since", "keyptr", "nameptr", "record"}
               \/ r.pc = "name" /\ r.email = r.copy.email,
             q.pc \in {"key", "name", "email"} => r.pc \in {"key", "name"} /\ Holder(c),
             r.op = "verify" /\ q.pc \in {"read", "write", "map"} =>
               r.pc \in {"read", "write", "map"} \/ emailOwner[r.email] \in {None, r.user}
      PROVE  MailOf(c)'
  <2>1. q.copy = r.copy /\ q.user = r.user /\ q.email = r.email /\ (Holder(c)' <=> Holder(c))
    BY <1>q, <1>r, <1>b DEF SameBut, Holder
  <2>2. Holder(c) => (r.copy.verified => r.copy.email # None)
    BY <1>r, <1>k DEF MailOf, Copy
  <2>3. r.pc = "name" => Holder(c) /\ r.pc \notin {"start", "done"}
    BY <1>r, <1>t, StepIs DEF IsStep, NoCopy, UpdateSteps, Holder
  <2>4. r.op = "update" /\ r.verified /\ q.pc \in {"since", "keyptr", "nameptr", "record"} =>
          r.email # None /\ (r.user \notin Spoilt /\ r.email \notin Spoilt => emailOwner[r.email] = r.user)
    BY <1>r, <1>k, <1>b, <2>2, <2>3 DEF MailOf
  <2>5. q.pc \in {"key", "name", "email"} =>
          /\ r.verified <=> r.copy.verified
          /\ r.verified /\ r.email = r.copy.email /\ r.user \notin Spoilt /\ r.email \notin Spoilt => emailOwner[r.email] = r.user
    BY <1>r, <1>k, <1>b DEF MailOf
  <2>6. r.op = "verify" /\ q.pc \in {"read", "write", "map"} /\ r.email \notin Spoilt => emailOwner[r.email] \in {None, r.user}
    BY <1>r, <1>k, <1>b DEF MailOf
  <2> QED
    BY <1>q, <1>0, <1>b, <2>1, <2>2, <2>4, <2>5, <2>6 DEF MailOf, Copy
<1>1. ASSUME NEW p, ReadsAs(c, p)
      PROVE  MailOf(c)'
  <2>1. /\ q = p /\ p.user \in Live /\ p.copy = rec[p.user] /\ emailOwner' = emailOwner
        /\ CallsTyped' /\ \A d \in Calls \ {c} : call'[d] = call[d]
    BY <1>q, <1>t, <1>1, ReadTyped DEF ReadsAs, Untouched
  <2>2. p.copy.verified => p.copy.email # None
    BY <2>1 DEF MailInv, Addressed
  <2>3. p.op = "update" => /\ p.verified <=> p.copy.verified
                           /\ p.pc \in {"key", "name"}
    BY <1>1, <2>1 DEF ReadsAs
  <2>4. p.pc \in {"key", "name", "email"} => p.op = "update" /\ p.pc # "email"
    BY <1>1 DEF ReadsAs, PathOf, IsStep, UpdateSteps
  <2>5. ASSUME p.verified, p.op = "update", p.email = p.copy.email, p.user \notin Spoilt', p.email \notin Spoilt'
        PROVE  emailOwner[p.email] = p.user
    <3>1. emailOwner[p.email] = p.user \/ \E d \in Calls : At(d, "verify", "map") /\ call[d].user = p.user
      BY <1>0, <2>1, <2>3, <2>5 DEF MailInv, Owned
    <3>2. ASSUME NEW d \in Calls, At(d, "verify", "map"), call[d].user = p.user
          PROVE  FALSE
      <4>1. d # c
        BY <1>1, <3>2 DEF ReadsAs, At
      <4>2. p.user # None /\ p.user \in Users
        BY <2>1, AccountsAssumption DEF Live, AccountsAssumption
      <4>3. p.user \in Touched(p) /\ p.user \in Touched(call'[d])
        BY <2>1, <3>2, <4>1, <4>2 DEF Touched
      <4>4. p.user \in mixed'
        BY <1>q, <2>1, <4>1, <4>3 DEF Separate
      <4> QED
        BY <2>5, <4>4 DEF Spoilt
    <3> QED
      BY <3>1, <3>2
  <2>6. p.op = "verify" /\ p.pc \in {"read", "write", "map"} => r.op = "verify" /\ r.pc = "read" /\ p.email = r.email /\ p.user = r.user
    BY <1>1, <1>r DEF ReadsAs
  <2>7. p.op = "verify" /\ p.pc \in {"read", "write", "map"} /\ p.email \notin Spoilt' => emailOwner[p.email] \in {None, p.user}
    BY <1>r, <1>k, <1>0, <2>6 DEF MailOf
  <2> QED
    BY <1>q, <2>1, <2>2, <2>3, <2>4, <2>5, <2>7 DEF MailOf, Copy
<1>2. ASSUME NEW p, StartsAs(c, p)
      PROVE  MailOf(c)'
  <2>1. q = p /\ p.copy = None /\ p.pc \in {"enroll", "read", "owner"}
    BY <1>q, <1>t, <1>2, StartTyped DEF StartsAs
  <2>2. p.op # "update" /\ (p.op = "verify" => p.pc # "read")
    BY <1>2 DEF StartsAs, PathOf, IsStep
  <2> QED
    BY <1>e, <2>1, <2>2
<1>3. CASE Looks(c)
  <2>1. PICK pc :
          /\ Moved(c, pc)
          /\ pc # "done" =>
               /\ <<r.op, r.pc, pc>> \in LookEdges
               /\ r.pc = "name" /\ pc # "email" => r.email = r.copy.email
               /\ r.op = "verify" => emailOwner[r.email] \in {None, r.user}
    BY <1>r, <1>3 DEF Looks, Copy
  <2>2. CASE pc = "done"
    BY <1>f, <1>q, <2>1, <2>2 DEF Moved
  <2>3. CASE pc # "done"
    <3>1. SameBut(q, r) /\ q.op = r.op /\ q.pc = pc /\ (q.verified <=> r.verified)
      BY <1>q, <1>r, <2>1, <2>3 DEF Moved
    <3>2. emailOwner' = emailOwner /\ r.pc \notin {"start", "done"}
      BY <1>3, <1>r DEF Looks
    <3>3. /\ pc \notin {"key", "name"} /\ (pc = "email" => r.pc = "name")
          /\ pc \in {"since", "keyptr", "nameptr", "record"} => r.pc \in {"name", "since"}
      BY <2>1, <2>3 DEF LookEdges
    <3>4. r.pc = "name" => Holder(c)
      BY <1>r, <1>t, <3>2, StepIs DEF IsStep, NoCopy, UpdateSteps, Holder
    <3> QED
      BY <1>b, <2>1, <2>3, <3>1, <3>2, <3>3, <3>4
  <2> QED
    BY <2>2, <2>3
<1>4. ASSUME NEW new, Back(c, new)
      PROVE  MailOf(c)'
  <2>1. PICK pc : Moved(c, pc) /\ pc \in {"done", "gate", "sign", "code"}
    BY <1>4 DEF Back
  <2>2. Ends(q) \/ (SameBut(q, r) /\ q.op = r.op /\ (q.verified <=> r.verified) /\ q.pc = pc /\ pc # "done")
    BY <1>q, <1>r, <2>1 DEF Moved
  <2>3. emailOwner' = emailOwner
    BY <1>4 DEF Back
  <2> QED
    BY <1>b, <1>f, <2>1, <2>2, <2>3
<1>5. CASE UpdateEmail(c)
  <2>1. /\ At(c, "update", "email") /\ Held(c) /\ SameBut(q, r) /\ q.pc \in {"since", "keyptr"} /\ q.op = "update"
        /\ (q.verified <=> (r.email # None /\ emailOwner[r.email] = r.user))
    BY <1>q, <1>r, <1>5, EmailMoves
  <2>2. emailOwner' = emailOwner
    BY <1>5 DEF UpdateEmail
  <2>3. r.copy.verified => r.copy.email # None
    BY <1>r, <1>k, <2>1 DEF MailOf, Held, Copy
  <2> QED
    BY <1>q, <2>1, <2>2, <2>3 DEF MailOf, SameBut, Copy
<1>6. CASE \/ (UpdateKey(c) /\ ~(Stop(c) /\ UNCHANGED byKey))
           \/ UpdatePointKey(c) \/ UpdatePointName(c) \/ UpdateRecord(c) \/ UpdateRetire(c)
           \/ DeleteRecord(c) \/ DeleteName(c) \/ DeleteKey(c) \/ DeleteUser(c)
           \/ RekeyName(c) \/ RekeyCopy(c) \/ RekeyErase(c)
           \/ Evict(c)
           \/ VerifyRecord(c) \/ VerifyMap(c)
  <2>1. /\ Holder(c)
        /\ \/ Moved(c, "done")
           \/ r.pc = "key" /\ Moved(c, "name")
           \/ r.pc = "keyptr" /\ Moved(c, "nameptr")
           \/ r.pc = "nameptr" /\ Moved(c, "record")
           \/ r.pc = "write" /\ Moved(c, "map")
           \/ \E pc \in {"retire", "unname", "unkey", "copy", "erase"} : Moved(c, pc)
    BY <1>r, <1>t, <1>6, WriteMoves, RecordMoves, KeyMoves DEF At, Held
  <2>2. \/ Ends(q)
        \/ /\ SameBut(q, r) /\ q.op = r.op /\ (q.verified <=> r.verified) /\ r.pc # "map"
           /\ \/ r.pc = "key" /\ q.pc = "name"
              \/ r.pc = "keyptr" /\ q.pc = "nameptr"
              \/ r.pc = "nameptr" /\ q.pc = "record"
              \/ r.pc = "write" /\ q.pc = "map"
              \/ q.pc \in {"retire", "unname", "unkey", "copy", "erase"}
    <3>1. r.pc = "map" => Ends(q)
      BY <1>q, <1>r, <1>t, WriteMoves, MapIs DEF Moved
    <3> QED
      BY <1>q, <1>r, <2>1, <3>1 DEF Moved
  <2>3. Ends(q) \/ emailOwner' = emailOwner
    <3>1. VerifyMap(c) => Ends(q)
      BY <1>q, <1>t, WriteMoves DEF Moved
    <3> QED
      BY <3>1, MapIs
  <2> QED
    BY <1>b, <1>f, <2>1, <2>2, <2>3
<1>7. CASE RegisterWrite(c)
  <2>1. PICK new \in UserRecords :
          /\ ~new.verified
          /\ Ends(q) \/ (q.op = "nostr" /\ q.pc = "save" /\ q.copy = new)
    BY <1>q, <1>r, <1>7, EnrollMoves
  <2> QED
    BY <1>f, <1>q, <2>1 DEF MailOf, Copy
<1> QED
  BY <1>1, <1>2, <1>3, <1>4, <1>5, <1>6, <1>7 DEF Acts

LEMMA MailAct ==
  ASSUME Typed, CopyInv, MailInv, NEW c \in Calls, Acts(c)
  PROVE  Addressed' /\ Owned'
<1>r. PICK r : r = call[c]
  OBVIOUS
<1>t. /\ CallsTyped /\ rec \in [Users -> Ids(UserRecords)] /\ emailOwner \in [Emails -> Ids(Users)]
  BY DEF Typed, DataTyped
<1>0. Spoilt \subseteq Spoilt' /\ \A d \in Calls \ {c} : call'[d] = call[d]
  BY ActFrame DEF Frame, Spoilt
<1>k. MailOf(c) /\ Addressed /\ Owned
  BY DEF MailInv
<1> SUFFICES ASSUME NEW u \in Live', rec'[u].verified
             PROVE  /\ rec'[u].email # None
                    /\ u \notin Spoilt' /\ rec'[u].email \notin Spoilt' =>
                         \/ emailOwner'[rec'[u].email] = u
                         \/ \E d \in Calls : At(d, "verify", "map")' /\ call'[d].user = u
  BY DEF Addressed, Owned
<1>f. PICK e : e = rec'[u].email
  OBVIOUS
<1> DEFINE Fine == /\ e # None
                   /\ u \notin Spoilt' /\ e \notin Spoilt' =>
                        emailOwner'[e] = u \/ \E d \in Calls : At(d, "verify", "map")' /\ call'[d].user = u
<1> SUFFICES Fine
  BY <1>f
<1>1. u \in Users /\ rec'[u] # None
  BY DEF Live
(* A record as it was, of an address whose owner is as it was. *)
<1>a. ASSUME u \in Live, rec[u].verified, rec[u].email = e, emailOwner' = emailOwner, r.pc # "map"
      PROVE  Fine
  <2>1. /\ e # None
        /\ u \notin Spoilt' /\ e \notin Spoilt' =>
             emailOwner[e] = u \/ \E d \in Calls : At(d, "verify", "map") /\ call[d].user = u
    BY <1>0, <1>k, <1>a DEF Addressed, Owned
  <2>2. \A d \in Calls : At(d, "verify", "map") => d # c
    BY <1>r, <1>a DEF At
  <2>3. \A d \in Calls : At(d, "verify", "map") => At(d, "verify", "map")' /\ call'[d].user = call[d].user
    BY <1>0, <2>2 DEF At
  <2> QED
    BY <1>a, <2>1, <2>3
<1>b. ASSUME rec'[u] = rec[u], emailOwner' = emailOwner, r.pc # "map"
      PROVE  Fine
  BY <1>1, <1>a, <1>b, <1>f DEF Live
<1>2. CASE rec' = rec /\ emailOwner' = emailOwner
  <2>1. r.pc = "map" => VerifyMap(c)
    BY <1>r, MapIs
  <2>2. CASE r.pc # "map"
    BY <1>2, <1>b, <2>2
  <2>3. CASE VerifyMap(c)
    <3>1. At(c, "verify", "map") /\ Held(c)
      BY <1>t, <2>3, WriteMoves
    <3>2. emailOwner' = [emailOwner EXCEPT ![r.email] = r.user] /\ r.email \in Emails
      BY <1>r, <2>3, <3>1 DEF VerifyMap, Held, At
    <3>3. emailOwner[r.email] = r.user
      BY <1>t, <1>2, <3>2
    <3>4. u \in Live /\ rec[u].verified /\ rec[u].email = e
      BY <1>2, <1>f DEF Live
    <3>5. ASSUME u = r.user, u \notin Spoilt'
          PROVE  e = r.email
      <4>1. Quiet(c)
        BY <1>r, <1>0, <3>5 DEF Quiet, Spoilt
      <4> QED
        BY <1>r, <3>1, <3>4, <3>5, <4>1 DEF CopyInv, CopyOf, At, Held
    <3>6. e # None /\ (u \notin Spoilt /\ e \notin Spoilt => emailOwner[e] = u \/ \E d \in Calls : At(d, "verify", "map") /\ call[d].user = u)
      BY <1>k, <3>4 DEF Addressed, Owned
    <3>7. \A d \in Calls : At(d, "verify", "map") /\ call[d].user = u => u = r.user \/ (At(d, "verify", "map")' /\ call'[d].user = u)
      BY <1>0, <1>r DEF At
    <3> QED
      BY <1>0, <1>2, <3>3, <3>5, <3>6, <3>7
  <2> QED
    BY <2>1, <2>2, <2>3
(* The record is written as it was read. *)
<1>3. ASSUME Held(c), NEW new, rec' = [rec EXCEPT ![r.user] = new], emailOwner' = emailOwner,
             new.email = r.copy.email, new.verified => r.copy.verified,
             r.pc \notin {"retire", "unname", "unkey", "code", "map"}
      PROVE  Fine
  <2>1. CASE u = r.user
    <3>1. rec'[u] = new /\ e = r.copy.email /\ r.copy.verified
      BY <1>t, <1>1, <1>3, <1>f, <2>1
    <3>2. e # None
      BY <1>r, <1>k, <1>3, <3>1 DEF MailOf, Held, Copy
    <3>3. CASE u \in Spoilt'
      BY <3>2, <3>3
    <3>4. CASE u \notin Spoilt'
      <4>1. Quiet(c)
        BY <1>r, <1>0, <2>1, <3>4 DEF Quiet, Spoilt
      <4>2. Same(rec[u], r.copy)
        BY <1>r, <1>3, <2>1, <4>1 DEF CopyInv, CopyOf, Held, Copy
      <4> QED
        BY <1>a, <1>1, <1>3, <3>1, <4>2 DEF Same, Live
    <3> QED
      BY <3>3, <3>4
  <2>2. CASE u # r.user
    BY <1>t, <1>b, <1>3, <2>2
  <2> QED
    BY <2>1, <2>2
<1>4. ASSUME NEW new, Back(c, new)
      PROVE  Fine
  <2>1. /\ Held(c) /\ rec' = [rec EXCEPT ![r.user] = new] /\ emailOwner' = emailOwner /\ new.email = r.copy.email
        /\ (new.verified => r.copy.verified) /\ r.pc \in {"save", "rehash", "attach", "unverify"}
    BY <1>r, <1>4 DEF Back, Copy
  <2> QED
    BY <1>3, <2>1
<1>5. CASE UpdateRecord(c)
  <2>1. At(c, "update", "record") /\ Held(c)
    BY <1>t, <1>5, RecordMoves
  <2>2. PICK new : new = Updated(c)
    OBVIOUS
  <2>3. rec' = [rec EXCEPT ![r.user] = new] /\ emailOwner' = emailOwner
    BY <1>r, <1>5, <2>2 DEF UpdateRecord
  <2>4. new.email = r.email /\ (new.verified <=> r.verified)
    BY <1>r, <1>t, <2>1, <2>2, UpdatedIs DEF At
  <2>5. CASE u = r.user
    <3>1. e = r.email /\ r.verified
      BY <1>t, <1>1, <1>f, <2>3, <2>4, <2>5
    <3>2. e # None /\ (r.user \notin Spoilt /\ e \notin Spoilt => emailOwner[e] = r.user)
      BY <1>r, <1>k, <2>1, <3>1 DEF MailOf, At
    <3> QED
      BY <1>0, <2>3, <2>5, <3>2
  <2>6. CASE u # r.user
    BY <1>r, <1>t, <1>b, <2>1, <2>3, <2>6 DEF At
  <2> QED
    BY <2>5, <2>6
<1>6. CASE VerifyRecord(c)
  <2>1. At(c, "verify", "write") /\ Held(c) /\ Moved(c, "map") /\ r.email \in Emails
    BY <1>r, <1>t, <1>6, WriteMoves DEF Held, At
  <2>2. PICK new : new = [r.copy EXCEPT !.email = r.email, !.verified = TRUE]
    OBVIOUS
  <2>3. rec' = [rec EXCEPT ![r.user] = new] /\ emailOwner' = emailOwner
    BY <1>r, <1>6, <2>2, MapIs DEF VerifyRecord, redisE, Copy, At, VerifyMap
  <2>4. new.email = r.email
    BY <1>r, <2>1, <2>2 DEF Held, UserRecords, Copy
  <2>5. At(c, "verify", "map")' /\ call'[c].user = r.user
    BY <1>r, <2>1 DEF Moved, SameBut, At
  <2>6. CASE u = r.user
    <3>1. e = r.email
      BY <1>t, <1>1, <1>f, <2>3, <2>4, <2>6
    <3> QED
      BY <2>1, <2>5, <2>6, <3>1, AccountsAssumption DEF AccountsAssumption
  <2>7. CASE u # r.user
    BY <1>r, <1>t, <1>b, <2>1, <2>3, <2>7 DEF At
  <2> QED
    BY <2>6, <2>7
<1>7. CASE RekeyCopy(c)
  <2>1. At(c, "rekey", "copy") /\ Held(c) /\ r.to \in Users /\ r.name \in Names
    BY <1>r, <1>t, <1>7, WriteMoves DEF Held, At
  <2>2. PICK new : new = [r.copy EXCEPT !.pw = 0, !.legacy = FALSE]
    OBVIOUS
  <2>3. rec' = [rec EXCEPT ![r.to] = new] /\ emailOwner' = emailOwner /\ {r.copy.email} \ {None, r.name} \subseteq cut'
    BY <1>r, <1>7, <2>2 DEF RekeyCopy, Copy
  <2>4. new.email = r.copy.email /\ (new.verified <=> r.copy.verified)
    BY <1>r, <2>1, <2>2 DEF Held, UserRecords, Copy
  <2>5. CASE u = r.to
    <3>1. e = r.copy.email /\ r.copy.verified
      BY <1>t, <1>1, <1>f, <2>3, <2>4, <2>5
    <3>2. e # None
      BY <1>r, <1>k, <2>1, <3>1 DEF MailOf, Held, Copy
    <3>3. e \in Emails
      BY <1>r, <2>1, <3>1, <3>2, RecordIs DEF Held, Copy, Ids
    <3>4. e \in cut'
      BY <2>1, <2>3, <3>1, <3>2, <3>3, AccountsAssumption DEF AccountsAssumption
    <3> QED
      BY <3>2, <3>4 DEF Spoilt
  <2>6. CASE u # r.to
    BY <1>r, <1>t, <1>b, <2>1, <2>3, <2>6 DEF At
  <2> QED
    BY <2>5, <2>6
<1>8. CASE RegisterWrite(c)
  <2>1. PICK new \in UserRecords : rec' = [rec EXCEPT ![r.user] = new] /\ r.user \in Users /\ r.pc = "enroll" /\ ~new.verified
    BY <1>r, <1>8, EnrollMoves
  <2>2. emailOwner' = emailOwner
    BY <1>8 DEF RegisterWrite
  <2>3. u # r.user
    BY <1>t, <2>1
  <2> QED
    BY <1>t, <1>b, <2>1, <2>2, <2>3
<1>9. CASE DeleteRecord(c) \/ DeleteUser(c) \/ RekeyErase(c)
  <2>1. rec' = [rec EXCEPT ![r.user] = None] /\ emailOwner' = emailOwner /\ r.pc # "map"
    BY <1>r, <1>9 DEF DeleteRecord, DeleteUser, RekeyErase, At
  <2>2. u # r.user
    BY <1>t, <1>1, <2>1
  <2> QED
    BY <1>t, <1>b, <2>1, <2>2
<1>10. CASE \/ \E q : ReadsAs(c, q)
            \/ \E q : StartsAs(c, q)
            \/ Looks(c) \/ UpdateEmail(c) \/ UpdateKey(c)
            \/ UpdatePointKey(c) \/ UpdatePointName(c) \/ UpdateRetire(c)
            \/ DeleteName(c) \/ DeleteKey(c) \/ RekeyName(c) \/ Evict(c)
  <2>1. rec' = rec /\ emailOwner' = emailOwner
    BY <1>10 DEF ReadsAs, StartsAs, Untouched, Looks, UpdateEmail, UpdateKey, UpdatePointKey, UpdatePointName, UpdateRetire,
                DeleteName, DeleteKey, RekeyName, Evict
  <2> QED
    BY <1>2, <2>1
<1>11. CASE VerifyMap(c)
  <2>1. At(c, "verify", "map") /\ Held(c) /\ r.email \in Emails /\ r.user \in Users
    BY <1>r, <1>t, <1>11, WriteMoves DEF Held, At
  <2>2. rec' = rec /\ emailOwner' = [emailOwner EXCEPT ![r.email] = r.user]
    BY <1>r, <1>11 DEF VerifyMap, redisE
  <2>3. u \in Live /\ rec[u].verified /\ rec[u].email = e
    BY <1>f, <2>2 DEF Live
  <2>4. ASSUME u = r.user, u \notin Spoilt'
        PROVE  e = r.email
    <3>1. Quiet(c)
      BY <1>r, <1>0, <2>4 DEF Quiet, Spoilt
    <3> QED
      BY <1>r, <2>1, <2>3, <2>4, <3>1 DEF CopyInv, CopyOf, At, Held
  <2>5. e # None /\ (u \notin Spoilt /\ e \notin Spoilt => emailOwner[e] = u \/ \E d \in Calls : At(d, "verify", "map") /\ call[d].user = u)
    BY <1>k, <2>3 DEF Addressed, Owned
  <2>6. \A d \in Calls : At(d, "verify", "map") /\ call[d].user = u => u = r.user \/ (At(d, "verify", "map")' /\ call'[d].user = u)
    BY <1>0, <1>r DEF At
  <2>7. e = r.email /\ e \notin Spoilt => emailOwner[e] \in {None, r.user}
    BY <1>r, <1>k, <2>1 DEF MailOf, At
  <2>8. u # None
    BY AccountsAssumption, <1>1 DEF AccountsAssumption
  <2>9. emailOwner'[r.email] = r.user /\ (e # r.email => emailOwner'[e] = emailOwner[e])
    BY <1>t, <2>1, <2>2
  <2> QED
    BY <1>0, <2>4, <2>5, <2>6, <2>7, <2>8, <2>9
<1> QED
  BY <1>4, <1>5, <1>6, <1>7, <1>8, <1>9, <1>10, <1>11 DEF Acts

LEMMA MailStep ==
  ASSUME Typed, Separate, CopyInv, MailInv, [Next]_vars
  PROVE  MailInv'
<1>1. CASE Still
  <2>1. rec' = rec /\ emailOwner' = emailOwner /\ Spoilt \subseteq Spoilt'
    BY <1>1 DEF Still, Spoilt
  <2>2. \A d \in Calls : call'[d] = call[d] \/ (Ends(call'[d]) /\ Left(d) \subseteq Spoilt')
    BY <1>1 DEF Still, Spoilt
  <2>3. Addressed'
    BY <2>1 DEF MailInv, Addressed, Live
  <2>4. \A d \in Calls : MailOf(d)'
    <3> TAKE d \in Calls
    <3>1. CASE call'[d] = call[d]
      <4>1. Holder(d)' <=> Holder(d)
        BY <3>1 DEF Holder
      <4>2. MailOf(d)
        BY DEF MailInv
      <4> QED
        BY <2>1, <3>1, <4>1, <4>2 DEF MailOf, Copy
    <3>2. CASE Ends(call'[d])
      BY <3>2 DEF MailOf, Ends, Holder
    <3> QED
      BY <2>2, <3>1, <3>2
  <2>5. ASSUME NEW d \in Calls, At(d, "verify", "map"), call[d].user \notin Spoilt'
        PROVE  call'[d] = call[d]
    <3>1. call[d].user \in Left(d)
      BY <2>5 DEF Left, At
    <3> QED
      BY <2>2, <2>5, <3>1
  <2>6. Owned'
    BY <2>1, <2>5 DEF MailInv, Owned, At, Live
  <2> QED
    BY <2>3, <2>4, <2>6 DEF MailInv
<1>2. ASSUME NEW c \in Calls, Acts(c)
      PROVE  MailInv'
  <2>1. Separate'
    BY ApartStep
  <2> QED
    BY <1>2, <2>1, MailActor, MailOther, MailAct DEF MailInv
<1> QED
  BY <1>1, <1>2, StepKinds

-----------------------------------------------------------------------------
(* What the invariants are for *)

LEMMA LeftBehind ==
  ASSUME Typed, NEW d \in Calls
  PROVE  /\ NameLeft(d) \subseteq Unsettled /\ KeyLeft(d) \subseteq Unsettled
         /\ At(d, "verify", "map") => call[d].user \in Unsettled
<1>t. CallsTyped
  BY DEF Typed
<1>1. ASSUME call[d].pc \notin {"start", "done"}
      PROVE  Left(d) \subseteq Unsettled
  BY <1>1 DEF Unsettled, Active
<1>2. NameLeft(d) # {} \/ KeyLeft(d) # {} => call[d].pc \notin {"start", "done"}
  BY DEF NameLeft, KeyLeft
<1>3. NameLeft(d) \subseteq Left(d)
  BY <1>t, StepIs DEF NameLeft, Left, IsStep, UpdateSteps, DeleteSteps, RekeySteps, Copy
<1>4. KeyLeft(d) \subseteq Left(d)
  BY <1>t, StepIs DEF KeyLeft, Left, IsStep, UpdateSteps, DeleteSteps, RekeySteps, Copy
<1>5. At(d, "verify", "map") => call[d].user \in Left(d) /\ call[d].pc \notin {"start", "done"}
  BY DEF At, Left
<1> QED
  BY <1>1, <1>2, <1>3, <1>4, <1>5

LEMMA NamesHold ==
  ASSUME Typed, NameInv, KeyInv
  PROVE  NamesLead
<1>0. Spoilt \subseteq Unsettled
  BY DEF Spoilt, Unsettled
<1>1. \A u \in Live : rec[u].name \in Unsettled \/ byName[rec[u].name] = u
  BY <1>0, LeftBehind DEF NameInv, NamesOfLive
<1>2. \A u \in Live : rec[u].key \in Unsettled \/ byKey[rec[u].key] = u
  BY <1>0, LeftBehind DEF KeyInv, KeysOfLive
<1>3. \A n \in Names \ Unsettled : byName[n] \in Live \cup Unsettled \cup {None}
  <2> SUFFICES ASSUME NEW n \in Names \ Unsettled
               PROVE  byName[n] \in Live \cup Unsettled \cup {None}
    OBVIOUS
  <2>1. \A d \in Calls : n \notin NameLeft(d)
    BY LeftBehind
  <2> QED
    BY <1>0, <2>1 DEF NameInv, NamesTaken, Named
<1> QED
  BY <1>1, <1>2, <1>3 DEF NamesLead

LEMMA OutHolds ==
  ASSUME OutInv
  PROVE  EvictedStaysOut
<1>0. Spoilt \subseteq Unsettled
  BY DEF Spoilt, Unsettled
<1> QED
  BY <1>0 DEF OutInv, Outcasts, EvictedStaysOut, IsEvicted

LEMMA MailHolds ==
  ASSUME Typed, MailInv
  PROVE  VerifiedIsOwned
<1>0. Spoilt \subseteq Unsettled
  BY DEF Spoilt, Unsettled
<1> SUFFICES ASSUME NEW u \in Live, rec[u].verified, u \notin Unsettled, rec[u].email \notin Unsettled
             PROVE  rec[u].email # None /\ emailOwner[rec[u].email] = u
  BY DEF VerifiedIsOwned
<1>1. \A d \in Calls : At(d, "verify", "map") => call[d].user # u
  BY LeftBehind
<1> QED
  BY <1>0, <1>1 DEF MailInv, Addressed, Owned

-----------------------------------------------------------------------------
(* Initial states *)

LEMMA InitRecords ==
  ASSUME AccountsInit
  PROVE  /\ rec \in [Users -> Ids(UserRecords)]
         /\ byName \in [Names -> Ids(Users)] /\ byKey \in [Keys -> Ids(Users)]
         /\ used \subseteq Users /\ Live = used
         /\ \A u \in Live : /\ rec[u].who = u /\ rec[u].pw = 1 /\ rec[u].pwAt = 0 /\ ~rec[u].verified
                            /\ byName[rec[u].name] = u /\ byKey[rec[u].key] = u
         /\ \A n \in Names : byName[n] = None \/ (byName[n] \in Live /\ rec[byName[n]].name = n)
<1>0. PICK D \in SUBSET Users \ {{}} : \E name \in Injection(D, Names), key \in Injection(D, Keys), old \in BOOLEAN :
       /\ rec = [u \in Users |->
            IF u \in D THEN [Blank EXCEPT !.name = name[u], !.key = key[u], !.who = u, !.legacy = old]
            ELSE None]
       /\ byName = [n \in Names |-> IF \E u \in D : name[u] = n THEN CHOOSE u \in D : name[u] = n ELSE None]
       /\ byKey = [k \in Keys |-> IF \E u \in D : key[u] = k THEN CHOOSE u \in D : key[u] = k ELSE None]
       /\ used = D
  BY DEF AccountsInit
<1>1. PICK name \in Injection(D, Names), key \in Injection(D, Keys), old \in BOOLEAN :
       /\ rec = [u \in Users |->
            IF u \in D THEN [Blank EXCEPT !.name = name[u], !.key = key[u], !.who = u, !.legacy = old]
            ELSE None]
       /\ byName = [n \in Names |-> IF \E u \in D : name[u] = n THEN CHOOSE u \in D : name[u] = n ELSE None]
       /\ byKey = [k \in Keys |-> IF \E u \in D : key[u] = k THEN CHOOSE u \in D : key[u] = k ELSE None]
       /\ used = D
  BY <1>0
<1>2. /\ name \in [D -> Names] /\ \A u, v \in D : name[u] = name[v] => u = v
      /\ key \in [D -> Keys] /\ \A u, v \in D : key[u] = key[v] => u = v
  BY DEF Injection, IsInjective
<1>3. ASSUME NEW u \in D
      PROVE  /\ rec[u] \in UserRecords /\ rec[u].who = u /\ rec[u].pw = 1 /\ rec[u].pwAt = 0 /\ ~rec[u].verified
             /\ rec[u].name = name[u] /\ rec[u].key = key[u] /\ rec[u] # None
  <2>1. rec[u] = [Blank EXCEPT !.name = name[u], !.key = key[u], !.who = u, !.legacy = old]
    BY <1>1, <1>3
  <2>2. name[u] \in Names /\ key[u] \in Keys /\ u \in Users
    BY <1>2, <1>3
  <2>3. rec[u] = [name |-> name[u], cased |-> FALSE, key |-> key[u], pw |-> 1, pwAt |-> 0, legacy |-> old,
                  email |-> None, verified |-> FALSE, who |-> u]
    BY <2>1 DEF Blank
  <2>4. rec[u] \in UserRecords
    BY <2>2, <2>3 DEF UserRecords
  <2>5. rec[u] # None
    BY <2>4, AccountsAssumption DEF AccountsAssumption
  <2>6. /\ rec[u].who = u /\ rec[u].pw = 1 /\ rec[u].pwAt = 0 /\ ~rec[u].verified
        /\ rec[u].name = name[u] /\ rec[u].key = key[u]
    BY <2>3
  <2> QED
    BY <2>4, <2>5, <2>6
<1>4. \A u \in Users \ D : rec[u] = None
  BY <1>1
<1>5. Live = D
  BY <1>3, <1>4 DEF Live
<1>6. rec \in [Users -> Ids(UserRecords)]
  BY <1>1, <1>3, <1>4 DEF Ids
<1>7. \A u \in D : byName[name[u]] = u /\ byKey[key[u]] = u
  BY <1>1, <1>2
<1>8. \A n \in Names : byName[n] = None \/ (byName[n] \in D /\ name[byName[n]] = n)
  BY <1>1
<1>9. byName \in [Names -> Ids(Users)] /\ byKey \in [Keys -> Ids(Users)]
  BY <1>1 DEF Ids
<1>10. \A u \in D : /\ rec[u].who = u /\ rec[u].pw = 1 /\ rec[u].pwAt = 0 /\ ~rec[u].verified
                    /\ byName[rec[u].name] = u /\ byKey[rec[u].key] = u
  BY <1>3, <1>7
<1>11. \A n \in Names : byName[n] = None \/ (byName[n] \in D /\ rec[byName[n]].name = n)
  BY <1>3, <1>8
<1>12. used = D
  BY <1>1
<1> QED
  BY <1>5, <1>6, <1>9, <1>10, <1>11, <1>12

LEMMA InitCalls ==
  ASSUME AccountsInit, NEW c \in Calls
  PROVE  /\ call[c] = Idle /\ ~Holder(c) /\ call[c].pc = "start" /\ call[c].op = None /\ call[c].at = 0
         /\ call[c].user = None /\ call[c].copy = None /\ call[c].to = None
         /\ Touched(call[c]) = {} /\ Draws(c) = {} /\ NameLeft(c) = {} /\ KeyLeft(c) = {}
<1>1. call[c] = Idle
  BY DEF AccountsInit
<1> QED
  BY <1>1 DEF Idle, Holder, Touched, Draws, NameLeft, KeyLeft

LEMMA InitTyped ==
  ASSUME Init
  PROVE  Typed
<1>1. CallsTyped
  <2>1. call = [c \in Calls |-> Idle]
    BY DEF Init, AccountsInit
  <2>2. Idle \in RequestRecords
    BY DEF Idle, RequestRecords, Ops, Steps, Ids
  <2>3. PathOf(Idle)
    BY DEF PathOf, Idle
  <2> QED
    BY <2>1, <2>2, <2>3 DEF CallsTyped
<1>2. DataTyped
  BY InitRecords DEF Init, AccountsInit, LoginsInit, EmailsInit, DataTyped, Ids
<1> QED
  BY <1>1, <1>2 DEF Typed

LEMMA InitHolds ==
  ASSUME Init
  PROVE  /\ LockoutEnds /\ PassInv /\ Separate /\ DrawInv /\ WhoInv /\ CopyInv
         /\ NameInv /\ KeyInv /\ OutInv /\ MailInv
<1>0. AccountsInit /\ LoginsInit /\ Typed
  BY InitTyped DEF Init
<1>1. LockoutEnds
  BY <1>0 DEF LoginsInit, LockoutEnds
<1>2. PassInv
  <2>1. \A u \in Users : since[u] = None
    BY <1>0 DEF AccountsInit
  <2>2. now = 0
    BY <1>0 DEF AccountsInit
  <2>3. \A u \in Live : Kept(u, rec[u].pw, rec[u].pwAt)
    BY <1>0, InitRecords DEF Kept
  <2>4. \A c \in Calls : PassOf(c)
    BY <1>0, <2>2, InitCalls DEF PassOf
  <2> QED
    BY <2>1, <2>3, <2>4 DEF PassInv, SinceInv
<1>3. Separate
  BY <1>0, InitCalls DEF Separate
<1>4. DrawInv
  BY <1>0, InitCalls, InitRecords DEF DrawInv, AccountsInit
<1>5. WhoInv /\ CopyInv
  BY <1>0, InitCalls DEF WhoInv, CopyInv, CopyOf, At
<1>6. NameInv
  <2>1. NamesOfLive
    BY <1>0, InitRecords DEF NamesOfLive
  <2>2. NamesTaken
    BY <1>0, InitRecords DEF NamesTaken, Named
  <2>3. \A c \in Calls : NameOf(c)
    BY <1>0, InitCalls DEF NameOf
  <2> QED
    BY <2>1, <2>2, <2>3 DEF NameInv
<1>7. KeyInv
  <2>1. KeysOfLive
    BY <1>0, InitRecords DEF KeysOfLive
  <2>2. \A c \in Calls : KeyOf(c)
    BY <1>0, InitCalls DEF KeyOf
  <2> QED
    BY <2>1, <2>2 DEF KeyInv
<1>8. OutInv
  <2>1. Outcasts
    BY <1>0 DEF Outcasts, AccountsInit
  <2>2. OneEach
    BY <1>0, InitRecords DEF OneEach
  <2>3. \A c \in Calls : OutOf(c)
    BY <1>0, InitCalls DEF OutOf
  <2> QED
    BY <2>1, <2>2, <2>3 DEF OutInv
<1>9. MailInv
  BY <1>0, InitCalls, InitRecords DEF MailInv, Addressed, Owned, MailOf
<1> QED
  BY <1>1, <1>2, <1>3, <1>4, <1>5, <1>6, <1>7, <1>8, <1>9

(* The way to a lock: only two steps of a login, and the clock, touch the counters. *)
LEMMA LockStep ==
  ASSUME Typed, LockoutEnds, [Next]_vars
  PROVE  LockoutEnds'
<1>t. CallsTyped /\ DataTyped
  BY DEF Typed
<1>1. ASSUME NEW c \in Calls, Acts(c), call[c].pc # "arm", fails' = fails, armed' = armed
      PROVE  LockoutEnds'
  <2>1. cut \subseteq cut' /\ \A d \in Calls \ {c} : call'[d] = call[d]
    BY <1>1, ActFrame DEF Frame
  <2> QED
    BY <1>1, <2>1 DEF LockoutEnds, At
<1>2. CASE UNCHANGED vars
  BY <1>2 DEF vars, LockoutEnds, At
<1>3. CASE AccountsNext /\ UNCHANGED Sides
  <2>1. CASE Tick
    BY <1>3, <2>1 DEF Tick, Sides, LockoutEnds, At
  <2>2. CASE Restart
    <3>1. cut \subseteq cut' /\ \A c \in Calls : At(c, "login", "arm") => call[c].name \in cut'
      <4>1. cut' = cut \cup UNION {Left(c) : c \in Active}
        BY <2>2 DEF Restart
      <4>2. ASSUME NEW c \in Calls, At(c, "login", "arm")
            PROVE  c \in Active /\ call[c].name \in Left(c)
        BY <4>2 DEF At, Active, Left
      <4> QED
        BY <4>1, <4>2
    <3> QED
      BY <1>3, <3>1 DEF Sides, LockoutEnds
  <2>3. ASSUME NEW c \in Calls,
               \/ RegisterBegin(c) \/ RegisterWrite(c)
               \/ UpdateBegin(c) \/ UpdateKey(c) \/ UpdateName(c) \/ UpdateEmail(c) \/ UpdateSince(c)
               \/ UpdatePointKey(c) \/ UpdatePointName(c) \/ UpdateRecord(c) \/ UpdateRetire(c)
               \/ SaveBegin(c) \/ SaveRecord(c)
        PROVE  Acts(c) /\ call[c].pc # "arm"
    <3>1. Acts(c)
      BY <1>3, <1>t, <2>3, RegisterStarts, UpdateBeginReads, OthersRead, UpdateLooks, SaveWritesBack DEF Acts, Sides
    <3>2. call[c].pc # "arm"
      BY <2>3 DEF RegisterBegin, RegisterWrite, UpdateBegin, UpdateKey, UpdateName, UpdateEmail, UpdateSince,
                  UpdatePointKey, UpdatePointName, UpdateRecord, UpdateRetire, SaveBegin, SaveRecord, At
    <3> QED
      BY <3>1, <3>2
  <2>4. ASSUME NEW c \in Calls,
               \/ DeleteBegin(c) \/ DeleteRecord(c) \/ DeleteName(c) \/ DeleteKey(c) \/ DeleteUser(c)
               \/ RekeyBegin(c) \/ RekeyName(c) \/ RekeyCopy(c) \/ RekeyErase(c)
               \/ EvictBegin(c) \/ Evict(c)
        PROVE  Acts(c) /\ call[c].pc # "arm"
    <3>1. Acts(c)
      BY <2>4, RekeyReads, OthersRead DEF Acts
    <3>2. call[c].pc # "arm"
      BY <2>4 DEF DeleteBegin, DeleteRecord, DeleteName, DeleteKey, DeleteUser, RekeyBegin, RekeyName,
                  RekeyCopy, RekeyErase, EvictBegin, Evict, At
    <3> QED
      BY <3>1, <3>2
  <2>5. fails' = fails /\ armed' = armed
    BY <1>3 DEF Sides
  <2> QED
    BY <1>1, <1>3, <2>1, <2>2, <2>3, <2>4, <2>5 DEF AccountsNext
<1>4. CASE LoginsNext /\ UNCHANGED codes
  <2>1. ASSUME NEW c \in Calls,
               \/ LoginBegin(c) \/ LoginRead(c) \/ LoginRehash(c) \/ LoginGate(c) \/ LoginAttach(c)
               \/ LoginSign(c) \/ KeyLogin(c)
        PROVE  LockoutEnds'
    <3>1. Acts(c)
      BY <1>4, <1>t, <2>1, LoginStarts, LoginReads, LoginLooks, RehashWritesBack, AttachWritesBack, OthersRead DEF Acts
    <3>2. call[c].pc # "arm"
      BY <2>1 DEF LoginBegin, LoginRead, LoginRehash, LoginGate, LoginAttach, LoginSign, KeyLogin, At
    <3>3. fails' = fails /\ armed' = armed
      BY <2>1 DEF LoginBegin, LoginRead, LoginRehash, LoginGate, LoginAttach, LoginSign, KeyLogin, logins
    <3> QED
      BY <1>1, <3>1, <3>2, <3>3
  <2>2. ASSUME NEW c \in Calls, LoginCount(c)
        PROVE  LockoutEnds'
    <3> DEFINE n == call[c].name
    <3>1. /\ At(c, "login", "count") /\ Goto(c, IF fails[n] = 0 THEN "arm" ELSE "done")
          /\ fails' = [fails EXCEPT ![n] = @ + 1] /\ UNCHANGED <<armed, cut>>
      BY <2>2 DEF LoginCount, redis
    <3>2. n \in Names /\ fails[n] \in Nat /\ fails \in [Names -> Nat]
      BY <1>t, <3>1, StepIs DEF At, DataTyped
    <3>3. Frame(c)
      BY <1>t, <2>2, LoginLooks, ActFrame DEF Acts
    <3>4. CASE fails[n] = 0
      <4>1. Moved(c, "arm")
        <5>1. Goto(c, "arm")
          BY <3>1, <3>4
        <5> QED
          BY <1>t, <3>1, <5>1, GotoMoves DEF At, Edges
      <4>2. call'[c].op = "login" /\ call'[c].pc = "arm" /\ call'[c].name = n
        BY <3>1, <4>1 DEF Moved, SameBut, At
      <4>3. \A m \in Names : m # n => fails'[m] = fails[m]
        BY <3>1, <3>2
      <4> HIDE DEF n
      <4> QED
        BY <3>1, <3>3, <4>2, <4>3 DEF LockoutEnds, At, Frame
    <3>5. CASE fails[n] # 0
      <4>1. \A m \in Names : fails'[m] > 0 => fails[m] > 0
        BY <3>1, <3>2, <3>5
      <4> QED
        BY <3>1, <3>3, <4>1 DEF LockoutEnds, At, Frame
    <3> QED
      BY <3>4, <3>5
  <2>3. ASSUME NEW c \in Calls, LoginArm(c)
        PROVE  LockoutEnds'
    <3>1. /\ armed' = armed \cup ({call[c].name} \cap {n \in Names : fails[n] > 0})
          /\ fails' = fails /\ cut' = cut
      BY <2>3 DEF LoginArm, redis
    <3>2. Frame(c)
      BY <1>t, <2>3, LoginLooks, ActFrame DEF Acts
    <3> QED
      BY <3>1, <3>2 DEF LockoutEnds, At, Frame
  <2>4. ASSUME NEW n \in Names, Expire(n)
        PROVE  LockoutEnds'
    <3>1. armed' = armed \ {n} /\ fails' = [fails EXCEPT ![n] = 0] /\ UNCHANGED <<call, cut>>
      BY <2>4 DEF Expire, redis
    <3>2. \A m \in Names : fails'[m] = IF m = n THEN 0 ELSE fails[m]
      BY <1>t, <3>1 DEF DataTyped
    <3> QED
      BY <3>1, <3>2 DEF LockoutEnds, At
  <2> QED
    BY <1>4, <2>1, <2>2, <2>3, <2>4 DEF LoginsNext
<1>5. CASE EmailsNext /\ UNCHANGED <<sessions, fails, armed>>
  <2>1. ASSUME NEW c \in Calls,
               \/ RequestBegin(c) \/ RequestOwner(c) \/ RequestRecord(c) \/ RequestCode(c)
               \/ VerifyBegin(c) \/ VerifyOwner(c) \/ VerifyRead(c) \/ VerifyRecord(c) \/ VerifyMap(c)
        PROVE  Acts(c) /\ call[c].pc # "arm"
    <3>1. Acts(c)
      BY <1>5, <1>t, <2>1, RequestReads, VerifyStarts, MailLooks, VerifyReads, RequestWritesBack DEF Acts
    <3>2. call[c].pc # "arm"
      BY <2>1 DEF RequestBegin, RequestOwner, RequestRecord, RequestCode, VerifyBegin, VerifyOwner, VerifyRead,
                  VerifyRecord, VerifyMap, At
    <3> QED
      BY <3>1, <3>2
  <2> QED
    BY <1>1, <1>5, <2>1 DEF EmailsNext
<1> QED
  BY <1>2, <1>3, <1>4, <1>5 DEF Next, Sides

-----------------------------------------------------------------------------
(* Marks, the clock and restarts *)

Markable == Users \cup Names \cup Keys \cup Emails

Bounded ==
  /\ now \in 0 .. MaxTime /\ restarts \in 0 .. MaxRestarts
  /\ mixed \cup cut \subseteq Markable

LEMMA TouchesMarkable ==
  ASSUME NEW r \in RequestRecords
  PROVE  Touched(r) \subseteq Markable
<1>1. r.copy # None => r.copy \in UserRecords
  BY FieldsAre DEF Ids
<1>2. r.copy # None => {r.copy.name, r.copy.key, r.copy.email, r.copy.who} \ {None} \subseteq Markable
  BY <1>1, RecordIs DEF Markable, Ids
<1>3. {r.user, r.name, r.key, r.email} \ {None} \subseteq Markable
  BY FieldsAre DEF Markable, Ids
<1> QED
  BY <1>2, <1>3 DEF Touched

LEMMA LeavesMarkable ==
  ASSUME CallsTyped, NEW c \in Calls, call[c].pc \notin {"start", "done"}
  PROVE  Left(c) \subseteq Markable
<1>r. PICK r : r = call[c]
  OBVIOUS
<1>1. r.copy # None => r.copy.name \in Names /\ r.copy.key \in Keys /\ r.copy.who \in Users
  BY <1>r, StepIs, RecordIs
<1>2. r.op \in {"update", "delete", "rekey"} \/ (r.op = "verify" /\ r.pc = "map") => r.copy # None /\ r.user \in Users
  BY <1>r, StepIs DEF IsStep, NoCopy, UpdateSteps, DeleteSteps, RekeySteps
<1>3. r.op \in {"update", "login"} => r.name \in Names
  BY <1>r, StepIs
<1> QED
  BY <1>r, <1>1, <1>2, <1>3 DEF Left, Markable

LEMMA MarksGrow ==
  ASSUME Typed, NEW c \in Calls, Acts(c)
  PROVE  mixed' \cup cut' \subseteq mixed \cup cut \cup Markable
<1>t. CallsTyped
  BY DEF Typed
<1>1. ASSUME NEW q, ReadsAs(c, q) \/ StartsAs(c, q)
      PROVE  mixed' \subseteq mixed \cup Markable /\ cut' = cut
  <2>1. q \in RequestRecords /\ Meet(c, q) /\ cut' = cut
    BY <1>1 DEF ReadsAs, StartsAs, Untouched
  <2>2. Touched(q) \subseteq Markable
    BY <2>1, TouchesMarkable
  <2> QED
    BY <2>1, <2>2 DEF Meet
<1>2. CASE Looks(c)
  BY <1>t, <1>2, LeavesMarkable DEF Looks, Moved
<1>3. CASE (\E new : Back(c, new)) \/ UpdateEmail(c) \/ (UpdateKey(c) /\ ~(Stop(c) /\ UNCHANGED byKey))
  BY <1>t, <1>3, KeyMoves DEF Back, Moved, UpdateEmail
<1>4. CASE RegisterWrite(c)
  <2>1. call[c].key \in Keys /\ mixed' = mixed
    BY <1>4, EnrollMoves
  <2> QED
    BY <1>4, <2>1 DEF RegisterWrite, Markable
<1>5. CASE \/ UpdatePointKey(c) \/ UpdatePointName(c) \/ UpdateRecord(c) \/ UpdateRetire(c)
           \/ DeleteRecord(c) \/ DeleteName(c) \/ DeleteKey(c) \/ RekeyName(c) \/ RekeyErase(c)
           \/ Evict(c) \/ VerifyRecord(c) \/ VerifyMap(c)
  BY <1>5 DEF UpdatePointKey, UpdatePointName, UpdateRecord, UpdateRetire, DeleteRecord, DeleteName, DeleteKey,
              RekeyName, RekeyErase, Evict, VerifyRecord, VerifyMap, redisE, Goto
<1>6. CASE DeleteUser(c) \/ RekeyCopy(c)
  <2>1. Held(c)
    BY <1>t, <1>6, WriteMoves
  <2>2. {Copy(c).name, Copy(c).key, Copy(c).email} \ {None} \subseteq Markable
    BY <2>1, RecordIs DEF Held, Markable, Ids
  <2>3. Copy(c).name # None
    BY <2>1, RecordIs, AccountsAssumption DEF Held, AccountsAssumption
  <2> QED
    BY <1>6, <2>2, <2>3 DEF DeleteUser, RekeyCopy, Goto
<1> QED
  BY <1>1, <1>2, <1>3, <1>4, <1>5, <1>6 DEF Acts

LEMMA ClockRuns ==
  ASSUME [Next]_vars
  PROVE  (now' = now \/ Tick) /\ (restarts' = restarts \/ Restart)
<1>1. CASE AccountsNext
  BY <1>1 DEF AccountsNext, RegisterBegin, RegisterWrite, UpdateBegin, UpdateKey, UpdateName, UpdateEmail, UpdateSince,
              UpdatePointKey, UpdatePointName, UpdateRecord, UpdateRetire, SaveBegin, SaveRecord, DeleteBegin, DeleteRecord,
              DeleteName, DeleteKey, DeleteUser, RekeyBegin, RekeyName, RekeyCopy, RekeyErase, EvictBegin, Evict, Tick, Restart
<1>2. CASE LoginsNext
  BY <1>2 DEF LoginsNext, LoginBegin, LoginRead, LoginCount, LoginArm, LoginRehash, LoginGate, LoginAttach, LoginSign,
              KeyLogin, Expire, redis
<1>3. CASE EmailsNext
  BY <1>3 DEF EmailsNext, RequestBegin, RequestOwner, RequestRecord, RequestCode, VerifyBegin, VerifyOwner, VerifyRead,
              VerifyRecord, VerifyMap, redisE
<1>4. CASE UNCHANGED vars
  BY <1>4 DEF vars
<1> QED
  BY <1>1, <1>2, <1>3, <1>4 DEF Next

LEMMA BoundedStep ==
  ASSUME Typed, Bounded, [Next]_vars
  PROVE  Bounded'
<1>1. now' \in 0 .. MaxTime /\ restarts' \in 0 .. MaxRestarts
  BY ClockRuns, AccountsAssumption DEF AccountsAssumption, Bounded, Tick, Restart
<1>2. CASE UNCHANGED vars
  BY <1>1, <1>2 DEF vars, Bounded
<1>3. ASSUME NEW c \in Calls, Acts(c)
      PROVE  mixed' \cup cut' \subseteq Markable
  BY <1>3, MarksGrow DEF Bounded
<1>4. CASE Tick \/ \E n \in Names : Expire(n)
  BY <1>1, <1>4 DEF Tick, Expire, redis, Bounded
<1>5. CASE Restart
  <2>1. mixed' = mixed /\ cut' = cut \cup UNION {Left(c) : c \in Active}
    BY <1>5 DEF Restart
  <2>2. \A c \in Active : Left(c) \subseteq Markable
    BY LeavesMarkable DEF Active, Typed
  <2> QED
    BY <1>1, <2>1, <2>2 DEF Bounded
<1> QED
  BY <1>1, <1>2, <1>3, <1>4, <1>5, StepActs DEF Bounded, Markable

-----------------------------------------------------------------------------
(* Results *)

(* Everything that is inductive, together. *)
AccountsInv ==
  /\ Typed /\ Bounded /\ Separate /\ DrawInv /\ WhoInv /\ CopyInv
  /\ NameInv /\ KeyInv /\ OutInv /\ MailInv /\ PassInv /\ LockoutEnds

LEMMA AccountsBegin == ASSUME Init PROVE AccountsInv
<1>1. Bounded
  <2>1. MaxTime \in Nat /\ MaxRestarts \in Nat
    BY AccountsAssumption DEF AccountsAssumption
  <2>2. now = 0 /\ restarts = 0 /\ mixed = {} /\ cut = {}
    BY DEF Init, AccountsInit
  <2> QED
    BY <2>1, <2>2 DEF Bounded
<1> QED
  BY <1>1, InitTyped, InitHolds DEF AccountsInv

LEMMA AccountsStep == ASSUME AccountsInv, [Next]_vars PROVE AccountsInv'
<1>1. /\ Typed /\ Bounded /\ Separate /\ DrawInv /\ WhoInv /\ CopyInv /\ NameInv /\ KeyInv
      /\ OutInv /\ MailInv /\ PassInv /\ LockoutEnds
  BY DEF AccountsInv
<1>2. Typed' /\ Bounded' /\ Separate' /\ DrawInv' /\ PassInv' /\ LockoutEnds'
  BY <1>1, TypedStep, BoundedStep, ApartStep, DrawStep, PassStep, LockStep
<1>3. WhoInv' /\ CopyInv'
  BY <1>1, WhoStep, CopyStep
<1>4. NameInv' /\ KeyInv' /\ OutInv' /\ MailInv'
  BY <1>1, NameStep, KeyStep, OutStep, MailStep
<1> QED
  BY <1>2, <1>3, <1>4 DEF AccountsInv

(* Records, and the ways to them, keep their types: whatever the requests of *)
(* register(), update() and the others write over each other, a user: key of *)
(* redis holds a whole record, an id or nothing.                             *)
THEOREM AccountsTyped == Spec => []AccountsTypeOK
<1>1. AccountsInv => AccountsTypeOK
  BY DEF AccountsInv, Typed, DataTyped, Bounded, Markable, DrawInv, Ids, AccountsTypeOK
<1> QED
  BY AccountsBegin, AccountsStep, <1>1, PTL DEF Spec

(* An account that no two requests worked on at once, and that no stopped     *)
(* request left half done, can be reached by the name and the key in its      *)
(* record, and no name is taken that leads nowhere: NamesLead, of register(), *)
(* update(), deleteSelf(), deleteUser() and changeid().                       *)
THEOREM NamesAlwaysLead == Spec => []NamesLead
<1>1. AccountsInv => NamesLead
  BY NamesHold DEF AccountsInv
<1> QED
  BY AccountsBegin, AccountsStep, <1>1, PTL DEF Spec

(* A person who was evicted has no account that gets in, whatever the person *)
(* was renamed or re-keyed to before or after: EvictedStaysOut, of           *)
(* evictAccount() beside update() and changeid().                            *)
THEOREM EvictedNeverReturn == Spec => []EvictedStaysOut
<1>1. AccountsInv => EvictedStaysOut
  BY OutHolds DEF AccountsInv
<1> QED
  BY AccountsBegin, AccountsStep, <1>1, PTL DEF Spec

(* A new password ends the sessions that were signed before its request was  *)
(* made, even when other requests write the record as they had read it:      *)
(* OldSessionsEnd, of update() and its tokens:since, and of authenticate().  *)
THEOREM SessionsEnd == Spec => []OldSessionsEnd
<1>1. AccountsInv => OldSessionsEnd
  BY PassHolds DEF AccountsInv
<1> QED
  BY AccountsBegin, AccountsStep, <1>1, PTL DEF Spec

(* A counter of failed logins is set to expire, or a login is about to do so, *)
(* unless the server stopped in between: LockoutEnds, of login().             *)
THEOREM LockoutsEnd == Spec => []LockoutEnds
<1>1. AccountsInv => LockoutEnds
  BY DEF AccountsInv
<1> QED
  BY AccountsBegin, AccountsStep, <1>1, PTL DEF Spec

(* An account with a verified address is the owner of the address, whatever  *)
(* requests for codes and verifications overlap: VerifiedIsOwned, of         *)
(* request(), verify() and update().                                         *)
THEOREM VerifiedHaveOwners == Spec => []VerifiedIsOwned
<1>1. AccountsInv => VerifiedIsOwned
  BY MailHolds DEF AccountsInv
<1> QED
  BY AccountsBegin, AccountsStep, <1>1, PTL DEF Spec
=============================================================================
