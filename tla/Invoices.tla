-------------------------------- MODULE Invoices --------------------------------
(***************************************************************************)
(* generate() makes an invoice: it gets a code that a payer can pay to, an *)
(* address of a vault, an offer of the node, or an invoice or address that *)
(* the node makes but once; points invoice:<code> to the invoice, stores   *)
(* the record and hands the code out.  update() calls it with the record   *)
(* of an invoice there is, and stores what it returns under the id that it *)
(* was asked for: that is another invoice's record, with the other's id,   *)
(* when both have the same offer.  An invoice has the name of the call     *)
(* that made it, unless the caller gave it the id of another one.          *)
(***************************************************************************)
EXTENDS Vaults

CONSTANTS
  Offers,    \* contents of offers
  Hashes,    \* what the node makes but once
  Secrets    \* those whose preimage a merchant has chosen

Codes == [kind : {"address"}, key : Keys, n : 0..MaxIndex]
           \cup [kind : {"offer"}, key : Offers, n : {0}]
           \cup [kind : {"minted"}, key : Hashes, n : {0}]

InvoiceRecords == [id : Calls, owner : Users, acct : Accounts \cup {None}, code : Codes]

ASSUME InvoicesAssumption ==
  /\ Secrets \subseteq Hashes /\ None \notin Hashes \cup InvoiceRecords
  /\ (Calls \cup {None}) \cap Codes = {}

VARIABLES
  invoice,    \* redis: invoice:<id>
  ptr,        \* redis: invoice:<code>, an id
  standing,   \* redis: <uid>:offer, an id
  seen,       \* node: the payment hashes of its invoices
  handed,     \* history: the codes that were handed out, the invoice and user they were made
              \* for, and the invoice that was asked for
  named       \* history: the ids that callers chose, of invoices or their codes

invoices == <<invoice, ptr, standing, handed, named>>

InvoicesInit ==
  /\ invoice = [i \in Calls |-> None] /\ ptr = [x \in Codes |-> None]
  /\ standing = [u \in Users |-> None] /\ handed = {} /\ named = {}

InvoicesTypeOK ==
  /\ invoice \in [Calls -> InvoiceRecords \cup {None}]
  /\ ptr \in [Codes -> Calls \cup {None}] /\ standing \in [Users -> Calls \cup {None}]
  /\ seen \subseteq Hashes /\ named \subseteq Calls \cup Codes

(* The calls that have found no record of an offer and have not stored one yet. *)
Offering(o) ==
  {c \in Active : call[c].pc \in {"point", "record"} /\ call[c].code.kind = "offer" /\ call[c].code.key = o}

Hand(record, u, i) ==
  handed' = handed \cup {[code |-> record.code, id |-> record.id, owner |-> u, of |-> i]}

(* The record that a call makes. *)
Record(c) ==
  [id |-> call[c].id, owner |-> call[c].user, acct |-> call[c].acct, code |-> call[c].code]

(* generate() returns a record: update() and getUserOffer() store it, or its id. *)
Return(c, record) ==
  /\ Hand(record, call[c].user, record.id)
  /\ invoice' = IF call[c].op = "put" THEN [invoice EXCEPT ![call[c].of] = record] ELSE invoice
  /\ standing' = IF call[c].op = "standing" THEN [standing EXCEPT ![call[c].user] = record.id] ELSE standing

-----------------------------------------------------------------------------
(* The account that a call to generate() names, if it is the user's; None is *)
(* the custodial account that every user has.                                *)
Using(u, a) == IF a \in Existing /\ account[a].owner = u THEN a ELSE None

(* A call to generate() begins: for a vault if one is named, and for what the *)
(* caller asks otherwise.  An account of an earlier version has no key to     *)
(* derive from, and the call fails.                                           *)
Making(r, u, a, asks) ==
  IF Using(u, a) = None THEN {[r EXCEPT !.pc = pc, !.user = u] : pc \in asks}
  ELSE IF a \in Vaulted THEN {[r EXCEPT !.pc = "derive", !.user = u, !.acct = a, !.copy = account[a]]}
  ELSE {[Idle EXCEPT !.op = r.op, !.pc = "done"]}

(* A call that makes an invoice. *)
Busy(r) == r.pc \in {"derive", "mint", "offer", "pop", "invoice", "return", "keep",
                     "point", "record", "hand"}

(* The id of an invoice is new, or the caller's choice: that of an invoice    *)
(* there is, or that another caller makes, or a code that was handed out,     *)
(* which then leads to the new invoice itself.                                *)
Naming(c) ==
  {[id |-> i, over |-> None] : i \in {c} \cup {j \in Calls : invoice[j] # None}
     \cup {call[d].id : d \in {e \in Calls : Busy(call[e]) /\ call[e].op \in {"generate", "sell"}}}}
  \cup {[id |-> c, over |-> x.code] : x \in handed}

Name(c, n) ==
  /\ named' = named \cup (({n.id} \ {c}) \cup ({n.over} \ {None}))
  /\ UNCHANGED <<vaults, invoice, ptr, standing, handed>>

(* POST /invoice, and the payments that need one. *)
GenBegin(c) ==
  /\ call[c].pc = "start"
  /\ \E u \in Users, a \in Accounts \cup {None}, n \in Naming(c) :
       /\ Name(c, n)
       /\ \E r \in Making([Idle EXCEPT !.op = "generate", !.id = n.id, !.over = n.over], u, a,
                          {"mint", "offer"}) : Become(c, r)
  /\ UNCHANGED seen

(* update(), POST /invoice/:id: the record stays of its kind, unless its     *)
(* account became a vault, or was one.  It may be refused, as paid or not    *)
(* the caller's.                                                             *)
PutBegin(c) ==
  /\ call[c].pc = "start"
  /\ \E i \in {j \in Calls : invoice[j] # None} :
       \E r \in Making([Idle EXCEPT !.op = "put", !.id = invoice[i].id, !.of = i],
                       invoice[i].owner, invoice[i].acct,
                       IF invoice[i].code.kind = "offer" THEN {"offer"} ELSE {"mint"}) : Become(c, r)
  /\ UNCHANGED <<vaults, invoices, seen>>

(* getUserOffer() *)
StandingBegin(c) ==
  /\ call[c].pc = "start"
  /\ \E u \in Users :
       IF standing[u] # None /\ invoice[standing[u]] # None
         THEN /\ Become(c, [Done(c) EXCEPT !.op = "standing"])
              /\ Hand(invoice[standing[u]], u, standing[u])
         ELSE /\ Become(c, [Idle EXCEPT !.op = "standing", !.pc = "offer", !.user = u, !.id = c])
              /\ UNCHANGED handed
  /\ UNCHANGED <<vaults, invoice, ptr, standing, named, seen>>

-----------------------------------------------------------------------------
(* Mutant: the record is stored as it was read. *)
GenDeriveSame(c) ==
  LET r == call[c]
  IN  /\ r.pc = "derive" /\ r.copy.next < MaxIndex
      /\ account' = [account EXCEPT ![r.acct] = r.copy]
      /\ Become(c, [r EXCEPT !.pc = "point", !.copy = None,
                             !.code = [kind |-> "address", key |-> r.copy.key, n |-> r.copy.next]])
      /\ UNCHANGED <<listed, reached, worn, invoices, seen>>

(* The next address; the account is stored as it was read, but for the index. *)
GenDerive(c) ==
  LET r == call[c]
  IN  /\ r.pc = "derive" /\ r.copy.next < MaxIndex
      /\ account' = [account EXCEPT ![r.acct] = [r.copy EXCEPT !.next = @ + 1]]
      /\ Become(c, [r EXCEPT !.pc = "point", !.copy = None,
                             !.code = [kind |-> "address", key |-> r.copy.key, n |-> r.copy.next]])
      /\ UNCHANGED <<listed, reached, worn, invoices, seen>>

(* The node makes an invoice with a secret of its own, or an address; or fails. *)
GenMint(c) ==
  /\ call[c].pc = "mint"
  /\ \/ \E h \in Hashes \ (seen \cup Secrets) :
          /\ seen' = seen \cup {h}
          /\ Become(c, [call[c] EXCEPT !.pc = "point", !.code = [kind |-> "minted", key |-> h, n |-> 0]])
     \/ End(c) /\ UNCHANGED seen
  /\ UNCHANGED <<vaults, invoices>>

(* The node makes the same offer of the same contents, always.  An offer that *)
(* has a record is handed to its user again, and refused to any other; what   *)
(* update() is given, it stores.                                              *)
GenOffer(c) ==
  /\ call[c].pc = "offer"
  /\ \E o \in Offers :
       LET code == [kind |-> "offer", key |-> o, n |-> 0]
           i    == ptr[code]
       IN  IF i = None \/ invoice[i] = None
             THEN /\ call' = [call EXCEPT ![c] = [call[c] EXCEPT !.pc = "point", !.code = code]]
                  /\ spoiled' = spoiled \cup {x \in {o} : Offering(o) # {}}
                  /\ UNCHANGED <<invoice, standing, handed>>
           ELSE IF invoice[i].owner # call[c].user
             THEN End(c) /\ UNCHANGED <<invoice, standing, handed>>
           ELSE End(c) /\ Return(c, invoice[i])
  /\ UNCHANGED <<vaults, ptr, named, seen>>

GenPoint(c) ==
  /\ call[c].pc = "point" /\ Goto(c, "record")
  /\ ptr' = [ptr EXCEPT ![call[c].code] = call[c].id]
  /\ UNCHANGED <<vaults, invoice, standing, named, seen, handed>>

(* invoice:<id> is the record, also where it was the pointer of a code. *)
GenRecord(c) ==
  /\ call[c].pc = "record" /\ Goto(c, "hand")
  /\ invoice' = [invoice EXCEPT ![call[c].id] = Record(c)]
  /\ ptr' = [x \in Codes |-> IF x = call[c].over THEN call[c].id ELSE ptr[x]]
  /\ UNCHANGED <<vaults, standing, named, seen, handed>>

GenHand(c) ==
  /\ call[c].pc = "hand" /\ End(c) /\ Return(c, Record(c))
  /\ UNCHANGED <<vaults, ptr, named, seen>>

InvoicesNext ==
  \E c \in Calls :
    \/ GenBegin(c) \/ PutBegin(c) \/ StandingBegin(c)
    \/ GenDerive(c) \/ GenMint(c) \/ GenOffer(c) \/ GenPoint(c) \/ GenRecord(c) \/ GenHand(c)

-----------------------------------------------------------------------------
(* Properties *)

(* What a payer pays to leads to an invoice of the user it was made for, and *)
(* the address of a vault to the very invoice: no address is handed out for  *)
(* two.  Unless two calls held the record of the vault, or asked for the     *)
(* same offer, at once, the key was of two vaults, or a caller gave its      *)
(* invoice the code for an id; and the user is another where a caller gave   *)
(* its invoice the id of the one it leads to, or of the standing offer.      *)
CodesLead ==
  \A x \in handed : x.code.key \notin spoiled /\ x.code \notin named =>
    LET i == ptr[x.code]
    IN  /\ i # None /\ invoice[i] # None
        /\ x.code.kind = "address" => i = x.id
        /\ invoice[i].owner = x.owner \/ {i, x.of} \cap named # {}
=============================================================================
