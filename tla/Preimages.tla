-------------------------------- MODULE Preimages --------------------------------
(***************************************************************************)
(* A merchant's queue of preimages.  generate() with usePreimage takes the *)
(* next for the invoice, whose payment reveals it to the buyer.            *)
(***************************************************************************)
EXTENDS Invoices, Sequences, SequencesExt

CONSTANTS
  Merchant,
  MaxQueue,     \* preimages a queue may have
  MaxRestarts   \* bound: restarts of the server

ASSUME PreimagesAssumption ==
  /\ Merchant \in Users /\ {MaxQueue, MaxRestarts} \subseteq Nat

VARIABLES
  queue,      \* redis: <uid>:preimages
  kept,       \* redis: preimage:<hash>
  redeemed,   \* redis: credited:<preimage>
  added,      \* history: preimages that were queued
  gone,       \* history: those that were cleared, have expired, had no answer of the node
              \* or were in the hands of a call when the server stopped
  restarts

vars == <<vaults, call, spoiled, invoices, seen, queue, kept, redeemed, added, gone, restarts>>

PreimagesInit ==
  /\ queue = <<>> /\ kept = {} /\ redeemed = {} /\ added = {} /\ gone = {} /\ restarts = 0

elsewhere == <<vaults, invoices>>

-----------------------------------------------------------------------------
(* add(): the queue and what was used are looked up, then the preimage is queued. *)
AddBegin(c) ==
  /\ call[c].pc = "start"
  /\ \E p \in Secrets :
       /\ p \notin ToSet(queue) \cup kept \cup redeemed /\ Len(queue) < MaxQueue
       /\ Become(c, [Idle EXCEPT !.op = "add", !.pc = "push", !.secret = p])
  /\ UNCHANGED <<elsewhere, seen, queue, kept, redeemed, added, gone, restarts>>

AddPush(c) ==
  /\ At(c, "add", "push") /\ End(c)
  /\ queue' = Append(queue, call[c].secret) /\ added' = added \cup {call[c].secret}
  /\ gone' = gone \ ({call[c].secret} \ seen)
  /\ UNCHANGED <<elsewhere, seen, kept, redeemed, restarts>>

Clear ==
  /\ queue # <<>> /\ queue' = <<>> /\ gone' = gone \cup ToSet(queue)
  /\ UNCHANGED <<elsewhere, call, spoiled, seen, kept, redeemed, added, restarts>>

-----------------------------------------------------------------------------
(* POST /invoice with usePreimage, in the merchant's custodial account. *)
SellBegin(c) ==
  /\ call[c].pc = "start"
  /\ \E n \in Naming(c) :
       /\ Name(c, n)
       /\ Become(c, [Idle EXCEPT !.op = "sell", !.pc = "pop", !.user = Merchant, !.id = n.id,
                                !.over = n.over])
  /\ UNCHANGED <<seen, queue, kept, redeemed, added, gone, restarts>>

(* An empty queue refuses the buyer. *)
SellPop(c) ==
  /\ At(c, "sell", "pop")
  /\ IF queue = <<>>
       THEN End(c) /\ UNCHANGED queue
       ELSE /\ Become(c, [call[c] EXCEPT !.pc = "invoice", !.secret = Head(queue)])
            /\ queue' = Tail(queue)
  /\ UNCHANGED <<elsewhere, seen, kept, redeemed, added, gone, restarts>>

(* Mutant: an error of the node drops the preimage too. *)
SellInvoiceDrops(c) ==
  LET p == call[c].secret
  IN  /\ At(c, "sell", "invoice")
      /\ \/ p \notin seen /\ seen' = seen \cup {p} /\ Goto(c, "keep") /\ UNCHANGED gone
         \/ p \in seen /\ Goto(c, "pop") /\ UNCHANGED <<seen, gone>>
         \/ End(c) /\ UNCHANGED <<seen, gone>>
         \/ p \notin seen /\ seen' = seen \cup {p} /\ gone' = gone \cup {p} /\ End(c)
      /\ UNCHANGED <<elsewhere, queue, kept, redeemed, added, restarts>>

(* The node makes an invoice with the preimage, or refuses one it has seen,   *)
(* which is dropped; on any other error, and with no rate for the merchant's  *)
(* price, the preimage goes back, also when the node has made the invoice and *)
(* the answer was lost.                                                       *)
SellInvoice(c) ==
  LET p == call[c].secret
  IN  /\ At(c, "sell", "invoice")
      /\ \/ p \notin seen /\ seen' = seen \cup {p} /\ Goto(c, "keep") /\ UNCHANGED gone
         \/ p \in seen /\ Goto(c, "pop") /\ UNCHANGED <<seen, gone>>
         \/ Goto(c, "return") /\ UNCHANGED <<seen, gone>>
         \/ p \notin seen /\ seen' = seen \cup {p} /\ gone' = gone \cup {p} /\ Goto(c, "return")
      /\ UNCHANGED <<elsewhere, queue, kept, redeemed, added, restarts>>

SellReturn(c) ==
  /\ At(c, "sell", "return") /\ End(c) /\ queue' = <<call[c].secret>> \o queue
  /\ UNCHANGED <<elsewhere, seen, kept, redeemed, added, gone, restarts>>

SellKeep(c) ==
  LET p == call[c].secret
  IN  /\ At(c, "sell", "keep") /\ kept' = kept \cup {p}
      /\ Become(c, [call[c] EXCEPT !.pc = "point", !.secret = None,
                                   !.code = [kind |-> "minted", key |-> p, n |-> 0]])
      /\ UNCHANGED <<elsewhere, seen, queue, redeemed, added, gone, restarts>>

-----------------------------------------------------------------------------
(* The buyer pays: credit() notes the preimage. *)
SettleSale(p) ==
  /\ \E x \in handed : x.code = [kind |-> "minted", key |-> p, n |-> 0]
  /\ redeemed' = redeemed \cup {p}
  /\ UNCHANGED <<elsewhere, call, spoiled, seen, queue, kept, added, gone, restarts>>

(* The invoice expires, and what was kept for it. *)
Expire(p) ==
  /\ p \in kept /\ kept' = kept \ {p} /\ gone' = gone \cup {p}
  /\ UNCHANGED <<elsewhere, call, spoiled, seen, queue, redeemed, added, restarts>>

Restart ==
  /\ restarts < MaxRestarts /\ restarts' = restarts + 1
  /\ gone' = gone \cup ({call[c].secret : c \in {d \in Active : call[d].op = "sell"}} \ {None})
  /\ call' = [c \in Calls |-> IF c \in Active THEN Done(c) ELSE call[c]]
  /\ UNCHANGED <<elsewhere, spoiled, seen, queue, kept, redeemed, added>>

PreimagesNext ==
  \/ \E c \in Calls :
       \/ AddBegin(c) \/ AddPush(c)
       \/ SellBegin(c) \/ SellPop(c) \/ SellInvoice(c) \/ SellReturn(c) \/ SellKeep(c)
  \/ \E p \in Secrets : SettleSale(p) \/ Expire(p)
  \/ Clear \/ Restart

Init == VaultsInit /\ InvoicesInit /\ seen = {} /\ PreimagesInit

Next ==
  \/ VaultsNext /\ UNCHANGED <<invoices, seen, queue, kept, redeemed, added, gone, restarts>>
  \/ InvoicesNext /\ UNCHANGED <<queue, kept, redeemed, added, gone, restarts>>
  \/ PreimagesNext

Spec == Init /\ [][Next]_vars

-----------------------------------------------------------------------------
(* Properties *)

InHand(p) == \E c \in Active : call[c].op = "sell" /\ call[c].secret = p

(* A merchant's preimage is queued, or in the hands of a call that sells it, *)
(* or it backs an invoice from which it can be told; unless it was cleared,  *)
(* the invoice has expired, the node did not answer or the server stopped.   *)
(* A failed sale does not lose it.                                           *)
PreimagesKept == \A p \in added : p \in ToSet(queue) \cup kept \cup gone \/ InHand(p)
=============================================================================
