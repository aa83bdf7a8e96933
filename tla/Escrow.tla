------------------------------- MODULE Escrow -------------------------------
(***************************************************************************)
(* What an outgoing payment promises, without redis, drivers, nodes or     *)
(* retries: the amount is held when the payment is accepted; it is kept    *)
(* once its invoice was paid, or it is returned, and from then on nobody   *)
(* pays the invoice with that money.  Only when a held amount was          *)
(* abandoned, while the node it was handed to still tries to pay, is       *)
(* neither certain any more.                                               *)
(***************************************************************************)
CONSTANTS Attempts, Invoices, InvoiceOf

VARIABLES
  charge,   \* what became of the amount of an attempt
  paid,     \* the invoices that were paid
  abandoned \* attempts given up before their node was through

Charges == {"none", "held", "kept", "returned"}

(* Some other attempt's amount was kept for the invoice. *)
KeptByAnother(a) ==
  \E b \in Attempts \ {a} : InvoiceOf[b] = InvoiceOf[a] /\ charge[b] = "kept"

Init ==
  /\ charge = [a \in Attempts |-> "none"]
  /\ paid = {} /\ abandoned = {}

Hold(a) ==
  /\ charge[a] = "none"
  /\ charge' = [charge EXCEPT ![a] = "held"]
  /\ UNCHANGED <<paid, abandoned>>

Pay(a) ==
  /\ charge[a] = "held" \/ a \in abandoned
  /\ InvoiceOf[a] \notin paid
  /\ paid' = paid \cup {InvoiceOf[a]}
  /\ UNCHANGED <<charge, abandoned>>

Abandon(a) ==
  /\ charge[a] = "held" /\ InvoiceOf[a] \notin paid
  /\ abandoned' = abandoned \cup {a}
  /\ UNCHANGED <<charge, paid>>

Keep(a) ==
  /\ charge[a] = "held" /\ InvoiceOf[a] \in paid /\ ~KeptByAnother(a)
  /\ charge' = [charge EXCEPT ![a] = "kept"]
  /\ UNCHANGED <<paid, abandoned>>

GiveBack(a) ==
  /\ charge[a] = "held"
  /\ InvoiceOf[a] \notin paid \/ KeptByAnother(a) \/ a \in abandoned
  /\ charge' = [charge EXCEPT ![a] = "returned"]
  /\ UNCHANGED <<paid, abandoned>>

Next ==
  \E a \in Attempts : Hold(a) \/ Pay(a) \/ Keep(a) \/ GiveBack(a) \/ Abandon(a)

Spec == Init /\ [][Next]_<<charge, paid, abandoned>>
=============================================================================
