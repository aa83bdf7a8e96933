-------------------------- MODULE MC_LightningSend --------------------------
(* Instances of LightningSend for TLC. *)
EXTENDS LightningSend

CONSTANTS a1, a2, inv

SameInvoice == [a \in Attempts |-> inv]

(* retry_for of 30 and 60 seconds: one tick; CheckAge is 2 ticks. *)
RetryOneTick == [a \in Attempts |-> 1]

(* A client may ask for up to 300 seconds: a1 is retried for longer than    *)
(* check() waits.                                                           *)
RetryMixed == [a \in Attempts |-> IF a = a1 THEN 3 ELSE 1]
=============================================================================
