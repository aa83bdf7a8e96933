---------------------------------- MODULE Ecash ----------------------------------
(***************************************************************************)
(* Redeeming ecash: a claim swaps a token's proofs at the mint, adds the   *)
(* new ones to the house pool, a token in redis, and credits an account.   *)
(* The pool can only be read with the mint's keysets, which are cached for *)
(* a while; without them it counts as empty.  A token is one proof of the  *)
(* current mint, worth one.                                                *)
(***************************************************************************)
EXTENDS Integers, FiniteSets

CONSTANTS
  Claims,       \* requests: POST /claim and POST /ecash/:id
  NewProofs,    \* proofs of the current mint
  Asked,        \* payment requests, each an invoice of its own
  None,
  Opening,      \* what is in the pool at first
  MaxOutages,   \* bound: times the mint cannot be reached
  MaxFaults     \* bound: restarts of the server and calls that fail

ASSUME EcashAssumption ==
  /\ IsFiniteSet(Claims) /\ None \notin Claims \cup Asked
  /\ {Opening, MaxOutages, MaxFaults} \subseteq Nat

VARIABLES
  spent,       \* mint: proofs that are spent
  mintUp,      \* the mint can be reached
  cached,      \* the keysets are known
  pool,        \* redis: cash
  cashLock,    \* who holds the lock of the pool
  received,    \* redis: payment requests that were paid
  creditLock,  \* redis: lock:credit:<hash>
  claim,       \* locals of the claims
  credited,    \* ledger: what the accounts were credited with
  wiped,       \* history: a pool that could not be read was taken as empty
  outages, faults

ecash == <<mintUp, cached, pool, cashLock, received, creditLock, claim, credited,
           wiped, outages, faults>>

Fresh == [pc |-> "start", proof |-> None, asked |-> None, read |-> 0]

EcashTypeOK ==
  /\ spent \subseteq NewProofs
  /\ mintUp \in BOOLEAN /\ cached \in BOOLEAN /\ wiped \in BOOLEAN
  /\ pool \in Nat /\ credited \in Nat /\ {outages, faults} \subseteq Nat
  /\ cashLock \in Claims \cup {None} /\ received \subseteq Asked /\ creditLock \subseteq Asked
  /\ claim \in [Claims -> [pc : {"start", "lock", "pool", "swap", "store", "credit", "book",
                                 "ledger", "done"},
                           proof : NewProofs \cup {None}, asked : Asked \cup {None}, read : Nat]]

EcashInit ==
  /\ mintUp = TRUE /\ cached = FALSE /\ pool = Opening /\ cashLock = None
  /\ received = {} /\ creditLock = {} /\ claim = [c \in Claims |-> Fresh] /\ credited = 0
  /\ wiped = FALSE /\ outages = 0 /\ faults = 0

Goto(c, label) == claim' = [claim EXCEPT ![c].pc = label]
Proof(c)       == claim[c].proof
Request(c)     == claim[c].asked

-----------------------------------------------------------------------------
(* claim() *)

(* The token is decoded and found to be ours: this takes the keysets.  It may *)
(* answer a payment request, or be for an invoice that is made for it.        *)
ClaimStart(c) ==
  /\ claim[c].pc = "start" /\ (cached \/ mintUp) /\ cached' = TRUE
  /\ \E p \in NewProofs, r \in Asked \cup {None} :
       claim' = [claim EXCEPT ![c] = [pc |-> "lock", proof |-> p, asked |-> r, read |-> 0]]
  /\ UNCHANGED <<spent, mintUp, pool, cashLock, received, creditLock, credited, wiped, outages, faults>>

(* Mutant: nobody waits for the lock. *)
EnterPoolAtOnce(c) ==
  /\ claim[c].pc = "lock" /\ cashLock' = c /\ Goto(c, "pool")
  /\ UNCHANGED <<spent, mintUp, cached, pool, received, creditLock, credited, wiped,
                 outages, faults>>

EnterPool(c) ==
  /\ claim[c].pc = "lock" /\ cashLock = None /\ cashLock' = c /\ Goto(c, "pool")
  /\ UNCHANGED <<spent, mintUp, cached, pool, received, creditLock, credited, wiped,
                 outages, faults>>

(* pool(): what cannot be decoded is no proofs. *)
ReadPool(c) ==
  /\ claim[c].pc = "pool"
  /\ cached' = (cached \/ mintUp)
  /\ claim' = [claim EXCEPT ![c].pc = "swap", ![c].read = IF cached' THEN pool ELSE 0]
  /\ wiped' = (wiped \/ (~cached' /\ pool > 0))
  /\ UNCHANGED <<spent, mintUp, pool, cashLock, received, creditLock, credited,
                 outages, faults>>

(* receive(): the mint takes the proof, or refuses it. *)
Swap(c) ==
  /\ claim[c].pc = "swap"
  /\ IF mintUp /\ Proof(c) \notin spent
       THEN spent' = spent \cup {Proof(c)} /\ Goto(c, "store") /\ UNCHANGED cashLock
       ELSE cashLock' = None /\ Goto(c, "done") /\ UNCHANGED spent
  /\ UNCHANGED <<mintUp, cached, pool, received, creditLock, credited, wiped,
                 outages, faults>>

StorePool(c) ==
  /\ claim[c].pc = "store"
  /\ pool' = claim[c].read + 1
  /\ cashLock' = None /\ Goto(c, "credit")
  /\ UNCHANGED <<spent, mintUp, cached, received, creditLock, credited, wiped,
                 outages, faults>>

(* credit() reads the invoice, and then takes its lock. *)
ReadInvoice(c) ==
  /\ claim[c].pc = "credit"
  /\ claim' = [claim EXCEPT ![c].pc = "book", ![c].read = IF Request(c) \in received THEN 1 ELSE 0]
  /\ UNCHANGED <<spent, mintUp, cached, pool, cashLock, received, creditLock, credited, wiped,
                 outages, faults>>

(* An invoice that was paid, or is being paid, takes no more: the proof is *)
(* in the pool and nobody has the credit.                                  *)
Credit(c) ==
  /\ claim[c].pc = "book"
  /\ IF claim[c].read = 1 \/ Request(c) \in creditLock
       THEN Goto(c, "done") /\ UNCHANGED creditLock
       ELSE creditLock' = creditLock \cup ({Request(c)} \ {None}) /\ Goto(c, "ledger")
  /\ UNCHANGED <<spent, mintUp, cached, pool, cashLock, received, credited, wiped, outages, faults>>

Book(c) ==
  /\ claim[c].pc = "ledger"
  /\ credited' = credited + 1
  /\ received' = received \cup ({Request(c)} \ {None})
  /\ creditLock' = creditLock \ {Request(c)} /\ Goto(c, "done")
  /\ UNCHANGED <<spent, mintUp, cached, pool, cashLock, wiped, outages, faults>>

(* A call throws, after the swap. *)
CallFails(c) ==
  /\ claim[c].pc \in {"store", "credit", "book", "ledger"} /\ faults < MaxFaults
  /\ faults' = faults + 1 /\ Goto(c, "done")
  /\ cashLock' = IF cashLock = c THEN None ELSE cashLock
  /\ creditLock' = IF claim[c].pc = "ledger" THEN creditLock \ {Request(c)} ELSE creditLock
  /\ UNCHANGED <<spent, mintUp, cached, pool, received, credited, wiped, outages>>

-----------------------------------------------------------------------------
(* The keysets, the mint and the process *)

(* Ten minutes have passed, or somebody has sent a token of another mint. *)
KeysAge ==
  /\ cached /\ cached' = FALSE
  /\ UNCHANGED <<spent, mintUp, pool, cashLock, received, creditLock, claim, credited, wiped, outages, faults>>

Outage ==
  /\ IF mintUp THEN outages < MaxOutages /\ outages' = outages + 1 ELSE UNCHANGED outages
  /\ mintUp' = ~mintUp
  /\ UNCHANGED <<spent, cached, pool, cashLock, received, creditLock, claim, credited, wiped, faults>>

Restart ==
  /\ faults < MaxFaults /\ faults' = faults + 1
  /\ claim' = [c \in Claims |-> IF claim[c].pc = "start" THEN Fresh
                                ELSE [claim[c] EXCEPT !.pc = "done"]]
  /\ cashLock' = None /\ cached' = FALSE
  /\ UNCHANGED <<spent, mintUp, pool, received, creditLock, credited, wiped, outages>>

EcashNext ==
  \/ \E c \in Claims : \/ ClaimStart(c) \/ EnterPool(c) \/ ReadPool(c) \/ Swap(c)
                       \/ StorePool(c) \/ ReadInvoice(c) \/ Credit(c) \/ Book(c) \/ CallFails(c)
  \/ KeysAge \/ Outage \/ Restart

-----------------------------------------------------------------------------
(* Properties *)

(* The pool holds what it held and all that claims were credited for; it    *)
(* comes short only when the keysets were forgotten while the mint could    *)
(* not be reached, and a claim behind it found an empty pool.               *)
PoolCovers == wiped \/ pool >= Opening + credited
=============================================================================
