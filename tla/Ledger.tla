--------------------------------- MODULE Ledger ---------------------------------
(***************************************************************************)
(* The ledger as lib/tb.ts keeps it: one account's balance, pending amount *)
(* and fee credit for lightning, and one fund, in microsats.  A list of    *)
(* linked transfers is one step; what a caller reads before it may be old  *)
(* by then.  Sends reserve a network fee, are refunded what it left or     *)
(* reversed as a whole.                                                    *)
(***************************************************************************)
EXTENDS Integers, FiniteSets

CONSTANTS
  Sends,        \* lightning payments
  Amounts,      \* sats of a payment or a deposit
  Reserve,      \* sats reserved for the network fee
  Msats,        \* microsats of a sat
  Scale,        \* the fee rates are Standard / Scale and High / Scale
  Standard, High,
  OpeningSats,  \* sats on each account at first
  MaxRequests,  \* bound: deposits, confirmations, payments into and out of the fund
  MaxFlags      \* bound: changes of ln:nofree:<uid> and evictions

ASSUME LedgerAssumption ==
  /\ IsFiniteSet(Sends)
  /\ Amounts \subseteq Nat \ {0}
  /\ {Msats, Scale, Standard, High} \subseteq Nat \ {0} /\ Standard <= High
  /\ OpeningSats \in [{"balance", "pending", "credit", "fund"} -> Nat]
  /\ {Reserve, MaxRequests, MaxFlags} \subseteq Nat

VARIABLES
  tb,          \* TigerBeetle: microsats on an account
  created,     \* TigerBeetle: accounts that exist
  noFree,      \* redis: ln:nofree:<uid>
  evicted,     \* redis: the user is on the blacklist
  send,        \* locals of a payment, and its record
  live,        \* history: microsats that requests moved to an account
  held,        \* history: the balance at the eviction
  loose,       \* history: debits of an evicted user overlapped
  excess,      \* history: microsats of fee credit the last reversal returned beyond
               \* what its debit consumed
  onFee,       \* history: sats of them that are the fee on the fee
  requests, flags

history == <<live, held, loose, excess, onFee>>
ledger  == <<tb, created, noFree, evicted, send, history, requests, flags>>

Accounts == {"balance", "pending", "credit", "fund"}

Idle == [pc |-> "start", base |-> 0, rate |-> 0, frozen |-> 0, cover |-> 0, ourfee |-> 0]

LedgerTypeOK ==
  /\ tb \in [Accounts -> Nat] /\ created \subseteq Accounts
  /\ noFree \in BOOLEAN /\ evicted \in BOOLEAN /\ loose \in BOOLEAN
  /\ send \in [Sends -> [pc : {"start", "credit", "check", "move", "paid", "done"},
                         base : Nat, rate : Nat, frozen : Nat, cover : Nat, ourfee : Nat]]
  /\ live \in [Accounts -> Int] /\ held \in Nat /\ excess \in Int /\ onFee \in Int
  /\ {requests, flags} \subseteq Nat

LedgerInit ==
  /\ noFree = FALSE /\ evicted = FALSE
  /\ send = [s \in Sends |-> Idle]
  /\ live = [a \in Accounts |-> 0] /\ held = 0 /\ loose = FALSE
  /\ excess = 0 /\ onFee = 0
  /\ requests = 0 /\ flags = 0

(* Math.round, for what is not negative; the platform fee in sats. *)
Round(n, d)  == (2 * n + d) \div (2 * d)
Fee(x, rate) == Round(x * rate, Scale)

Rate == IF noFree THEN High ELSE Standard

(* Linked transfers between the house and these accounts: all or none. *)
Possible(ch) ==
  \A a \in DOMAIN ch : a \in created /\ tb[a] + ch[a] >= 0

Move(ch) ==
  /\ tb'   = [a \in Accounts |-> tb[a] + IF a \in DOMAIN ch THEN ch[a] ELSE 0]
  /\ live' = [a \in Accounts |-> live[a] + IF a \in DOMAIN ch THEN ch[a] ELSE 0]

Counted == requests < MaxRequests /\ requests' = requests + 1

SendGoto(s, label) == send' = [send EXCEPT ![s].pc = label]
Debiting       == {s \in Sends : send[s].pc \in {"credit", "check", "move"}}

-----------------------------------------------------------------------------
(* tbDebit *)

(* debit(): the fee at the rate of the flag, and the balance that is frozen. *)
DebitStart(s) ==
  /\ send[s].pc = "start"
  /\ \E amount \in Amounts :
       send' = [send EXCEPT ![s] =
                  [pc |-> "credit", base |-> amount + Reserve, rate |-> Rate,
                   frozen |-> IF evicted THEN tb["balance"] \div Msats ELSE 0,
                   cover |-> 0, ourfee |-> Fee(amount + Reserve, Rate)]]
  /\ loose' = (loose \/ (evicted /\ Debiting # {}))
  /\ UNCHANGED <<tb, created, noFree, evicted, live, held, excess, onFee, requests, flags>>

(* What the fee credit covers of the fee; the rest in whole sats. *)
DebitCredit(s) ==
  LET due   == send[s].ourfee * Msats
      cover == IF tb["credit"] < due THEN tb["credit"] ELSE due
  IN  /\ send[s].pc = "credit"
      /\ send' = [send EXCEPT ![s].pc = "check", ![s].cover = cover,
                              ![s].ourfee = (due - cover) \div Msats]
      /\ UNCHANGED <<tb, created, noFree, evicted, history, requests, flags>>

Total(s) == (send[s].base + send[s].ourfee) * Msats

(* Mutant: what is frozen is left out. *)
DebitCheckAll(s) ==
  /\ send[s].pc = "check"
  /\ SendGoto(s, IF tb["balance"] < Total(s) THEN "done" ELSE "move")
  /\ UNCHANGED <<tb, created, noFree, evicted, history, requests, flags>>

DebitCheck(s) ==
  /\ send[s].pc = "check"
  /\ SendGoto(s, IF tb["balance"] - send[s].frozen * Msats < Total(s) THEN "done" ELSE "move")
  /\ UNCHANGED <<tb, created, noFree, evicted, history, requests, flags>>

DebitMove(s) ==
  LET ch == [a \in {"balance"} \cup (IF send[s].cover > 0 THEN {"credit"} ELSE {}) |->
               IF a = "credit" THEN -send[s].cover ELSE -Total(s)]
  IN  /\ send[s].pc = "move"
      /\ IF Possible(ch) THEN Move(ch) /\ SendGoto(s, "paid")
                         ELSE SendGoto(s, "done") /\ UNCHANGED <<tb, live>>
      /\ UNCHANGED <<created, noFree, evicted, held, loose, excess, onFee, requests, flags>>

-----------------------------------------------------------------------------
(* The end of a payment *)

(* finalize(): what the network fee has left of its reserve. *)
Refund(s) ==
  /\ send[s].pc = "paid"
  /\ \E rest \in 0 .. Reserve :
       IF rest > 0 /\ "balance" \in created THEN Move([a \in {"balance"} |-> rest * Msats])
                                            ELSE UNCHANGED <<tb, live>>
  /\ SendGoto(s, "done")
  /\ UNCHANGED <<created, noFree, evicted, held, loose, excess, onFee, requests, flags>>

(* The whole payment goes back to the balance, and to the fee credit what     *)
(* reverse() asks for: the fee of all that was charged, our fee included.     *)
Reversal(s, credit) ==
  LET back == IF credit > 0 THEN credit ELSE 0
      ch   == [a \in {"balance"} \cup (IF back > 0 THEN {"credit"} ELSE {}) |->
                 IF a = "credit" THEN back * Msats ELSE Total(s)]
      more == Fee(send[s].base + send[s].ourfee, Rate) - Fee(send[s].base, Rate)
  IN  /\ IF Possible(ch) THEN Move(ch) ELSE UNCHANGED <<tb, live>>
      /\ excess' = IF send[s].rate = Rate THEN back * Msats - send[s].cover ELSE 0
      /\ onFee' = IF send[s].rate = Rate THEN more ELSE 0

(* Mutant: the fee is cut off where the debit has rounded it. *)
ReverseCut(s) ==
  /\ send[s].pc = "paid" /\ SendGoto(s, "done")
  /\ LET total == send[s].base + send[s].ourfee
     IN  Reversal(s, ((total * Rate) \div Scale) - send[s].ourfee)
  /\ UNCHANGED <<created, noFree, evicted, held, loose, requests, flags>>

(* reverse(): the credit is computed from the total, at the rate of today. *)
Reverse(s) ==
  /\ send[s].pc = "paid" /\ SendGoto(s, "done")
  /\ LET total == send[s].base + send[s].ourfee
     IN  Reversal(s, Fee(total, Rate) - send[s].ourfee)
  /\ UNCHANGED <<created, noFree, evicted, held, loose, requests, flags>>

-----------------------------------------------------------------------------
(* Deposits, funds and flags *)

(* tbCredit: what lightning brings adds a fee credit for the next payment, an *)
(* error of which is a warning.  A pending deposit is of bitcoin, whose fee    *)
(* credit is another account.                                                *)
Credit(target) ==
  /\ Counted /\ target \in created
  /\ \E amount \in Amounts :
       LET free == Round(amount * Msats * Standard, Scale)
           also == IF target = "balance" /\ ~noFree /\ free > 0 /\ "credit" \in created
                  THEN {"credit"} ELSE {}
       IN  Move([a \in {target} \cup also |-> IF a = "credit" THEN free ELSE amount * Msats])
  /\ UNCHANGED <<created, noFree, evicted, send, held, loose, excess, onFee, flags>>

(* tbConfirm: refused for more than is pending, which is a warning. *)
Confirm ==
  /\ Counted
  /\ \E amount \in Amounts :
       LET ch == [a \in {"pending", "balance"} |->
                    IF a = "pending" THEN -amount * Msats ELSE amount * Msats]
       IN  Possible(ch) /\ Move(ch)
  /\ UNCHANGED <<created, noFree, evicted, send, held, loose, excess, onFee, flags>>

(* tbFundCredit makes the account; tbFundDebit takes no more than is there. *)
FundCredit ==
  /\ Counted
  /\ created' = created \cup {"fund"}
  /\ \E amount \in Amounts : Move([a \in {"fund"} |-> amount * Msats])
  /\ UNCHANGED <<noFree, evicted, send, held, loose, excess, onFee, flags>>

FundDebit ==
  /\ Counted
  /\ \E amount \in Amounts :
       LET ch == [a \in {"fund"} |-> -amount * Msats]
       IN  Possible(ch) /\ Move(ch)
  /\ UNCHANGED <<created, noFree, evicted, send, held, loose, excess, onFee, flags>>

(* The monitor finds a pass-through account, or no longer. *)
Flag ==
  /\ flags < MaxFlags /\ flags' = flags + 1
  /\ noFree' = ~noFree
  /\ UNCHANGED <<tb, created, evicted, send, history, requests>>

(* evictAccount(): the uid and the name go on the blacklist debit() reads. *)
EvictUser ==
  /\ ~evicted /\ evicted' = TRUE
  /\ flags < MaxFlags /\ flags' = flags + 1
  /\ held' = tb["balance"] /\ loose' = (Debiting # {})
  /\ UNCHANGED <<tb, created, noFree, send, live, excess, onFee, requests>>

Payment(s) ==
  \/ DebitStart(s) \/ DebitCredit(s) \/ DebitCheck(s) \/ DebitMove(s)
  \/ Refund(s) \/ Reverse(s)

LedgerNext ==
  \/ \E s \in Sends : Payment(s)
  \/ \E target \in {"balance", "pending"} : Credit(target)
  \/ Confirm \/ FundCredit \/ FundDebit \/ Flag \/ EvictUser

-----------------------------------------------------------------------------
(* Properties *)

(* What an evicted user had stays where it is, deposits that come later or  *)
(* not, unless two debits overlap: each of them may count such a deposit.   *)
FrozenStays == evicted /\ ~loose => tb["balance"] >= held

(* A reversal at the rate of its debit returns the fee credit that was      *)
(* consumed and the fee on the fee, which reverse() computes from the total, *)
(* rounded up by less than a sat: nothing is lost to the roundings of        *)
(* tbDebit and reverse(), and no more is won.                                *)
ReversalMakesWhole == onFee * Msats <= excess /\ excess < (onFee + 1) * Msats
=============================================================================
