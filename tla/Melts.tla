---------------------------------- MODULE Melts ----------------------------------
(***************************************************************************)
(* Melting ecash at the front of the two mints (mintdemux.ts) and through  *)
(* the limiter (meltguard.ts) that the retired mint pays by.  The front    *)
(* sends a melt to the mint whose keysets its inputs have, quotes it anew  *)
(* at the retired one, and remembers under which quote; wallets poll the   *)
(* quote they know.  A proof is worth one.                                 *)
(***************************************************************************)
EXTENDS Ecash

CONSTANTS
  Requests,     \* POST /v1/melt/bolt11
  Quotes,       \* melt quotes of the current mint, one invoice each
  OldProofs,    \* proofs of the retired mint
  Cap,          \* MELT_CUM_MAX_SAT
  MaxReboots    \* bound: restarts of the front and of the limiter, and failed writes

ASSUME MeltsAssumption ==
  /\ IsFiniteSet(NewProofs) /\ IsFiniteSet(OldProofs)
  /\ NewProofs \cap OldProofs = {} /\ None \notin Quotes
  /\ {Cap, MaxReboots} \subseteq Nat

VARIABLES
  paidNew,     \* current mint: quotes that are paid
  oldQuote,    \* retired mint: its quotes, each with the invoice and its state
  held,        \* retired mint: proofs that are pending or spent
  known,       \* front: the mints whose keysets it knows
  asked,       \* current mint: quotes it has issued, through the front
  quoteMem,    \* front: quotes it remembers the invoice of
  oldMelts,    \* front: the retired mint's quote for one of the current mint
  aged,        \* quotes whose entry in oldMelts is, or was, older than 7 days
  dropped,     \* front: old proofs on record that it has left out
  unwritten,   \* history: those whose line was not written
  cum, frozen, \* limiter: its two files
  melt,        \* locals of the requests
  given,       \* wallets: proofs they take for spent
  paid,        \* history: what the limiter let through since the last review
  apart,       \* history: proofs of payments that overlapped another one in the
               \* limiter, were paid after an error, or cut off by its restart
  reboots

memory  == <<asked, quoteMem, oldMelts, aged>>
record  == <<dropped, unwritten>>
limiter == <<cum, frozen, paid, apart>>
melts   == <<paidNew, oldQuote, held, known, memory, record, limiter, melt, given, reboots>>

Mints  == {"new", "old"}
Blank  == [pc |-> "start", quote |-> None, inputs |-> {}, left |-> {}, old |-> 0, cum |-> 0]
States == {"unpaid", "pending", "paid"}
Labels == {"start", "new", "requote", "old", "guard", "decode", "pay", "count", "unsure",
           "done"}

MeltsTypeOK ==
  /\ paidNew \subseteq Quotes
  /\ \A n \in DOMAIN oldQuote : oldQuote[n] \in [quote : Quotes, state : States]
  /\ known \subseteq Mints /\ {asked, quoteMem, aged} \subseteq SUBSET Quotes
  /\ {held, dropped, unwritten, paid, apart} \subseteq SUBSET OldProofs
  /\ oldMelts \in [Quotes -> {0} \cup DOMAIN oldQuote]
  /\ {cum, reboots} \subseteq Nat /\ frozen \in BOOLEAN
  /\ given \subseteq NewProofs \cup OldProofs
  /\ melt \in [Requests -> [pc : Labels, quote : Quotes \cup {None}, old : {0} \cup DOMAIN oldQuote,
                            inputs : SUBSET (NewProofs \cup OldProofs),
                            left : SUBSET (NewProofs \cup OldProofs), cum : Nat]]

MeltsInit ==
  /\ paidNew = {} /\ oldQuote = <<>> /\ held = {} /\ known \in SUBSET Mints
  /\ asked = {} /\ quoteMem = {} /\ oldMelts = [q \in Quotes |-> 0] /\ aged = {}
  /\ dropped = {} /\ unwritten = {} /\ cum = 0 /\ frozen = FALSE /\ paid = {} /\ apart = {}
  /\ melt = [r \in Requests |-> Blank] /\ given = {} /\ reboots = 0

Quote(r)  == melt[r].quote
Inputs(r) == melt[r].inputs
To(r, label) == melt' = [melt EXCEPT ![r].pc = label]

-----------------------------------------------------------------------------
(* mintdemux *)

(* The keysets are fetched at the start, every 15 s until both are known. *)
RefreshKeysets ==
  /\ \E m \in Mints \ known : known' = known \cup {m}
  /\ UNCHANGED <<spent, paidNew, oldQuote, held, memory, record, limiter, melt, given, reboots>>

(* POST /v1/melt/quote/bolt11: the front remembers the quote, and forgets *)
(* those that are older than two hours.                                   *)
RememberQuote(q) ==
  /\ q \notin asked /\ asked' = asked \cup {q}
  /\ \E stale \in SUBSET quoteMem : quoteMem' = (quoteMem \ stale) \cup {q}
  /\ UNCHANGED <<spent, paidNew, oldQuote, held, known, oldMelts, aged, record, limiter, melt,
                 given, reboots>>

(* Mutant: what was left out is not put on record. *)
RecordNothing(left, mixed) == UNCHANGED <<record, reboots>>

(* A line for each proof; an error of the write is swallowed. *)
RecordDropped(left, mixed) ==
  \/ /\ dropped' = IF mixed THEN dropped \cup (left \cap OldProofs) ELSE dropped
     /\ UNCHANGED <<unwritten, reboots>>
  \/ /\ mixed /\ reboots < MaxReboots /\ reboots' = reboots + 1
     /\ \E lost \in SUBSET (left \cap OldProofs) :
          /\ dropped' = dropped \cup ((left \cap OldProofs) \ lost)
          /\ unwritten' = unwritten \cup lost

(* A melt of new proofs, of old ones, or of both: these are melted without   *)
(* the old ones, which go on record.  An old melt needs its invoice.         *)
Melt(r) ==
  /\ melt[r].pc = "start"
  /\ \E q \in Quotes, left \in SUBSET (NewProofs \cup OldProofs) \ {{}} :
       LET old == left \cap OldProofs # {} /\ "old" \in known
           new == left \cap NewProofs # {} /\ "new" \in known
       IN  /\ left \cap given = {}
           /\ RecordDropped(left, old /\ new)
           /\ melt' = [melt EXCEPT ![r] =
                [Blank EXCEPT !.quote = q, !.left = left,
                   !.inputs = IF old /\ new THEN left \ OldProofs ELSE left,
                   !.pc = IF ~old \/ new THEN "new"
                          ELSE IF q \in quoteMem THEN "requote" ELSE "done"]]
  /\ UNCHANGED <<spent, paidNew, oldQuote, held, known, memory, limiter, given>>

(* The current mint pays, or refuses what it does not know or has seen. *)
MeltNew(r) ==
  /\ melt[r].pc = "new"
  /\ IF Inputs(r) \subseteq NewProofs \ spent /\ Quote(r) \in asked \ paidNew
       THEN /\ spent' = spent \cup Inputs(r) /\ paidNew' = paidNew \cup {Quote(r)}
            /\ given' = given \cup melt[r].left
       ELSE UNCHANGED <<spent, paidNew, given>>
  /\ To(r, "done")
  /\ UNCHANGED <<oldQuote, held, known, memory, record, limiter, reboots>>

(* A new quote of the retired mint for the invoice of the request. *)
Quoted(r, n) ==
  /\ melt[r].pc = "requote"
  /\ oldQuote' = [i \in DOMAIN oldQuote \cup {n} |->
                    IF i = n THEN [quote |-> Quote(r), state |-> "unpaid"] ELSE oldQuote[i]]
  /\ melt' = [melt EXCEPT ![r].pc = "old", ![r].old = n]
  /\ aged' = aged \ {Quote(r)}
  /\ UNCHANGED <<spent, paidNew, held, known, asked, quoteMem, record, limiter, given, reboots>>

(* Mutant: the first quote of the retired mint stays in the map. *)
RequoteOnce(r) ==
  LET n == Cardinality(DOMAIN oldQuote) + 1
  IN  /\ Quoted(r, n)
      /\ oldMelts' = [q \in Quotes |-> IF q = Quote(r) /\ oldMelts[q] = 0 THEN n
                                       ELSE IF q \in aged THEN 0 ELSE oldMelts[q]]

(* It takes the place of an earlier one in the map, and what is older there *)
(* than 7 days goes.                                                        *)
Requote(r) ==
  LET n == Cardinality(DOMAIN oldQuote) + 1
  IN  /\ Quoted(r, n)
      /\ oldMelts' = [q \in Quotes |-> IF q = Quote(r) THEN n
                                       ELSE IF q \in aged THEN 0 ELSE oldMelts[q]]

(* An entry gets older than 7 days: those that were stored before it are. *)
EntryAges(q) ==
  /\ oldMelts[q] # 0 /\ q \notin aged
  /\ \A p \in Quotes : oldMelts[p] \in 1 .. oldMelts[q] - 1 => p \in aged
  /\ aged' = aged \cup {q}
  /\ UNCHANGED <<spent, paidNew, oldQuote, held, known, asked, quoteMem, oldMelts, record,
                 limiter, melt, given, reboots>>

(* The retired mint refuses what it does not know or holds, and an invoice *)
(* that it pays or has paid.                                               *)
MeltOld(r) ==
  /\ melt[r].pc = "old"
  /\ IF /\ Inputs(r) \subseteq OldProofs \ held
        /\ \A n \in DOMAIN oldQuote : oldQuote[n].quote = Quote(r) => oldQuote[n].state = "unpaid"
       THEN /\ held' = held \cup Inputs(r) /\ To(r, "guard")
            /\ oldQuote' = [oldQuote EXCEPT ![melt[r].old].state = "pending"]
       ELSE To(r, "done") /\ UNCHANGED <<held, oldQuote>>
  /\ UNCHANGED <<spent, paidNew, known, memory, record, limiter, given, reboots>>

-----------------------------------------------------------------------------
(* meltguard *)

(* Refused: the mint takes the proofs and the quote back. *)
Refuse(r) ==
  /\ To(r, "done") /\ held' = held \ Inputs(r)
  /\ oldQuote' = [oldQuote EXCEPT ![melt[r].old].state = "unpaid"]

GuardFrozen(r) ==
  /\ melt[r].pc = "guard"
  /\ IF frozen THEN Refuse(r) ELSE To(r, "decode") /\ UNCHANGED <<held, oldQuote>>
  /\ UNCHANGED <<spent, paidNew, known, memory, record, limiter, given, reboots>>

Amount(r) == Cardinality(Inputs(r))

(* The node cannot tell the amount, or it is above the cap of one melt. *)
GuardRejects(r) ==
  /\ melt[r].pc = "decode" /\ Refuse(r)
  /\ UNCHANGED <<spent, paidNew, known, memory, record, limiter, given, reboots>>

(* The payment goes out, with the sum as it is now in hand; with those that *)
(* are out already it overlaps.                                             *)
Admit(r) ==
  LET out == {s \in Requests : melt[s].pc \in {"pay", "count"}}
  IN  /\ melt' = [melt EXCEPT ![r].pc = "pay", ![r].cum = cum]
      /\ apart' = IF out = {} THEN apart ELSE apart \cup Inputs(r) \cup UNION {Inputs(s) : s \in out}
      /\ UNCHANGED <<frozen, held, oldQuote>>

(* Mutant: the sum may pass the cap before it freezes. *)
GuardCapLate(r) ==
  /\ melt[r].pc = "decode"
  /\ IF cum >= Cap THEN frozen' = TRUE /\ Refuse(r) /\ UNCHANGED apart ELSE Admit(r)
  /\ UNCHANGED <<spent, paidNew, known, memory, record, cum, paid, given, reboots>>

(* The amount is decoded: the sum as it is read now decides. *)
GuardCap(r) ==
  /\ melt[r].pc = "decode"
  /\ IF cum + Amount(r) > Cap
       THEN frozen' = TRUE /\ Refuse(r) /\ UNCHANGED apart
       ELSE Admit(r)
  /\ UNCHANGED <<spent, paidNew, known, memory, record, cum, paid, given, reboots>>

(* The node pays. *)
GuardPays(r) ==
  /\ melt[r].pc = "pay"
  /\ paid' = paid \cup Inputs(r) /\ To(r, "count")
  /\ UNCHANGED <<spent, paidNew, oldQuote, held, known, memory, record, cum, frozen, apart,
                 given, reboots>>

(* The forwarded call throws or answers with an error, and nothing is       *)
(* counted: the payment has failed, or it is still under way, and the mint, *)
(* which looks it up, keeps the proofs pending.                             *)
GuardPayFails(r) ==
  /\ melt[r].pc = "pay"
  /\ \/ Refuse(r)
     \/ To(r, "unsure") /\ UNCHANGED <<held, oldQuote>>
  /\ UNCHANGED <<spent, paidNew, known, memory, record, limiter, given, reboots>>

(* The sum that was read before is written with the amount. *)
GuardCounts(r) ==
  /\ melt[r].pc = "count" /\ To(r, "done")
  /\ cum' = melt[r].cum + Amount(r)
  /\ oldQuote' = [oldQuote EXCEPT ![melt[r].old].state = "paid"]
  /\ given' = given \cup melt[r].left
  /\ UNCHANGED <<spent, paidNew, held, known, memory, record, frozen, paid, apart, reboots>>

-----------------------------------------------------------------------------
(* What was under way after an error is paid after all, past the limiter's *)
(* sum, or has failed.                                                     *)
PaidAfterError(r) ==
  /\ melt[r].pc = "unsure" /\ To(r, "done")
  /\ paid' = paid \cup Inputs(r) /\ apart' = apart \cup Inputs(r)
  /\ oldQuote' = [oldQuote EXCEPT ![melt[r].old].state = "paid"]
  /\ given' = given \cup melt[r].left
  /\ UNCHANGED <<spent, paidNew, held, known, memory, record, cum, frozen, reboots>>

FailedAfterError(r) ==
  /\ melt[r].pc = "unsure" /\ Refuse(r)
  /\ UNCHANGED <<spent, paidNew, known, memory, record, limiter, given, reboots>>

(* The operator clears the freeze and the sum, after a review. *)
Clear ==
  /\ frozen /\ \A r \in Requests : melt[r].pc \in {"start", "unsure", "done"}
  /\ frozen' = FALSE /\ cum' = 0 /\ paid' = {} /\ apart' = {}
  /\ UNCHANGED <<spent, paidNew, oldQuote, held, known, memory, record, melt, given, reboots>>

(* The front forgets the keysets; its files and the mints' payments go on. *)
FrontRestarts ==
  /\ reboots < MaxReboots /\ reboots' = reboots + 1
  /\ known' \in SUBSET Mints
  /\ melt' = [r \in Requests |-> IF melt[r].pc \in {"new", "requote"}
                                 THEN [melt[r] EXCEPT !.pc = "done"] ELSE melt[r]]
  /\ UNCHANGED <<spent, paidNew, oldQuote, held, memory, record, limiter, given>>

(* What has not gone out yet is refused; a payment that the limiter waits  *)
(* for goes on at the node, and one that was made is not counted.          *)
GuardRestarts ==
  LET stopped == {r \in Requests : melt[r].pc \in {"guard", "decode"}}
      made    == {r \in Requests : melt[r].pc = "count"}
  IN  /\ reboots < MaxReboots /\ reboots' = reboots + 1
      /\ melt' = [r \in Requests |->
                    IF r \in stopped \cup made THEN [melt[r] EXCEPT !.pc = "done"]
                    ELSE IF melt[r].pc = "pay" THEN [melt[r] EXCEPT !.pc = "unsure"] ELSE melt[r]]
      /\ oldQuote' = [n \in DOMAIN oldQuote |->
           CASE \E r \in made : melt[r].old = n -> [oldQuote[n] EXCEPT !.state = "paid"]
             [] \E r \in stopped : melt[r].old = n -> [oldQuote[n] EXCEPT !.state = "unpaid"]
             [] OTHER -> oldQuote[n]]
      /\ held' = held \ UNION {Inputs(r) : r \in stopped}
      /\ apart' = apart \cup UNION {Inputs(r) : r \in made}
      /\ given' = given \cup UNION {melt[r].left : r \in made}
      /\ UNCHANGED <<spent, paidNew, known, memory, record, cum, frozen, paid>>

MeltsNext ==
  \/ RefreshKeysets \/ \E q \in Quotes : RememberQuote(q) \/ EntryAges(q)
  \/ \E r \in Requests :
       \/ Melt(r) \/ MeltNew(r) \/ Requote(r) \/ MeltOld(r)
       \/ GuardFrozen(r) \/ GuardRejects(r) \/ GuardCap(r) \/ GuardPays(r) \/ GuardPayFails(r)
       \/ GuardCounts(r) \/ PaidAfterError(r) \/ FailedAfterError(r)
  \/ Clear \/ FrontRestarts \/ GuardRestarts

-----------------------------------------------------------------------------
(* Properties *)

(* What the limiter lets through stays within the cap until an operator has *)
(* looked at it.  It passes the cap by no more than what was paid in        *)
(* payments that overlapped, each of which adds to the sum as it was, after *)
(* an error, and in its own restart.                                        *)
CapHolds == Cardinality(paid \ apart) <= Cap

(* GET /v1/melt/quote/bolt11/<id> *)
Polled(q) ==
  IF oldMelts[q] # 0 THEN oldQuote[oldMelts[q]].state
  ELSE IF q \in paidNew THEN "paid" ELSE "unpaid"

(* A wallet that polls a quote which was paid is told so: by the retired mint *)
(* until it is asked for another quote of the invoice, which then answers for *)
(* this one, or until the entry is 7 days old; by the current mint unless the *)
(* retired one was asked, too.                                                *)
PollTells ==
  \A q \in Quotes :
    /\ \A n \in DOMAIN oldQuote : oldQuote[n] = [quote |-> q, state |-> "paid"] =>
         \/ Polled(q) = "paid" \/ q \in aged
         \/ \E m \in DOMAIN oldQuote : m > n /\ oldQuote[m].quote = q
    /\ q \in paidNew =>
         Polled(q) = "paid" \/ \E n \in DOMAIN oldQuote : oldQuote[n].quote = q

(* A proof that a wallet takes for spent is spent at its mint, or on record  *)
(* as left out of a melt of both, but for a line that could not be written.  *)
NoSilentLoss ==
  \A p \in given : p \in spent \/ p \in dropped \cup unwritten \/
    \E r \in Requests : p \in Inputs(r) /\ p \in held
=============================================================================
