------------------------------ MODULE OnchainSend ------------------------------
(***************************************************************************)
(* Sending on-chain: a transaction is built over the wallet's coins, its   *)
(* coin is reserved in the node, the account is debited and the            *)
(* transaction broadcast; later its fee may be bumped, which replaces it,  *)
(* and the poll marks it confirmed.  An account is custodial (the node's   *)
(* wallet) or a vault, whose owner signs and whose coins nobody reserves.  *)
(*                                                                         *)
(* All the requests are one account's.  A transaction spends one coin, a   *)
(* send costs one unit and a bump one more.                                *)
(***************************************************************************)
EXTENDS Integers, FiniteSets

CONSTANTS
  Sends,        \* requests to /bitcoin/send
  Txs,          \* transactions that may come to be
  Coins,        \* coins of the wallet
  None,         \* nobody, nothing
  Opening,      \* the account's balance at first
  MaxMishaps,   \* bound: restarts of node and server, locks that outlive their time
  MaxBumps      \* bound: bumps

ASSUME OnchainSendAssumption ==
  /\ IsFiniteSet(Txs) /\ IsFiniteSet(Coins)
  /\ None \notin Sends \cup Txs \cup Coins \cup [hash : Txs, confirmed : BOOLEAN]
  /\ {Opening, MaxMishaps, MaxBumps} \subseteq Nat

VARIABLES
  vault,                        \* the account is a vault
  balance,                      \* ledger
  coinOf,                       \* the coin a transaction spends, None: not built
  receipts,                     \* redis build:<txid> of transactions the client has
  locked,                       \* node: coins of lockunspent
  mempool, mined,               \* node
  sendlock, record,             \* redis: sendlock:<type>:<txid>, payment:<txid>
  payment, outgoing,            \* redis: payment:<id>, outgoing:unconfirmed
  pc, tx, key, reserved,        \* locals of a send
  bump, look,                   \* locals of a bump and of the poll
  paysFor,                      \* history: the send a transaction pays for
  debited,                      \* history: the transaction a send was debited for
  sent, rebuilt,                \* history: sends broadcast, sends built anew
  stripped,                     \* history: transactions whose lock another one took away
  forgot,                       \* history: the node has forgotten its reservations
  mishaps, bumps

chain   == <<mempool, mined>>
redis   == <<payment, outgoing>>
locals  == <<pc, tx, key, reserved>>
others  == <<bump, look>>
history == <<paysFor, debited, sent, rebuilt, stripped, forgot>>
bounds  == <<mishaps, bumps>>
vars == <<vault, balance, coinOf, receipts, locked, chain, sendlock, record, redis, locals,
          others, history, bounds>>

Labels == {"start", "lock", "sendlock", "check", "debit", "record", "broadcast",
           "finish", "release", "done"}
Payment == [hash : Txs, confirmed : BOOLEAN]
Idle    == [at |-> "idle", send |-> None, old |-> None, new |-> None]

TypeOK ==
  /\ vault \in BOOLEAN /\ balance \in Nat
  /\ coinOf \in [Txs -> Coins \cup {None}] /\ receipts \subseteq Txs /\ locked \subseteq Coins
  /\ mempool \subseteq Txs /\ mined \subseteq Txs
  /\ sendlock \in [Txs -> Sends \cup {None}] /\ record \in [Txs -> Sends \cup {None}]
  /\ payment \in [Sends -> Payment \cup {None}] /\ outgoing \subseteq Sends
  /\ pc \in [Sends -> Labels] /\ tx \in [Sends -> Txs \cup {None}]
  /\ key \in [Sends -> Txs \cup {None}] /\ reserved \in [Sends -> BOOLEAN]
  /\ bump \in [at : {"idle", "read", "store", "charge"}, send : Sends \cup {None},
               old : Txs \cup {None}, new : Txs \cup {None}]
  /\ look \in [send : Sends \cup {None}, hash : Txs \cup {None}]
  /\ paysFor \in [Txs -> Sends \cup {None}] /\ debited \in [Sends -> Txs \cup {None}]
  /\ sent \subseteq Sends /\ rebuilt \subseteq Sends /\ stripped \subseteq Txs
  /\ forgot \in BOOLEAN /\ {mishaps, bumps} \subseteq Nat

Init ==
  /\ vault \in BOOLEAN /\ balance = Opening
  /\ coinOf = [t \in Txs |-> None] /\ receipts = {} /\ locked = {} /\ mempool = {} /\ mined = {}
  /\ sendlock = [t \in Txs |-> None] /\ record = [t \in Txs |-> None]
  /\ payment = [s \in Sends |-> None] /\ outgoing = {}
  /\ pc = [s \in Sends |-> "start"] /\ tx = [s \in Sends |-> None]
  /\ key = [s \in Sends |-> None] /\ reserved = [s \in Sends |-> FALSE]
  /\ bump = Idle /\ look = [send |-> None, hash |-> None]
  /\ paysFor = [t \in Txs |-> None] /\ debited = [s \in Sends |-> None]
  /\ sent = {} /\ rebuilt = {} /\ stripped = {}
  /\ forgot = FALSE /\ mishaps = 0 /\ bumps = 0

Leave(s) ==
  /\ pc' = [pc EXCEPT ![s] = "done"]
  /\ tx' = [tx EXCEPT ![s] = None] /\ key' = [key EXCEPT ![s] = None]
  /\ reserved' = [reserved EXCEPT ![s] = FALSE]

Goto(s, label) == pc' = [pc EXCEPT ![s] = label]
Coin(s)        == coinOf[tx[s]]
Spent          == {coinOf[t] : t \in mempool \cup mined}
Rivals(t)      == {u \in mempool : u # t /\ coinOf[u] = coinOf[t]}
MinedCoins     == {coinOf[t] : t \in mined}

(* testmempoolaccept, for the node's own wallet: what was broadcast before is there *)
(* or was replaced by one that pays more.                                           *)
Accepted(t)    == vault \/ (paysFor[t] = None /\ coinOf[t] \notin MinedCoins)

-----------------------------------------------------------------------------
(* Building *)

(* Coin selection passes over what is spent and, in the node, reserved. *)
Selects(t, c) ==
  /\ coinOf[t] = None /\ c \notin Spent /\ (vault \/ c \notin locked)
  /\ coinOf' = [coinOf EXCEPT ![t] = c]

(* POST /bitcoin/fee: the transaction goes to the client. *)
Fee ==
  /\ \E t \in Txs, c \in Coins : Selects(t, c) /\ receipts' = receipts \cup {t}
  /\ UNCHANGED <<vault, balance, locked, chain, sendlock, record, redis, locals,
                 others, history, bounds>>

(* POST /bitcoin/send with no transaction: it is built on the way. *)
Build(s) ==
  /\ pc[s] = "start"
  /\ \E t \in Txs, c \in Coins : Selects(t, c) /\ tx' = [tx EXCEPT ![s] = t]
  /\ Goto(s, IF vault THEN "sendlock" ELSE "lock")
  /\ UNCHANGED <<vault, balance, receipts, locked, chain, sendlock, record, redis, key,
                 reserved, others, history, bounds>>

(* POST /bitcoin/send with a transaction that was built for the account. *)
Submit(s) ==
  /\ pc[s] = "start"
  /\ \E t \in receipts : tx' = [tx EXCEPT ![s] = t]
  /\ Goto(s, IF vault THEN "sendlock" ELSE "lock")
  /\ UNCHANGED <<vault, balance, coinOf, receipts, locked, chain, sendlock, record, redis, key,
                 reserved, others, history, bounds>>

-----------------------------------------------------------------------------
(* POST /bitcoin/send *)

(* Mutant: a reservation that fails is only a warning. *)
LockWarns(s) ==
  /\ pc[s] = "lock" /\ Goto(s, "sendlock")
  /\ locked' = locked \cup {Coin(s)} /\ reserved' = [reserved EXCEPT ![s] = TRUE]
  /\ UNCHANGED <<vault, balance, coinOf, receipts, chain, sendlock, record, redis, tx, key,
                 others, history, bounds>>

(* lockunspent: refused for a coin that is reserved or spent. *)
Lock(s) ==
  /\ pc[s] = "lock"
  /\ IF Coin(s) \in locked \cup Spent
       THEN Leave(s) /\ UNCHANGED locked
       ELSE /\ locked' = locked \cup {Coin(s)}
            /\ reserved' = [reserved EXCEPT ![s] = TRUE] /\ Goto(s, "sendlock")
            /\ UNCHANGED <<tx, key>>
  /\ UNCHANGED <<vault, balance, coinOf, receipts, chain, sendlock, record, redis,
                 others, history, bounds>>

(* SET NX.  Who finds it taken fails, and on the way out deletes it. *)
SendLock(s) ==
  /\ pc[s] = "sendlock"
  /\ key' = [key EXCEPT ![s] = tx[s]]
  /\ IF sendlock[tx[s]] = None
       THEN sendlock' = [sendlock EXCEPT ![tx[s]] = s] /\ Goto(s, "check")
       ELSE Goto(s, "release") /\ UNCHANGED sendlock
  /\ UNCHANGED <<vault, balance, coinOf, receipts, locked, chain, record, redis, tx, reserved,
                 others, history, bounds>>

(* Mutant: the guard on the persistent record is left out. *)
CheckLockOnly(s) ==
  /\ pc[s] = "check" /\ Accepted(tx[s]) /\ Goto(s, "debit")
  /\ UNCHANGED <<vault, balance, coinOf, receipts, locked, chain, sendlock, record, redis, tx,
                 key, reserved, others, history, bounds>>

(* A payment with this txid, or a transaction the node would not take, ends it. *)
Check(s) ==
  /\ pc[s] = "check"
  /\ \/ record[tx[s]] = None /\ Accepted(tx[s]) /\ Goto(s, "debit")
     \/ Goto(s, "release")
  /\ UNCHANGED <<vault, balance, coinOf, receipts, locked, chain, sendlock, record, redis, tx,
                 key, reserved, others, history, bounds>>

(* A fee rate that has become too low: another transaction over other coins, *)
(* under the lock of the first and with no reservation.                      *)
Rebuild(s) ==
  /\ pc[s] = "check" /\ ~vault /\ record[tx[s]] = None /\ Accepted(tx[s])
  /\ \E t \in Txs, c \in Coins : Selects(t, c) /\ tx' = [tx EXCEPT ![s] = t]
  /\ rebuilt' = rebuilt \cup {s} /\ Goto(s, "debit")
  /\ UNCHANGED <<vault, balance, receipts, locked, chain, sendlock, record, redis, key, reserved,
                 others, paysFor, debited, sent, stripped, forgot, bounds>>

(* debit(): tbDebit ... *)
Debit(s) ==
  /\ pc[s] = "debit"
  /\ IF balance > 0
       THEN /\ balance' = balance - 1
            /\ debited' = [debited EXCEPT ![s] = tx[s]]
            /\ Goto(s, "record")
       ELSE Goto(s, "release") /\ UNCHANGED <<balance, debited>>
  /\ UNCHANGED <<vault, coinOf, receipts, locked, chain, sendlock, record, redis, tx, key,
                 reserved, others, paysFor, sent, rebuilt, stripped, forgot, bounds>>

(* ... and the records of the payment. *)
Record(s) ==
  /\ pc[s] = "record"
  /\ record'  = [record EXCEPT ![tx[s]] = s]
  /\ payment' = [payment EXCEPT ![s] = [hash |-> tx[s], confirmed |-> FALSE]]
  /\ Goto(s, "broadcast")
  /\ UNCHANGED <<vault, balance, coinOf, receipts, locked, chain, sendlock, outgoing, tx, key,
                 reserved, others, history, bounds>>

(* The node takes it, in place of one over the same coin that pays less. *)
Broadcast(s) ==
  /\ pc[s] = "broadcast" /\ Coin(s) \notin MinedCoins
  /\ paysFor[tx[s]] = None \/ tx[s] \in mempool
  /\ mempool' = (mempool \ Rivals(tx[s])) \cup {tx[s]}
  /\ paysFor' = [paysFor EXCEPT ![tx[s]] = s] /\ sent' = sent \cup {s}
  /\ Goto(s, "finish")
  /\ UNCHANGED <<vault, balance, coinOf, receipts, locked, mined, sendlock, record, redis, tx,
                 key, reserved, others, debited, rebuilt, stripped, forgot, bounds>>

(* Or refuses it: the debit stays. *)
BroadcastFails(s) ==
  /\ pc[s] = "broadcast" /\ Goto(s, "release")
  /\ UNCHANGED <<vault, balance, coinOf, receipts, locked, chain, sendlock, record, redis, tx,
                 key, reserved, others, history, bounds>>

(* outgoing:unconfirmed, of a vault inflight:<aid>; the lock is given back *)
(* and the client has the payment, its transaction with it.               *)
Finish(s) ==
  /\ pc[s] = "finish"
  /\ outgoing' = outgoing \cup {s}
  /\ sendlock' = [sendlock EXCEPT ![key[s]] = None]
  /\ stripped' = IF sendlock[key[s]] \in {s, None} THEN stripped
                 ELSE stripped \cup {key[s]}
  /\ receipts' = receipts \cup {tx[s]} /\ Leave(s)
  /\ UNCHANGED <<vault, balance, coinOf, locked, chain, record, payment, others, paysFor, debited, sent, rebuilt, forgot, bounds>>

(* The catch: the lock is deleted, whoever holds it, and the coin of the *)
(* transaction that came in is free again.                               *)
Release(s) ==
  /\ pc[s] = "release"
  /\ sendlock' = [sendlock EXCEPT ![key[s]] = None]
  /\ stripped' = IF sendlock[key[s]] \in {s, None} THEN stripped
                 ELSE stripped \cup {key[s]}
  /\ locked' = IF reserved[s] THEN locked \ {coinOf[key[s]]} ELSE locked
  /\ Leave(s)
  /\ UNCHANGED <<vault, balance, coinOf, receipts, chain, record, redis, others,
                 paysFor, debited, sent, rebuilt, forgot, bounds>>

(* The client tries again after a failure that cost nothing. *)
Retry(s) ==
  /\ pc[s] = "done" /\ debited[s] = None
  /\ Goto(s, "start")
  /\ UNCHANGED <<vault, balance, coinOf, receipts, locked, chain, sendlock, record, redis,
                 tx, key, reserved, others, history, bounds>>

-----------------------------------------------------------------------------
(* POST /payments/bump, one at a time *)

BumpRead ==
  /\ bump = Idle /\ ~vault /\ bumps < MaxBumps
  /\ \E s \in Sends :
       /\ payment[s] # None /\ ~payment[s].confirmed
       /\ bump' = [at |-> "read", send |-> s, old |-> payment[s].hash, new |-> None]
  /\ bumps' = bumps + 1
  /\ UNCHANGED <<vault, balance, coinOf, receipts, locked, chain, sendlock, record, redis, locals,
                 look, history, mishaps>>

(* bumpfee: a transaction over the same coin takes the place of one that waits. *)
BumpFee ==
  /\ bump.at = "read" /\ bump.old \in mempool
  /\ \E t \in Txs :
       /\ coinOf[t] = None
       /\ coinOf' = [coinOf EXCEPT ![t] = coinOf[bump.old]]
       /\ mempool' = (mempool \ {bump.old}) \cup {t}
       /\ paysFor' = [paysFor EXCEPT ![t] = bump.send]
       /\ bump' = [bump EXCEPT !.at = "store", !.new = t]
  /\ UNCHANGED <<vault, balance, receipts, locked, mined, sendlock, record, redis, locals, look,
                 debited, sent, rebuilt, stripped, forgot, bounds>>

BumpRefused ==
  /\ bump.at = "read" /\ bump' = Idle
  /\ UNCHANGED <<vault, balance, coinOf, receipts, locked, chain, sendlock, record, redis, locals,
                 look, history, bounds>>

(* The record as it was read is stored under the new txid. *)
BumpStore ==
  /\ bump.at = "store"
  /\ payment' = [payment EXCEPT ![bump.send] = [hash |-> bump.new, confirmed |-> FALSE]]
  /\ record'  = [record EXCEPT ![bump.new] = bump.send, ![bump.old] = None]
  /\ bump'    = [bump EXCEPT !.at = "charge"]
  /\ UNCHANGED <<vault, balance, coinOf, receipts, locked, chain, sendlock, outgoing, locals,
                 look, history, bounds>>

(* What tbDebit answers is not looked at: who cannot pay the fee does not. *)
BumpCharge ==
  /\ bump.at = "charge"
  /\ balance' = IF balance > 0 THEN balance - 1 ELSE balance
  /\ bump' = Idle
  /\ UNCHANGED <<vault, coinOf, receipts, locked, chain, sendlock, record, redis, locals, look,
                 history, bounds>>

-----------------------------------------------------------------------------
(* checkOutgoingConfirmations, and the part of catchUp that is its twin *)

LookRead ==
  /\ look.send = None
  /\ \E s \in outgoing :
       IF payment[s].confirmed
         THEN outgoing' = outgoing \ {s} /\ UNCHANGED look
         ELSE look' = [send |-> s, hash |-> payment[s].hash] /\ UNCHANGED outgoing
  /\ UNCHANGED <<vault, balance, coinOf, receipts, locked, chain, sendlock, record, payment,
                 locals, bump, history, bounds>>

(* Mutant: the record is read again before it is written. *)
LookWriteFresh ==
  /\ look.send # None
  /\ IF look.hash \in mined
       THEN /\ payment' = [payment EXCEPT ![look.send].confirmed = TRUE]
            /\ outgoing' = outgoing \ {look.send}
       ELSE UNCHANGED <<payment, outgoing>>
  /\ look' = [send |-> None, hash |-> None]
  /\ UNCHANGED <<vault, balance, coinOf, receipts, locked, chain, sendlock, record, locals, bump,
                 history, bounds>>

(* The node knows a confirmation: the record is written as it was read. *)
LookWrite ==
  /\ look.send # None
  /\ IF look.hash \in mined
       THEN /\ payment' = [payment EXCEPT ![look.send] =
                             [hash |-> look.hash, confirmed |-> TRUE]]
            /\ outgoing' = outgoing \ {look.send}
       ELSE UNCHANGED <<payment, outgoing>>
  /\ look' = [send |-> None, hash |-> None]
  /\ UNCHANGED <<vault, balance, coinOf, receipts, locked, chain, sendlock, record, locals, bump,
                 history, bounds>>

-----------------------------------------------------------------------------
(* The node, the clock and the process *)

(* Any transaction that was broadcast may be mined, a replaced one too. *)
Mine(t) ==
  /\ paysFor[t] # None /\ coinOf[t] \notin MinedCoins
  /\ mined' = mined \cup {t} /\ mempool' = mempool \ (Rivals(t) \cup {t})
  /\ UNCHANGED <<vault, balance, coinOf, receipts, locked, sendlock, record, redis, locals,
                 others, history, bounds>>

NodeRestarts ==
  /\ mishaps < MaxMishaps /\ locked # {}
  /\ mishaps' = mishaps + 1 /\ forgot' = TRUE /\ locked' = {}
  /\ UNCHANGED <<vault, balance, coinOf, receipts, chain, sendlock, record, redis, locals,
                 others, paysFor, debited, sent, rebuilt, stripped, bumps>>

(* EX 60 *)
Expire(t) ==
  /\ mishaps < MaxMishaps /\ sendlock[t] # None
  /\ mishaps' = mishaps + 1
  /\ sendlock' = [sendlock EXCEPT ![t] = None] /\ stripped' = stripped \cup {t}
  /\ UNCHANGED <<vault, balance, coinOf, receipts, locked, chain, record, redis, locals, others,
                 paysFor, debited, sent, rebuilt, forgot, bumps>>

(* The requests and the poll are gone; redis and the node remember. *)
Crash ==
  /\ mishaps < MaxMishaps /\ mishaps' = mishaps + 1
  /\ pc' = [s \in Sends |-> IF pc[s] = "start" THEN "start" ELSE "done"]
  /\ tx' = [s \in Sends |-> None] /\ key' = [s \in Sends |-> None]
  /\ reserved' = [s \in Sends |-> FALSE]
  /\ bump' = Idle /\ look' = [send |-> None, hash |-> None]
  /\ UNCHANGED <<vault, balance, coinOf, receipts, locked, chain, sendlock, record, redis,
                 history, bumps>>

Send(s) == \/ Build(s) \/ Submit(s) \/ Lock(s) \/ SendLock(s) \/ Check(s) \/ Rebuild(s)
           \/ Debit(s) \/ Record(s) \/ Broadcast(s) \/ BroadcastFails(s) \/ Finish(s)
           \/ Release(s) \/ Retry(s)

Next ==
  \/ Fee
  \/ \E s \in Sends : Send(s)
  \/ BumpRead \/ BumpFee \/ BumpRefused \/ BumpStore \/ BumpCharge
  \/ LookRead \/ LookWrite
  \/ \E t \in Txs : Mine(t) \/ Expire(t)
  \/ NodeRestarts \/ Crash

Spec == Init /\ [][Next]_vars

-----------------------------------------------------------------------------
(* Properties *)

(* A send that was broadcast is in the mempool or mined, itself or bumped:  *)
(* no other send takes its coin (the replaced-transaction incident), unless *)
(* the node forgot its reservations or a send was built anew without one.   *)
NotReplaced ==
  ~vault /\ ~forgot /\ rebuilt = {} =>
    \A s \in sent : \E t \in mempool \cup mined : paysFor[t] = s

(* Two debits for one transaction need its send lock to have been taken     *)
(* away, by a loser's catch or by time; and where coins are reserved the    *)
(* node must also have forgotten the reservation.                           *)
DebitedOnce ==
  \A s, r \in Sends :
    s # r /\ debited[s] # None /\ debited[s] = debited[r] =>
      debited[s] \in stripped /\ (vault \/ forgot)

(* A payment that is shown as confirmed names a transaction that is mined,  *)
(* however bumps and the poll overwrite each other's copies.                *)
ConfirmedIsMined ==
  \A s \in Sends : payment[s] # None /\ payment[s].confirmed => payment[s].hash \in mined

=============================================================================
