# TLA+ models of the coinos-server payment core

coinos-server is a custodial wallet: a TypeScript process (bun) that keeps
balances in a TigerBeetle ledger and everything else in redis, and moves money
through Core Lightning (CLN), LND, bitcoind, elementsd and a Cashu mint. The
process is single-threaded, but every `await` lets other requests, timers and
node callbacks run, nothing spans redis, the ledger and a node atomically, and
a restart can come between any two awaits. This directory models what can go
wrong there: TLA+ modules, TLC configurations, and theorems checked by TLAPS.

## 1. The system

| Part | Source | State it keeps | What it does | What makes it correct |
|---|---|---|---|---|
| Lightning send | `lib/payments.ts` `sendLightning`, `completeLightningInBackground`, `finalize`, `reverse`, `check`, `outLn` | redis `pending`, `payment:<id>`, `payment:<bolt11>`, `reversing:`, `refunded:`; memory `inFlight` | claim the invoice, debit, drive xpay with a fallback to LND, settle or reverse; a sweep resolves what no driver did | never both the delivery and the money back; one delivery per invoice; one refund; nothing stays open for ever |
| Lightning receive | `lib/lightning.ts`, `credit()` | redis `pay_index`, `lock:credit:`, `credited:`; memory `listenerActive`, `listenerPhase`, `listenerEpoch`, a timer | wait for settlements in order, credit each, move the cursor | each settlement credited once, none skipped, the cursor always gets on |
| On-chain deposits | `routes/payments.ts` `confirm`, `txWebhook`; `lib/payments.ts` `processWatchedTx`, `confirmWatchedIncoming`, `catchUp`, `credit()`; `lib/zmq.ts` | redis `payment:<txid>:<vout>`, `watching`, `lock:`, `confirmlock:`; ledger pending account | credit an output as pending when first seen, move it to the balance when mined | one credit per output, none spendable before it is mined, none pending for ever |
| Ledger | `lib/tb.ts` | TigerBeetle accounts: balance, pending, house, fee credits | `tbDebit`, `tbCredit`, `tbConfirm`, `tbReverse`, `tbRefund`, fund transfers | nothing is created or lost; no account is overdrawn |
| Debit and limits | `lib/payments.ts` `debit`, `freezeCheck`; `lib/withdraw-breaker.ts`, `lib/spend-budget.ts` | redis `lightning:limit`, allowances, blacklist; a file with the window of withdrawals | refuse what exceeds a limit, what is frozen, what has no allowance | concurrent sends stay within the limit; the cap is passed by overlap only |
| Internal transfers | `lib/payments.ts` `sendInternal`, `credit` | redis `lock:credit:`, `invoice.received`, `invoice.tip` | debit the payer, credit the owner of the invoice | nothing is minted; money is lost to another payer only |
| Funds | `routes/payments.ts` `take`, `authorize`; `routes/lnurl.ts`; `lib/auth.ts` | redis `fund:`, `authorization:`, `withdraw:`; ledger fund accounts | shared pots redeemed by links and LNURL-withdraw | an authorization is redeemed once, the fund is covered, an eviction closes it |
| On-chain sends, fee bumping | `lib/payments.ts` `build`, `sendOnchain`, `checkOutgoingConfirmations`; `routes/payments.ts` bump; `lib/cpfp.ts`, `lib/p2a.ts` | redis `sendlock:`, `payment:<txid>`, `outgoing:unconfirmed`; coins reserved in the node | build, reserve, debit, broadcast, bump, confirm | no send replaces another; one debit per transaction |
| Nostr Wallet Connect | `lib/nwc.ts` | redis budgets, payment lists, quarantine; memory: a lock per app | pay on behalf of an app within a budget | the budget holds under concurrency and restarts; apps get answers |
| Ecash | `lib/ecash.ts`, `routes/ecash.ts` | redis `cash` (the pool), a lock; memory: keysets | swap tokens at the mint into the pool and credit them | the pool covers what was credited |
| Melt guard, mint front | `meltguard.ts`, `mintdemux.ts` | two files of totals and the freeze; maps of quotes; a log of dropped inputs | cap what the retired mint pays; send each melt to the mint of its inputs | the cap holds; wallets are told what was paid; what is left out is on record |
| Accounts and authentication | `routes/users.ts`, `lib/register.ts`, `lib/auth.ts`, `lib/changeid.ts` | redis `user:<id>`, pointers from names, keys and addresses, eviction lists, counters of failures | register, rename, re-key, log in, lock out, evict, verify, delete | names lead to their accounts; who is shut out stays out |
| Invoices, vaults, preimages | `lib/invoices.ts`, `routes/invoices.ts`, `routes/preimages.ts`, `routes/users.ts`, `lib/esplora.ts` | redis `invoice:<id>` and `invoice:<code>`, `account:<id>` with `nextIndex`, queues of preimages | give each invoice a code that a payer can pay to | what a payer is handed leads to the invoice it was made for; no preimage is lost |
| Migrations | `lib/migrate.ts` | redis flags; the ledger | convert older data at the start, while requests run | each amount is converted once |
| RPC clients | `lib/ln.ts`, `lib/lnd.ts` | memory: clients, queues, drop callbacks | queue calls on one socket, drop and reconnect it | a caller always learns what happened |
| Notifications, rates, nostr, health, scripts | `lib/*`, `routes/*`, `scripts/` | single redis keys | formatting, output, reference data | no behaviour that a model would add to |

How they meet: a request calls `sendPayment` → `debit` (limits, breaker, ledger)
→ `sendLightning` or `sendOnchain` or `sendInternal` (→ `credit`). CLN's
settlements reach `credit` through the listener, bitcoind's transactions reach
it through walletnotify (`/confirm`), two ZMQ feeds, a webhook and `catchUp` at
boot. `check` runs for ever, every few seconds. All of them share redis and the
ledger; `inFlight`, the listener's flags and the RPC clients are in memory, and
each boot starts `check`, the listener, ZMQ and `catchUp` again (`index.ts`
40-50).

What is hard: two requests for one invoice; a driver and the sweep at one
payment; two invocations of the listener; five feeds for one transaction; locks
that expire under a slow holder or were left without an expiry; a redis write
that fails after the ledger has moved; an RPC promise that never settles; a
restart in any of these places. `PROJECT.json` lists these hazards line by line,
with the property that covers each, or why none does yet.

## 2. Modules

| Module | Models | Extends, refines | Proofs |
|---|---|---|---|
| `Escrow` | what a payment promises, without any mechanism | | |
| `LightningSend` | sending, with CLN, LND, redis, the ledger, crashes | refines `Escrow` | `LightningSendProofs` |
| `LightningReceive` | the listener, its watchdog, `credit()` for a settlement | | `IncomingProofs` |
| `OnchainDeposit` | `confirm`, `processWatchedTx`, `credit()` for a deposit, `catchUp` | | `OnchainDepositProofs` |
| `Spending` | `debit()`, internal transfers, keysends, the budgets of apps, `freezeCheck` | | `SpendingProofs` |
| `Funds` | taking from, paying into and withdrawing from a fund; eviction | | `LedgerProofs` |
| `OnchainSend` | building, sending, bumping and confirming on-chain transactions | | `OnchainSendProofs` |
| `Ledger`, `Migrations` | `lib/tb.ts` in microsats; the conversions at the start | `Migrations` extends `Ledger` | `LedgerProofs` |
| `Ecash`, `Melts`, `Mint` | the pool of proofs; the front of two mints and the limiter; both on one mint | `Mint` extends `Melts` extends `Ecash` | `MintProofs` |
| `Accounts`, `Logins`, `Emails`, `UserAccounts` | records, names and keys; logins and sessions; verification; all together | `UserAccounts` extends the three | `UserAccountsProofs` |
| `Vaults`, `Invoices`, `Preimages` | non-custodial accounts; `generate()` and `update()`; a merchant's queue | `Preimages` extends `Invoices` extends `Vaults` | `IncomingProofs` |
| `MC_*` | instances of the above for TLC | | |

Common conventions. A step is the code from one `await` to the next; a run of
awaits that only read, and whose results nothing depends on in between, is one
step. A redis command and a `multi()` are atomic, a ledger call is atomic.
Redis, the ledger, the nodes, files and the chain survive a crash; drivers,
handlers, timers, locks and caches in memory do not. A key with an `EX` or
`expire` has an expiry, one that the process did not live to give one has none.
Counters of faults are bounded by constants, and the theorems hold for every
value of the bounds. Each constant that starts with `Max` is such a bound.
History variables (marked so where they are declared) are read by properties
only. An operator whose comment begins with "Mutant" is no part of `Next`: it is
a plausible wrong version of the definition after it, with which the property it
is aimed at fails.

### LightningSend

A driver's `pc` goes through `sendLightning` (`Precheck` 1496-1570, `Claim`
1590, `Debit`, `Record`, `CallXpay`), then `completeLightningInBackground`
(`Paid`, `Verify`, `Unclaim`) with the proxy `outLn` in between (`XpayPays`,
`XpayThrows`, `CallLnd`, `DeclineLnd`, `LndReturns`). The process `Sweep` is `check()`:
`SweepStart` takes a snapshot of `pending`, `SweepNext` an entry, `SweepLoad`
reads its record and age, `SweepDrop` removes a stray one, `SweepQuery` asks
`listpays` and goes to `finalize` or `reverse`. `Finalize*` and `Reverse*` are
shared by the driver and the sweep, as the functions are. The network launches
parts while `retry_for` allows (`LaunchPart`), resolves them (`ClnPart`,
`LndPart`), and `delivered` counts what reached the payee. Time is `age`, in
ticks of a minute: `RetryFor` is xpay's `retry_for`, `CheckAge` the 120 s that
`check()` waits (2443).

Abstractions: an amount is one unit with one fee reserve; one part per payment
and node; what redis does between the ledger call and xpay takes less than a
tick; `RetryFor` is any number, also above `CheckAge` (`hasty` notes the attempts that
`check()` gives up while CLN is still to retry them); `refunded:` (a day) does not expire while the payment is under way; a
promise of a dropped socket never settles (`hung`, as `dropClient` leaves it).

### LightningReceive

Slots are invocations of `listenForLightning`. `ReadCursor`, `Resolve`,
`Lookup`, `Load` ... `Unlock`, `CheckPersisted`, `Advance` follow it and
`credit()`; `Fail` is its catch, with the timer that calls it again;
`WatchForcesRestart`, `WatchRestarts`, `WatchRecycles` are `ensureListenerAlive`,
whose reads and decision are two steps; `SocketDrops` and `RecycleFires` are
`lnListen.onDrop` and its timer. A settlement is its `pay_index`; `Deposits` are
those of users that exist. The exit after ten retries is a `Crash`.

### OnchainDeposit

A handler's job is one call of `confirm` (kind `confirm`), of `processWatchedTx`
from a feed that knows the confirmations (`watch`), or from the ZMQ feeds
(`zmq`; rawtx hands over everything as unconfirmed). A job takes the outputs of
its transaction in turn (`First`, `After`). The output has two references,
`WalletRef` and `ZmqRef`, since `decodeTx` does not count outputs without an
address. `Lock` and `Expire` are two commands, so are `TakeCreditLock` and
`CreditExpire`; `confirmlock` is one. `Point` writes the pointer, `Save` stores
invoice and record long after. `TakeConfirmLock`..`ConfirmUnlock` are the branch
of `confirm` for a record that exists, `In*` are `confirmWatchedIncoming`.

Abstractions: one account; every output is above the dust limit of 300 sats and
has an invoice with a user; no transaction is funded by our wallet (`weSpent`
skips those); no reorganisations; no tips, and no USDT; an id that nothing names
any more may be used again.

### Spending

A request is internal (to an invoice of another user), an `invoice` or a
`keysend`; it comes by the API or by an app. An app's request is `Receive`d (the
event handler and the quarantine of dormant apps) and goes through `CheckBudget`
under the lock of the app. `debit()` is `Screen` (the switches: any of them may
refuse), `ReadLimit` and `Reserve` under `withLimitLock`, `Load` (the invoice, its
tip, the allowance and the breaker's check), `ReadFrozen`, `LedgerCheck`,
`LedgerMove`, `Count` (the breaker's file) and `Record`. An internal one goes on
through `Credit*`; the others leave the house and `Pays` or `GivesBack` stands
for how `LightningSend` ends. `Push` puts a payment on the list that the
app's budget counts. `Refresh*` is `freezeCheck`, `Edit*` is `PUT /invoice` with a
tip, which anybody may send while the invoice is unpaid.

Abstractions: a request asks for one unit and the fee reserve is a constant; one
user, one app, one invoice to pay internally; the breaker's window does not slide
within a behaviour; of the refund of an unused fee reserve see `Ledger`.

### Funds

`Take*` follow `POST /take` with an authorization and without, `Give*` a payment
into the fund, `Pay*` the LNURL-withdraw callback. The authorization is read,
claimed by `SET NX`, charged to the founder by `debit()`, put into the fund and
stored as claimed in five steps, any of which may throw (`TakeFails`) into the
catch (`TakeRelease`). `RevokeRead`/`RevokeDelete`, `AddManager`, `DeleteManager`
and `Evict` (`disableFoundedFunds`) come in between. `PayThrows` leaves open
whether the xpay that threw is still in flight; `PaysLate` settles it. A payment
that was made is still to be noted (`PayNoted`), and when a note throws the same catch
fills the fund again (`PayNoteFails`).

### OnchainSend

`Fee` and `Build` are `build()`; the send is `Lock` (lockunspent), `SendLock` (SET
NX), `Check` (the record and testmempoolaccept), `Rebuild` (the fee rate has
become too low), `Debit`, `Record`, `Broadcast`, `Finish`; failures go to the one
catch, `Release`. A client may `Retry` what cost nothing. `Bump*` is the bump
route, one at a time; `Look*` the poll. `vault` chooses between the node's wallet
and an account whose owner signs, whose coins nobody reserves. `Mine` may take a
replaced transaction, `NodeRestarts` forgets the reservations, `Expire` ends a
send lock.

Abstractions: all requests are one account's; a transaction spends one coin and a
send costs one unit, a bump one more; a transaction whose record exists is not
handed out again by `build`; no reorganisations.

### Ledger and Migrations

`Ledger` keeps the four accounts of one user and one fund in microsats. A list of
linked transfers is one step (`Move`, refused as a whole when one is not
`Possible`); what `tbDebit` reads before it is a step of its own: `DebitStart`,
`DebitCredit`, `DebitCheck`, `DebitMove`. `Refund` is `finalize`'s return of the
unused reserve, `Reverse` that of `reverse()` with its credit computed anew.
`Fee` is `Math.round` on a rate with denominator `Scale`. The fee credit is that of
lightning; a pending deposit is of bitcoin and brings none of it. `Migrations` runs the three
conversions of `index.ts` next to each other and to the requests, each through
its records in order, with the flag at the end and a restart anywhere. `from`
says where the amounts are at first: in redis, in the ledger in sats, or there in
microsats already.

Abstractions: amounts and rates are small numbers with the ratios that make
roundings happen in both directions; `hashPins` and `migrateAutowithdraw` are
left out.

### Ecash, Melts, Mint

`Ecash` is `claim()`: `ClaimStart` decodes, `EnterPool` waits for the lock,
`ReadPool`, `Swap` at the mint, `StorePool`, then `ReadInvoice`, `Credit`, `Book`. The
pool can be read only while the keysets are `cached` or the mint is up; otherwise it
counts as empty (`ecash.ts` 90-101). `Melts` is the front: `Melt` sends a request to
the mint of its inputs, `Requote` asks the retired mint for a quote of its own
and remembers it, `MeltOld` reaches the limiter (`Guard*`) when the retired mint
pays. Its forwarded call may end in an error while the payment goes on
(`GuardPayFails`, then `PaidAfterError` or `FailedAfterError`): the retired mint keeps the
proofs pending, the limiter counts nothing. Entries of the front's map of quotes grow
older than 7 days (`EntryAges`) and go when the next one is stored (`Requote`); a line of the
record of dropped inputs may fail to be written (`RecordDropped`). Files survive
`FrontRestarts` and `GuardRestarts`, keysets do not. `Mint`
lets both work on the proofs of the current mint.

Abstractions: a token is one proof worth one; a write of a file other than that
record succeeds; the front's rate limit, the
limiter's cap per melt, swaps and checks are left out; the house's own use of the
pool (`mint()`, `melt()`) is external to the claims.

### Accounts, Logins, Emails, UserAccounts

A call holds the copy of the record that it read when it authenticated, and
writes all of it back (`UpdateRecord`, `SaveRecord`, `LoginRehash`,
`LoginAttach`, `RequestRecord`, `VerifyRecord`). `Register*` is `register()`,
`Update*` the handler of `POST /user` in the order of its writes, `Delete*` and
`DeleteUser` the two deletions, `Rekey*` `changeid()`, `Evict` `evictAccount()`.
`Logins` adds `login()` with its counter, lockout and second factor, the logins by
key, nostr and passkey, and what `authenticate()` accepts. `Emails` adds
`request()` and `verify()`.

`mixed` and `cut` name the accounts, names, keys and addresses on which two calls
worked at once, or which a call that stopped part-way has left behind. The
handlers use no locks or transactions, so for these there is no rule to state;
the properties are about all others, in particular about what an interrupted or
refused call does to those it was not about. `OldSessionsEnd` is without this
exception: `tokens:since:<id>` only grows and is written before the record, so that
whichever record the overlapping calls leave, its password has ended the older
sessions.

### Vaults, Invoices, Preimages

`Vaults` has the record of an account, which creation, update, deletion, import,
migration and `generate()` all read and write as a whole, and `nextIndex` in it.
`Invoices` is `generate()`: `GenBegin`, in which the caller may choose the id (`Naming`: that of
another invoice, or a code that was handed out), then `GenDerive` (an address of a vault),
`GenMint` (an invoice or address that the node makes once) or `GenOffer` (the node
makes the same offer of the same contents always), `GenPoint`, `GenRecord`,
`GenHand`. `PutBegin` is `update()`, which calls it with the record of an invoice
that exists, remembers the id it was asked for (`of`) and stores what `generate()`
returns under that id: another invoice's record, with the other's id, when both
come to have one offer (`Return`). A record therefore has an id of its own. What
`update()` stores when it is asked by a code, a copy under that code, is taken for the
pointer that was there.
`StandingBegin` is the offer of a user. `Preimages` adds the queue: `Add*`, `Clear`,
`SellPop`, `SellInvoice`, `SellReturn`, `SellKeep`, `SettleSale`, `Expire`.

## 3. Runs

| Run | Shows | Bounds |
|---|---|---|
| `send_single` | `TypeOK`, `RefundsBoundedByFaults`, `FeeRefundedOnce`, `PaidOnce`, `Escrowed`, `TrackedResolves` for one payment with LND fallback | CLN retries for 3 ticks, `check()` waits for 2, and gives up before or after CLN does; 2 crashes, 1 dropped socket, 2 failed writes: a fault in the driver, one in the sweep that follows, and one between them |
| `send_two` | `NoFreeDelivery` for two attempts at one invoice | retries for 3 ticks and for 1; 1 crash: the smallest that lets a second attempt meet the remains of the first |
| `send_charged_twice` | violates `ChargedOnce` | two attempts, no fault |
| `receive` | `CreditedOnce`, `LostBoundedByFaults`, `CursorReachesAll` | 1 settlement, 2 invocations, at most 2 faults of any kind: drop, recycling, crash, failed call, credit lock that runs out |
| `deposit` | `CreditsBoundedByFaults`, `ConfirmedIsMined`, `SweepsConfirm` | 1 output, 2 handlers of any kind, 3 ids, a crash and a failed call |
| `spending` | `LimitHolds`, `NothingMinted`, `BudgetHolds`, `CapPassedByOverlapOnly`, `LostOnlyToAnother`, `AppsAnswered` | 2 requests of any kind; balance, limit, cap and budget such that the second request is the one too many; a deposit, a crash, a dropped socket |
| `funds` | `UsedOnce`, `FundCovered`, `DisabledIsClosed`, `ClaimSettles` | 2 requests of any kind by anybody, 1 call that throws, 1 crash |
| `onchain_send` | `NotReplaced`, `DebitedOnce`, `ConfirmedIsMined` | 2 sends, 3 transactions (two and a bump, or one built anew), 2 coins, 1 restart or lock that runs out |
| `mint` | `PoolCovers`, `CapHolds`, `PollTells`, `NoSilentLoss` | 2 requests, claims or melts, over 2 new and 2 old proofs and 2 quotes, 1 restart, failed call, failed write or outage; entries of any age |
| `ledger` | `FrozenStays`, `ReversalMakesWhole`, `MigratedExactly` | 2 payments, 2 requests, a change of the fee flag and an eviction on the ledger of today; 1 request and a restart during the conversions |
| `accounts` | `NamesLead`, `EvictedStaysOut`, `OldSessionsEnd`, `LockoutEnds`, `VerifiedIsOwned` | 2 ids, 2 names, 2 keys, 1 address, 3 calls, 2 seconds, 1 restart |
| `invoices` | `CodesLead`, `PreimagesKept` | 2 users, 2 vaults with 2 keys, 1 offer, 2 preimages, 3 calls, 1 restart |

The safety properties are about one payment, settlement, reference, fund or
account and the actors that race for it: two actors (three where a third can
come to what the second has undone) and one fault of each kind already give
every order of the steps, and where there is a theorem it takes the bounds away. Where a
run leaves a fault out (expired locks in `deposit`), the theorem about the same
property covers it. `deposit` has no expiry under a working handler because
`SweepsConfirm` would not hold: a second record of the output can be made then,
and when the first is confirmed the address is no longer watched.

Every module's type invariant is one of its definitions. `send_single` checks
that of `LightningSend`; the others hold on the same instances when they are
added to the configuration, and those of the seven components with a `TypeCorrect`
in section 5, of the ledger (`LedgerTypesHold`), of `Vaults` and `Invoices`
(`TypesHold`) and of the accounts (`AccountsTyped`), are theorems.

Four instances are large because parts of the system that hardly touch are
composed in them. Their MC modules bound them by a `CONSTRAINT Apart`, which lets a
behaviour belong to one theme; a theme's behaviours are complete:

- `MC_Mint`: no more than two requests in all, one fault, an outage only when
  there are claims (melts do not read the pool), and old entries of the front's map
  only when there are none (claims do not read the map); the front is asked for no
  more quotes than there are melts to come;
- `MC_Ledger`: a ledger of today with payments, or older data with a request
  and a restart, which is when conversions run;
- `MC_UserAccounts`: names; keys (two calls); passwords and logins (two calls,
  one account); lockouts; addresses;
- `MC_Invoices`: vault addresses; offers; preimages.

Symmetry is used where no property is temporal and none names an element.

`Escrowed` is the refinement: an attempt's `charge` is a function of the ledger
and the record, `paid` of `delivered`, and each step of `LightningSend` is
a step of `Escrow` or a stutter. The comment at `payments.ts` 2433 counts on CLN being
through after the 120 s that `check()` waits, but `routes/payments.ts` 102 lets a client
ask for 300 s: after a restart `check()` may find no live part between two of CLN's
tries and give back what CLN then pays. The escrow says so: it may `Abandon` an attempt,
after which neither the delivery nor the money is certain. `abandoned` is mapped to the
`Rash` attempts only (given up while CLN was still to retry them, with a retry
time above `CheckAge`), so that every other attempt is held to the full promise.

`send_charged_twice` is the one run that is violated: `sendLightning` asks
`listpays` before the claim and not after it, so that an attempt which asked before
another one was paid claims the invoice after that one released it, is answered
with the first payment's preimage and charged.

### What the properties leave open

A property that has an exception in its statement has it because the code does
what the exception says. These, and what was met next to them while the code
was modelled, are worth a reader's attention:

Payments.
- An attempt that CLN was asked to retry for longer than `check()` waits may be
  reversed after a restart and delivered all the same (`Rash` in `NoFreeDelivery`
  and `Escrowed`).
- Two attempts at one invoice, one of which may fall back to LND, may pay it twice:
  `check()` drops the `pending` entry of an attempt that is still in `debit()`, a
  second attempt claims the invoice, and LND pays it for the one and CLN for the
  other. `PaidOnce` and `NoFreeDelivery` are checked without such a pair, and
  the theorems about them have the premise `Separate`.
- `check()` drops a `pending` entry without a record, also one whose `debit()` is
  running (2439; the comments at 104 and 1709 rely on the entry). `Escrowed`
  allows the debit to stay held; it is not spent twice.
- The catch of `reverse()` releases its claim although the ledger may have paid and
  only the `multi` failed (2650; the comment above it says otherwise):
  `RefundsBoundedByFaults` counts failed writes.
- `reverse()` takes the rate from the flag of today, not "the SAME rate the send
  was charged at" (2606): the premise of `ReversalMakesWhole`. It takes the fee of the
  total, our fee included (2612), and so returns the fee on the fee (`onFee`) beyond
  what was consumed, which the property counts in.
- `credit()` claims `credited:<preimage>` before the ledger call; a failed call or
  a crash in between loses the deposit (`LostBoundedByFaults`).
- `confirmWatchedIncoming` takes no lock, and `confirm` tests the record that it read
  before its lock: both may call `tbConfirm`, and the second call moves what is
  pending of another deposit. A record is confirmed before `tbConfirm` runs (875).
- `decodeTx` (`zmq.ts`) leaves out outputs without an address and so shifts the
  index of the others: the ZMQ feeds and walletnotify then name one output by two
  references.
- "Invoice already paid" (630) refuses a later deposit to an address that is
  not larger than what it has received; 622-625 call such addresses reusable. The
  exception `Refused` of `SweepsConfirm`.
- The limit that `debit()` lowers is not raised when the debit is refused
  later; `freezeCheck` writes it anew within ten seconds.
- Two internal payers of one invoice are both debited; `credit()` turns one
  away, and nothing gives his money back (`LostOnlyToAnother`).
- A keysend that throws while a part is in flight, and a transfer whose credit
  is refused, are not in the list that an app's budget counts (`Unseen`).
- `take()` releases the claim of an authorization on any error, also after the
  fund has the money (`UsedOnce` counts such errors: a claim let go that way is charged
  again); that the release itself (`db.del`, `routes/payments.ts` 673) throws is not
  modelled, and would leave the claim as a crash does. It debits the fund before
  `credit()`, which may throw. The LNURL-withdraw callback returns the money to the
  fund when xpay throws, settled later or not, and when `recordFundWithdrawal` or the
  `lPush` throws after xpay has paid (384, 385: `late` in `FundCovered`).
- On-chain: who loses the send lock deletes the winner's lock (`DebitedOnce`); a
  transaction built anew has no reservation (`NotReplaced`); a refused broadcast
  after the debit is not refunded; the bump route does not look at what
  `tbDebit` answers.

Ledger and ecash.
- Two overlapping debits of a frozen user may both count a deposit that came after
  the freeze (`FrozenStays`).
- `migrateToMicrosats` multiplies, and `migrateFundsToTB` adds, again after a restart
  before the flag is written, and multiplies what requests have already credited
  (`tainted` in `MigratedExactly`).
- A pool token that cannot be decoded counts as an empty pool and is overwritten
  (`wiped` in `PoolCovers`).
- A further attempt at a melt of one quote overwrites the retired mint's quote, by
  which the wallet's polls are answered; the entry is dropped after 7 days, upon
  which a melt that the retired mint paid polls as the current mint's unpaid
  quote; and where both mints were asked, the retired one answers (`PollTells`).
- A mixed melt answers for old inputs that no mint has taken, but puts them on
  record; an error of that write is swallowed (`unwritten` in `NoSilentLoss`).
- The limiter counts only what is answered with success: payments that settle
  after an error, that overlap, or that a restart cuts off pass the cap
  (`apart` in `CapHolds`). The cap bounds the others whatever these do.

Accounts and invoices.
- `POST /user` with a key removes the way to the old one before pin and name are
  checked; a refusal leaves the account without it (`NamesLead`).
- Renaming writes pointers and record separately; a stop in between leaves two names.
  `changeid` writes a pointer from the key and leaves that of the address;
  `deleteUser` deletes the name as it is written, `register` stores it in small
  letters; `deleteSelf` leaves the pointer of the address.
- `request()` writes the record before it has set the new address.
- Logins by key, nostr and passkey do not look at the list of the evicted, which
  `auth.ts` 77-81 asks of login itself; `authenticate()` does, at each use of the
  session that they sign. A read-only token (`-ro`, `auth.ts` 285-289), which prints
  receipts and is spared the look at `since` on purpose, is not among the sessions
  of `OldSessionsEnd`.
- `POST /user` with a key under which only a nostr profile is kept (`exists.anon`,
  `users.ts` 304) takes it over; such profiles are not modelled.
- A stop between `incr` and `expire` locks a name for good (`LockoutEnds`).
- `POST /invoice` takes the id from its caller (`routes/invoices.ts` 37-44,
  `lib/invoices.ts` 51, 121): the record of another invoice, of whomever, is
  overwritten, and the codes that were handed out for it then lead to the new one; or
  `invoice:<code>` is, which led to another. `CodesLead` excepts a code that was
  named so, and lets the user, not the address, be another where the id of
  the invoice, or of the standing offer, was named.
- An account with a `seed` and no key of the old version makes no invoices before
  `migrateAccounts` has reached it: the call throws.
- `PUT /invoice` on a `usePreimage` invoice makes a random preimage, which the
  comment at `invoices.ts` 162 excludes for new ones; on an offer whose new contents are those of
  another invoice it stores that record under this id.
- The import of a vault's history writes back the record that it read before the
  chain was searched, `nextIndex` included; a vault that is deleted and made
  again, and two vaults with one key, use addresses again (`CodesLead`).
- Overlapping additions may queue one preimage twice and pass `MAX_QUEUE`.

## 4. Fairness

Safety needs none. For liveness:

- `LightningSend`: a started driver goes on (xpay and payinvoice end by their
  own timeouts), `check` rearms itself in its `finally`, HTLCs time out, the
  `EX` of `reversing:` runs out. Strong fairness of `SweepQuery`: a node that
  sometimes fails to answer does answer now and then. Starting, crashing and
  losing a socket are not fair. `TrackedResolves` promises a resolution
  unless a further crash or failed write comes first.
- `LightningReceive`: invocations, timers and the watchdog's interval run on;
  strong fairness of `Resolve`, since the node answers `waitanyinvoice` at once
  for a settlement it has, long before the watchdog would cut the wait off.
- `OnchainDeposit`: handlers run on; strong fairness of `LockExpires`, since an
  expiry is at most a minute away however many handlers come and go. That a feed
  calls again is no fairness of the code: walletnotify and ZMQ fire once.
  `SweepsConfirm` therefore has the premise that the server is booted again and
  again and its `catchUp` comes to the transaction while no other handler runs.
  It also excludes two states by name: a lock without an expiry (`LeftLocked`)
  and an invoice that has received enough for line 630 to refuse (`Refused`).
- `Spending`: a request that has begun goes on, as its awaits return (a keysend
  whose socket drops does not: `hung` has no step, and `AppsAnswered` names it), and
  `freezeCheck` finishes what it has begun. Requests need not come.
- `Funds`: a take that runs goes on. `ClaimSettles` needs nothing else: the
  catch lets the claim go, and only a crash leaves it.

## 5. Theorems

`tlapm` checks every leaf. Assumptions are the named ones on the constants
(`SendAssumption`, `ReceiveAssumption`, `DepositAssumption`, `SpendingAssumption`,
`FundsAssumption`, `LedgerAssumption`, `OnchainSendAssumption`, `EcashAssumption`,
`MeltsAssumption`, `VaultsAssumption`, `InvoicesAssumption`, `PreimagesAssumption`,
`AccountsAssumption`, `LoginsAssumption`), which TLC evaluates in
the runs: sets are finite where they are counted, `None` is in none of them, ids, names, keys, codes
and addresses are told apart by their form,
amounts are natural numbers. Of the bounds it is assumed only that a key has more
than one address (`MaxIndex`) and that `check()` waits at all (`CheckAge`). Each proof is of the safety part, `Spec`
(`MigrationsSpec`, where `Funds` has that name).

- `LightningSendProofs`: `TypeCorrect`; `RefundsBounded`
  (`RefundsBoundedByFaults`), by `ReverseInv`: a payment is not given back
  before its record is stored, whoever is inside `reverse` holds the claim alone,
  and whoever may still give back finds that earlier returns are paid for by
  faults; `FeeOnce` (`FeeRefundedOnce`), by `FeeInv`: who gives the fee back has
  won `refunded:<id>`, and only one does; `PaidAtMostOnce` (`PaidOnce`), by `LndInv`
  (LND has an invoice only when CLN is through with it) and `PartInv` (one node has
  parts alive, and only while nothing was delivered); `NothingDeliveredFree`
  (`NoFreeDelivery`), by `DeliveryInv`: besides these two, what was debited and
  since when (`DebitInv`), what the sweep knows of the payment that it has loaded
  (`LoadInv`), that a payment whose debit goes back is not going to be paid any
  more (`EndInv`), and that a debit stands for what is under way or delivered
  (`StandInv`); `RefinesEscrow` (`Escrowed`), which maps every step of
  `LightningSend` to a step of `Escrow` or a stutter, by `FlowInv` (which steps a payment
  has behind it) and `HastyInv` (nobody is at work on an attempt that was given up too
  early). Nothing is assumed of retry times: what `check()` does to an attempt that CLN
  still retries is in the statements. Their premises are what the code needs and
  does not enforce. `Separate`: an attempt that may fall back to
  LND is the only one at its invoice (see "What the properties leave open").
  `Alone`, for the refinement: no two attempts are at one
  invoice, since `send_charged_twice` shows what else happens. `send_single` meets
  both, `send_two` the first.
- `IncomingProofs`, of the listener: `TypeCorrect`; `CreditOnce` (`CreditedOnce`), by
  `ClaimInv` and `OneWinner`: the ledger call is made only by the winner of
  `credited:<preimage>`; `LossBounded` (`LostBoundedByFaults`), by `PassInv`
  (what is behind the cursor was claimed) and a count of claims without a credit
  against failed calls and crashed invocations.
- `OnchainDepositProofs`: `TypeCorrect`; `ConfirmedMined` (`ConfirmedIsMined`),
  by `ChainInv`: what a handler has read of the chain stays true, and the payment
  that it confirms is of the transaction that it has read; `CreditsBounded`
  (`CreditsBoundedByFaults`), by `BoundInv`. For each reference it counts the
  credits and the handlers that hold or held its lock and have not yet credited
  (`Spent`): together at most one more than the faults. It is not inductive
  alone: one has to know that when the lock is free and somebody could take it
  (`Open`) there is room for one more, and for that, that a reference without a
  stored record and without a handler about to store it (`Blank`) has been
  credited no more often than there were faults.
- `SpendingProofs`: `TypeCorrect`; `LimitNotOverdrawn` (`LimitHolds`), by
  `LimitInv`: who has read the limit and not yet lowered it holds `limitLock`, which
  `freezeCheck` takes to write, so there is still room for it; `CapOverlap`
  (`CapPassedByOverlapOnly`), by `CapInv`: the file counts what has left, and with
  those between check and file passes the cap by no more than the overlap; `NotLost`
  (`LostOnlyToAnother`), by `LostInv`: where the invoice is seen as paid, somebody
  was charged and paid it; `NothingIsMinted` (`NothingMinted`), by `MintInv` (the
  owner of the invoice has what its payers were charged, to the unit) and
  `TransferInv` (who is on his way to `credit()` was charged the amount and the tip
  that he read, and has not paid yet); `BudgetKept` (`BudgetHolds`), by `BudgetInv`:
  a request of an app between the check of the budget and the list that the budget
  counts holds the lock, and there is room for it (`RoomFor`). `PathInv` keeps a
  request on the way of its kind. A sum over requests is the cardinality of the set
  of their units (`Units`, `Sum`): a finite set has a cardinality without an
  induction of ours, and the lemmas `SumAdd`, `SumRemove` and `SumSubset` follow
  from the library's theorems on it.
- `LedgerProofs`, of the funds: `TypeCorrect` and `PathInvariant` (a request is at a
  step of its own kind); `OnceUsed` (`UsedOnce`: charged once, and once more for each
  call that threw), by `ClaimInv` (who works on the authorization
  holds the claim; while nobody was charged for it, no more were charged than
  calls threw) and `TokenInv` (one withdrawal gets past the token); `ClosedToAll`
  (`DisabledIsClosed`), by `ClosedInv`: a late request gets no further than the
  switches, unless its taker is on the whitelist; `Covered` (`FundCovered`), by
  `MoneyInv`, which also counts the requests that carry money from one account to
  the next (`Transit`).
- `LedgerProofs`, of the ledger and its conversions, without the bound `Apart` of the
  run: `LedgerTypesHold`; `ReversalsAreWhole` (`ReversalMakesWhole`), by `WholeInv`: a
  debit has noted the fee of its base, rounded by `Math.round`, and what its credit
  did not cover of it, rounded down, from which `BackIsWhole` computes what a reversal
  gives back: what was consumed and the fee on the fee, less than a sat above; `FrozenKept` (`FrozenStays`), by `FrozenInv`: since the eviction the
  balance has changed by whole sats, at most one debit runs, and it has frozen no
  fewer sats than were held (`LeavesFrozen` is why the division by a sat loses
  nothing); `MigratesExactly` (`MigratedExactly`), by `ExactInv`: `ScanInv` says how far the
  three scans can be, in which order they make accounts and that a flag is written
  only at the end, and `Exact`, for each account that is not tainted, what it has
  had before the requests according to whether `set`, `multiply` or `fund` awaits it,
  holds what it has read of it or is through with it. The lemmas on `\div`
  (`DivIs`, `DivGrows`) hold for any amounts and rates, which the run's four
  microsats to a sat do not show.
- `OnchainSendProofs`: `TypeCorrect`; `ConfirmedMined` (`ConfirmedIsMined`);
  `OneDebit` (`DebitedOnce`), by `LockInv` (a send at work has the lock or was
  stripped of it), `CoinInv` (two sends reserve two coins), `AloneInv` (a
  transaction built anew is the send's own), `PaidInv` (what is broadcast is
  recorded), `OwnInv` (a transaction that was debited is known, private or still
  guarded by lock and coin) and `FirstInv` (who is about to be debited is the
  first); `NoneReplaced` (`NotReplaced`), by `SeenInv` and `FreshInv` (a reserved
  coin is not spent), `RecordInv` and `ClaimInv` (a payment and each copy of it
  name a transaction of its own send, or one that nobody else can broadcast) and
  `OneInv` (two transactions over one coin are the two ends of a bump).
- `MintProofs`: `TypeCorrect` of the composition; `PoolCovered` (`PoolCovers`), by
  `HoldsInv` (who works on the pool holds its lock and has read what is in it) and
  `CoverInv`, which adds the claims whose proof is stored and whose credit is due;
  `CapKept` (`CapHolds`), by `CapInv`: what was paid in turn (`Summed`) is in the file's
  sum, and in the one that each payment in the limiter has in hand, whatever else
  overlaps, fails or is cut off meanwhile; `LossRecorded`
  (`NoSilentLoss`), by `LossInv`: what the retired mint holds for a melt that waits
  is that melt's alone, and no wallet takes it for spent yet; `PollAnswered`
  (`PollTells`), by `PollInv`: the retired mint's quotes are numbered in turn, the front's
  entry is the last one of its quote (`FrontKnows`), and a quote has an entry unless
  that has grown old (`FrontHas`).
- `IncomingProofs`, of invoices and a merchant's queue: `SalesKeep`
  (`PreimagesKept`), by `SaleInv`: what was queued is in the queue, carried by a
  sale or behind an invoice, and what the node has seen is behind an invoice or
  about to be, which is why a refused one may be dropped; `CodesLeadHome`
  (`CodesLead`) and `TypesHold`, by `CodesInv`. Its one part, `VaultInv`, is about
  accounts: a key that is not `spoiled` is held by one call (`SoleInv`) and is of
  one account, the one that the holder will store, and every address of it in use is
  below the index of that account and of the copy (`KeyInv`), so that a derived
  address is new. The other, `MadeInv`, is about codes that nobody named (`Clean`): a pointer is set
  before the record is stored and leads to it from then on (`LeadInv`), until then the
  code is of one call alone (`FreshInv`), what the node mints it mints once
  (`SeenOnce`), and the records of others are touched only where a caller chose
  their id (`BackInv`, `OwnInv`, `Recorded`). What was handed out leads where it was told
  to (`Told`), or its id was named. Both parts are inductive only together.

- `UserAccountsProofs`: `AccountsTyped`, `NamesAlwaysLead` (`NamesLead`),
  `EvictedNeverReturn` (`EvictedStaysOut`), `SessionsEnd` (`OldSessionsEnd`),
  `LockoutsEnd` (`LockoutEnds`) and `VerifiedHaveOwners` (`VerifiedIsOwned`), all
  from `AccountsInv`. A call writes back a record that it read long ago, so none of
  them is inductive without knowing what that copy is still worth. `Separate`: two calls
  touch one thing only if it is in `mixed`. `DrawInv`: an id that was drawn and is not
  stored yet is nobody's. `WhoInv`: an id is one person's for ever, in the record and
  in every copy. `CopyInv`: a copy agrees with the record as long as its account is not
  `mixed`. On these rest, for what is neither mixed nor cut (`Spoilt`), `NameInv` and
  `KeyInv` (each step of a change, a deletion or a re-keying says which pointers are
  set ahead of the record or left behind it), `OutInv` (a person has one record, but
  for a re-keying between copy and erasure, and an outlaw's current name is on the
  list) and `MailInv` (who is about to note an address owns it or finds it free).
  `PassInv` needs none of them: what a record or a copy knows of a password was
  preceded by its `since`.

Only model-checked: liveness (`TrackedResolves`, `CursorReachesAll`,
`SweepsConfirm`, `AppsAnswered`, `ClaimSettles`), which is out of the prover's
reach.

## 6. Not modelled, and the plan

`PROJECT.json` lists every component with its status. Notifications, nostr
profiles and relays, rates, locations, items, e-mail, info, health checks and
the operator scripts have no behaviour that a model would add to: they read,
format and send, or keep single keys without concurrency. `cpfp.ts` and `p2a.ts`
are called by nothing. Left out of modelled components, for size: tips and USDT of deposits,
the reconstruction of a vault's payments from the chain, NWC methods that only
read, the password reset and second-factor set-up but for their writes of the
whole record, pruning, the archive, LND's connection upkeep.

What would come next:

1. A composition of `Spending` with `LightningSend` in place of `Pays` and
   `GivesBack`.
2. The reconstruction of vault payments (`importAccountHistory`) against the chain.

## 7. Running

    tlc -workers 2 -config send_single.cfg MC_LightningSend

| Configuration | Module |
|---|---|
| `send_single`, `send_two`, `send_charged_twice` | `MC_LightningSend` |
| `receive` | `MC_LightningReceive` |
| `deposit` | `MC_OnchainDeposit` |
| `spending` | `MC_Spending` |
| `funds` | `MC_Funds` |
| `onchain_send` | `MC_OnchainSend` |
| `mint` | `MC_Mint` |
| `ledger` | `MC_Ledger` |
| `accounts` | `MC_UserAccounts` |
| `invoices` | `MC_Invoices` |

    tlapm OnchainDepositProofs.tla

and likewise for the other modules that end in `Proofs`.
