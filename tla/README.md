# Notchstave in TLA+

Notchstave is a shop behind a Telegram bot: a buyer gets an invoice with a
receiving address of its own, pays it on an EVM chain, and gets access to a
digital product once the payment is deep enough in the chain. The processes
share one PostgreSQL database and nothing else; what makes the system correct
is therefore what its transactions do to each other, to reorganisations of the
chain, to crashes between two statements, and to a provider that changes its
mind between two requests.

This directory holds the specifications of that behaviour, the TLC models that
check them and the TLAPS proofs about them. Paths below are relative to the
root of the repository.

1. [The system](#1-the-system)
2. [The modules](#2-the-modules)
3. [The runs](#3-the-runs)
4. [Fairness](#4-fairness)
5. [What is proved](#5-what-is-proved)
6. [Where code and documentation disagree](#6-where-code-and-documentation-disagree)
7. [What the models leave out](#7-what-the-models-leave-out)
8. [Plan](#8-plan)

## 1. The system

| component | state | operations | what makes it correct |
|---|---|---|---|
| **money policy** `settler/policy.py`, `amounts.py`, `confirmations.py` | none | classify a sum, tolerances, confirmation regime, conversions | the rounded integer arithmetic grants exactly what the unrounded rules grant, and more money never loses access |
| **settler** `settler/service.py`, `repository.py`, `main.py` | `invoices.status`, `payments.status`, `entitlements`, `notifications`, `users.internal_balance_usd`, `refunds`, `manual_reviews` | settle, handle reorg, two expiry passes, seen notices, anomaly reviews, address life cycle | one grant per paid invoice, standing on money that is there, announced and corrected exactly when it changes |
| **advisory lock** `settler/locks.py` | a Redis key | acquire, release | nothing may depend on it |
| **owner decisions** `settler/admin/reviews.py` | `manual_reviews`, and all of the above | resolve a case: credit, refund, reject | a decision and an automatic pass never both act on one case |
| **admin queue** `settler/admin/client.py`, `queue.py`, `ops.py`, `twostep.py` | `admin_action_requests` | submit, claim, decide, answer, give up on a lost claim, two-step confirmation | a command is carried out at most once, its answer is true, a confirmation is for what was shown |
| **reconciliation, sweep list** `settler/admin/reconcile.py`, `sweeplist.py` | a drift case, a message, an export | read ledger and balances, compare, record | it never reports money as missing that only arrived in between |
| **watcher** `watcher/traversal.py`, `main.py` | `blocks`, `chains.last_indexed_block` | step: verify the tail, headers, logs, checkpoint, promote; roll back | the stored chain is linked, no transfer below the checkpoint is missing, it follows the network |
| **watcher store and detection** `watcher/store/postgres.py`, `watcher/detect/*` | `payments` | insert idempotently, bind to an invoice or mark an anomaly | a transfer has one row, taken from a verified block |
| **provider pool** `watcher/rpc/*` | circuit breakers in memory | call with failover | a broken provider is left alone and tried again |
| **address pool** `deriver/pool.py`, `derivation.py` | `receive_addresses`, `hd_accounts` (the index counter) | take, bind, release, latch, refill | an address has one tenant, and none after it has seen money |
| **deriver requests** `deriver/requests.py`, `main.py` | `invoice_requests`, `derivation_proof_requests`, `address_lifecycle_requests` | submit, claim under a lease, finish, give up | each request ends once |
| **invoice issuance** `core/invoicing/service.py`, `client.py`, `quotas.py` | `invoices`, `rate_limits` | quote, count, reserve, issue | one invoice per request, no user above his quotas |
| **ownership proof** `core/invoicing/proof.py`, `issuer.py` | `derivation_proof_requests` | ask, verify row and account, sign, check the answer | nobody vouches for an address that is not ours, a stranger learns nothing |
| **notifier** `notifier/*` | `notifications.status`, attempts, two token buckets | claim, send, retry, give up, retire a user who blocked the bot | every message ends sent or dead, every try is counted, Telegram's limits are kept |
| **bot, web api** `bot/*`, `api/*` | none that matters | front ends | read only |

How they interact. The *watcher* writes headers, checkpoint and payment rows,
and knows nothing of money. The *settler* polls: one pass handles reorgs, then
announces payments, settles candidates, expires, sweeps, reviews anomalies
(`settler/main.py:279`). It recomputes everything from the ledger, so there is
no event to lose; instead there are two writers over the same rows. The *owner*
decides through the admin queue, in a second loop of the settler process that
runs concurrently with the pass. The *notifier* drains the outbox that the
settler's transactions fill. *Issuance* and the *settler* ask the *deriver*
for addresses through request tables.

What is hard here, and hardly reached by a test:

* PostgreSQL runs at READ COMMITTED: each statement of a transaction sees what
  is committed when it starts. Settlement, reorg handling and the sweep read in
  one statement and act in a later one.
* Reorganisations take back money that was already turned into access, balance,
  refund and message; the same invoice may be settled again afterwards.
* The owner and the passes act on the same case, with locks on different rows.
* The watcher may die between any two statements, and the provider may follow
  another branch at every request.
* Time limits are compared with the clock of the statement, not of the pass.

`PROJECT.json` lists each hazard with its line, and the property that would
notice it going wrong, or why none does yet.

## 2. The modules

```
MoneyPolicy ----+                        AccessPromise
                +--> Settlement ------------(implements)
ChainIndex -----+         \--> SettlementProofs, MCSettlement
     \-----> Watcher --> WatcherProofs, MCWatcher
MoneyPolicy --> MCMoneyPolicy
QueueRow --> RequestQueue, ProofQueue, AddressRequests
RequestQueue, ProofQueue --> MCQueues --> QueuesProofs
AdminQueue, AddressRequests --> MCRequests --> RequestsProofs
AddressPool --> AddressPoolProofs, MCAddressPool
MoneyPolicy, Watcher, Providers, LogChunks, Quota, RateLimit, Notifier,
    Reconcile --> MCMachines
MCMoneyPolicy, Providers, LogChunks, Quota, RateLimit, Notifier, Reconcile,
    SumTheorems --> MachinesProofs
SumTheorems --> SettlementProofs, MachinesProofs
MCMachines, WatcherProofs, MachinesProofs --> MCMachinesProofs
```

Parts that share no state are checked side by side by one run: a behaviour of
`MCMachines`, `MCQueues` or `MCRequests` chooses its part at the start (`part`,
`queue`, `table`), and the variables of the others stand still. Nothing is lost
by that, since no step of one part could depend on another, and nothing is
multiplied; that each part behaves in it as it would alone is proved (section 5).

**`MoneyPolicy`** — the pure functions. Amounts are integers in the base unit of
the asset, the price of a dollar is the fraction `RawPerUsdNum / RawPerUsdDen`,
percentages are thousandths. The code computes with exact 80-digit decimals and
rounds at named places (`usd_to_raw`, `_creditable_usd`, the percentage); the
module rounds at the same places with `\div`. `MCMoneyPolicy` puts a buyer, a
closing top-up window and a growing chain around them, so that "one more unit"
and "one more block" are steps.

**`ChainIndex`** — the watcher's tables about one chain: `blocks[h][f]` is the
status of the f-th different block seen at height h, `head` is
`chains.last_indexed_block`. Its actions are the five statements of
`watcher/store/postgres.py` that write them, with the unique index on canonical
heights as a guard. Both modules below use it, each in its own way.

**`Settlement`** — the settler, the owner and whatever happens around them. Its
variables are columns: `invoice`, `macOk`, `payStatus`, `payBlock`,
`seenNotified`, `entitlements`, `outbox`, `balance`, `refund`, `reviews`, and
`tx[w]`, the open transaction of worker w. Transactions are cut where another
transaction can see the cut:

| code | actions | why so |
|---|---|---|
| `settle_invoice` | `SettleBegin`; `SettleGrant`, `SettlePartial`, `SettleUnderpaid`, `SettleRefuse`, `SettleWait` | the first locks the invoice row, checks the MAC, promotes what is deep enough, sums and decides; the second acts on that decision and commits |
| `handle_reorg` | `ReorgBegin`; `ReorgCommit` | the revert and revoke statements see what is committed first, the unsettle statement what is committed last; the invoice row is not locked in between |
| `sweep_expired_invoices` | `SweepBegin`; `SweepCommit` | the SELECT decides `has_money`, the UPDATE re-checks status and deadline only |
| `expire_stale_invoices`, `notify_seen_payments`, `review_anomalous_payments` | one action each, for one row | a single statement decides and writes |
| `resolve_manual_review` | `ResolveCredit`, `ResolveRefund`, `ResolveReject` | case and invoice row stay locked throughout |
| a dying process, a broken deadlock | `Abort` | nothing was written |
| another writer of the row | `Tamper` | the MAC stops verifying |
| the watcher | `WatcherHeader`, `WatcherPayment`, `WatcherMoves` | the statements of `ChainIndex` in any order the schema admits, so that the settler is checked against every watcher and not only against ours |

Row locks appear as guards: `InvoiceFree` (the `FOR UPDATE` of
`lock_invoice`), `PaymentsFree` (rows updated by an open transaction),
`GrantFree` (an insert into `entitlements` waits for the uncommitted revocation
it would collide with). There is no Redis lock anywhere: `settler/locks.py`
calls it an optimisation, and the model takes it at its word.

Two variables are history and have no column: `resolved`, the cases the owner
has closed, and the `basis` of an entitlement, the payments that were counted
for it. `balance` is one column in the code; here it is split by the invoice the
credit came from.

**`AccessPromise`** — what the shop promises, without tables or transactions:
the product is in the buyer's hands exactly while the invoice counts as
delivered; only the chain takes it back; no invoice stays open for ever.
`Settlement` implements it under the mapping `StageOf` / `HasActive`.

**`Watcher`** — `ChainWalker` under `run_forever`. The network is a trunk with
branches above `ForkAt`; the provider follows one branch and may change it
between two requests (`Switch`). One action is one request together with the
statement its answer leads to: these tables have no other writer, so nothing can
come between the two. The phases of `walk` are the phases of `step()`: `tail`,
`headers`, `logs`, `checkpoint`, `promote`, `finalize`, and for a rollback
`rollback`, `rewind`. Everything in `walk` is lost when the process dies.
`_rollback` commits twice, so orphaning and rewinding are two actions. Three
variables are history: `returned`, the network has come back to a branch it had
left; `start`, the checkpoint of the latest step that began without a stored one;
and `sunk`, such a step began below stored blocks with a gap between. No step reads
them. The properties do, because what the walker guarantees ends there (section 6).

**`QueueRow`**, **`RequestQueue`** — the ask-the-deriver queue. `QueueRow` has
one operator per statement of `deriver/requests.py` on one row: `Claimed`,
`CanFinish`/`FinishedAs`, `CanRequeue`/`Requeued`, `Reclaimed`; the three tables
of that file are moved by the same statements, and `ProofQueue` and
`AddressRequests` are built on it too. `RequestQueue` puts the client
(`Submit`, `ReadAnswer`, `GiveUp`) and the derivers around the rows. The cut is
where `drain` commits: the claim is durable before the work starts, and from then
on the holder has nothing on the row but its status. `Issue`, `Decline` and
`Raise` are the three exits of `serve_one`; the refusal after an unsuccessful
requeue is a statement later (`Abandon`). `EndPass`, `Woken` and `Sweep` are the
loop of `serve`: a pass that served something is followed by the next one, an
empty one by a wait, and only a wait that nobody ended by the sweep; a process that
is started sweeps too. `Lost` is a claim whose holder is dead. `invoices`
and `spent` are counted for the properties and have no column; a crash undoes the
open transaction, so an invoice is counted when `complete` commits.

**`AddressPool`** — who lives at which receive address, and whose money is what
arrives there. Four processes share `receive_addresses` and each acts on what it
has read before:

| code | actions | why so |
|---|---|---|
| `create_invoice` over `reserve_address_for_invoice` | `Reserve`, `Derive`, `Commit` or `Rollback` | a free row is taken and locked; with an empty pool the account row is waited for, with a count from before the wait; row, index and invoice appear at the commit |
| `sync_address_lifecycle` | `SettlerReads`, `SettlerAsks` | the candidates are selected, the requests inserted later |
| `serve_one_address_request` | `ServeAsk`, `AskFails` | change and answer are one transaction; a request may also be abandoned |
| `release_due_everywhere` | `ReleaseDue` | one statement over all rows |
| the verdicts of the settler | `SettlerDecides`, `Revert` | as much of `Settlement` as this table can tell apart |
| `ChainWalker.step` | `ReadHead`, `LoadFilter`, `ReadLogs` | head, filter and logs are read one after the other; the payment is bound by the row of the last moment |
| buyers | `NextBlock` | anyone who was once shown an address may pay to it at any time |

`transfer[t].payee` is the invoice the buyer means; no column knows it, and the
properties compare it with the invoice the payment row is bound to.

**`ProofQueue`** — `/verify`. The client (`AskProof`, `HearProof`, `StopWaiting`)
and the derivers around rows of `QueueRow`; in the middle the two statements of
the issuer, `ReadInvoice` and `Prove`, the second of which reads the account and
signs the address of the first. `Change` is everything that can be done to the
tables behind the application between any two of these: an invoice row with
another address or another amount, an account row with another fingerprint, an
answer rewritten or copied from another request. Signatures are symbolic
(`signed`): who has no key cannot make one, but can move one.

**`AddressRequests`** — how the settler's wish gets to the deriver.
`AddressPool` says what a served request does to the pool; here it is served
under a lease and a budget, by derivers that raise (`ApplyRaises`), give up
(`GiveUpAsk`), die and lose leases, and the settler's two statements
(`SweepSelects`, `SweepAsks`) ask again as long as the address needs it.
`KeepHouse` is the third part of the deriver's housekeeping, which also frees the
addresses whose cooldown is over.

**`AdminQueue`** — a command of the owner: the bot inserts it and waits
(`Ask`, `Hear`, `HearNothing`), a settler claims it, decides it and answers it in
three transactions (`ClaimCommand`, `Decide` or `FailToDecide`, `WriteAnswer`),
and the next pass of any settler writes off a claim whose lease is over
(`StartPass`). `ReplyTo` is the order of the checks of `resolve_manual_review`;
a confirmation code is the pair of what it is for and the period it was made in
(`Verifies`). What the decision does to invoices is `Settlement`'s.

**`Quota`** — the issuing transaction as far as one user's quotas are concerned:
`Call` takes the time, `Snapshot` gets the advisory lock, counts and decides,
`Insert`, `Refuse` or `Undo` end it. The lock is held to the end, which is
`LockFree`; the settler moves the invoices meanwhile. `cooldown_until` has no
variable, because the statement that writes it is always rolled back
(section 6).

**`Providers`** — one call over the rotation of `watcher/rpc`: budget, breaker,
request, answer (`SpendRefused`, `CircuitRefused`, `Request`, `Answered`,
`Blamed`, `NotBlamed`), the retries at one provider and the failover to the next.
The breaker's methods are operators with its names; `TimePasses` ends cooldowns,
`WindowRolls` the budget window. **`LogChunks`** is what happens inside one
`get_logs_chunked`: rectangles of blocks and addresses that are answered or
halved. Neither needs the other: a piece is one call.

**`Notifier`** — `run_once` and `_deliver`. A batch is claimed in one transaction
(`ClaimBatch`); each note is then looked up (`Look`), sent (`SendFails`,
`SendTaken`, where Telegram may take a message and lose the answer) and recorded
(`RecordSent`, `RecordTransient`, `RecordPermanent`, `RecordBlocked`) in three
steps with no lock around them. `Again` ends a lease or a backoff, `PassDies` a
pass, and the buyer blocks the bot and comes back. `chat` is what stands on his
screen: an edit replaces a message, anything else appends one. The message to edit
is any sent one of the same buyer about the same invoice, or none (`MessagesToEdit`):
the code takes the latest of one kind at a time, and the property holds for each.
**`RateLimit`** is the pair of token buckets every send waits for, in Redis and
in each process for the time Redis is away; beside each runs the meter of the
other side, so that "in any period" is an invariant.

**`Reconcile`** — the ledger is read first (`ReconcileStarts`), then one balance
after the other (`BalanceRead`), while transfers arrive, are counted, are taken
back, and the owner sweeps addresses offline; `ReconcileEnds` compares, opens a
case and queues a message. The sweep list goes the same way without comparing.

**Slips.** Where a definition stands directly before another one with the same
parameters (`GrantsOfAllReverted` before `GrantsOf`), it is a plausible mistake
in it. `PROJECT.json` pairs each checked property with one, and the property
fails when the definition is replaced by its slip.

## 3. The runs

| run | specification | states | what it shows |
|---|---|---|---|
| `deployed` | `Settlement_deployed.cfg` | 884 292 | one settler, no owner command: a grant in force stands on money that is still there and still enough; the tables implement `AccessPromise` |
| `shared` | `Settlement_shared.cfg` | 1 067 688 | two settlers, the owner and a tampered row: one grant at a time, no paid invoice without one, grants are never erased or revived, closed stays closed, a broken MAC grants nothing |
| `stray` | `Settlement_stray.cfg` | 78 372 | no invoice stays open for ever, with passes that die and payments that a reorganisation takes back; a payment without an invoice always reaches the owner |
| `pool` | `AddressPool.cfg` | 337 511 | two derivers, the settler and the watcher over two addresses: a live invoice keeps its address, money sent in time is found and goes to its own invoice, an address with money leaves the pool |
| `machines` | `Machines.cfg` | 580 344 | *walker*: three branches, a start that depends on the head, two changes of branch and a fault at any point: linked headers, rows from verified blocks, no transfer lost by a crash, the network's branch in the end. *policy*: the product for exactly the sums that the unrounded tolerance admits. *providers*: one that is down is left alone. *chunks*: every block and address is asked for once. *quota*: both limits under two derivers. *rate*: no period has more than its limit. *outbox*: no delivered message is touched, no edit hits another invoice, no try is uncounted, every note gets out. *audit*: a shortfall reported is one |
| `queues` | `Queues.cfg` | 531 755 | two derivers, two requests of one asker, one crash: at most one invoice per request, no false answer, and every request comes to an answer; a proof vouches for the right address whatever is changed behind the application, and says nothing to strangers |
| `requests` | `Requests.cfg` | 226 648 | two settlers, one with a key, two large cases, a settler that dies: what the owner is told is true, a large credit is confirmed for its own case, every command is answered; an address is asked for until it is latched or free |
| `race`, `cancelled`, `missed`, `pool_old`, `lockout` | one cfg each | | each refutes one sentence of the repository, see section 6 |

Six properties are theorems and not part of a run: `MoreMoneyKeepsAccess` (which
`ToleranceRespected` implies), `ExcessCreditExact`, `CountedIsDeep`, `AnnouncedOnce`,
`BudgetKept`, and `GrantIsSettled` with one settler
and no owner command. Their definitions stay beside the
others, to be put into a cfg again when the module changes.

Why the bounds are enough for the interesting cases.

* *Policy*: prices up to 30 and sums up to 40 with a percentage of 10 % and a cap
  of one dollar at 7/3 units: the cap and the percentage each decide for some
  prices, both limits are met exactly, and every rounding has a remainder for some
  value. The dollar is not a whole number of units on purpose.
* *Settlement*: one invoice with two payments. Payments are 100 + 106 (partial,
  then slightly too much: credited), 200 + 20 (paid by one, or overpaid by more
  than the tolerance: refund) or 200 + 206 (each pays alone: after a reorg took
  the first, the second one buys the product again), against a price of 200, so
  that every outcome of `classify` occurs, and a reorg may take one payment and
  leave the other. Two
  heights give one block under and one above a fork; three clock values are
  "within the rate lock", "within the top-up window" and "after it". Two workers
  are enough for every pair of transactions, and each pair of steps can be
  interleaved. Invoices meet in one place only, a reorg that takes several at
  once: TLC sees one invoice, and the theorems of section 5 hold for any number
  of them.
* *Watcher*: four heights with a trunk of one, three branches, steps of at most two
  blocks and a maximal depth of one: a rollback inside and across steps, one that is
  too deep, two branches abandoned in turn, or one that is left and come back to. The
  lookback is one block, as the shipped one is far less than a chain: a first step
  that dies is followed by one that starts higher, or, after a switch to a shorter
  branch, lower. Transfers are on the trunk, at different heights on two branches,
  and on one branch only. (With three switches and two faults the safety invariants
  hold as well: two branches are 797 thousand states, three are 3.8 million.)

* *Invoice queue*: two attempts (with the three that are shipped, the invariants
  hold in 414,889 states). A request is lost, recovered and claimed again until
  its budget ends with a crash or with lapsed leases; two derivers are enough for
  a former and a present holder, and two requests of one asker for the index that
  admits one open request per user.
* *Address pool*: three clock values, with a top-up window and a cooldown of one
  block each: an address is reserved, closed, released and reserved again within
  them, and a transfer of its first owner comes in time, during the cooldown, or
  after the second one moved in. Two addresses and a ceiling of one let an order
  find the pool empty, full or locked. (One block more, in which the second owner
  pays as well, is 2,458,244 states; the invariants hold there too.)

* *Proof queue*: one deriver, two users with an invoice each, two questions, one
  change and two stumbles: the change falls into every gap between two statements,
  and each user asks about his own invoice, the other's, and none.
* *Address requests*: one address and two derivers, two attempts, two faults: a
  request is lost, lapses under a live holder, is given up, and asked for again;
  addresses meet nowhere in this queue.
* *Admin queue*: two commands, two settlers, three periods, one death: a claim
  that is answered by its late holder after the sweep wrote it off, a code typed
  for another case, after its period, at a settler without a key.
* *Providers*: two of them, two tries each, a threshold of two and a window of two
  requests: a trip by retries, by two calls, by a trial that fails; the budget runs
  out between two tries. *Chunks*: four blocks in pieces of three and two
  addresses: a short last piece, an odd half, a single block.
* *Quota*: two derivers, three invoices, limits of two and one, an hour of one
  tick: both derivers count before either commits, and a window begins at every
  tick. *Rate*: bursts of one and two, three ticks: buckets that expire full, that
  expire early if they could, that are shared by two chats.
* *Outbox*: two notes of one buyer, the second a correction, two processes, two
  tries, one lapse of a lease, one block: the lapse lets two processes hold one
  note at any step of `_deliver`. *Audit*: two addresses with a transfer each, of
  different worth.

`CHECK_DEADLOCK FALSE` is set everywhere because the bounds end every behaviour:
the clock, the chain and the allowed faults run out.

`Linked`, `CrashLosesNothing` and `WalkerEndsOnTheNetwork` are conditional, on
history and not on constants: what they concede is named in them (`returned`, `sunk`,
`start`), the run contains behaviours on both sides, and section 6 says what happens
on the other one ("a cold start", "a comeback").

`AddressPool` assumes `MaxLag <= Cooldown`: the watcher is never further behind
the head than the cooldown lasts, which is an hour as shipped. Without it the
cooldown protects nobody, since money sent in time may be looked for after the
address changed hands.

## 4. Fairness

`Settlement!Fairness` says of the settler what `settler/main.py` justifies: its
loop runs all passes again and again, and does not die in every single
transaction. A transaction that is begun is repeated by the next pass when it
was lost, so the second halves (`SettleCommit`, `ReorgCommit`, `SweepCommit`) and
the start of the sweep are strongly fair; they alternate with other work of the
same worker, which is why weak fairness is not enough. The review of anomalous
payments is weakly fair: nothing but itself ends its being due. The clock is
weakly fair. Nothing is assumed of buyers, miners or the owner: they may never
act. `SettleBegin` needs no fairness: an invoice that is never settled is swept.
The assumption has a price: an exception ends the whole pass
(`settler/main.py:309`), so an invoice whose settlement raises in every pass
would starve the sweep of all others. The model has no such invoice.

`RequestQueue` has weak fairness on the steps of a live deriver, on the restart of
a dead one by its supervisor, on the lease and on the client (`Runs`), and none on
`Sweep` while a deriver lives: `serve` sweeps only after a wait that none of three
channels has ended (`deriver/main.py:743-745`), and nothing in the code makes such a
wait come. `EventuallyAnswered` therefore has two halves. Under any traffic a
request is answered or ends as a claim whose holder is dead; *if* the sweep runs
again and again, every request is answered. The second is conditional inside the
property, where a reader sees it, and section 6 says what follows without it.

`PoolFairSpec`: the settler passes again and again and commits, an order ends (by
a commit or not), and some deriver gets to the lifecycle requests between orders,
which is strong fairness, as orders keep coming. Nothing is assumed of buyers,
blocks and verdicts.

`AddressRequestsFairness` and `AdminQueueFairness` say the same of the other two
tables: processes go on, dead ones are started again, leases end. The deriver's
housekeeping is not fair, for the same three channels; `EveryAddressSettles` says
what holds without it (`AsksAreServed`: latched, or set to cool, or the claim of a
dead deriver) and, if housekeeping has its turn again and again, where the address
ends. The owner may ask nothing, or never read the
answer. `NotifierFairSpec` lets some notifier run and some lease or backoff
end, which is all that is needed, and assumes nothing of Telegram: it may refuse
every send. Nothing lives on `RateLimit`,
`Quota`, `Providers`, `LogChunks`, `ProofQueue` and `Reconcile`: their questions
are all about what must not happen. In a run of several parts each fairness
condition is stated of the behaviours of its own part.

`WatcherFairSpec` has weak fairness on `Step` (`run_forever` steps for ever,
whatever the last step ended with) and on `Grows` (the network goes on making
blocks, up to the bound). Changes of branch and faults are bounded and never
forced. `EndsOnTheNetwork` (in the run, `WalkerEndsOnTheNetwork`) is about every
network that changes its branch at any moments and does not come back to one it has
left, and about every start that does not begin below stored blocks. It concedes to
faults the gap that a death between the two transactions of `_rollback` leaves below
the checkpoint, and nothing else.

## 5. What is proved

`SettlementProofs`, `AddressPoolProofs`, `WatcherProofs`, `QueuesProofs`,
`RequestsProofs`, `MachinesProofs` (one part per machine: policy, rates, providers,
log chunks, quotas, outbox, audit) and `MCMachinesProofs` hold theorems that TLAPS
checks for every value of the constants: any number of invoices, payments,
workers, heights and forks, any prices, tolerances, rates and time limits.
`SumTheorems` holds what both need to know about sums.

*Policy.* `ToleranceHolds`, `AccessIsMonotone`, `CreditIsExact` and
`DepthIsCounted` prove what the module says about itself, for all amounts and tolerances. They rest on
`FloorCompare` and `FloorBounds`: comparing with a rounded-down quotient is
comparing products.

*Settlement*, for any number of workers and with the owner acting:

| theorem | property | strengthened by |
|---|---|---|
| `TypeCorrect` | `TypeOK` | `TxOK`: an overpayment was decided about a sum above the price, or the refund would not be a natural number |
| `OneGrantAtATime` | `OneActiveGrant` | `TypeInv` |
| `PaidHasProduct` | `SettledHasGrant` | `ReorgOK`: a reorg under way revokes only grants of invoices it will take back |
| `HistoryIsKept` | `GrantHistoryKept` | `TypeInv` |
| `AnnouncedExactlyOnce` | `AnnouncedOnce` | `NoneTooEarly`: no message speaks of a grant that is not written yet |
| `TamperedIsRefused` | `TamperedNeverGranted` | `LockOK`: while a settlement is open its invoice is live, its row unchanged, and nobody else settles it |
| `ClosedIsFinal` | `ClosedStaysClosed` | `LockOK` |

and for one settler with no owner command in flight (`Alone`), which is the shipped
deployment for as long as the owner resolves nothing:

| theorem | property | strengthened by |
|---|---|---|
| `DeployedGrantIsSettled` | `GrantIsSettled` | `ReorgWhole`: the open reorg takes every grant of every invoice it touches |
| `DeployedGrantBacked` | `GrantBacked` | `ReorgWhole`, and `RowsCount`: the money an open settlement has counted is still there and enough |
| `DeployedKeepsPromise` | `KeepsPromise` | the two halves `GrantIsSettled` and `SettledHasGrant`: access is a function of the stage, so only the moves of the status need a look |

`Alone` is not a convenience: the run `race` shows `GrantIsSettled` false with
two workers, because `ReorgWhole` is then false: the second worker commits a
settlement between the revoke and the unsettle statement. The owner is the other
half of it. The shipped process answers his commands in a task of its own
(`settler/main.py:417`), so a command may be between the statements of a
reorganisation or a settlement too; these three theorems do not cover that, and the
seven above do.

None of the properties is inductive as it stands. A transaction acts on what it
has read earlier, so each proof needs to know what is still true of `tx[w]` when
it commits; that is what all the strengthenings are about. `TypeInv` is
`TypeOK /\ TxOK`. Each step lemma goes through the actions of `Next`; the ones
that do not touch the variables in question are dismissed together
(`GrantMoves`, `TxMoves`, `OutboxMoves`, `InvoiceMoves`).

*Address pool*, for any number of derivers, addresses, invoices and transfers, any
window, cooldown and lag:

| theorem | property | strengthened by |
|---|---|---|
| `PoolTypeCorrect` | `PoolTypeOK` | `RowsInv`: two open orders never have the same address, a fresh one has the next index, and nothing was asked about an address that does not exist. Any number of settlers |
| `AddressKeptTheorem` | `TenantKeepsAddress` | `TenancyInv`: row and invoice know each other (`RowIntact`, `InvoiceIntact`), and whatever a settler has selected or asked is about a tenant who is closed (`ReleasesInv`) |
| `InTimeTheorem` | `InTimeIsCredited` | `TenancyInv` again: money sent in time is at an address that its payee still has, and the filter of the step under way contains it (`TransferIntact`, `FilterIntact`) |

The last two have the hypothesis `OneSettler`. A settler selects an address for
release, and asks later; a second one, which has served the same wish in between,
makes the late request one about the next tenant. One settler is what is shipped.

*Watcher*, for any number of heights, branches, transfers, switches and faults, any
span, lookback and depth:

| theorem | property | strengthened by |
|---|---|---|
| `WatcherTypeCorrect` | `WatcherTypeOK` | `StoreInv`: a rollback is as deep as it has gone down |
| `RowsAreVerified` | `RowsWereVerified` | `StoreInv`: one canonical block a height, and what was verified in this step is on record |
| `CrashTheorem` | `CrashLosesNothing` | `QuietInv`: on one branch nothing contradicts, and every stored block between checkpoint and next height was verified in this very step |
| `LinkedTheorem` | `Linked` | `ChainInv`: a run of stored heights is of one branch (`OneBranch`), there is no gap above the checkpoint or the place where the walk is (`Unbroken`), and what a rollback has passed belongs to a branch the network has left (`LeftFrom`) |

No theorem has a hypothesis. What the walker does not guarantee is a condition inside
the property, on what has happened so far: `CrashLosesNothing` speaks of the time
before the first change of branch and of the heights above `start`, `Linked` of
the time before the network comes back to a branch it had left (`returned`; branches
are numbered as they come up) and before a step without a checkpoint begins below
stored blocks (`sunk`). TLC refutes each property without its conditions (section 6).
Otherwise nothing is assumed of the provider, the number of switches, the lookback or
the moments of death.
Linked is far from inductive. The walker compares a header with the block below it
and never with the one above, so the proof has to know that there is nothing above:
that is `Unbroken`, which in turn survives a rollback that dies half way only
because the blocks to be orphaned are all of left branches.
The highest stored height is found with the minimum principle of the library
(`WFMin`, for the naturals), which needs no operator parameter (`HasMax`).

*Queue*, for any number of derivers, requests and attempts: `QueueTypeCorrect`,
`NeverIssuedTwice`, `AnswersAreTrue` and `PoisonIsBounded` prove all safety
properties of the invoice queue. One invariant carries them, `QueueInv`: it says of each request
what its row, its invoices, its attempts and the client's answer have to do with
each other (`RequestIntact`), and that whoever works holds a request
(`HolderIntact`). Nothing in it mentions who the rightful holder
is: the code does not know either, and the proof shows that the status alone is
enough.

*Ownership proofs*, for any number of askers, derivers, questions, crashes and
changes behind the application: `ProofsTypeCorrect`, `AcceptedProofsVouch`
(`ProofVouchesForOurs`) and `StrangersLearnNothing` (`StrangerLearnsNothing`).
`ProofsInv` says what no change of a row can spoil: an answer that tells anything
of an invoice, a proof, a mismatch or a tampered row, is its owner's (`AskerOwns`),
and what is signed was derived.

*Owner's commands*, for any number of settlers, with or without a key, and of
cases, commands and deaths: `CommandsTypeCorrect`, `AnswersAreHonest`
(`RepliesAreTrue`) and `LargeCreditsAreConfirmed` (`LargeCreditsConfirmed`). A
settler whose claim was written off may still decide, so the status of a row does
not say whether its decision is out. `CommandsInv` therefore follows the holder: a
row is claimed once and has one holder at most (`OneHolder`), who knows whether
he has decided (`HolderKnows`), and a row whose answer says anything definite has
no holder left (`AnswersAreFinal`). That is also where the code rests on the
absence of a requeue: a second claim would break `OneHolder`. For the confirmation,
`CodesWereShown` says that a code in a command was the answer to an earlier one
for the same case.

*Wishes about addresses*, for any number of settlers, derivers, requests and deaths:
`LifecycleTypeCorrect` (`AddressRequestsTypeOK`). That no request is worked on more
often than its budget is the type of a row. A claim adds one and looks at the status
only, so the strengthening is that a row that waits has an attempt left
(`AttemptLeft`): both ways back to waiting, `Requeued` and `Reclaimed`, look at the
budget first.

*Rates*, for any number of chats and stores and any time: `LimitsAreKept`
(`LimitHeld`) and `NoTokenIsLost` (`NoTokenLeaks`). The strengthening is an
equation, `TokensAndMeter`: what a bucket holds and what it has let through make
up its burst at every moment. One half is the limit, the other says that a
refused send costs nothing.

*Provider pool*, for any number of providers, tries, calls and ticks: `DownTheorem`
(`DownIsLeftAlone`) and `BudgetTheorem` (`BudgetHolds`). How often a provider has
failed in a tick bounds nothing by itself; `Struck` relates the count to each of
the three states of the breaker: a closed one has seen all of those failures, one
due for a trial none, and one that is open was opened by the last.

*Log chunks*, for any range, any list of addresses, any limits and any sequence of
refusals: `LogsTheorem` (`LogsAreWhole`). The pieces still to be asked and the cells
already answered partition the request at every moment (`PiecesPartition`). For the
first split this rests on `OneStart`, that every number of a range lies in the
stretch of exactly one multiple of the step; a halving keeps it.

*Quotas*, for any number of derivers: `QuotaTheorem` (`QuotaHolds`). The limits are
checked at one step and used at another. What carries the check to the insert is the
advisory lock: one transaction at a time has counted (`OneCounts`), and while it has
there is room for what it will insert (`RoomIsLeft`).

*Outbox*, for any number of notifiers, notes, lapses and deaths:
`NotifierTypeCorrect`, `SentStandsTheorem` (`SentStands`), `EveryTryTheorem`
(`EveryTryCounted`) and `OwnMessageTheorem` (`OwnMessageOnly`). A note can be in
several hands at once after a lease has lapsed, so a count of tries is compared with
what Telegram has taken *and* with the hands that may still send (`TriesCovered`).
For the messages, `HandFits` says the same of what a process is about to edit and
about to record as `SentFit` says of a row.

*Audit*, for any accounts, transfers and amounts: `ShortfallTheorem`
(`ShortfallIsReal`). Ledger and balance are read at different moments. What the
ledger counted stands for a set of transfers that had reached the chain for good
(`LedgerStands`); a balance below their sum misses one of them, and that one was
swept or orphaned (`BalancesStand`).

*Side by side*: what `MCQueues`, `MCRequests` and `MCMachines` compose. A step of one
part is a step of it or none of each of the others (`OneMoves`, `OneQueueMoves`), so
the composed specification implements every part's own (`EachAsAlone`), and the
theorems above hold of the very formulas that the runs check: `QueuesAreSafe`,
`RequestsAreSafe`, `MachinesTypeCorrect` and `MachinesAreSafe`.

*Sums.* An amount is a sum over a set, which the community modules define by
recursion. `SumTheorems` proves what the models need of it: that such a function
exists and does not depend on the order of picking (`SumWithout`), that the sum of
naturals is one (`SumIsNatural`) and that a part is no more than the whole
(`SumOfPart`). Each induction is a search for a least counterexample, with the
minimum principle of the library (`WFMin`), which takes no operator parameter.
Nothing about sums is assumed: `Payments`, `Transfers` and `Accounts` are finite sets,
rows of a table.

Beyond the hypotheses named above (`Alone`, `OneSettler`) the theorems assume the types of the constants (`ChainAssumption`,
`PolicyAssumption`, `SettlementAssumption` and those of the other modules) and that
tables are finite, and no more.

Only model-checked: the liveness properties `NothingStaysOpen`,
`EveryAnomalyReviewed`, `EventuallyAnswered`, `MoneyIsLatched`, `NotesGetOut`,
`EveryCommandAnswered`, `EveryAddressSettles` and `EndsOnTheNetwork`: liveness under
fairness and `ENABLED` are out of reach of the installed provers.

## 6. Where code and documentation disagree

Five of them are runs that TLC ends with a counterexample; `PROJECT.json` quotes
the lines.

* **`race`** — `settler/service.py:316` says that all money work on one invoice is
  serialised by its row lock. `handle_reorg` does not take it. With two settlers:
  reorg reverts a payment and revokes (nothing yet), the other worker commits a
  grant decided before, the reorg's unsettle statement sends the invoice back to
  `awaiting`. The grant stays in force and no correction is sent. One settler with no
  owner command at the same time is safe, and that is proved (`Alone`). The shipped
  process has one settler and runs the owner's commands beside it
  (`settler/main.py:417`), which the proof excludes.
* **`cancelled`** — `settler/admin/reviews.py:674` says a cancelled invoice "will
  not deliver a product". With two open cases, rejecting one and crediting the
  other delivers: `_apply_credit` grants also when its compare-and-set on the
  status has failed.
* **`missed`** — a reorg met inside a step makes `_rollback` set the checkpoint to
  the common ancestor, which may lie *above* the checkpoint the step started
  from; the headers below it are stored and their logs were never read.
* **`pool_old`** — `README.md:122` says a payment in a block before the reservation
  "belongs to the *previous* owner" and is "never auto-credited to the new
  invoice". `create_invoice` reserves from `chains.last_indexed_block`, not from
  the head: what the previous owner sent in a block that is mined and not yet
  indexed passes the test of `SQL_INSERT_PAYMENT` and is credited to the next
  one. The transfer is later than the first owner's window and cooldown, or
  `InTimeIsCredited` would fail.
* **`lockout`** — `core/invoicing/errors.py:161` says of the cooldown after a
  streak of expired invoices that it "lapses on its own, and one payment resets the
  streak". `enforce` refuses whenever the newest invoices are such a streak,
  however old; the deadline is computed anew at each request, and the one that was
  written is rolled back with the refusal. Without an invoice there is no payment
  to reset the streak, so the user stays out until an operator helps.

Others were met while modelling and have no run of their own; the models contain
the behaviour.

* *A cold start* — `watcher/traversal.py:293` says that a crash must not leave the
  checkpoint past a block whose logs were never fetched. While no checkpoint is
  stored, the start is computed from the head of the moment
  (`watcher/traversal.py:318`). A first step that dies, or whose log request fails,
  is not repeated: the next one starts higher, and what the first had stored is
  passed unread. `CrashLosesNothing` speaks of the heights above the later start only.
  (`Watcher_missed.cfg` with `InitialLookback = 1`, `MaxSwitches = 0` and
  `MaxFaults = 1` refutes `NoInvisiblePayment`, which concedes nothing.)
* *A comeback* — `watcher/traversal.py:8` says that comparing each header with the
  block stored below it "turns a list of blocks into a verified chain". The network
  leaves a branch, and its blocks are orphaned; it comes back, `ON CONFLICT DO
  NOTHING` (`watcher/store/postgres.py:111`) leaves them orphaned, and the next
  block is stored above the gap; it leaves again before the checkpoint moves. The
  gap is then filled from the other branch, below a block that is no child of it,
  and nobody looks upwards. `Linked` ends where the network comes back.
  (`Watcher_missed.cfg` with `InitialLookback = 4`, `MaxReorgDepth = 1`,
  `MaxSwitches = 3` and `MaxFaults = 1` refutes `ChainIsVerified`.)
* `settler/repository.py:1053` says each anomalous payment comes "in front of a
  human exactly once". Only open reviews are excluded by the query, so a resolved
  one is opened again by the next pass. (At least once does hold: run `stray`.)
* `deriver/main.py:230` promises a refusal only "once the attempt budget is spent",
  and takes a `False` of `requeue` to mean that. `requeue` is also false when the
  row is not in progress any more; if a second deriver then claims it, the
  refusal ends a request with attempts left.
* `deriver/main.py:523` puts housekeeping off the hot path because it has nothing
  to do "while requests are flowing". It has: a request lost by a crash waits for
  a poll interval in which none of three channels wakes the process. Nor does "the
  lease sweep on the next start" recover it (`deriver/main.py:653-656`): a supervisor
  starts the process again before the lease has lapsed, and that sweep is one of the
  quiet intervals later.
* `deriver/requests.py:277` says retries are spaced by "a notification, or the
  safety tick". A retry counts as an outcome, and `serve` goes straight into the
  next pass after any outcome.
* `settler/repository.py:1373` says that "the two sweeps cannot race into freeing
  an address that has money on it". A payment may be recorded during the
  cooldown, and `SQL_RELEASE_DUE` looks at `ever_funded` only: when it runs before
  the latch is served, the address is free for a while. `MoneyIsLatched` says that
  it does not stay so.
* `SQL_LOCK_ACCOUNT` counts the reserved addresses in the statement that waits for
  the account row, with the snapshot from before the wait: each further deriver
  can pass `max_active_addresses` by one.
* `watcher/rpc/pool.py:181-190` says that asking the budget before the breaker
  "makes the leak impossible" of a trial permit that is never given back. A trial
  answered by `range_too_large` or `invalid_request` records neither success nor
  failure, and the permit stays out (`PermitIsHeld` in `Providers` is false); one
  more cooldown never comes, since the circuit is half open and not open.
* `watcher/rpc/errors.py:236-240` says of a revoked key that "failing over is
  right"; 401 and 403 become `INVALID_REQUEST`, which is not in `FAILOVER`.
* `notifier/repository.py:60-72` explains the lease count with a crash loop that
  must end; `SQL_CLAIM` does not look at `max_attempts`, so a note whose sender dies
  each time is sent without end, though counted (`EveryTryCounted`).
* A correction may overtake the message it corrects (`notifier/repository.py:182`
  orders a batch, not two of them): it then finds nothing to edit, is sent as a
  message, and the stale one follows. Notes that are queued for a user after he
  blocked the bot wait for his return.
* `notifier/ratelimit.py:293-331`: each time Redis goes away a process starts with
  full local buckets, so the limits hold per store (`LimitHeld`) and not for their
  sum; and the script is handed `time.time()` of the caller, not Redis's clock.
* `settler/admin/client.py:283-290` calls any database error "a command that never
  happened", also one after the `INSERT` was committed. `RepliesAreTrue` therefore
  takes `unavailable` as no promise.
* An address whose only payment was reverted is neither latched
  (`settler/repository.py:1334`) nor released (`1375`): it stays reserved for ever.
  `IdleAddressReturns` leaves it out.
* `settler/admin/sweeplist.py:25-30` speaks of addresses marked as swept;
  `swept_at` is written by nothing in the repository. Until it is written by hand,
  every reconciliation after a sweep reports the swept money as missing.
* The message of a drift is keyed by its absolute figure, for ever: a later drift
  of the same figure, at another address, sends none (`settler/admin/reconcile.py:336`).
* An asker of `/verify` who mistypes the id is told at once (the foreign key), one
  who asks about somebody else's invoice only after the deriver answered: with the
  deriver away the two can be told apart. `StrangerLearnsNothing` is about what is
  said, not when.
* `api/stages.py` shows an expired invoice with any payment row as "confirming"
  without looking at the top-up window its fourth rule names. The page writes
  nothing and has no module.

## 7. What the models leave out

* One chain per instance: chains share no rows, and a pass handles one after the
  other.
* `audit_log`, metrics and log lines are not state; notifications are reduced to
  their unique key.
* The candidate query and the lock of `settle_invoice` are one step: the lock
  re-reads the status. Reading, promoting and summing are merged because the row
  locks they take keep them consistent; promotions are applied at the commit. A
  candidate that is no longer live when its row is locked, and whose MAC does not
  verify, gets a `mac_failure` case and nothing else (`settler/service.py:349-368`);
  that case is left out. It changes no invoice and no grant, and would multiply the
  states of `shared`.
* Passes over many rows are one action per row; each row is its own statement or
  is untouched by the others.
* The kinds of anomaly are merged: `ORPHAN_PAYMENT`, `UNASSIGNED_PAYMENT` and the
  wrong-asset kinds go the same way through the settler.
* `RateLockUntil` and `TopupUntil` are the same for all invoices of an instance.
* In `Settlement` `/resolve` takes effect at once; its way there is `AdminQueue`.
  The commands that only read are left out.
* In `AddressPool` a lifecycle request is open or gone: its lease and its attempts
  are in `AddressRequests`, and all that a failing one can do here is to
  disappear (`AskFails`). Reading the catalogue and taking the address are one
  step, so are inserting the payments and moving the checkpoint. The clock counts
  blocks. Reorganisations take back payments (`Revert`) but not blocks. There is
  one settler, as shipped: a second one could ask for the release of an address
  it has selected for the tenant before. `swept` is set by no code of the
  repository, and the two-phase reservation of `deriver/pool.py` has no caller.
* The watcher asks for the logs of a whole span in one request, which is what
  `LogChunks` shows `get_logs_chunked` to be; log decoding, native transfers by receipt and the
  cross-check with a second provider, which only logs, are left out. The finalized
  tag is the trunk.
* Time in the queue is one bit per request, whether its lease has lapsed. The
  retention of an hour outlasts the client's ten seconds by far: no answer is
  pruned while somebody still waits for it.
* `Providers` takes time in ticks and does not say when a request is answered;
  jitter and the length of a backoff are left out. `RateLimit` counts whole tokens
  and ticks, and the clocks of the notifiers agree.
* In `Quota` one user is alone: nothing of another one is read. `QuotaCache` has no
  caller that passes one.
* `Reconcile` has one asset; drift cases are those of reconciliation only (a
  payment with an open case of another kind gets none).
* In `ProofQueue` somebody who can write rows has no key. Whoever has one is
  outside of what `/verify` promises.
* The cryptography: whether a MAC verifies is a Boolean.

Not modelled: the bot and the web api, which render what the others decide and
keep no state that interacts; rates and payment links, pure conversions of data;
log redaction; roles, grants and the triggers of `audit_log`; metrics.

## 8. Plan

Done: all modules of section 2, and a proof of every safety invariant and every
action property that a run checks.

Left: what is listed as only model-checked in section 5.

Questions to the models that are open: a payment recorded between the two
statements of the sweep expires with its invoice; the balance after a reorg and a
second grant is credited twice. Both are in the models, and no property is stated
for them, because no document of the repository says what should hold.

The number of runs is kept small: a new question is added to the instance that
already has the behaviour in it, and gets a run of its own only when it needs
another instance.
