---------------------------- MODULE AddressPool ----------------------------
(***************************************************************************)
(* The receive addresses: deriver/pool.py under create_invoice and under   *)
(* the lifecycle requests of the settler, and the watcher that looks for   *)
(* money on them.                                                          *)
(*                                                                         *)
(* Four parties share receive_addresses and none of them sees the others:  *)
(* the deriver reserves, releases and latches, the settler reads who is    *)
(* done and asks, the watcher reads whom to watch and later binds what it  *)
(* found, and the buyer pays whenever he likes.  What one has read may be  *)
(* old when it acts.                                                       *)
(*                                                                         *)
(* Time is counted in blocks: now is the clock and the head of the chain.  *)
(* ever_funded is the status "funded": SQL_MARK_FUNDED sets both, and no   *)
(* statement of the repository takes either back.                          *)
(*                                                                         *)
(* Where a definition stands directly before another one of the same       *)
(* parameters it is a plausible slip in it, which a property must notice.  *)
(***************************************************************************)
EXTENDS Integers, FiniteSets

CONSTANTS
    Derivers, Settlers, \* processes
    Transfers,          \* transfers on the chain
    MaxAddresses,       \* bound: addresses derived
    MaxInvoices,        \* bound: invoices issued
    MaxTime,            \* bound: blocks mined
    MaxFailures,        \* bound: requests that end unserved
    MaxActive,          \* hd_accounts.max_active_addresses
    Window,             \* invoice_ttl + topup_window
    Cooldown,           \* DEFAULT_ADDRESS_COOLDOWN
    MaxLag              \* assumption: how far the watcher is behind at most

ASSUME PoolAssumption ==
    /\ MaxAddresses \in Nat \ {0} /\ MaxInvoices \in Nat /\ MaxTime \in Nat /\ MaxFailures \in Nat
    /\ MaxActive \in Nat \ {0} /\ Window \in Nat /\ Cooldown \in Nat /\ MaxLag \in Nat
    /\ MaxLag <= Cooldown       \* an hour, against seconds

Addresses == 0..MaxAddresses - 1        \* by derivation_index
Invoices == 1..MaxInvoices              \* in the order of issue
NoInvoice == 0
NoTime == -1                            \* cooldown_until IS NULL

VARIABLES
    pool,       \* receive_addresses
    nextIndex,  \* hd_accounts.next_index
    invoice,    \* invoices
    order,      \* the open transaction of create_invoice in each deriver
    asks,       \* the open address_lifecycle_requests
    pass,       \* what each settler has selected and not yet asked for
    failures,
    transfer,   \* transfers: on the chain, and in payments once recorded
    indexed,    \* chains.last_indexed_block
    watch,      \* the watcher's step: head read, filter loaded
    now

poolVars == <<pool, nextIndex, invoice, order>>
askVars == <<asks, pass, failures>>
chainVars == <<transfer, indexed, watch, now>>
vars == <<poolVars, askVars, chainVars>>

\* The rows.  from is reserved_from_block.
AddressStatuses == {"underived", "free", "reserved", "funded"}
PoolRows == [status: AddressStatuses, tenant: Invoices \union {NoInvoice},
             from: Nat, cooldown: Nat \union {NoTime}]
NoRow == [status |-> "underived", tenant |-> NoInvoice, from |-> 0, cooldown |-> NoTime]
FreeRow == [NoRow EXCEPT !.status = "free"]

\* live: awaiting, seen or partially_paid.  closed: expired or cancelled, for
\* good.  since is the moment create_invoice read the clock.
InvoiceStatuses == {"none", "live", "review", "settled", "closed"}
InvoiceRows == [status: InvoiceStatuses, address: Addresses, since: Nat]
NotIssued == [status |-> "none", address |-> 0, since |-> 0]

\* counting: the pool was empty, count is what the statement saw before it
\* waits for the account row.  bound: the row is taken, or derived (fresh).
Orders == [phase: {"idle", "counting", "bound"}, address: Addresses, fresh: BOOLEAN,
           count: Nat, from: Nat, since: Nat]
NoOrder == [phase |-> "idle", address |-> 0, fresh |-> FALSE, count |-> 0, from |-> 0, since |-> 0]

Asks == [address: Addresses, action: {"release"}, until: Nat]
        \union [address: Addresses, action: {"mark_funded"}, until: {NoTime}]

\* payee is the invoice the buyer wants to pay (a fact no column knows), invoice
\* the one the payment row is bound to.
TransferStates == {"unsent", "mined", "recorded", "reverted", "missed"}
TransferRows == [state: TransferStates, payee: Invoices \union {NoInvoice}, address: Addresses,
                 block: Nat, invoice: Invoices \union {NoInvoice}]
Unsent == [state |-> "unsent", payee |-> NoInvoice, address |-> 0, block |-> 0, invoice |-> NoInvoice]

TopupUntil(i) == invoice[i].since + Window
Taken(a) == \E d \in Derivers : order[d].phase = "bound" /\ order[d].address = a
Rows(statuses) == {a \in Addresses : pool[a].status \in statuses}
PaymentsOn(a) == {t \in Transfers :
                    transfer[t].state \in {"recorded", "reverted"} /\ transfer[t].address = a}
MoneyOn(a) == {t \in PaymentsOn(a) : transfer[t].state = "recorded"}

PoolTypeOK ==
    /\ pool \in [Addresses -> PoolRows] /\ nextIndex \in 0..MaxAddresses
    /\ \A a \in Addresses : /\ pool[a].status = "underived" <=> a >= nextIndex   \* none is skipped
                            /\ pool[a].status = "free" => pool[a] = FreeRow
    /\ invoice \in [Invoices -> InvoiceRows]
    /\ order \in [Derivers -> Orders]
    /\ asks \subseteq Asks /\ pass \in [Settlers -> SUBSET Asks]
    /\ failures \in 0..MaxFailures
    /\ transfer \in [Transfers -> TransferRows]
    /\ indexed \in 0..now /\ now \in 0..MaxTime
    /\ watch \in [phase: {"idle", "head", "filter"}, target: 0..now, filter: SUBSET Addresses]

PoolInit ==
    /\ pool = [a \in Addresses |-> NoRow] /\ nextIndex = 0
    /\ invoice = [i \in Invoices |-> NotIssued]
    /\ order = [d \in Derivers |-> NoOrder]
    /\ asks = {} /\ pass = [s \in Settlers |-> {}] /\ failures = 0
    /\ transfer = [t \in Transfers |-> Unsent]
    /\ indexed = 0 /\ now = 0
    /\ watch = [phase |-> "idle", target |-> 0, filter |-> {}]

-----------------------------------------------------------------------------
\* create_invoice, from reading the catalogue to the commit

\* SQL_TAKE_FREE_FROM_POOL: SKIP LOCKED passes over what another one has taken.
\* A free row has no cooldown: SQL_RELEASE_DUE clears it.
Takeable == {a \in Rows({"free"}) : ~Taken(a)}
Lowest(a, S) == a \in S /\ \A b \in S : a <= b

\* reserve_address_for_invoice: pool first; else _derive_new_address, whose
\* SQL_LOCK_ACCOUNT counts the reserved rows when it starts, and then waits.
Reserve(d) ==
    /\ order[d].phase = "idle" /\ \E i \in Invoices : invoice[i].status = "none"
    /\ \/ \E a \in Addresses :
             /\ Lowest(a, Takeable)
             /\ order' = [order EXCEPT ![d] =
                    [NoOrder EXCEPT !.phase = "bound", !.address = a,
                                    !.from = indexed, !.since = now]]
       \/ /\ Takeable = {}
          /\ order' = [order EXCEPT ![d] =
                    [NoOrder EXCEPT !.phase = "counting", !.count = Cardinality(Rows({"reserved"})),
                                    !.from = indexed, !.since = now]]
    /\ UNCHANGED <<pool, nextIndex, invoice, askVars, chainVars>>

AccountLocked == \E d \in Derivers : order[d].phase = "bound" /\ order[d].fresh

\* _derive_new_address once it has the account row: the ceiling, the index.
AtCeiling(d) == order[d].count >= MaxActive

Derive(d) ==
    /\ order[d].phase = "counting" /\ ~AccountLocked /\ ~AtCeiling(d)
    /\ nextIndex < MaxAddresses
    /\ order' = [order EXCEPT ![d].phase = "bound", ![d].fresh = TRUE, ![d].address = nextIndex]
    /\ UNCHANGED <<pool, nextIndex, invoice, askVars, chainVars>>

\* AddressPoolExhausted, a quota, an address that does not verify, a lost lease,
\* a dead process: everything is undone.
Rollback(d) ==
    /\ order[d].phase # "idle"
    /\ order' = [order EXCEPT ![d] = NoOrder]
    /\ UNCHANGED <<pool, nextIndex, invoice, askVars, chainVars>>

\* The commit: row, index and invoice at once, if uq_invoices_active_address
\* has no objection.
ReservedRow(d, i) ==
    [status |-> "reserved", tenant |-> i, from |-> order[d].from, cooldown |-> NoTime]
IndexAfterAny(d) == nextIndex + 1
IndexAfter(d) == IF order[d].fresh THEN nextIndex + 1 ELSE nextIndex
Unissued == {i \in Invoices : invoice[i].status = "none"}
Commit(d) ==
    /\ order[d].phase = "bound"
    /\ \E i \in Invoices :
       /\ Lowest(i, Unissued)
       /\ \A j \in Invoices : invoice[j].status = "live" => invoice[j].address # order[d].address
       /\ pool' = [pool EXCEPT ![order[d].address] = ReservedRow(d, i)]
       /\ invoice' = [invoice EXCEPT ![i] =
              [status |-> "live", address |-> order[d].address, since |-> order[d].since]]
    /\ nextIndex' = IndexAfter(d)
    /\ order' = [order EXCEPT ![d] = NoOrder]
    /\ UNCHANGED <<askVars, chainVars>>

-----------------------------------------------------------------------------
\* sync_address_lifecycle

Asked(a, action) == \E ask \in asks : ask.address = a /\ ask.action = action

\* SQL_ADDRESSES_NEEDING_FUNDED_LATCH
LatchCandidatesReserved ==
    {[address |-> a, action |-> "mark_funded", until |-> NoTime] :
        a \in {b \in Rows({"reserved"}) : MoneyOn(b) # {} /\ ~Asked(b, "mark_funded")}}
LatchCandidates ==
    {[address |-> a, action |-> "mark_funded", until |-> NoTime] :
        a \in {b \in Rows({"free", "reserved"}) : MoneyOn(b) # {} /\ ~Asked(b, "mark_funded")}}

\* GREATEST(topup_window_until, now()) + cooldown
CooldownFromNow(i) == now + Cooldown
CooldownUntil(i) == IF TopupUntil(i) > now THEN TopupUntil(i) + Cooldown ELSE now + Cooldown

\* SQL_ADDRESSES_READY_FOR_RELEASE
ReleasablePaid(a) ==
    /\ pool[a].status = "reserved" /\ pool[a].cooldown = NoTime
    /\ invoice[pool[a].tenant].status # "live" /\ ~Asked(a, "release")
Releasable(a) ==
    /\ pool[a].status = "reserved" /\ pool[a].cooldown = NoTime
    /\ invoice[pool[a].tenant].status # "live"
    /\ PaymentsOn(a) = {}
    /\ ~Asked(a, "release")
ReleaseCandidates ==
    {[address |-> a, action |-> "release", until |-> CooldownUntil(pool[a].tenant)] :
        a \in {b \in Addresses : Releasable(b)}}

SettlerReads(s) ==
    /\ pass[s] = {} /\ LatchCandidates \union ReleaseCandidates # {}
    /\ pass' = [pass EXCEPT ![s] = LatchCandidates \union ReleaseCandidates]
    /\ UNCHANGED <<poolVars, asks, failures, chainVars>>

\* ON CONFLICT DO NOTHING on uq_address_lifecycle_open_per_action
SettlerAsks(s) ==
    /\ pass[s] # {}
    /\ asks' = asks \union {ask \in pass[s] : ~Asked(ask.address, ask.action)}
    /\ pass' = [pass EXCEPT ![s] = {}]
    /\ UNCHANGED <<poolVars, failures, chainVars>>

-----------------------------------------------------------------------------
\* The deriver between two orders

\* SQL_MARK_FUNDED, SQL_SCHEDULE_RELEASE: anything else is a noop.
Applied(ask) ==
    LET row == pool[ask.address] IN
    CASE ask.action = "mark_funded" -> [row EXCEPT !.status = "funded"]
      [] ask.action = "release" /\ row.status = "reserved" -> [row EXCEPT !.cooldown = ask.until]
      [] OTHER -> row

\* serve_one_address_request, the change and complete in one transaction; an
\* UPDATE waits for a row that an order has taken.
ServeAsk(d, ask) ==
    /\ order[d].phase = "idle" /\ ~Taken(ask.address)
    /\ pool' = [pool EXCEPT ![ask.address] = Applied(ask)]
    /\ asks' = asks \ {ask}
    /\ UNCHANGED <<nextIndex, invoice, order, pass, failures, chainVars>>

\* The request is abandoned, by its last attempt or by the sweep of its queue.
AskFails(ask) ==
    /\ failures < MaxFailures
    /\ failures' = failures + 1
    /\ asks' = asks \ {ask}
    /\ UNCHANGED <<poolVars, pass, chainVars>>

\* SQL_RELEASE_DUE
Due(a) ==
    /\ pool[a].status = "reserved" /\ pool[a].cooldown # NoTime /\ pool[a].cooldown <= now
    /\ invoice[pool[a].tenant].status # "live"

\* release_due_everywhere
ReleaseDue(d) ==
    /\ order[d].phase = "idle" /\ \E a \in Addresses : Due(a)
    /\ pool' = [a \in Addresses |-> IF Due(a) THEN FreeRow ELSE pool[a]]
    /\ UNCHANGED <<nextIndex, invoice, order, askVars, chainVars>>

-----------------------------------------------------------------------------
\* The settler's verdicts, as far as this table can tell them apart

Bound(i, state) == \E t \in Transfers : transfer[t].invoice = i /\ transfer[t].state = state
Verdicts(i) ==
    CASE invoice[i].status = "live" /\ Bound(i, "recorded") -> {"review", "settled", "closed"}
      [] invoice[i].status = "live" -> {"closed"}
      [] invoice[i].status = "review" -> {"settled", "closed"}
      [] invoice[i].status = "settled" /\ Bound(i, "reverted") -> {"live"}
      [] OTHER -> {}
SettlerDecides(i) ==
    /\ \E status \in Verdicts(i) : invoice' = [invoice EXCEPT ![i].status = status]
    /\ UNCHANGED <<pool, nextIndex, order, askVars, chainVars>>

\* handle_reorg takes a payment back.
Revert(t) ==
    /\ transfer[t].state = "recorded"
    /\ transfer' = [transfer EXCEPT ![t].state = "reverted"]
    /\ UNCHANGED <<poolVars, askVars, indexed, watch, now>>

-----------------------------------------------------------------------------
\* The chain and the watcher

\* A block, with the transfer of somebody who has once seen an address or with
\* none.  The watcher keeps up.
Pays(t, i) ==
    /\ transfer[t].state = "unsent" /\ invoice[i].status # "none"
    /\ transfer' = [transfer EXCEPT ![t] =
           [state |-> "mined", payee |-> i, address |-> invoice[i].address,
            block |-> now + 1, invoice |-> NoInvoice]]
NextBlock ==
    /\ now < MaxTime /\ now - indexed < MaxLag
    /\ now' = now + 1
    /\ UNCHANGED transfer \/ \E t \in Transfers, i \in Invoices : Pays(t, i)
    /\ UNCHANGED <<poolVars, askVars, indexed, watch>>

\* step: block_number first ...
ReadHead ==
    /\ watch.phase = "idle" /\ indexed < now
    /\ watch' = [watch EXCEPT !.phase = "head", !.target = now]
    /\ UNCHANGED <<poolVars, askVars, transfer, indexed, now>>

\* ... load_watched_addresses after it ...
Watched == Rows({"reserved", "funded"})
LoadFilter ==
    /\ watch.phase = "head"
    /\ watch' = [watch EXCEPT !.phase = "filter", !.filter = Watched]
    /\ UNCHANGED <<poolVars, askVars, transfer, indexed, now>>

\* ... the logs last: SQL_INSERT_PAYMENT binds by the row of that moment.
BoundTo(t) ==
    LET row == pool[transfer[t].address] IN
    IF transfer[t].block >= row.from THEN row.tenant ELSE NoInvoice
Found(t) ==
    IF transfer[t].state # "mined" \/ transfer[t].block > watch.target THEN transfer[t]
    ELSE IF transfer[t].address \notin watch.filter THEN [transfer[t] EXCEPT !.state = "missed"]
    ELSE [transfer[t] EXCEPT !.state = "recorded", !.invoice = BoundTo(t)]
ReadLogs ==
    /\ watch.phase = "filter"
    /\ transfer' = [t \in Transfers |-> Found(t)]
    /\ indexed' = watch.target
    /\ watch' = [phase |-> "idle", target |-> 0, filter |-> {}]
    /\ UNCHANGED <<poolVars, askVars, now>>

-----------------------------------------------------------------------------
Deriver(d) == \/ Reserve(d) \/ Derive(d) \/ Rollback(d) \/ Commit(d) \/ ReleaseDue(d)
              \/ \E ask \in asks : ServeAsk(d, ask)

PoolNext ==
    \/ \E d \in Derivers : Deriver(d)
    \/ \E s \in Settlers : SettlerReads(s) \/ SettlerAsks(s)
    \/ \E ask \in asks : AskFails(ask)
    \/ \E i \in Invoices : SettlerDecides(i)
    \/ \E t \in Transfers : Revert(t)
    \/ NextBlock \/ ReadHead \/ LoadFilter \/ ReadLogs

PoolSpec == PoolInit /\ [][PoolNext]_vars

\* The processes run: the settlers pass again and again, an order ends, and
\* between orders some deriver comes back to the queue of requests.
PoolFairSpec ==
    /\ PoolSpec
    /\ WF_vars(\E s \in Settlers : SettlerReads(s) \/ SettlerAsks(s))
    /\ \A d \in Derivers : WF_vars(Rollback(d) \/ Commit(d))
    /\ SF_vars(\E d \in Derivers, ask \in asks : ServeAsk(d, ask))

-----------------------------------------------------------------------------
\* A live invoice has its address to itself: the row names it as the tenant, so
\* what is paid there is bound to it and the row is in nobody else's reach.
TenantKeepsAddress ==
    \A i \in Invoices : invoice[i].status = "live" =>
        /\ pool[invoice[i].address].tenant = i
        /\ pool[invoice[i].address].status \in {"reserved", "funded"}

\* The cooldown keeps "the two tenancies apart in time": what a buyer sends
\* before his top-up window ends is found, and is bound to his invoice, however
\* the release of his address and the watcher's step interleave.
InTimeIsCredited ==
    \A t \in Transfers :
        transfer[t].state \in {"recorded", "reverted", "missed"}
          /\ transfer[t].block <= TopupUntil(transfer[t].payee)
        => transfer[t].state # "missed" /\ transfer[t].invoice = transfer[t].payee

\* README, T3: "a payment landing in an earlier block belongs to the previous
\* owner of that address", never to the invoice that reserved it later.
OldMoneyIsNotCredited ==
    \A t \in Transfers :
        transfer[t].invoice # NoInvoice => transfer[t].block > invoice[transfer[t].invoice].since

\* An address on which money was recorded is taken out of the pool for good,
\* also when it has been released or reserved again in the meantime.
MoneyIsLatched ==
    \A a \in Addresses : MoneyOn(a) # {} ~> (pool[a].status = "funded" \/ MoneyOn(a) = {})
=============================================================================
