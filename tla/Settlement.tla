----------------------------- MODULE Settlement -----------------------------
(***************************************************************************)
(* The settler: settler/service.py over settler/repository.py, the owner's *)
(* decisions of settler/admin/reviews.py, and the passes of                *)
(* settler/main.py, over the tables the watcher writes.                    *)
(*                                                                         *)
(* PostgreSQL runs at READ COMMITTED.  A transaction whose statements see  *)
(* different states is modelled by two steps: one that reads and takes row *)
(* locks, recorded in tx[w], and one that writes and commits.  A worker    *)
(* that dies in between loses the transaction (Abort).  Transactions that  *)
(* no other one can tell from an instant are single steps.                 *)
(*                                                                         *)
(* Where a definition stands directly before another one of the same       *)
(* parameters it is a plausible slip in it, which a property must notice.  *)
(***************************************************************************)
EXTENDS MoneyPolicy, ChainIndex, Sequences, Functions

CONSTANTS
    Invoices, Payments,
    Workers,        \* settler processes; one in the shipped deployment
    InvoiceOf,      \* payments.invoice_id, NoInvoice for an anomalous transfer
    Amount, Due,
    Tamperable,     \* invoices whose row may be changed behind the application
    OwnerActs,      \* whether the owner issues /resolve in this instance
    RateLockUntil, TopupUntil,
    MaxTime,        \* bound of the clock
    NoInvoice, NoPayment

\* The watcher binds a payment exactly when it finds no anomaly in it
\* (SQL_INSERT_PAYMENT), so an anomalous payment is one with no invoice.
ASSUME SettlementAssumption ==
    /\ InvoiceOf \in [Payments -> Invoices \union {NoInvoice}]
    /\ Amount \in [Payments -> Nat \ {0}]
    /\ Due \in [Invoices -> Nat \ {0}]
    /\ NoInvoice \notin Invoices /\ NoPayment \notin Payments
    /\ Tamperable \subseteq Invoices /\ OwnerActs \in BOOLEAN
    /\ RateLockUntil \in Nat /\ TopupUntil \in Nat /\ MaxTime \in Nat
    /\ RateLockUntil <= TopupUntil
ASSUME FinitelyManyPayments == IsFiniteSet(Payments)

VARIABLES
    now,            \* the database clock
    invoice,        \* invoices.status
    macOk,          \* whether invoices.integrity_mac still verifies
    payStatus, payBlock, seenNotified,  \* rows of payments
    entitlements,   \* rows of entitlements by id, with the money counted
    outbox,         \* rows of notifications, by their unique key
    balance,        \* users.internal_balance_usd, by the invoice it came from
    refund,         \* amount of the pending row of refunds, 0 if there is none
    reviews,        \* open rows of manual_reviews
    resolved,       \* history: cases the owner has closed
    tx              \* what each worker's open transaction has read

ledgerVars == <<payStatus, payBlock, seenNotified>>
moneyVars  == <<invoice, entitlements, outbox, balance, refund, reviews, resolved>>
vars == <<chainVars, now, macOk, ledgerVars, moneyVars, tx>>

LiveStatuses    == {"awaiting", "partially_paid"}
SettledStatuses == {"paid", "overpaid"}
InvoiceStatuses == LiveStatuses \union SettledStatuses \union
                   {"expired", "manual_review", "cancelled", "reverted"}
ResolvableAnyClosed == LiveStatuses \union {"manual_review", "expired", "reverted"}
ResolvableStatuses == LiveStatuses \union {"manual_review"}

CreditableStatuses == {"confirmed", "credited"}
RevertibleStatuses == {"seen"} \union CreditableStatuses
PaymentStatuses    == RevertibleStatuses \union {"absent", "reverted"}

ReviewKinds == {"underpaid", "overpaid", "mac_failure", "anomaly"}
Reviews == [kind: ReviewKinds, invoice: Invoices \union {NoInvoice},
            payment: Payments \union {NoPayment}]

InvoiceCase(kind, i) == [kind |-> kind, invoice |-> i, payment |-> NoPayment]
AnomalyCase(p) == [kind |-> "anomaly", invoice |-> NoInvoice, payment |-> p]

Message(kind, ref, dedup) == [kind |-> kind, ref |-> ref, dedup |-> dedup]

SettleOutcomes == AmountOutcomes \union {"awaiting_confirmations", "integrity_failed"}
IdleTx == [op |-> "idle", invoice |-> NoInvoice, rows |-> {}, grants |-> {},
           outcome |-> "no_funds", started |-> 0]

EntitlementRows == [invoice: Invoices, basis: SUBSET Payments,
                    by: {"policy", "owner"}, revoked: BOOLEAN]

Transactions == [op: {"idle", "settle", "reorg", "sweep"},
                 invoice: Invoices \union {NoInvoice}, rows: SUBSET Payments,
                 grants: SUBSET (Nat \ {0}), outcome: SettleOutcomes, started: Nat]

-----------------------------------------------------------------------------
\* Reading the tables

SumOf(S) == SumFunctionOnSet(Amount, S)

PaymentsOf(i) == {p \in Payments : InvoiceOf[p] = i}
InvoicesOf(S) == {InvoiceOf[p] : p \in S} \ {NoInvoice}
MoneyOn(i)    == {p \in PaymentsOf(i) : payStatus[p] \in RevertibleStatuses}
Recorded(i)   == {p \in PaymentsOf(i) : payStatus[p] # "absent"}

ActiveIds(i) == {k \in DOMAIN entitlements :
                   entitlements[k].invoice = i /\ ~entitlements[k].revoked}
HasActiveOwnerOnly(i) == \E k \in ActiveIds(i) : entitlements[k].by = "owner"
HasActive(i) == ActiveIds(i) # {}

\* Row locks held by open transactions.
InvoiceFreeUnlocked(i) == TRUE
InvoiceFree(i) == \A v \in Workers : ~(tx[v].op = "settle" /\ tx[v].invoice = i)
LockedBy(v) == IF tx[v].op = "reorg" THEN tx[v].rows
               ELSE IF tx[v].op = "settle"
                    THEN {p \in tx[v].rows : payStatus[p] = "seen"}
                    ELSE {}
PaymentsFree(S, w) == \A v \in Workers \ {w} : S \intersect LockedBy(v) = {}

\* An INSERT into entitlements waits for an uncommitted revocation of the
\* grant it would collide with.
GrantFree(i) == \A v \in Workers : tx[v].op = "reorg" => ActiveIds(i) \intersect tx[v].grants = {}

\* open_manual_review: refused while the same case, or another one about the
\* same payment, is open.
WithCase(R, r) ==
    IF r \in R \/ (r.payment # NoPayment /\ \E q \in R : q.payment = r.payment)
    THEN R ELSE R \union {r}

Begin(w, op, i, rows, grants, outcome) ==
    tx' = [tx EXCEPT ![w] = [op |-> op, invoice |-> i, rows |-> rows,
                             grants |-> grants, outcome |-> outcome, started |-> now]]
Commit(w) == tx' = [tx EXCEPT ![w] = IdleTx]

-----------------------------------------------------------------------------
\* settle_invoice, first half: lock the invoice, read its payments and the
\* chain, promote what is deep enough, sum, decide.

\* The payments that count once the chain is deep enough over them.
DeepRows(i) ==
    LET needsFinality == NeedsFinality(SumOf(MoneyOn(i)))
        cutoff == CutoffHeight(head, needsFinality, FinalizedHead)
    IN  {p \in MoneyOn(i) : payBlock[p] <= cutoff}

SettleDecisionOnPending(i) ==
    IF macOk[i] THEN Classify(Due[i], SumOf(MoneyOn(i)), now <= TopupUntil)
    ELSE "integrity_failed"
SettleDecision(i) ==
    LET total      == SumOf(DeepRows(i))
        candidates == SumOf(MoneyOn(i))
        windowOpen == now <= TopupUntil
        outcome    == Classify(Due[i], total, windowOpen)
    IN  IF ~macOk[i] THEN "integrity_failed"
        ELSE IF /\ outcome \notin GrantingOutcomes
                /\ candidates > total
                /\ Grants(Due[i], candidates, windowOpen)
             THEN "awaiting_confirmations"
        ELSE outcome

\* SQL_SETTLE_CANDIDATES: live, with a payment still to be decided about.
SettleCandidate(i) ==
    /\ invoice[i] \in LiveStatuses
    /\ \E p \in PaymentsOf(i) : payStatus[p] \in {"seen", "confirmed"}

SettleBegin(w, i) ==
    /\ tx[w].op = "idle"
    /\ SettleCandidate(i)
    /\ InvoiceFree(i)
    /\ LET rows == IF macOk[i] THEN DeepRows(i) ELSE {}
       IN  /\ PaymentsFree({p \in rows : payStatus[p] = "seen"}, w)
           /\ Begin(w, "settle", i, rows, {}, SettleDecision(i))
    /\ UNCHANGED <<chainVars, now, macOk, ledgerVars, moneyVars>>

\* Second half: what the decision does, and the commit.

Settling(w, outcomes) == tx[w].op = "settle" /\ tx[w].outcome \in outcomes

\* promote_payment_to_confirmed on every seen row of the transaction.
PromotedStatus(rows) ==
    [p \in Payments |-> IF p \in rows /\ payStatus[p] = "seen"
                        THEN "confirmed" ELSE payStatus[p]]

\* promote, then credit_payment: compare-and-set from confirmed.
CreditedStatus(rows) ==
    [p \in Payments |-> IF p \in rows /\ payStatus[p] \in {"seen", "confirmed"}
                        THEN "credited" ELSE payStatus[p]]

NewGrant(i, rows, by) == [invoice |-> i, basis |-> rows, by |-> by, revoked |-> FALSE]

\* The only way a grant is written; a revoked row is never revived.
RevivedGrant(i, rows, by) ==
    IF \E k \in DOMAIN entitlements : entitlements[k].invoice = i
    THEN [k \in DOMAIN entitlements |->
            IF entitlements[k].invoice = i THEN NewGrant(i, rows, by) ELSE entitlements[k]]
    ELSE Append(entitlements, NewGrant(i, rows, by))
WithGrant(i, rows, by) == Append(entitlements, NewGrant(i, rows, by))

\* What the buyer sent beyond the price.
ExcessReversed(i, rows) == Due[i] - SumOf(rows)
Excess(i, rows) == SumOf(rows) - Due[i]

\* What a settlement adds to the outbox next to the entitlement.
SettledMessagesOncePerInvoice(i, id, outcome) ==
    {Message("invoice_settled", i, 1)}
SettledMessages(i, id, outcome) ==
    {Message("invoice_settled", i, id)}
    \union (IF outcome = "overpaid_credited" THEN {Message("overpaid_credited", i, id)} ELSE {})
    \union (IF outcome = "overpaid_refund_pending" THEN {Message("refund_pending", i, id)} ELSE {})

\* _apply_settlement
SettleGrant(w) ==
    LET i    == tx[w].invoice
        rows == tx[w].rows
        id   == Len(entitlements) + 1
        outcome == tx[w].outcome
        excess  == Excess(i, rows)
        overpaid == outcome \in {"overpaid_credited", "overpaid_refund_pending"}
    IN  /\ Settling(w, GrantingOutcomes)
        /\ PaymentsFree({p \in rows : payStatus[p] \in {"seen", "confirmed"}}, w)
        /\ GrantFree(i)
        /\ invoice' = [invoice EXCEPT ![i] = IF overpaid THEN "overpaid" ELSE "paid"]
        /\ payStatus' = CreditedStatus(rows)
        /\ IF HasActive(i)
           THEN UNCHANGED <<entitlements, outbox, balance, refund, reviews>>
           ELSE /\ entitlements' = WithGrant(i, rows, "policy")
                /\ outbox' = outbox \union SettledMessages(i, id, outcome)
                /\ balance' = IF /\ outcome = "overpaid_credited"
                                 /\ Message("overpaid_credited", i, id) \notin outbox
                              THEN [balance EXCEPT ![i] = @ + CreditableUsd(excess)]
                              ELSE balance
                /\ IF outcome = "overpaid_refund_pending"
                   THEN /\ refund' = IF refund[i] = 0
                                     THEN [refund EXCEPT ![i] = excess] ELSE refund
                        /\ reviews' = WithCase(reviews, InvoiceCase("overpaid", i))
                   ELSE UNCHANGED <<refund, reviews>>
        /\ Commit(w)
        /\ UNCHANGED <<chainVars, now, macOk, payBlock, seenNotified, resolved>>

\* _apply_partially_paid
SettlePartial(w) ==
    LET i == tx[w].invoice
    IN  /\ Settling(w, {"partially_paid"})
        /\ invoice' = [invoice EXCEPT ![i] = "partially_paid"]
        /\ payStatus' = PromotedStatus(tx[w].rows)
        /\ outbox' = outbox \union {Message("invoice_underpaid", i, SumOf(tx[w].rows))}
        /\ Commit(w)
        /\ UNCHANGED <<chainVars, now, macOk, payBlock, seenNotified,
                       entitlements, balance, refund, reviews, resolved>>

\* _apply_underpaid_manual_review
SettleUnderpaid(w) ==
    LET i == tx[w].invoice
    IN  /\ Settling(w, {"underpaid_manual_review"})
        /\ invoice' = [invoice EXCEPT ![i] = "manual_review"]
        /\ payStatus' = PromotedStatus(tx[w].rows)
        /\ reviews' = WithCase(reviews, InvoiceCase("underpaid", i))
        /\ outbox' = outbox \union {Message("invoice_manual_review", i, SumOf(tx[w].rows))}
        /\ Commit(w)
        /\ UNCHANGED <<chainVars, now, macOk, payBlock, seenNotified,
                       entitlements, balance, refund, resolved>>

\* _refuse_tampered_invoice
SettleRefuse(w) ==
    LET i == tx[w].invoice
    IN  /\ Settling(w, {"integrity_failed"})
        /\ invoice' = [invoice EXCEPT ![i] = "manual_review"]
        /\ reviews' = WithCase(reviews, InvoiceCase("mac_failure", i))
        /\ Commit(w)
        /\ UNCHANGED <<chainVars, now, macOk, ledgerVars,
                       entitlements, outbox, balance, refund, resolved>>

\* no_funds and awaiting_confirmations: only the promotions are kept.
SettleWait(w) ==
    /\ Settling(w, {"no_funds", "awaiting_confirmations"})
    /\ payStatus' = PromotedStatus(tx[w].rows)
    /\ Commit(w)
    /\ UNCHANGED <<chainVars, now, macOk, payBlock, seenNotified, moneyVars>>

-----------------------------------------------------------------------------
\* handle_reorg.  The revert and revoke statements run first and see what is
\* committed; the unsettle statement runs last and sees what is committed then.

Uprooted == {p \in Payments : /\ payStatus[p] \in RevertibleStatuses
                              /\ OrphanedAt(payBlock[p])
                              /\ ~CanonicalAt(payBlock[p])}

\* revoke_entitlements_for_invoices: every grant in force of the invoices.
GrantsOfAllReverted(S) ==
    UNION {ActiveIds(i) : i \in {j \in InvoicesOf(S) : MoneyOn(j) \subseteq S}}
GrantsOf(S) == UNION {ActiveIds(i) : i \in InvoicesOf(S)}

WithRevoked(S) == [k \in DOMAIN entitlements |->
    IF k \in S THEN [entitlements[k] EXCEPT !.revoked = TRUE] ELSE entitlements[k]]

\* The message that takes a delivery back.
Correction(k) == Message("entitlement_revoked", entitlements[k].invoice, k)

\* unsettle_invoices: the statuses that go back.
UnsettlesPaidOnly(i) == invoice[i] = "paid"
Unsettles(i) == invoice[i] \in SettledStatuses

ReorgBegin(w) ==
    LET grants == GrantsOf(Uprooted)
    IN  /\ tx[w].op = "idle"
        /\ Uprooted # {}
        /\ PaymentsFree(Uprooted, w)
        /\ \A v \in Workers : tx[v].op = "reorg" => grants \intersect tx[v].grants = {}
        /\ Begin(w, "reorg", NoInvoice, Uprooted, grants, "no_funds")
        /\ UNCHANGED <<chainVars, now, macOk, ledgerVars, moneyVars>>

ReorgCommit(w) ==
    LET affected == InvoicesOf(tx[w].rows)
        back == IF tx[w].started < TopupUntil THEN "awaiting" ELSE "reverted"
    IN  /\ tx[w].op = "reorg"
        /\ payStatus' = [p \in Payments |-> IF p \in tx[w].rows THEN "reverted"
                                            ELSE payStatus[p]]
        /\ entitlements' = WithRevoked(tx[w].grants)
        /\ invoice' = [i \in Invoices |->
               IF i \in affected /\ Unsettles(i) THEN back
               ELSE invoice[i]]
        /\ outbox' = outbox \union {Correction(k) : k \in tx[w].grants}
        /\ Commit(w)
        /\ UNCHANGED <<chainVars, now, macOk, payBlock, seenNotified,
                       balance, refund, reviews, resolved>>

-----------------------------------------------------------------------------
\* sweep_expired_invoices: the SELECT decides has_money, the UPDATE re-checks
\* the status and the deadline only.

SweepablePartialOnly(i) == invoice[i] = "partially_paid" /\ now > TopupUntil
Sweepable(i) == invoice[i] \in LiveStatuses /\ now > TopupUntil

SweepBegin(w, i) ==
    /\ tx[w].op = "idle"
    /\ Sweepable(i)
    /\ Begin(w, "sweep", i, MoneyOn(i), {}, "no_funds")
    /\ UNCHANGED <<chainVars, now, macOk, ledgerVars, moneyVars>>

SweepCommit(w) ==
    LET i == tx[w].invoice
        hasMoney == tx[w].rows # {}
        target == IF hasMoney THEN "manual_review" ELSE "expired"
    IN  /\ tx[w].op = "sweep"
        /\ InvoiceFree(i)
        /\ IF invoice[i] \in LiveStatuses
           THEN /\ invoice' = [invoice EXCEPT ![i] = target]
                /\ reviews' = IF hasMoney THEN WithCase(reviews, InvoiceCase("underpaid", i))
                              ELSE reviews
           ELSE UNCHANGED <<invoice, reviews>>
        /\ Commit(w)
        /\ UNCHANGED <<chainVars, now, macOk, ledgerVars,
                       entitlements, outbox, balance, refund, resolved>>

\* expire_stale_invoices: the emptiness test is repeated inside the UPDATE.
ExpireStale(i) ==
    /\ invoice[i] \in LiveStatuses
    /\ now > RateLockUntil
    /\ Recorded(i) = {}
    /\ InvoiceFree(i)
    /\ invoice' = [invoice EXCEPT ![i] = "expired"]
    /\ outbox' = outbox \union {Message("invoice_expired", i, "rate_lock")}
    /\ UNCHANGED <<chainVars, now, macOk, ledgerVars,
                   entitlements, balance, refund, reviews, resolved, tx>>

\* notify_seen_payments, one row of it.
NotifySeen(p) ==
    /\ payStatus[p] \in RevertibleStatuses
    /\ InvoiceOf[p] # NoInvoice
    /\ p \notin seenNotified
    /\ \A v \in Workers : p \notin LockedBy(v)
    /\ seenNotified' = seenNotified \union {p}
    /\ outbox' = outbox \union {Message("payment_seen", InvoiceOf[p], p)}
    /\ UNCHANGED <<chainVars, now, macOk, payStatus, payBlock,
                   invoice, entitlements, balance, refund, reviews, resolved, tx>>

\* SQL_UNREVIEWED_ANOMALOUS_PAYMENTS: whatever its status, an anomalous payment
\* that no open case mentions.
UnreviewedStanding(p) ==
    /\ payStatus[p] \in RevertibleStatuses
    /\ InvoiceOf[p] = NoInvoice
    /\ ~\E r \in reviews : r.payment = p
Unreviewed(p) ==
    /\ payStatus[p] # "absent"
    /\ InvoiceOf[p] = NoInvoice
    /\ ~\E r \in reviews : r.payment = p

\* review_anomalous_payments, one row of it.
ReviewAnomaly(p) ==
    /\ Unreviewed(p)
    /\ reviews' = WithCase(reviews, AnomalyCase(p))
    /\ UNCHANGED <<chainVars, now, macOk, ledgerVars,
                   invoice, entitlements, outbox, balance, refund, resolved, tx>>

-----------------------------------------------------------------------------
\* resolve_manual_review: the review and the invoice are locked, everything is
\* one transaction.  Any invoice lock held elsewhere is waited for.

CloseCase(R, r) == /\ reviews' = R \ {r}
                   /\ resolved' = resolved \union {r}

\* _apply_credit
ResolveCredit(r) ==
    LET i    == r.invoice
        rows == MoneyOn(i)
        id   == Len(entitlements) + 1
    IN  /\ i # NoInvoice
        /\ InvoiceFree(i) /\ GrantFree(i)
        /\ \A v \in Workers :
              {p \in rows : payStatus[p] \in {"seen", "confirmed"}} \intersect LockedBy(v) = {}
        /\ invoice' = IF invoice[i] \in ResolvableStatuses
                      THEN [invoice EXCEPT ![i] = "paid"] ELSE invoice
        /\ payStatus' = CreditedStatus(rows)
        /\ IF HasActive(i)
           THEN UNCHANGED <<entitlements, outbox>>
           ELSE /\ entitlements' = WithGrant(i, rows, "owner")
                /\ outbox' = outbox \union {Message("invoice_manual_credit", i, id)}
        /\ CloseCase(reviews, r)
        /\ UNCHANGED <<chainVars, now, macOk, payBlock, seenNotified,
                       balance, refund, tx>>

\* _apply_refund: what has been confirmed so far, one pending row per invoice.
ResolveRefund(r) ==
    LET i == r.invoice
        received == {p \in PaymentsOf(i) : payStatus[p] \in CreditableStatuses}
    IN  /\ i # NoInvoice
        /\ InvoiceFree(i)
        /\ received # {}
        /\ IF refund[i] # 0
           THEN UNCHANGED <<invoice, outbox, refund>>
           ELSE /\ refund' = [refund EXCEPT ![i] = SumOf(received)]
                /\ invoice' = IF invoice[i] \in ResolvableStatuses
                              THEN [invoice EXCEPT ![i] = "cancelled"] ELSE invoice
                /\ outbox' = outbox \union {Message("refund_requested", i, SumOf(received))}
        /\ CloseCase(reviews, r)
        /\ UNCHANGED <<chainVars, now, macOk, ledgerVars, entitlements, balance, tx>>

\* _apply_reject
ResolveReject(r) ==
    LET i == r.invoice
    IN  /\ i # NoInvoice => InvoiceFree(i)
        /\ IF i = NoInvoice
           THEN UNCHANGED <<invoice, outbox>>
           ELSE /\ invoice' = IF invoice[i] \in ResolvableStatuses
                              THEN [invoice EXCEPT ![i] = "cancelled"] ELSE invoice
                /\ outbox' = outbox \union {Message("invoice_rejected", i, r)}
        /\ CloseCase(reviews, r)
        /\ UNCHANGED <<chainVars, now, macOk, ledgerVars,
                       entitlements, balance, refund, tx>>

OwnerResolves ==
    /\ OwnerActs
    /\ \E r \in reviews : ResolveCredit(r) \/ ResolveRefund(r) \/ ResolveReject(r)

-----------------------------------------------------------------------------
\* The rest of the world: a crash, the clock, a tampered row, the watcher.

\* The process dies, or PostgreSQL breaks a deadlock: nothing was written.
Abort(w) ==
    /\ tx[w].op # "idle"
    /\ Commit(w)
    /\ UNCHANGED <<chainVars, now, macOk, ledgerVars, moneyVars>>

Tick ==
    /\ now < MaxTime
    /\ now' = now + 1
    /\ UNCHANGED <<chainVars, macOk, ledgerVars, moneyVars, tx>>

\* A change of an invoice row from outside waits for its row lock too.
Tamper(i) ==
    /\ i \in Tamperable /\ macOk[i]
    /\ InvoiceFree(i)
    /\ macOk' = [macOk EXCEPT ![i] = FALSE]
    /\ UNCHANGED <<chainVars, now, ledgerVars, moneyVars, tx>>

\* The forks of a height are named in the order they are met.
WatcherHeader(h, f, status) ==
    /\ WriteHeader(h, f, status)
    /\ \A g \in Forks : g < f => blocks[h][g] # "absent"
    /\ UNCHANGED <<now, macOk, ledgerVars, moneyVars, tx>>

\* insert_payments: a transfer in a block of the step being walked.  Further
\* sightings meet ON CONFLICT DO NOTHING.
WatcherPayment(p, h) ==
    /\ payStatus[p] = "absent"
    /\ (\E f \in Forks : blocks[h][f] # "absent") /\ h > head
    /\ payStatus' = [payStatus EXCEPT ![p] = "seen"]
    /\ payBlock' = [payBlock EXCEPT ![p] = h]
    /\ UNCHANGED <<chainVars, now, macOk, seenNotified, moneyVars, tx>>

WatcherMoves ==
    /\ \/ \E h \in 0..MaxHeight : SetCheckpoint(h)
       \/ \E h \in Heights : PromoteBlocks(h)
       \/ \E h \in 0..MaxHeight : OrphanAbove(h)
    /\ UNCHANGED <<now, macOk, ledgerVars, moneyVars, tx>>

-----------------------------------------------------------------------------
Init ==
    /\ ChainInit
    /\ now = 0
    /\ invoice = [i \in Invoices |-> "awaiting"]
    /\ macOk = [i \in Invoices |-> TRUE]
    /\ payStatus = [p \in Payments |-> "absent"]
    /\ payBlock = [p \in Payments |-> 0]
    /\ seenNotified = {}
    /\ entitlements = <<>>
    /\ outbox = {}
    /\ balance = [i \in Invoices |-> 0]
    /\ refund = [i \in Invoices |-> 0]
    /\ reviews = {} /\ resolved = {}
    /\ tx = [w \in Workers |-> IdleTx]

SettleCommit(w) == SettleGrant(w) \/ SettlePartial(w) \/ SettleUnderpaid(w)
                   \/ SettleRefuse(w) \/ SettleWait(w)

WorkerStep(w) ==
    \/ \E i \in Invoices : SettleBegin(w, i) \/ SweepBegin(w, i)
    \/ SettleCommit(w)
    \/ ReorgBegin(w) \/ ReorgCommit(w)
    \/ SweepCommit(w)
    \/ Abort(w)

SettlerPasses == \/ \E i \in Invoices : ExpireStale(i)
                 \/ \E p \in Payments : NotifySeen(p) \/ ReviewAnomaly(p)

Watcher == \/ \E h \in Heights, f \in Forks, s \in BlockStatus : WatcherHeader(h, f, s)
           \/ \E p \in Payments, h \in Heights : WatcherPayment(p, h)
           \/ WatcherMoves

Next == \/ \E w \in Workers : WorkerStep(w)
        \/ SettlerPasses
        \/ OwnerResolves
        \/ Tick
        \/ \E i \in Invoices : Tamper(i)
        \/ Watcher

Spec == Init /\ [][Next]_vars

\* The settler's loop runs its passes again and again and not every transaction
\* of a pass dies; nobody has to pay, to mine or to resolve.  A pass is reached
\* on every round, between other work of the same worker: strong fairness.
Fairness ==
    /\ WF_vars(Tick)
    /\ \A w \in Workers :
          /\ SF_vars(SettleCommit(w)) /\ SF_vars(ReorgCommit(w)) /\ SF_vars(SweepCommit(w))
          /\ \A i \in Invoices : SF_vars(SweepBegin(w, i))
    /\ \A p \in Payments : WF_vars(ReviewAnomaly(p))

FairSpec == Spec /\ Fairness

-----------------------------------------------------------------------------
\* Properties

\* Every variable keeps the type its column has.
TypeOK ==
    /\ ChainTypeOK
    /\ now \in 0..MaxTime
    /\ invoice \in [Invoices -> InvoiceStatuses]
    /\ macOk \in [Invoices -> BOOLEAN]
    /\ payStatus \in [Payments -> PaymentStatuses]
    /\ payBlock \in [Payments -> 0..MaxHeight]
    /\ seenNotified \subseteq Payments
    /\ entitlements \in Seq(EntitlementRows)
    /\ balance \in [Invoices -> Nat] /\ refund \in [Invoices -> Nat]
    /\ reviews \subseteq Reviews /\ resolved \subseteq Reviews
    /\ tx \in [Workers -> Transactions]

\* At most one grant per invoice is in force, however many settler passes and
\* owner decisions meet on it (README T2, entitlements_active_uniq).
OneActiveGrant == \A i \in Invoices : \A k, l \in ActiveIds(i) : k = l

\* An invoice shown as paid always has a grant in force: no interleaving of
\* settlement, reorg and owner leaves a buyer who paid without the product.
SettledHasGrant == \A i \in Invoices : invoice[i] \in SettledStatuses => HasActive(i)

\* A grant in force belongs to an invoice that counts as paid (handle_reorg
\* takes the grant and the status back together).
GrantIsSettled == \A i \in Invoices : HasActive(i) => invoice[i] \in SettledStatuses

\* The policy's grant in force stands on money that is still there and is
\* still enough: each payment that was counted is credited, and their sum is
\* within the underpayment tolerance (settle_invoice, handle_reorg).
Backed(k) ==
    LET e == entitlements[k]
    IN  /\ \A p \in e.basis : payStatus[p] = "credited" /\ InvoiceOf[p] = e.invoice
        /\ Grants(Due[e.invoice], SumOf(e.basis), TRUE)

GrantBacked == \A k \in DOMAIN entitlements :
    entitlements[k].by = "policy" /\ ~entitlements[k].revoked => Backed(k)

\* Every grant has exactly the messages its history calls for: one that
\* announces it, and a correction precisely when it was revoked (README 5.7,
\* the outbox is written by the transaction that decides).
Announcements(k) == {m \in outbox : /\ m.kind \in {"invoice_settled", "invoice_manual_credit"}
                                    /\ m.ref = entitlements[k].invoice /\ m.dedup = k}

AnnouncedOnce == \A k \in DOMAIN entitlements :
    /\ \E m \in Announcements(k) : Announcements(k) = {m}
    /\ entitlements[k].revoked <=> Correction(k) \in outbox

\* No late transaction reopens what is over: a sweep, a settlement or a reorg
\* that read the invoice before it was closed changes nothing afterwards, and
\* an invoice leaves manual review only when the owner closes a case about it.
Terminal == {"expired", "cancelled", "reverted"}
ClosedStaysClosed == [][\A i \in Invoices :
    /\ invoice[i] \in Terminal => invoice'[i] = invoice[i]
    /\ invoice[i] = "manual_review" /\ invoice'[i] # "manual_review" =>
          \E r \in reviews \ reviews' : r.invoice = i]_vars

\* The policy grants nothing on a row whose MAC no longer verifies (TZ T1.3),
\* although the check and the grant are different statements.
TamperedNeverGranted == [][\A i \in Invoices :
    ~macOk[i] => \A k \in DOMAIN entitlements' \ DOMAIN entitlements :
        entitlements'[k].invoice = i => entitlements'[k].by = "owner"]_vars

\* Whatever was granted is never erased: rows are only appended and only ever
\* change from in force to revoked (module docstring, point 4).
GrantHistoryKept == [][/\ Len(entitlements) <= Len(entitlements')
                       /\ \A k \in DOMAIN entitlements :
                            /\ entitlements[k].revoked => entitlements'[k] = entitlements[k]
                            /\ entitlements'[k].basis = entitlements[k].basis]_vars

\* Money that came in by mistake is always shown to the owner, also when a
\* reorganisation takes it away before the pass that reviews it gets there.
EveryAnomalyReviewed == \A p \in Payments :
    InvoiceOf[p] = NoInvoice /\ payStatus[p] # "absent" ~>
        \E r \in reviews \union resolved : r.payment = p

\* reviews.py says that a cancelled invoice is one which "will not deliver a
\* product", whatever other case about it is still open.
CancelledNeverDelivers == \A i \in Invoices : invoice[i] = "cancelled" => ~HasActive(i)

-----------------------------------------------------------------------------
\* What the tables say about the promise of module AccessPromise.

StageOf(i) == IF invoice[i] \in LiveStatuses THEN "open"
              ELSE IF invoice[i] \in SettledStatuses THEN "delivered"
              ELSE IF invoice[i] = "manual_review" THEN "with_human"
              ELSE "closed"

Abstract == INSTANCE AccessPromise WITH
    stage  <- [i \in Invoices |-> StageOf(i)],
    access <- [i \in Invoices |-> HasActive(i)]

\* One settler, and no owner command in flight, implements the promise: every
\* transaction of the tables is one act of the promise or none.
KeepsPromise == Abstract!PromiseSafety

\* No invoice waits for ever: under the settler's loop and the clock every one
\* ends up delivered, with the owner, or closed.
NothingStaysOpen == Abstract!PromiseLiveness
=============================================================================
