------------------------------- MODULE Quota -------------------------------
(***************************************************************************)
(* How many invoices one user may have: core/invoicing/quotas.py inside    *)
(* create_invoice of core/invoicing/service.py.                            *)
(*                                                                         *)
(* A request whose lease lapsed is served twice, so two derivers can be at *)
(* work for one user.  Each takes its time first, then waits for the       *)
(* advisory lock of the user, then counts, and keeps the lock until it     *)
(* commits or rolls back.  The settler moves invoices meanwhile; it takes  *)
(* no such lock.                                                           *)
(*                                                                         *)
(* Where a definition stands directly before another one of the same       *)
(* parameters it is a plausible slip in it, which a property must notice.  *)
(***************************************************************************)
EXTENDS Integers, FiniteSets

CONSTANTS
    Issuers,            \* deriver processes
    MaxIssued,          \* bound: invoices
    MaxClock,           \* bound: the clock
    MaxActiveInvoices,  \* max_active_invoices_per_user
    MaxPerHour, Hour,   \* max_invoices_per_hour, quota_window
    StreakLimit, CooldownTime, \* expired_streak_limit, cooldown
    InvoiceTtl

Bills == 1..MaxIssued       \* in the order of their commits

ASSUME QuotaAssumption ==
    /\ MaxIssued \in Nat /\ MaxClock \in Nat
    /\ MaxActiveInvoices \in Nat \ {0} /\ MaxPerHour \in Nat \ {0} /\ Hour \in Nat
    /\ StreakLimit \in Nat \ {0} /\ CooldownTime \in Nat /\ InvoiceTtl \in Nat

VARIABLES
    bill,       \* invoices of the user
    order,      \* the open transaction of each deriver
    refusal,    \* the last answer, and what the user was first promised
    clock

quotaVars == <<bill, order, refusal, clock>>

Never == -1
BillRows == [status: {"none", "live", "paid", "expired", "cancelled"}, created: Int, returned: BOOLEAN]
NoBill == [status |-> "none", created |-> Never, returned |-> FALSE]

QuotaVerdicts == {"none", "cooldown", "active", "hourly"}

\* called: moment is taken, the lock is waited for.  counted: under the lock,
\* snapshot and enforce have decided.
QuotaOrders == [phase: {"idle", "called", "counted"}, moment: Int, verdict: QuotaVerdicts]
NoQuotaOrder == [phase |-> "idle", moment |-> Never, verdict |-> "none"]

\* at: the moment of the request.  retry: the deadline of the first cooldown since the last invoice.
Refusals == [reason: QuotaVerdicts, at: Int, retry: Int]
NotRefused == [reason |-> "none", at |-> Never, retry |-> Never]

Issued == {b \in Bills : bill[b].status # "none"}

QuotaTypeOK ==
    /\ bill \in [Bills -> BillRows]
    /\ order \in [Issuers -> QuotaOrders]
    /\ refusal \in Refusals
    /\ clock \in 0..MaxClock
    /\ \A b \in Issued : bill[b].created \in 0..clock
    /\ \A d \in Issuers : order[d].phase # "idle" => order[d].moment \in 0..clock

QuotaInit ==
    /\ bill = [b \in Bills |-> NoBill]
    /\ order = [d \in Issuers |-> NoQuotaOrder]
    /\ refusal = NotRefused
    /\ clock = 0

-----------------------------------------------------------------------------
\* snapshot

Live == {b \in Bills : bill[b].status = "live"}
LiveInWindow(moment) == {b \in Live : bill[b].created >= moment - Hour}
InWindow(moment) == {b \in Issued : bill[b].created >= moment - Hour}

\* SQL_RECENT_STATUSES and _expired_streak: the newest invoices, as long as they
\* expired.  The id decides between invoices of one instant.
Newer(a, b) == bill[a].created > bill[b].created \/ (bill[a].created = bill[b].created /\ a > b)
ExpiredRun == {b \in Issued : \A a \in Issued : a = b \/ Newer(a, b) => bill[a].status = "expired"}
ExpiredStreak == IF Cardinality(ExpiredRun) < StreakLimit THEN Cardinality(ExpiredRun) ELSE StreakLimit

-----------------------------------------------------------------------------
\* create_invoice

Call(d) ==
    /\ order[d].phase = "idle" /\ Issued # Bills
    /\ order' = [order EXCEPT ![d] = [NoQuotaOrder EXCEPT !.phase = "called", !.moment = clock]]
    /\ UNCHANGED <<bill, refusal, clock>>

\* lock_user, to the end of the transaction.
LockIgnored(d) == TRUE
LockFree(d) == \A e \in Issuers : order[e].phase # "counted"

\* snapshot and enforce, from most to least sticky.  cooldown_until is written in
\* the transaction that the refusal rolls back, so no later snapshot reads one.
Streaked == ExpiredStreak >= StreakLimit
Enforced(moment) ==
    CASE Streaked -> "cooldown"
      [] ~Streaked /\ Cardinality(Live) >= MaxActiveInvoices -> "active"
      [] ~Streaked /\ Cardinality(Live) < MaxActiveInvoices
            /\ Cardinality(InWindow(moment)) >= MaxPerHour -> "hourly"
      [] OTHER -> "none"

Snapshot(d) ==
    /\ order[d].phase = "called" /\ LockFree(d)
    /\ order' = [order EXCEPT ![d].phase = "counted", ![d].verdict = Enforced(order[d].moment)]
    /\ UNCHANGED <<bill, refusal, clock>>

FirstRetry(o) ==
    IF o.verdict = "cooldown" /\ refusal.retry = Never THEN o.moment + CooldownTime ELSE refusal.retry

Refuse(d) ==
    /\ order[d].phase = "counted" /\ order[d].verdict # "none"
    /\ refusal' = [reason |-> order[d].verdict, at |-> order[d].moment,
                   retry |-> FirstRetry(order[d])]
    /\ order' = [order EXCEPT ![d] = NoQuotaOrder]
    /\ UNCHANGED <<bill, clock>>

NextBill(b) == b \notin Issued /\ \A a \in 1..b - 1 : a \in Issued

\* The insert with created_at = moment, and the commit.
Insert(d) ==
    /\ order[d].phase = "counted" /\ order[d].verdict = "none"
    /\ \E b \in Bills :
       /\ NextBill(b)
       /\ bill' = [bill EXCEPT ![b] =
              [status |-> "live", created |-> order[d].moment, returned |-> FALSE]]
    /\ refusal' = NotRefused
    /\ order' = [order EXCEPT ![d] = NoQuotaOrder]
    /\ UNCHANGED clock

\* A catalogue, an address ceiling, an address that does not verify, a lost
\* lease, a dead process.
Undo(d) ==
    /\ order[d].phase # "idle"
    /\ order' = [order EXCEPT ![d] = NoQuotaOrder]
    /\ UNCHANGED <<bill, refusal, clock>>

-----------------------------------------------------------------------------
\* The settler: money, deadlines, the owner, a reorganisation.
Becomes(b, status) == bill' = [bill EXCEPT ![b].status = status]
SettlerMoves(b) ==
    /\ \/ bill[b].status = "live" /\ (Becomes(b, "paid") \/ Becomes(b, "cancelled"))
       \/ bill[b].status = "live" /\ clock > bill[b].created + InvoiceTtl /\ Becomes(b, "expired")
       \/ /\ bill[b].status = "paid"
          /\ bill' = [bill EXCEPT ![b].status = "live", ![b].returned = TRUE]
    /\ UNCHANGED <<order, refusal, clock>>

ClockTicks == clock < MaxClock /\ clock' = clock + 1 /\ UNCHANGED <<bill, order, refusal>>

QuotaNext ==
    \/ \E d \in Issuers : Call(d) \/ Snapshot(d) \/ Refuse(d) \/ Insert(d) \/ Undo(d)
    \/ \E b \in Bills : SettlerMoves(b)
    \/ ClockTicks

QuotaSpec == QuotaInit /\ [][QuotaNext]_quotaVars

-----------------------------------------------------------------------------
\* "Two simultaneous /buy presses": however many derivers work for one user, he has
\* no more live invoices than the limit, not counting those a reorganisation gave
\* back.
ActiveHolds == Cardinality({b \in Live : ~bill[b].returned}) <= MaxActiveInvoices

\* No hour, whenever it begins, has more invoices than the quota, although they are
\* dated before the lock is waited for.
HourlyHolds ==
    \A start \in 0..MaxClock :
        Cardinality({b \in Issued : bill[b].created \in start..start + Hour}) <= MaxPerHour

\* Both limits of one user, for any number of derivers at work on his requests.
QuotaHolds == ActiveHolds /\ HourlyHolds

\* errors.py: "the cooldown lapses on its own": who comes back after the time he was
\* first given is not told of a cooldown again.
CooldownLapses == refusal.reason = "cooldown" => refusal.at < refusal.retry
=============================================================================
