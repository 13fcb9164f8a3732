----------------------------- MODULE Reconcile -----------------------------
(***************************************************************************)
(* /reconcile and /sweeplist (settler/admin/reconcile.py, sweeplist.py,    *)
(* balances.py): one asset's ledger against its chain.                     *)
(*                                                                         *)
(* The ledger is one statement; the balances are then read from a node,    *)
(* one address after the other, while transfers go on arriving, the        *)
(* settler goes on counting and the owner goes on sweeping.  A node may be *)
(* behind: what it misses is at most what is not yet deep enough to be     *)
(* counted.  A job is one transaction: an error leaves nothing behind.     *)
(*                                                                         *)
(* No code of the repository writes receive_addresses.swept_at; Marks is   *)
(* the owner doing so by hand.                                             *)
(***************************************************************************)
EXTENDS Integers, FiniteSets, FiniteSetsExt

CONSTANTS
    Accounts,       \* receive_addresses, numbered in derivation order
    Transfers,      \* transfers to them, numbered in block order
    AccountOf(_),   \* the address a transfer pays
    AmountOf,       \* its amount_raw
    DriftLimit      \* reconcile_drift_threshold_usd

ASSUME ReconcileAssumption ==
    /\ Accounts \subseteq Nat /\ Transfers \subseteq Nat
    /\ IsFiniteSet(Accounts) /\ IsFiniteSet(Transfers)
    /\ \A t \in Transfers : AccountOf(t) \in Accounts
    /\ AmountOf \in [Transfers -> Nat \ {0}]
    /\ DriftLimit \in Nat

VARIABLES
    onChain,    \* transfer -> "none", "fresh", "deep", "orphaned", "swept"
    booked,     \* transfer -> its payments row: "none", "seen", "counted", "reverted"
    marked,     \* the accounts whose swept_at is set
    quoted,     \* whether an invoice ever quoted the asset (a rate_snapshot exists)
    job,        \* "idle", "reconcile", "sweeplist"
    expected,   \* what the running job compares: account -> expected_raw
    actual,     \* what it has read so far: account -> balance
    report,     \* the ReconcileReport last returned: account -> [expected, actual]
    export,     \* the sweep list last returned: account -> balance_raw
    drifts,     \* the payments with an open reconcile_drift case
    figures     \* the dedup_keys of the drift messages ever queued

jobVars    == <<job, expected, actual>>
ledgerVars == <<onChain, booked, marked, quoted>>
resultVars == <<report, export, drifts, figures>>
reconcileVars == <<ledgerVars, jobVars, resultVars>>

Nothing == [a \in {} |-> 0]

Total(ts)  == SumFunctionOnSet(AmountOf, ts)
Paying(a)  == {t \in Transfers : AccountOf(t) = a}
HasRow(a)  == \E t \in Paying(a) : booked[t] # "none"

\* SQL_LEDGER_BY_ADDRESS: every account with a payment, and the sum of the
\* confirmed and credited ones.
Ledger == [a \in {b \in Accounts : HasRow(b)} |->
             Total({t \in Paying(a) : booked[t] = "counted"})]

\* SQL_SWEEP_CANDIDATES.  ever_funded is latched from a payment, so the
\* EXISTS half decides.
SweepCandidates == {a \in Accounts : a \notin marked /\ HasRow(a)}

ReconcileInit ==
    /\ onChain = [t \in Transfers |-> "none"] /\ booked = [t \in Transfers |-> "none"]
    /\ marked = {} /\ quoted = FALSE
    /\ job = "idle" /\ expected = Nothing /\ actual = Nothing
    /\ report = Nothing /\ export = Nothing /\ drifts = {} /\ figures = {}

(***************************************************************************)
(* The chain, the watcher, the settler and the owner, meanwhile.           *)
(***************************************************************************)
Moves(t) ==
    \/ onChain[t] = "none"  /\ onChain' = [onChain EXCEPT ![t] = "fresh"]
    \/ onChain[t] = "fresh" /\ onChain' = [onChain EXCEPT ![t] = "deep"]
    \/ onChain[t] \in {"fresh", "deep"} /\ onChain' = [onChain EXCEPT ![t] = "orphaned"]

Books(t) ==
    \/ /\ booked[t] = "none" /\ onChain[t] \in {"fresh", "deep"}
       /\ booked' = [booked EXCEPT ![t] = "seen"]
    \/ /\ booked[t] = "seen" /\ onChain[t] = "deep"
       /\ booked' = [booked EXCEPT ![t] = "counted"]
    \/ /\ booked[t] \in {"seen", "counted"} /\ onChain[t] = "orphaned"
       /\ booked' = [booked EXCEPT ![t] = "reverted"]

\* The owner works through the list offline: the account's money leaves it.
Sweeps(a) ==
    /\ \E t \in Paying(a) : onChain[t] = "deep"
    /\ onChain' = [t \in Transfers |->
                     IF AccountOf(t) = a /\ onChain[t] = "deep" THEN "swept" ELSE onChain[t]]

Marks(a) ==
    /\ a \notin marked /\ \E t \in Paying(a) : onChain[t] = "swept"
    /\ marked' = marked \union {a}

Meanwhile ==
    /\ \/ \E t \in Transfers : Moves(t) /\ UNCHANGED <<booked, marked, quoted>>
       \/ \E t \in Transfers : Books(t) /\ UNCHANGED <<onChain, marked, quoted>>
       \/ \E a \in Accounts : Sweeps(a) /\ UNCHANGED <<booked, marked, quoted>>
       \/ \E a \in Accounts : Marks(a) /\ UNCHANGED <<onChain, booked, quoted>>
       \/ ~quoted /\ quoted' = TRUE /\ UNCHANGED <<onChain, booked, marked>>
    /\ UNCHANGED <<jobVars, resultVars>>

\* The owner resolves a drift case.
Resolves(t) ==
    /\ t \in drifts /\ drifts' = drifts \ {t}
    /\ UNCHANGED <<ledgerVars, jobVars, report, export, figures>>

(***************************************************************************)
(* The two jobs.                                                           *)
(***************************************************************************)
\* reconcile reads the ledger first; a swept account is named, not compared.
ReconcileStarts ==
    /\ job = "idle" /\ job' = "reconcile"
    /\ expected' = [a \in DOMAIN Ledger \ marked |-> Ledger[a]]
    /\ actual' = Nothing /\ report' = Nothing /\ export' = Nothing
    /\ UNCHANGED <<ledgerVars, drifts, figures>>

SweeplistStarts ==
    /\ job = "idle" /\ job' = "sweeplist"
    /\ expected' = [a \in SweepCandidates |-> 0]
    /\ actual' = Nothing /\ report' = Nothing /\ export' = Nothing
    /\ UNCHANGED <<ledgerVars, drifts, figures>>

Unread == DOMAIN expected \ DOMAIN actual

\* RpcBalanceSource.balance_of at "latest", of a node that has not yet seen the
\* fresh transfers of `missed`.
BalanceSeen(a, missed) ==
    Total({t \in Paying(a) : onChain[t] = "deep" \/ (onChain[t] = "fresh" /\ t \notin missed)})

BalanceRead ==
    /\ job # "idle" /\ Unread # {}
    /\ LET a == Min(Unread) IN
       \E missed \in SUBSET {t \in Paying(a) : onChain[t] = "fresh"} :
          actual' = [b \in DOMAIN actual \union {a} |->
                       IF b = a THEN BalanceSeen(a, missed) ELSE actual[b]]
    /\ UNCHANGED <<ledgerVars, job, expected, resultVars>>

\* The pool gives up, or there is no contract at the address: the transaction is
\* rolled back and nothing is recorded.
JobRaises ==
    /\ job # "idle" /\ Unread # {}
    /\ job' = "idle" /\ expected' = Nothing /\ actual' = Nothing
    /\ UNCHANGED <<ledgerVars, resultVars>>

\* A slip: the ledger is read again when the balances are in.
ExpectedReread(a) == Total({t \in Paying(a) : booked[t] = "counted"})

\* What the job compares a balance with: the ledger it read first.
ExpectedOf(a) == expected[a]

Compared == [a \in DOMAIN expected |-> [expected |-> ExpectedOf(a), actual |-> actual[a]]]
DriftOf(r) == IF r.actual < r.expected THEN r.expected - r.actual ELSE r.actual - r.expected
Drifting   == {a \in DOMAIN Compared : DriftOf(Compared[a]) # 0}

\* Summed in absolute value, address by address: a surplus never pays for a
\* shortfall.
AbsoluteDrift == SumFunction([a \in DOMAIN Compared |-> DriftOf(Compared[a])])

\* _anchor_payment_id: the latest payment of the first drifting account that has one.
Anchor ==
    LET with == {a \in Drifting : HasRow(a)}
    IN IF with = {} THEN {}
       ELSE {Max({t \in Paying(Min(with)) : booked[t] # "none"})}

\* Compares, records, and above the limit opens a case (unless its payment has
\* one) and queues a message (unless the same figure was ever queued).  A drift
\* nobody can price raises UnknownRate and rolls everything back.
ReconcileEnds ==
    /\ job = "reconcile" /\ Unread = {}
    /\ job' = "idle" /\ expected' = Nothing /\ actual' = Nothing
    /\ IF AbsoluteDrift # 0 /\ ~quoted
         THEN UNCHANGED <<report, drifts, figures>>
         ELSE /\ report' = Compared
              /\ drifts' = IF AbsoluteDrift > DriftLimit THEN drifts \union Anchor ELSE drifts
              /\ figures' = IF AbsoluteDrift > DriftLimit
                              THEN figures \union {AbsoluteDrift} ELSE figures
    /\ UNCHANGED <<ledgerVars, export>>

\* Only what holds money reaches the file.
SweeplistEnds ==
    /\ job = "sweeplist" /\ Unread = {}
    /\ job' = "idle" /\ expected' = Nothing /\ actual' = Nothing
    /\ export' = [a \in {b \in DOMAIN actual : actual[b] > 0} |-> actual[a]]
    /\ UNCHANGED <<ledgerVars, report, drifts, figures>>

ReconcileNext ==
    \/ Meanwhile
    \/ \E t \in Transfers : Resolves(t)
    \/ ReconcileStarts \/ SweeplistStarts \/ BalanceRead \/ JobRaises
    \/ ReconcileEnds \/ SweeplistEnds

ReconcileSpec == ReconcileInit /\ [][ReconcileNext]_reconcileVars

(***************************************************************************)
(* Properties.                                                             *)
(***************************************************************************)
Partial(S, V) == UNION {[D -> V] : D \in SUBSET S}

ReconcileTypeOK ==
    /\ onChain \in [Transfers -> {"none", "fresh", "deep", "orphaned", "swept"}]
    /\ booked \in [Transfers -> {"none", "seen", "counted", "reverted"}]
    /\ marked \subseteq Accounts /\ quoted \in BOOLEAN
    /\ job \in {"idle", "reconcile", "sweeplist"}
    /\ DOMAIN expected \subseteq Accounts /\ DOMAIN actual \subseteq DOMAIN expected
    /\ DOMAIN report \subseteq Accounts /\ DOMAIN export \subseteq Accounts
    /\ drifts \subseteq Transfers /\ figures \subseteq Nat

\* A report never cries wolf: an account it finds short really lost money, to a
\* sweep or to a reorganisation, however many payments arrive and are counted
\* while the balances are being read (reconcile: the ledger before the chain).
ShortfallIsReal ==
    \A a \in DOMAIN report : report[a].actual < report[a].expected =>
        \E t \in Paying(a) : onChain[t] \in {"orphaned", "swept"}
=============================================================================
