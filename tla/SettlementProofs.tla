-------------------------- MODULE SettlementProofs --------------------------
(***************************************************************************)
(* Theorems about the settler, for every number of invoices, payments,     *)
(* workers and blocks, and every value of the policy's constants.          *)
(*                                                                         *)
(* The invariants are strengthened as far as each argument needs:          *)
(*   TypeInv     TypeOK, and what an open transaction remembers            *)
(*   ReorgOK     a reorganisation under way revokes only grants of the     *)
(*               invoices it will take back                                *)
(*   NoneTooEarly   no message speaks of a grant that is not written yet   *)
(*   LockOK      what the invoice's row lock keeps still                   *)
(*   ReorgWhole, RowsCount   what the only transaction read is still so,   *)
(*               with a single settler and no owner command in flight      *)
(***************************************************************************)
EXTENDS Settlement, SumTheorems, SequenceTheorems, TLAPS

USE SettlementAssumption, ChainAssumption, PolicyAssumption

\* A sum of amounts is a natural number.
LEMMA SumsAreNatural == \A S \in SUBSET Payments : SumOf(S) \in Nat
<1> SUFFICES ASSUME NEW S \in SUBSET Payments PROVE SumOf(S) \in Nat
  OBVIOUS
<1>1. Counts(Amount, S)
  BY FinitelyManyPayments, FS_Subset DEF Counts
<1> QED
  BY <1>1, SumIsNatural DEF SumOf

\* A committed or lost transaction leaves an idle worker.
LEMMA CommitType ==
    ASSUME TypeOK, NEW w \in Workers, Commit(w)
    PROVE  tx' \in [Workers -> Transactions]
BY DEF TypeOK, Commit, IdleTx, Transactions, SettleOutcomes, AmountOutcomes

\* Opening a transaction keeps the type of tx.
LEMMA BeginType ==
    ASSUME TypeOK, NEW w \in Workers, NEW op \in {"settle", "reorg", "sweep"},
           NEW i \in Invoices \union {NoInvoice}, NEW rows \in SUBSET Payments,
           NEW grants \in SUBSET (Nat \ {0}), NEW outcome \in SettleOutcomes,
           Begin(w, op, i, rows, grants, outcome)
    PROVE  tx' \in [Workers -> Transactions]
BY DEF TypeOK, Begin, Transactions

\* A new grant is appended behind the ones there are, which stay as they were.
LEMMA GrantType ==
    ASSUME TypeOK, NEW i \in Invoices, NEW rows \in SUBSET Payments,
           NEW by \in {"policy", "owner"}
    PROVE  /\ WithGrant(i, rows, by) \in Seq(EntitlementRows)
           /\ Len(WithGrant(i, rows, by)) = Len(entitlements) + 1
           /\ \A k \in DOMAIN entitlements : WithGrant(i, rows, by)[k] = entitlements[k]
           /\ WithGrant(i, rows, by)[Len(entitlements) + 1] = NewGrant(i, rows, by)
<1>1. NewGrant(i, rows, by) \in EntitlementRows
  BY DEF NewGrant, EntitlementRows
<1> QED BY <1>1, AppendProperties DEF TypeOK, WithGrant

\* Revoking changes no other column, and no row that is revoked already.
LEMMA RevokeType ==
    ASSUME TypeOK, NEW S
    PROVE  /\ WithRevoked(S) \in Seq(EntitlementRows)
           /\ Len(WithRevoked(S)) = Len(entitlements)
           /\ \A k \in DOMAIN entitlements :
                 /\ WithRevoked(S)[k].invoice = entitlements[k].invoice
                 /\ WithRevoked(S)[k].basis = entitlements[k].basis
                 /\ WithRevoked(S)[k].by = entitlements[k].by
                 /\ WithRevoked(S)[k].revoked <=> k \in S \/ entitlements[k].revoked
                 /\ k \notin S \/ entitlements[k].revoked =>
                        WithRevoked(S)[k] = entitlements[k]
<1> DEFINE n == Len(entitlements)
           revoked == WithRevoked(S)
<1>1. entitlements \in [1..n -> EntitlementRows] /\ n \in Nat
  BY DEF TypeOK
<1>2. DOMAIN entitlements = 1..n
  BY <1>1
<1>3. revoked = [k \in 1..n |->
          IF k \in S THEN [entitlements[k] EXCEPT !.revoked = TRUE] ELSE entitlements[k]]
  BY <1>2 DEF WithRevoked
<1> HIDE DEF revoked, n
<1>4. \A k \in 1..n : entitlements[k] \in EntitlementRows
  BY <1>1
<1>5. revoked \in [1..n -> EntitlementRows]
  <2> SUFFICES ASSUME NEW k \in 1..n
               PROVE  (IF k \in S THEN [entitlements[k] EXCEPT !.revoked = TRUE]
                       ELSE entitlements[k]) \in EntitlementRows
    BY <1>3
  <2>1. entitlements[k] \in EntitlementRows
    BY <1>4
  <2> QED BY <2>1 DEF EntitlementRows
<1>6. revoked \in Seq(EntitlementRows)
  BY <1>1, <1>5, SeqDef
<1>7. 1..Len(revoked) = 1..n /\ Len(revoked) \in Nat
  BY <1>5, <1>6, LenProperties
<1>8. \A k \in 1..n :
        /\ revoked[k].invoice = entitlements[k].invoice
        /\ revoked[k].basis = entitlements[k].basis
        /\ revoked[k].by = entitlements[k].by
        /\ revoked[k].revoked <=> k \in S \/ entitlements[k].revoked
        /\ k \notin S \/ entitlements[k].revoked => revoked[k] = entitlements[k]
  <2> SUFFICES ASSUME NEW k \in 1..n
               PROVE  /\ revoked[k].invoice = entitlements[k].invoice
                      /\ revoked[k].basis = entitlements[k].basis
                      /\ revoked[k].by = entitlements[k].by
                      /\ revoked[k].revoked <=> k \in S \/ entitlements[k].revoked
                      /\ k \notin S \/ entitlements[k].revoked => revoked[k] = entitlements[k]
    OBVIOUS
  <2>1. entitlements[k] \in EntitlementRows
    BY <1>4
  <2>2. revoked[k] = IF k \in S THEN [entitlements[k] EXCEPT !.revoked = TRUE]
                     ELSE entitlements[k]
    BY <1>3
  <2>3. ASSUME entitlements[k].revoked
        PROVE  [entitlements[k] EXCEPT !.revoked = TRUE] = entitlements[k]
    <3>1. entitlements[k].revoked \in BOOLEAN
      BY <2>1 DEF EntitlementRows
    <3>2. entitlements[k].revoked = TRUE
      BY <2>3, <3>1
    <3> QED BY <2>1, <3>2 DEF EntitlementRows
  <2>4. entitlements[k].revoked => revoked[k] = entitlements[k]
    BY <2>2, <2>3
  <2>5. /\ revoked[k].invoice = entitlements[k].invoice
        /\ revoked[k].basis = entitlements[k].basis
        /\ revoked[k].by = entitlements[k].by
        /\ revoked[k].revoked <=> k \in S \/ entitlements[k].revoked
    BY <2>1, <2>2 DEF EntitlementRows
  <2> QED BY <2>2, <2>4, <2>5
<1> QED BY <1>1, <1>2, <1>6, <1>7, <1>8 DEF revoked, n

\* Updating one element of a function keeps its type.
LEMMA ExceptType ==
    ASSUME NEW S, NEW T, NEW f \in [S -> T], NEW x, NEW v \in T
    PROVE  [f EXCEPT ![x] = v] \in [S -> T]
OBVIOUS

-----------------------------------------------------------------------------
\* Types

\* What an open transaction remembers: its invoice, and that an overpayment
\* was decided about a sum above the price.
TxOK == \A w \in Workers :
    /\ tx[w].op \in {"settle", "sweep"} => tx[w].invoice \in Invoices
    /\ tx[w].op = "settle" /\ tx[w].outcome \in {"overpaid_credited", "overpaid_refund_pending"}
           => SumOf(tx[w].rows) > Due[tx[w].invoice]

TypeInv == TypeOK /\ TxOK

\* Every case that is opened is a row of manual_reviews.
LEMMA CaseType ==
    /\ \A i \in Invoices, kind \in ReviewKinds : InvoiceCase(kind, i) \in Reviews
    /\ \A p \in Payments : AnomalyCase(p) \in Reviews
    /\ \A R \in SUBSET Reviews, r \in Reviews : WithCase(R, r) \in SUBSET Reviews
BY DEF InvoiceCase, AnomalyCase, Reviews, ReviewKinds, WithCase

\* What the queries over grants and payments return.
LEMMA ReadType ==
    ASSUME TypeOK
    PROVE  /\ DOMAIN entitlements = 1..Len(entitlements)
           /\ \A i : ActiveIds(i) \in SUBSET (Nat \ {0})
           /\ \A S : GrantsOf(S) \in SUBSET (Nat \ {0})
           /\ \A i : MoneyOn(i) \in SUBSET Payments /\ DeepRows(i) \in SUBSET Payments
           /\ Uprooted \in SUBSET Payments
<1>1. DOMAIN entitlements = 1..Len(entitlements) /\ Len(entitlements) \in Nat
  BY LenProperties DEF TypeOK
<1>2. \A i : ActiveIds(i) \in SUBSET (Nat \ {0})
  BY <1>1 DEF ActiveIds
<1>3. \A S : GrantsOf(S) \in SUBSET (Nat \ {0})
  BY <1>2 DEF GrantsOf
<1> QED BY <1>1, <1>2, <1>3 DEF MoneyOn, DeepRows, PaymentsOf, Uprooted

\* The decision is one of the outcomes, and an overpayment is one of a sum
\* above the price.
LEMMA DecisionType ==
    ASSUME TypeOK, NEW i \in Invoices
    PROVE  /\ SettleDecision(i) \in SettleOutcomes
           /\ SettleDecision(i) \in {"overpaid_credited", "overpaid_refund_pending"} =>
                  macOk[i] /\ SumOf(DeepRows(i)) > Due[i]
<1>1. SumOf(DeepRows(i)) \in Nat /\ Due[i] \in Nat
  BY ReadType, SumsAreNatural
<1>2. \A t \in Nat : \A w : Classify(Due[i], t, w) \in AmountOutcomes
  BY DEF Classify, AmountOutcomes, GrantingOutcomes
<1>3. \A t \in Nat : \A w :
        Classify(Due[i], t, w) \in {"overpaid_credited", "overpaid_refund_pending"} => t > Due[i]
  BY <1>1 DEF Classify
<1> QED BY <1>1, <1>2, <1>3 DEF SettleDecision, SettleOutcomes

\* Promoting and crediting keep the type of the payment statuses.
LEMMA StatusType ==
    ASSUME TypeOK, NEW rows
    PROVE  /\ CreditedStatus(rows) \in [Payments -> PaymentStatuses]
           /\ PromotedStatus(rows) \in [Payments -> PaymentStatuses]
BY DEF TypeOK, CreditedStatus, PromotedStatus, PaymentStatuses, RevertibleStatuses, CreditableStatuses

\* A credited excess is a natural number of quanta.
LEMMA CreditType ==
    ASSUME NEW x \in Nat
    PROVE  CreditableUsd(x) \in Nat
<1>1. x * RawPerUsdDen * UsdQuantum \in Nat
  OBVIOUS
<1> QED BY <1>1 DEF CreditableUsd

\* A commit, or a step that opens no transaction, leaves the other ones alone.
LEMMA TxCommit ==
    ASSUME TypeInv, NEW w \in Workers, Commit(w)
    PROVE  tx' \in [Workers -> Transactions] /\ TxOK'
<1>1. tx' = [tx EXCEPT ![w] = IdleTx] /\ tx \in [Workers -> Transactions]
  BY DEF TypeInv, TypeOK, Commit
<1>2. IdleTx.op = "idle"
  BY DEF IdleTx
<1>3. tx' \in [Workers -> Transactions]
  BY CommitType DEF TypeInv
<1> QED BY <1>1, <1>2, <1>3 DEF TypeInv, TxOK

\* An opened transaction remembers what it was opened with.
LEMMA TxBegin ==
    ASSUME TypeInv, NEW w \in Workers, NEW op \in {"settle", "reorg", "sweep"},
           NEW i \in Invoices \union {NoInvoice}, NEW rows \in SUBSET Payments,
           NEW grants \in SUBSET (Nat \ {0}), NEW outcome \in SettleOutcomes,
           Begin(w, op, i, rows, grants, outcome),
           op \in {"settle", "sweep"} => i \in Invoices,
           op = "settle" /\ outcome \in {"overpaid_credited", "overpaid_refund_pending"}
               => SumOf(rows) > Due[i]
    PROVE  tx' \in [Workers -> Transactions] /\ TxOK'
<1>1. tx \in [Workers -> Transactions]
  BY DEF TypeInv, TypeOK
<1>2. tx' \in [Workers -> Transactions]
  BY BeginType DEF TypeInv
<1>3. \A v \in Workers \ {w} : tx'[v] = tx[v]
  BY <1>1 DEF Begin
<1>4. /\ tx'[w].op = op /\ tx'[w].invoice = i
      /\ tx'[w].rows = rows /\ tx'[w].outcome = outcome
  BY <1>1 DEF Begin
<1> QED BY <1>2, <1>3, <1>4 DEF TypeInv, TxOK

\* Each action of the settler and of the watcher keeps the types.
LEMMA TypeInvStep == TypeInv /\ [Next]_vars => TypeInv'
<1> SUFFICES ASSUME TypeInv, [Next]_vars PROVE TypeInv'
  OBVIOUS
<1>t. TypeOK /\ TxOK
  BY DEF TypeInv
<1>k. tx' = tx => TxOK'
  BY <1>t DEF TxOK
<1>1. ASSUME NEW w \in Workers, NEW i \in Invoices, SettleBegin(w, i) PROVE TypeInv'
  <2> DEFINE rows == IF macOk[i] THEN DeepRows(i) ELSE {}
  <2>1. Begin(w, "settle", i, rows, {}, SettleDecision(i))
    BY <1>1 DEF SettleBegin
  <2>2. rows \in SUBSET Payments
    BY <1>t, ReadType
  <2>3. SettleDecision(i) \in {"overpaid_credited", "overpaid_refund_pending"}
            => SumOf(rows) > Due[i]
    BY <1>t, DecisionType
  <2>4. tx' \in [Workers -> Transactions] /\ TxOK'
    <3> HIDE DEF rows
    <3> QED BY <1>t, <2>1, <2>2, <2>3, DecisionType, TxBegin
  <2> QED BY <1>1, <1>t, <2>4
          DEF SettleBegin, TypeInv, TypeOK, ChainTypeOK, chainVars, ledgerVars, moneyVars
<1>2. ASSUME NEW w \in Workers, ReorgBegin(w) PROVE TypeInv'
  <2>1. Begin(w, "reorg", NoInvoice, Uprooted, GrantsOf(Uprooted), "no_funds")
    BY <1>2 DEF ReorgBegin
  <2>2. tx' \in [Workers -> Transactions] /\ TxOK'
    BY <1>t, <2>1, ReadType, TxBegin DEF SettleOutcomes, AmountOutcomes
  <2> QED BY <1>2, <1>t, <2>2
          DEF ReorgBegin, TypeInv, TypeOK, ChainTypeOK, chainVars, ledgerVars, moneyVars
<1>3. ASSUME NEW w \in Workers, NEW i \in Invoices, SweepBegin(w, i) PROVE TypeInv'
  <2>1. Begin(w, "sweep", i, MoneyOn(i), {}, "no_funds")
    BY <1>3 DEF SweepBegin
  <2>2. tx' \in [Workers -> Transactions] /\ TxOK'
    BY <1>t, <2>1, ReadType, TxBegin DEF SettleOutcomes, AmountOutcomes
  <2> QED BY <1>3, <1>t, <2>2
          DEF SweepBegin, TypeInv, TypeOK, ChainTypeOK, chainVars, ledgerVars, moneyVars
<1>4. ASSUME NEW w \in Workers, SettleGrant(w) PROVE TypeInv'
  <2> DEFINE i == tx[w].invoice
             rows == tx[w].rows
             outcome == tx[w].outcome
             excess == Excess(i, rows)
  <2>1. tx[w] \in Transactions /\ i \in Invoices /\ rows \in SUBSET Payments
    BY <1>4, <1>t DEF SettleGrant, Settling, TypeOK, TxOK, Transactions
  <2>2. outcome \in {"overpaid_credited", "overpaid_refund_pending"} => excess \in Nat
    <3>1. SumOf(rows) \in Nat /\ Due[i] \in Nat
      BY <2>1, SumsAreNatural
    <3> QED BY <1>4, <1>t, <3>1 DEF SettleGrant, Settling, TxOK, Excess
  <2>3. invoice' \in [Invoices -> InvoiceStatuses]
    BY <1>4, <1>t DEF SettleGrant, TypeOK, InvoiceStatuses, SettledStatuses
  <2>4. payStatus' \in [Payments -> PaymentStatuses]
    BY <1>4, <1>t, StatusType DEF SettleGrant
  <2>5. entitlements' \in Seq(EntitlementRows)
    <3>1. entitlements' = entitlements \/ entitlements' = WithGrant(i, rows, "policy")
      BY <1>4 DEF SettleGrant
    <3> QED BY <1>t, <2>1, <3>1, GrantType DEF TypeOK
  <2>6. balance' \in [Invoices -> Nat]
    <3>1. \/ balance' = balance
          \/ /\ outcome = "overpaid_credited"
             /\ balance' = [balance EXCEPT ![i] = @ + CreditableUsd(excess)]
      BY <1>4 DEF SettleGrant
    <3>2. outcome = "overpaid_credited" => CreditableUsd(excess) \in Nat
      BY <2>2, CreditType
    <3>3. outcome = "overpaid_credited" => balance[i] + CreditableUsd(excess) \in Nat
      BY <1>t, <2>1, <3>2 DEF TypeOK
    <3> HIDE DEF i, excess, outcome
    <3> QED BY <1>t, <3>1, <3>3, ExceptType DEF TypeOK
  <2>7. refund' \in [Invoices -> Nat]
    <3>1. \/ refund' = refund
          \/ /\ outcome = "overpaid_refund_pending"
             /\ refund' = [refund EXCEPT ![i] = excess]
      BY <1>4 DEF SettleGrant
    <3> QED BY <1>t, <2>1, <2>2, <3>1 DEF TypeOK
  <2>8. reviews' \in SUBSET Reviews
    <3>1. reviews' = reviews \/ reviews' = WithCase(reviews, InvoiceCase("overpaid", i))
      BY <1>4 DEF SettleGrant
    <3>2. InvoiceCase("overpaid", i) \in Reviews
      BY <2>1, CaseType DEF ReviewKinds
    <3> QED BY <1>t, <3>1, <3>2, CaseType DEF TypeOK
  <2>9. tx' \in [Workers -> Transactions] /\ TxOK'
    BY <1>4, TxCommit DEF SettleGrant
  <2> HIDE DEF i, rows, outcome, excess
  <2> QED BY <1>4, <1>t, <2>3, <2>4, <2>5, <2>6, <2>7, <2>8, <2>9
          DEF SettleGrant, TypeInv, TypeOK, ChainTypeOK, chainVars
<1>5. ASSUME NEW w \in Workers,
             SettlePartial(w) \/ SettleUnderpaid(w) \/ SettleRefuse(w) \/ SettleWait(w)
      PROVE  TypeInv'
  <2> DEFINE i == tx[w].invoice
  <2>1. i \in Invoices
    BY <1>5, <1>t DEF SettlePartial, SettleUnderpaid, SettleRefuse, SettleWait, Settling, TxOK
  <2>2. tx' \in [Workers -> Transactions] /\ TxOK'
    BY <1>5, TxCommit DEF SettlePartial, SettleUnderpaid, SettleRefuse, SettleWait
  <2>3. payStatus' \in [Payments -> PaymentStatuses]
    BY <1>5, <1>t, StatusType
       DEF SettlePartial, SettleUnderpaid, SettleRefuse, SettleWait, ledgerVars, TypeOK
  <2>4. invoice' \in [Invoices -> InvoiceStatuses]
    <3>1. \/ invoice' = invoice
          \/ \E s \in {"partially_paid", "manual_review"} : invoice' = [invoice EXCEPT ![i] = s]
      BY <1>5 DEF SettlePartial, SettleUnderpaid, SettleRefuse, SettleWait, moneyVars
    <3> QED BY <1>t, <3>1 DEF TypeOK, InvoiceStatuses, LiveStatuses
  <2>5. reviews' \in SUBSET Reviews
    <3>1. \/ reviews' = reviews
          \/ \E kind \in {"underpaid", "mac_failure"} :
                reviews' = WithCase(reviews, InvoiceCase(kind, i))
      BY <1>5 DEF SettlePartial, SettleUnderpaid, SettleRefuse, SettleWait, moneyVars
    <3>2. \A kind \in {"underpaid", "mac_failure"} : InvoiceCase(kind, i) \in Reviews
      BY <2>1, CaseType DEF ReviewKinds
    <3> QED BY <1>t, <3>1, <3>2, CaseType DEF TypeOK
  <2>6. UNCHANGED <<chainVars, now, macOk, payBlock, seenNotified,
                    entitlements, balance, refund, resolved>>
    BY <1>5 DEF SettlePartial, SettleUnderpaid, SettleRefuse, SettleWait, ledgerVars, moneyVars
  <2> QED BY <1>t, <2>2, <2>3, <2>4, <2>5, <2>6 DEF TypeInv, TypeOK, ChainTypeOK, chainVars
<1>6. ASSUME NEW w \in Workers, ReorgCommit(w) PROVE TypeInv'
  <2>1. tx' \in [Workers -> Transactions] /\ TxOK'
    BY <1>6, TxCommit DEF ReorgCommit
  <2>2. payStatus' \in [Payments -> PaymentStatuses]
    BY <1>6, <1>t DEF ReorgCommit, TypeOK, PaymentStatuses
  <2>3. invoice' \in [Invoices -> InvoiceStatuses]
    BY <1>6, <1>t DEF ReorgCommit, TypeOK, InvoiceStatuses, LiveStatuses
  <2>4. entitlements' \in Seq(EntitlementRows)
    BY <1>6, <1>t, RevokeType DEF ReorgCommit
  <2> QED BY <1>6, <1>t, <2>1, <2>2, <2>3, <2>4
          DEF ReorgCommit, TypeInv, TypeOK, ChainTypeOK, chainVars
<1>7. ASSUME NEW w \in Workers, SweepCommit(w) PROVE TypeInv'
  <2> DEFINE i == tx[w].invoice
  <2>1. i \in Invoices
    BY <1>7, <1>t DEF SweepCommit, TxOK
  <2>2. tx' \in [Workers -> Transactions] /\ TxOK'
    BY <1>7, TxCommit DEF SweepCommit
  <2>3. invoice' \in [Invoices -> InvoiceStatuses]
    <3>1. \/ invoice' = invoice
          \/ \E s \in {"expired", "manual_review"} : invoice' = [invoice EXCEPT ![i] = s]
      BY <1>7 DEF SweepCommit
    <3> QED BY <1>t, <3>1 DEF TypeOK, InvoiceStatuses
  <2>4. reviews' \in SUBSET Reviews
    <3>1. reviews' = reviews \/ reviews' = WithCase(reviews, InvoiceCase("underpaid", i))
      BY <1>7 DEF SweepCommit
    <3>2. InvoiceCase("underpaid", i) \in Reviews
      BY <2>1, CaseType DEF ReviewKinds
    <3> QED BY <1>t, <3>1, <3>2, CaseType DEF TypeOK
  <2> QED BY <1>7, <1>t, <2>2, <2>3, <2>4
          DEF SweepCommit, TypeInv, TypeOK, ChainTypeOK, chainVars, ledgerVars
<1>8. ASSUME NEW w \in Workers, Abort(w) PROVE TypeInv'
  <2>1. tx' \in [Workers -> Transactions] /\ TxOK'
    BY <1>8, TxCommit DEF Abort
  <2> QED BY <1>8, <1>t, <2>1
          DEF Abort, TypeInv, TypeOK, ChainTypeOK, chainVars, ledgerVars, moneyVars
<1>9. ASSUME NEW i \in Invoices, ExpireStale(i) PROVE TypeInv'
  BY <1>9, <1>t, <1>k
     DEF ExpireStale, TypeInv, TypeOK, ChainTypeOK, chainVars, ledgerVars, InvoiceStatuses
<1>10. ASSUME NEW p \in Payments, NotifySeen(p) PROVE TypeInv'
  BY <1>10, <1>t, <1>k DEF NotifySeen, TypeInv, TypeOK, ChainTypeOK, chainVars
<1>11. ASSUME NEW p \in Payments, ReviewAnomaly(p) PROVE TypeInv'
  <2>1. reviews' \in SUBSET Reviews
    BY <1>11, <1>t, CaseType DEF ReviewAnomaly, TypeOK
  <2> QED BY <1>11, <1>t, <1>k, <2>1
          DEF ReviewAnomaly, TypeInv, TypeOK, ChainTypeOK, chainVars, ledgerVars
<1>12. ASSUME NEW r \in reviews, ResolveCredit(r) PROVE TypeInv'
  <2> DEFINE i == r.invoice
  <2>1. i \in Invoices /\ r \in Reviews
    BY <1>12, <1>t DEF ResolveCredit, TypeOK, Reviews
  <2>2. entitlements' \in Seq(EntitlementRows)
    <3>1. entitlements' = entitlements \/ entitlements' = WithGrant(i, MoneyOn(i), "owner")
      BY <1>12 DEF ResolveCredit
    <3> QED BY <1>t, <2>1, <3>1, GrantType, ReadType DEF TypeOK
  <2>3. payStatus' \in [Payments -> PaymentStatuses]
    BY <1>12, <1>t, StatusType DEF ResolveCredit
  <2>4. invoice' \in [Invoices -> InvoiceStatuses]
    BY <1>12, <1>t DEF ResolveCredit, TypeOK, InvoiceStatuses, SettledStatuses
  <2> QED BY <1>12, <1>t, <1>k, <2>1, <2>2, <2>3, <2>4
          DEF ResolveCredit, CloseCase, TypeInv, TypeOK, ChainTypeOK, chainVars
<1>13. ASSUME NEW r \in reviews, ResolveRefund(r) \/ ResolveReject(r) PROVE TypeInv'
  <2>1. r \in Reviews
    BY <1>t DEF TypeOK
  <2>2. invoice' \in [Invoices -> InvoiceStatuses]
    <3>1. invoice' = invoice \/ invoice' = [invoice EXCEPT ![r.invoice] = "cancelled"]
      BY <1>13 DEF ResolveRefund, ResolveReject
    <3> QED BY <1>t, <3>1, ExceptType DEF TypeOK, InvoiceStatuses
  <2>3. refund' \in [Invoices -> Nat]
    <3> DEFINE received == {p \in PaymentsOf(r.invoice) : payStatus[p] \in CreditableStatuses}
    <3>1. refund' = refund \/ refund' = [refund EXCEPT ![r.invoice] = SumOf(received)]
      BY <1>13 DEF ResolveRefund, ResolveReject
    <3>2. SumOf(received) \in Nat
      BY SumsAreNatural DEF PaymentsOf
    <3> HIDE DEF received
    <3> QED BY <1>t, <3>1, <3>2, ExceptType DEF TypeOK
  <2>4. reviews' \in SUBSET Reviews /\ resolved' \in SUBSET Reviews /\ tx' = tx
    BY <1>13, <1>t, <2>1 DEF ResolveRefund, ResolveReject, CloseCase, TypeOK
  <2>5. UNCHANGED <<chainVars, now, macOk, ledgerVars, entitlements, balance>>
    BY <1>13 DEF ResolveRefund, ResolveReject
  <2> QED BY <1>t, <1>k, <2>2, <2>3, <2>4, <2>5
          DEF TypeInv, TypeOK, ChainTypeOK, chainVars, ledgerVars
<1>14. CASE Tick
  BY <1>14, <1>t, <1>k DEF Tick, TypeInv, TypeOK, ChainTypeOK, chainVars, ledgerVars, moneyVars
<1>15. ASSUME NEW i \in Invoices, Tamper(i) PROVE TypeInv'
  BY <1>15, <1>t, <1>k DEF Tamper, TypeInv, TypeOK, ChainTypeOK, chainVars, ledgerVars, moneyVars
<1>16. CASE Watcher
  <2>1. tx' = tx /\ UNCHANGED <<now, macOk, seenNotified, moneyVars>>
    BY <1>16 DEF Watcher, WatcherHeader, WatcherPayment, WatcherMoves, ledgerVars
  <2>2. payStatus' \in [Payments -> PaymentStatuses] /\ payBlock' \in [Payments -> 0..MaxHeight]
    <3>1. ASSUME NEW p \in Payments, NEW h \in Heights, WatcherPayment(p, h)
          PROVE  /\ payStatus' \in [Payments -> PaymentStatuses]
                 /\ payBlock' \in [Payments -> 0..MaxHeight]
      BY <3>1, <1>t DEF WatcherPayment, TypeOK, PaymentStatuses, RevertibleStatuses, Heights
    <3>2. CASE UNCHANGED ledgerVars
      BY <3>2, <1>t DEF TypeOK, ledgerVars
    <3> QED BY <1>16, <3>1, <3>2 DEF Watcher, WatcherHeader, WatcherMoves
  <2>3. ChainTypeOK'
    <3>1. CASE UNCHANGED chainVars
      BY <3>1, <1>t DEF TypeOK, ChainTypeOK, chainVars
    <3>2. ASSUME NEW h \in Heights, NEW f \in Forks, NEW s, WriteHeader(h, f, s)
          PROVE  ChainTypeOK'
      BY <3>2, <1>t DEF WriteHeader, TypeOK, ChainTypeOK, BlockStatus
    <3>3. ASSUME NEW h \in 0..MaxHeight, SetCheckpoint(h) PROVE ChainTypeOK'
      BY <3>3, <1>t DEF SetCheckpoint, TypeOK, ChainTypeOK
    <3>4. ASSUME NEW h, PromoteBlocks(h) \/ OrphanAbove(h) PROVE ChainTypeOK'
      BY <3>4, <1>t DEF PromoteBlocks, OrphanAbove, TypeOK, ChainTypeOK, BlockStatus
    <3> QED BY <1>16, <3>1, <3>2, <3>3, <3>4
            DEF Watcher, WatcherHeader, WatcherPayment, WatcherMoves
  <2> QED BY <1>t, <1>k, <2>1, <2>2, <2>3 DEF TypeInv, TypeOK, moneyVars
<1>17. CASE UNCHANGED vars
  BY <1>17, <1>t, <1>k
     DEF vars, TypeInv, TypeOK, ChainTypeOK, chainVars, ledgerVars, moneyVars
<1> QED
  BY <1>1, <1>2, <1>3, <1>4, <1>5, <1>6, <1>7, <1>8, <1>9, <1>10, <1>11, <1>12, <1>13,
     <1>14, <1>15, <1>16, <1>17
     DEF Next, WorkerStep, SettleCommit, SettlerPasses, OwnerResolves

\* TypeInv holds at the start.
LEMMA TypeInvInit == Init => TypeInv
<1> SUFFICES ASSUME Init PROVE TypeInv
  OBVIOUS
<1>1. entitlements \in Seq(EntitlementRows)
  BY EmptySeq DEF Init
<1>2. tx \in [Workers -> Transactions] /\ TxOK
  BY DEF Init, IdleTx, TxOK, Transactions, SettleOutcomes, AmountOutcomes
<1> QED BY <1>1, <1>2 DEF Init, ChainInit, TypeInv, TypeOK, ChainTypeOK, BlockStatus,
        InvoiceStatuses, LiveStatuses, PaymentStatuses

\* TypeInv is an invariant of the settler.
LEMMA TypeInvHolds == Spec => []TypeInv
BY TypeInvInit, TypeInvStep, PTL DEF Spec

\* Every variable keeps its type, with any number of workers, invoices,
\* payments and owner decisions.
THEOREM TypeCorrect == Spec => []TypeOK
BY TypeInvHolds, PTL DEF TypeInv

-----------------------------------------------------------------------------
\* What whole groups of steps leave alone

\* Opening a transaction and losing one write no row.
LEMMA ReadingSteps ==
    ASSUME NEW w \in Workers, WorkerStep(w), ~SettleCommit(w), ~ReorgCommit(w), ~SweepCommit(w)
    PROVE  /\ invoice' = invoice /\ entitlements' = entitlements /\ outbox' = outbox
           /\ macOk' = macOk /\ payStatus' = payStatus
<1>1. CASE \E i \in Invoices : SettleBegin(w, i)
  BY <1>1 DEF SettleBegin, moneyVars, ledgerVars
<1>2. CASE \E i \in Invoices : SweepBegin(w, i)
  BY <1>2 DEF SweepBegin, moneyVars, ledgerVars
<1>3. CASE ReorgBegin(w)
  BY <1>3 DEF ReorgBegin, moneyVars, ledgerVars
<1>4. CASE Abort(w)
  BY <1>4 DEF Abort, moneyVars, ledgerVars
<1> QED BY <1>1, <1>2, <1>3, <1>4 DEF WorkerStep

\* Time, the watcher and a step of somebody else touch no invoice, grant or message.
LEMMA OutsideSteps ==
    ASSUME Tick \/ Watcher \/ UNCHANGED vars
    PROVE  /\ invoice' = invoice /\ entitlements' = entitlements /\ outbox' = outbox
           /\ macOk' = macOk
<1>1. CASE Tick
  BY <1>1 DEF Tick, moneyVars
<1>2. CASE Watcher
  BY <1>2 DEF Watcher, WatcherHeader, WatcherPayment, WatcherMoves, moneyVars
<1>3. CASE UNCHANGED vars
  BY <1>3 DEF vars, moneyVars
<1> QED BY <1>1, <1>2, <1>3

\* A settlement that grants nothing and a sweep leave the grants alone.
LEMMA GrantlessSteps ==
    ASSUME NEW w \in Workers,
           SettlePartial(w) \/ SettleUnderpaid(w) \/ SettleRefuse(w) \/ SettleWait(w) \/ SweepCommit(w)
    PROVE  entitlements' = entitlements
<1>1. CASE SettlePartial(w)
  BY <1>1 DEF SettlePartial
<1>2. CASE SettleUnderpaid(w)
  BY <1>2 DEF SettleUnderpaid
<1>3. CASE SettleRefuse(w)
  BY <1>3 DEF SettleRefuse, moneyVars
<1>4. CASE SettleWait(w)
  BY <1>4 DEF SettleWait, moneyVars
<1>5. CASE SweepCommit(w)
  BY <1>5 DEF SweepCommit
<1> QED BY <1>1, <1>2, <1>3, <1>4, <1>5

-----------------------------------------------------------------------------
\* Grants: they are written, or revoked, and nothing else

\* The steps that change the grants.
GrantsChange ==
    \/ \E i \in Invoices, rows \in SUBSET Payments, by \in {"policy", "owner"} :
          /\ ~HasActive(i)
          /\ entitlements' = WithGrant(i, rows, by)
          /\ by = "policy" => \E w \in Workers : SettleGrant(w) /\ tx[w].invoice = i
          /\ by = "owner" => OwnerResolves
    \/ \E w \in Workers : ReorgCommit(w)

\* The table of grants changes only by a settlement, an owner's credit or a
\* reorganisation.
LEMMA GrantMoves ==
    ASSUME TypeInv, [Next]_vars
    PROVE  entitlements' = entitlements \/ GrantsChange
<1>t. TypeOK /\ TxOK
  BY DEF TypeInv
<1>1. ASSUME NEW w \in Workers, SettleGrant(w) PROVE entitlements' = entitlements \/ GrantsChange
  <2>1. tx[w].invoice \in Invoices /\ tx[w].rows \in SUBSET Payments
    BY <1>1, <1>t DEF SettleGrant, Settling, TypeOK, TxOK, Transactions
  <2> QED BY <1>1, <2>1 DEF SettleGrant, GrantsChange
<1>2. ASSUME NEW r \in reviews, ResolveCredit(r)
      PROVE  OwnerActs => entitlements' = entitlements \/ GrantsChange
  <2>1. r.invoice \in Invoices /\ MoneyOn(r.invoice) \in SUBSET Payments
    <3>1. r \in Reviews
      BY <1>t DEF TypeOK
    <3>2. r.invoice \in Invoices \union {NoInvoice} /\ r.invoice # NoInvoice
      BY <1>2, <3>1 DEF ResolveCredit, Reviews
    <3> QED BY <1>t, <3>2, ReadType
  <2>2. OwnerActs => OwnerResolves
    BY <1>2 DEF OwnerResolves
  <2> QED BY <1>2, <2>1, <2>2 DEF ResolveCredit, GrantsChange
<1>3. ASSUME NEW w \in Workers, WorkerStep(w), ~SettleGrant(w), ~ReorgCommit(w)
      PROVE  entitlements' = entitlements
  BY <1>3, ReadingSteps, GrantlessSteps DEF SettleCommit
<1>4. CASE SettlerPasses \/ Tick \/ Watcher \/ (\E i \in Invoices : Tamper(i)) \/ UNCHANGED vars
  <2>1. CASE SettlerPasses
    BY <2>1 DEF SettlerPasses, ExpireStale, NotifySeen, ReviewAnomaly
  <2>2. CASE \E i \in Invoices : Tamper(i)
    BY <2>2 DEF Tamper, moneyVars
  <2> QED BY <1>4, <2>1, <2>2, OutsideSteps
<1>5. ASSUME NEW r \in reviews, ResolveRefund(r) \/ ResolveReject(r)
      PROVE  entitlements' = entitlements
  BY <1>5 DEF ResolveRefund, ResolveReject
<1> QED BY <1>1, <1>2, <1>3, <1>4, <1>5 DEF Next, OwnerResolves, GrantsChange

\* A new grant is in force under a new id; the others stay in force as they were.
LEMMA ActiveAfterGrant ==
    ASSUME TypeOK, NEW j \in Invoices, NEW rows \in SUBSET Payments,
           NEW by \in {"policy", "owner"}, entitlements' = WithGrant(j, rows, by)
    PROVE  /\ DOMAIN entitlements' = DOMAIN entitlements \union {Len(entitlements) + 1}
           /\ Len(entitlements) + 1 \notin DOMAIN entitlements
           /\ \A i : ActiveIds(i)' = ActiveIds(i) \union
                         (IF i = j THEN {Len(entitlements) + 1} ELSE {})
<1> DEFINE n == Len(entitlements)
<1>1. n \in Nat /\ DOMAIN entitlements = 1..n
  BY LenProperties DEF TypeOK
<1>2. /\ entitlements' \in Seq(EntitlementRows) /\ Len(entitlements') = n + 1
      /\ \A k \in 1..n : entitlements'[k] = entitlements[k]
      /\ entitlements'[n + 1] = NewGrant(j, rows, by)
  BY <1>1, GrantType
<1>3. DOMAIN entitlements' = 1..(n + 1)
  BY <1>2, LenProperties
<1>4. 1..(n + 1) = (1..n) \union {n + 1} /\ n + 1 \notin 1..n
  BY <1>1
<1>5. NewGrant(j, rows, by).invoice = j /\ ~NewGrant(j, rows, by).revoked
  BY DEF NewGrant
<1> HIDE DEF n
<1>6. \A i : ActiveIds(i)' = ActiveIds(i) \union (IF i = j THEN {n + 1} ELSE {})
  BY <1>1, <1>2, <1>3, <1>4, <1>5 DEF ActiveIds
<1> QED BY <1>1, <1>3, <1>4, <1>6 DEF n

\* The invoice of a new grant has a grant in force ...
LEMMA GrantGivesActive ==
    TypeOK => \A j \in Invoices, rows \in SUBSET Payments, by \in {"policy", "owner"} :
                  entitlements' = WithGrant(j, rows, by) => HasActive(j)'
<1> SUFFICES ASSUME TypeOK, NEW j \in Invoices, NEW rows \in SUBSET Payments,
                    NEW by \in {"policy", "owner"}, entitlements' = WithGrant(j, rows, by)
             PROVE  HasActive(j)'
  OBVIOUS
<1>1. ActiveIds(j)' = ActiveIds(j) \union (IF j = j THEN {Len(entitlements) + 1} ELSE {})
  BY ActiveAfterGrant
<1> QED BY <1>1 DEF HasActive

\* ... and leaves the grants of every other invoice as they were.
LEMMA GrantLeavesOthers ==
    TypeOK => \A j \in Invoices, rows \in SUBSET Payments, by \in {"policy", "owner"} :
                  entitlements' = WithGrant(j, rows, by) =>
                      \A l \in Invoices \ {j} : ActiveIds(l)' = ActiveIds(l)
<1> SUFFICES ASSUME TypeOK, NEW j \in Invoices, NEW rows \in SUBSET Payments,
                    NEW by \in {"policy", "owner"}, entitlements' = WithGrant(j, rows, by),
                    NEW l \in Invoices, l # j
             PROVE  ActiveIds(l)' = ActiveIds(l)
  OBVIOUS
<1>1. ActiveIds(l)' = ActiveIds(l) \union (IF l = j THEN {Len(entitlements) + 1} ELSE {})
  BY ActiveAfterGrant
<1> QED BY <1>1

\* A reorganisation ends exactly the grants it has read.
LEMMA ActiveAfterRevoke ==
    ASSUME TypeOK, NEW w \in Workers, ReorgCommit(w)
    PROVE  /\ DOMAIN entitlements' = DOMAIN entitlements
           /\ \A i : ActiveIds(i)' = ActiveIds(i) \ tx[w].grants
<1>1. entitlements' = WithRevoked(tx[w].grants)
  BY DEF ReorgCommit
<1>2. /\ DOMAIN entitlements' = DOMAIN entitlements
      /\ \A k \in DOMAIN entitlements :
            /\ entitlements'[k].invoice = entitlements[k].invoice
            /\ entitlements'[k].revoked <=> k \in tx[w].grants \/ entitlements[k].revoked
  BY <1>1, RevokeType DEF WithRevoked
<1> QED BY <1>2 DEF ActiveIds

\* At most one grant of an invoice is in force, whatever workers and owner do
\* (settler/repository.py, insert_entitlement).
THEOREM OneGrantAtATime == Spec => []OneActiveGrant
<1>1. Init => OneActiveGrant
  BY DEF Init, OneActiveGrant, ActiveIds
<1>2. TypeInv /\ OneActiveGrant /\ [Next]_vars => OneActiveGrant'
  <2> SUFFICES ASSUME TypeInv, OneActiveGrant, [Next]_vars PROVE OneActiveGrant'
    OBVIOUS
  <2>t. TypeOK
    BY DEF TypeInv
  <2>1. CASE entitlements' = entitlements
    BY <2>1 DEF OneActiveGrant, ActiveIds
  <2>2. ASSUME NEW j \in Invoices, NEW rows \in SUBSET Payments, NEW by \in {"policy", "owner"},
               ~HasActive(j), entitlements' = WithGrant(j, rows, by)
        PROVE  OneActiveGrant'
    BY <2>2, <2>t, ActiveAfterGrant DEF OneActiveGrant, HasActive
  <2>3. ASSUME NEW w \in Workers, ReorgCommit(w) PROVE OneActiveGrant'
    BY <2>3, <2>t, ActiveAfterRevoke DEF OneActiveGrant
  <2> QED BY <2>1, <2>2, <2>3, GrantMoves DEF GrantsChange
<1> QED BY <1>1, <1>2, TypeInvHolds, PTL DEF Spec

-----------------------------------------------------------------------------
\* Who has paid has the product

\* A reorganisation under way revokes only grants of the invoices it will take
\* back: no grant goes without its invoice.
ReorgOK == \A w \in Workers : tx[w].op = "reorg" =>
    \A k \in tx[w].grants : /\ k \in DOMAIN entitlements
                            /\ entitlements[k].invoice \in InvoicesOf(tx[w].rows)

\* What happens to the transactions in one step.
LEMMA TxMoves ==
    ASSUME TypeInv, [Next]_vars, NEW w \in Workers
    PROVE  \/ tx'[w] = tx[w]
           \/ tx'[w] = IdleTx
           \/ /\ ReorgBegin(w) /\ entitlements' = entitlements
              /\ tx'[w].op = "reorg" /\ tx'[w].rows = Uprooted
              /\ tx'[w].grants = GrantsOf(Uprooted)
           \/ \E i \in Invoices :
                 /\ SettleBegin(w, i)
                 /\ tx'[w].op = "settle" /\ tx'[w].invoice = i
                 /\ tx'[w].outcome = SettleDecision(i)
           \/ \E i \in Invoices :
                 SweepBegin(w, i) /\ tx'[w].op = "sweep"
<1>t. tx \in [Workers -> Transactions]
  BY DEF TypeInv, TypeOK
<1>1. ASSUME NEW v \in Workers, Commit(v) PROVE tx'[w] = tx[w] \/ tx'[w] = IdleTx
  BY <1>1, <1>t DEF Commit
<1>2. CASE tx' = tx
  BY <1>2
<1>3. ASSUME NEW v \in Workers, ReorgBegin(v)
      PROVE  \/ tx'[w] = tx[w]
             \/ /\ ReorgBegin(w) /\ entitlements' = entitlements
                /\ tx'[w].op = "reorg" /\ tx'[w].rows = Uprooted
                /\ tx'[w].grants = GrantsOf(Uprooted)
  <2>1. /\ \A u \in Workers \ {v} : tx'[u] = tx[u]
        /\ tx'[v].op = "reorg" /\ tx'[v].rows = Uprooted
        /\ tx'[v].grants = GrantsOf(Uprooted)
    BY <1>3, <1>t DEF ReorgBegin, Begin
  <2>2. entitlements' = entitlements
    BY <1>3 DEF ReorgBegin, moneyVars
  <2> QED BY <1>3, <2>1, <2>2
<1>4. ASSUME NEW v \in Workers, NEW i \in Invoices, SettleBegin(v, i)
      PROVE  \/ tx'[w] = tx[w]
             \/ /\ SettleBegin(w, i)
                /\ tx'[w].op = "settle" /\ tx'[w].invoice = i
                /\ tx'[w].outcome = SettleDecision(i)
  <2>1. /\ \A u \in Workers \ {v} : tx'[u] = tx[u]
        /\ tx'[v].op = "settle" /\ tx'[v].invoice = i
        /\ tx'[v].outcome = SettleDecision(i)
    BY <1>4, <1>t DEF SettleBegin, Begin
  <2> QED BY <1>4, <2>1
<1>5. ASSUME NEW v \in Workers, NEW i \in Invoices, SweepBegin(v, i)
      PROVE  tx'[w] = tx[w] \/ (SweepBegin(w, i) /\ tx'[w].op = "sweep")
  <2>1. (\A u \in Workers \ {v} : tx'[u] = tx[u]) /\ tx'[v].op = "sweep"
    BY <1>5, <1>t DEF SweepBegin, Begin
  <2> QED BY <1>5, <2>1
<1>6. ASSUME NEW v \in Workers, WorkerStep(v)
      PROVE  \/ Commit(v) \/ ReorgBegin(v)
             \/ \E i \in Invoices : SettleBegin(v, i) \/ SweepBegin(v, i)
  BY <1>6 DEF WorkerStep, SettleCommit, SettleGrant, SettlePartial, SettleUnderpaid,
              SettleRefuse, SettleWait, ReorgCommit, SweepCommit, Abort
<1>7. CASE SettlerPasses \/ OwnerResolves \/ Tick \/ Watcher
           \/ (\E i \in Invoices : Tamper(i)) \/ UNCHANGED vars
  <2>1. tx' = tx
    BY <1>7 DEF SettlerPasses, ExpireStale, NotifySeen, ReviewAnomaly, OwnerResolves,
                ResolveCredit, ResolveRefund, ResolveReject, Tick, Watcher, WatcherHeader,
                WatcherPayment, WatcherMoves, Tamper, vars
  <2> QED BY <2>1
<1> QED BY <1>1, <1>3, <1>4, <1>5, <1>6, <1>7 DEF Next

\* A grant keeps its number and its invoice.
LEMMA GrantsKeepInvoice ==
    ASSUME TypeInv, [Next]_vars, NEW k \in DOMAIN entitlements
    PROVE  k \in DOMAIN entitlements' /\ entitlements'[k].invoice = entitlements[k].invoice
<1>t. TypeOK /\ DOMAIN entitlements = 1..Len(entitlements) /\ Len(entitlements) \in Nat
  BY LenProperties DEF TypeInv, TypeOK
<1>1. ASSUME NEW j \in Invoices, NEW rows \in SUBSET Payments, NEW by \in {"policy", "owner"},
             entitlements' = WithGrant(j, rows, by)
      PROVE  k \in DOMAIN entitlements' /\ entitlements'[k].invoice = entitlements[k].invoice
  BY <1>1, <1>t, GrantType, ActiveAfterGrant
<1>2. ASSUME NEW w \in Workers, ReorgCommit(w)
      PROVE  k \in DOMAIN entitlements' /\ entitlements'[k].invoice = entitlements[k].invoice
  BY <1>2, <1>t, RevokeType, ActiveAfterRevoke DEF ReorgCommit
<1> QED BY <1>1, <1>2, GrantMoves DEF GrantsChange

\* Every step keeps ReorgOK.
LEMMA ReorgOKStep == TypeInv /\ ReorgOK /\ [Next]_vars => ReorgOK'
<1> SUFFICES ASSUME TypeInv, ReorgOK, [Next]_vars,
                    NEW w \in Workers, tx'[w].op = "reorg", NEW k \in tx'[w].grants
             PROVE  /\ k \in DOMAIN entitlements'
                    /\ entitlements'[k].invoice \in InvoicesOf(tx'[w].rows)
  BY DEF ReorgOK, InvoicesOf
<1>1. CASE tx'[w] = tx[w]
  BY <1>1, GrantsKeepInvoice DEF ReorgOK
<1>2. CASE tx'[w].rows = Uprooted /\ tx'[w].grants = GrantsOf(Uprooted)
           /\ entitlements' = entitlements
  BY <1>2 DEF GrantsOf, ActiveIds
<1>3. IdleTx.op # "reorg"
  BY DEF IdleTx
<1> QED BY <1>1, <1>2, <1>3, TxMoves

\* An invoice becomes settled only with a grant.
LEMMA SettledMoves ==
    ASSUME TypeInv, [Next]_vars, NEW i \in Invoices,
           invoice'[i] \in SettledStatuses, invoice[i] \notin SettledStatuses
    PROVE  HasActive(i)'
<1>t. TypeOK /\ TxOK /\ invoice \in [Invoices -> InvoiceStatuses]
  BY DEF TypeInv, TypeOK
<1>1. ASSUME NEW w \in Workers, SettleGrant(w) PROVE HasActive(i)'
  <2>1. i = tx[w].invoice /\ tx[w].rows \in SUBSET Payments
    BY <1>1, <1>t DEF SettleGrant, Settling, TypeOK, Transactions
  <2>2. CASE HasActive(i)
    BY <1>1, <2>1, <2>2 DEF SettleGrant, HasActive, ActiveIds
  <2>3. CASE ~HasActive(i)
    <3>1. entitlements' = WithGrant(i, tx[w].rows, "policy")
      BY <1>1, <2>1, <2>3 DEF SettleGrant
    <3> QED BY <1>t, <2>1, <3>1, GrantGivesActive
  <2> QED BY <2>2, <2>3
<1>2. ASSUME NEW r \in reviews, ResolveCredit(r) PROVE HasActive(i)'
  <2>1. i = r.invoice /\ MoneyOn(i) \in SUBSET Payments
    BY <1>2, <1>t, ReadType DEF ResolveCredit
  <2>2. CASE HasActive(i)
    BY <1>2, <2>1, <2>2 DEF ResolveCredit, HasActive, ActiveIds
  <2>3. CASE ~HasActive(i)
    <3>1. entitlements' = WithGrant(i, MoneyOn(i), "owner")
      BY <1>2, <2>1, <2>3 DEF ResolveCredit
    <3> QED BY <1>t, <2>1, <3>1, GrantGivesActive
  <2> QED BY <2>2, <2>3
<1>3. ASSUME NEW w \in Workers, WorkerStep(w), ~SettleGrant(w)
      PROVE  invoice'[i] \notin SettledStatuses
  <2>1. CASE SettlePartial(w) \/ SettleUnderpaid(w) \/ SettleRefuse(w) \/ SweepCommit(w)
    <3>1. \/ invoice' = invoice
          \/ \E s \in {"partially_paid", "manual_review", "expired"} :
                invoice' = [invoice EXCEPT ![tx[w].invoice] = s]
      BY <2>1 DEF SettlePartial, SettleUnderpaid, SettleRefuse, SweepCommit
    <3> QED BY <3>1, <1>t DEF SettledStatuses
  <2>2. CASE ReorgCommit(w)
    BY <2>2, <1>t DEF ReorgCommit, SettledStatuses
  <2>3. CASE UNCHANGED moneyVars
    BY <2>3 DEF moneyVars
  <2> QED BY <1>3, <2>1, <2>2, <2>3
          DEF WorkerStep, SettleCommit, SettleBegin, SweepBegin, ReorgBegin, SettleWait, Abort
<1>4. CASE SettlerPasses \/ Tick \/ Watcher \/ (\E j \in Invoices : Tamper(j)) \/ UNCHANGED vars
  BY <1>4, <1>t DEF SettlerPasses, ExpireStale, NotifySeen, ReviewAnomaly, Tick, Tamper, Watcher,
              WatcherHeader, WatcherPayment, WatcherMoves, moneyVars, vars, SettledStatuses
<1>5. ASSUME NEW r \in reviews, ResolveRefund(r) \/ ResolveReject(r)
      PROVE  invoice'[i] \notin SettledStatuses
  BY <1>5, <1>t DEF ResolveRefund, ResolveReject, SettledStatuses
<1> QED BY <1>1, <1>2, <1>3, <1>4, <1>5 DEF Next, OwnerResolves

\* An invoice shown as paid has a grant in force, for any number of workers
\* and whatever the owner decides meanwhile (settler/service.py, handle_reorg
\* and _apply_settlement): a step that revokes the last grant of an invoice is
\* the step that takes the invoice back.
THEOREM PaidHasProduct == Spec => []SettledHasGrant
<1>1. Init => ReorgOK /\ SettledHasGrant
  BY DEF Init, ReorgOK, IdleTx, SettledHasGrant, SettledStatuses
<1>2. TypeInv /\ ReorgOK /\ SettledHasGrant /\ [Next]_vars => SettledHasGrant'
  <2> SUFFICES ASSUME TypeInv, ReorgOK, SettledHasGrant, [Next]_vars,
                      NEW i \in Invoices, invoice'[i] \in SettledStatuses,
                      invoice[i] \in SettledStatuses
               PROVE  HasActive(i)'
    BY SettledMoves DEF SettledHasGrant
  <2>t. TypeOK /\ invoice \in [Invoices -> InvoiceStatuses] /\ HasActive(i)
    BY DEF TypeInv, TypeOK, SettledHasGrant
  <2>1. CASE entitlements' = entitlements
    BY <2>1, <2>t DEF HasActive, ActiveIds
  <2>2. ASSUME NEW j \in Invoices, NEW rows \in SUBSET Payments, NEW by \in {"policy", "owner"},
               entitlements' = WithGrant(j, rows, by)
        PROVE  HasActive(i)'
    BY <2>2, <2>t, ActiveAfterGrant DEF HasActive
  <2>3. ASSUME NEW w \in Workers, ReorgCommit(w) PROVE HasActive(i)'
    <3>1. i \notin InvoicesOf(tx[w].rows)
      BY <2>3, <2>t DEF ReorgCommit, Unsettles, SettledStatuses
    <3>2. ActiveIds(i) \intersect tx[w].grants = {}
      BY <2>3, <3>1 DEF ReorgOK, ReorgCommit, ActiveIds
    <3> QED BY <2>3, <2>t, <3>2, ActiveAfterRevoke DEF HasActive
  <2> QED BY <2>1, <2>2, <2>3, GrantMoves DEF GrantsChange
<1> QED BY <1>1, <1>2, ReorgOKStep, TypeInvHolds, PTL DEF Spec

-----------------------------------------------------------------------------
\* What was granted is never erased

\* A grant is never deleted, changed in its basis, or put in force again
\* (settler/repository.py, insert_entitlement and revoke_entitlements_for_invoices).
THEOREM HistoryIsKept == Spec => GrantHistoryKept
<1>1. TypeInv /\ [Next]_vars =>
          [/\ Len(entitlements) <= Len(entitlements')
           /\ \A k \in DOMAIN entitlements :
                 /\ entitlements[k].revoked => entitlements'[k] = entitlements[k]
                 /\ entitlements'[k].basis = entitlements[k].basis]_vars
  <2> SUFFICES ASSUME TypeInv, [Next]_vars
               PROVE  /\ Len(entitlements) <= Len(entitlements')
                      /\ \A k \in DOMAIN entitlements :
                            /\ entitlements[k].revoked => entitlements'[k] = entitlements[k]
                            /\ entitlements'[k].basis = entitlements[k].basis
    OBVIOUS
  <2>t. TypeOK /\ Len(entitlements) \in Nat
    BY LenProperties DEF TypeInv, TypeOK
  <2>1. CASE entitlements' = entitlements
    BY <2>t, <2>1
  <2>2. ASSUME NEW j \in Invoices, NEW rows \in SUBSET Payments, NEW by \in {"policy", "owner"},
               entitlements' = WithGrant(j, rows, by)
        PROVE  /\ Len(entitlements) <= Len(entitlements')
               /\ \A k \in DOMAIN entitlements : entitlements'[k] = entitlements[k]
    BY <2>t, <2>2, GrantType
  <2>3. ASSUME NEW w \in Workers, ReorgCommit(w)
        PROVE  /\ Len(entitlements) <= Len(entitlements')
               /\ \A k \in DOMAIN entitlements :
                     /\ entitlements[k].revoked => entitlements'[k] = entitlements[k]
                     /\ entitlements'[k].basis = entitlements[k].basis
    BY <2>t, <2>3, RevokeType DEF ReorgCommit
  <2> QED BY <2>1, <2>2, <2>3, GrantMoves DEF GrantsChange
<1> QED BY <1>1, TypeInvHolds, PTL DEF Spec, GrantHistoryKept

-----------------------------------------------------------------------------
\* Every grant is announced once, and corrected once

Announces(m) == m.kind \in {"invoice_settled", "invoice_manual_credit"}
Corrects(m)  == m.kind = "entitlement_revoked"

\* No message speaks of a grant that is not written yet.
NoneTooEarly == \A m \in outbox :
    Announces(m) \/ Corrects(m) => m.dedup \in DOMAIN entitlements

\* A step that changes no grant sends nothing about grants; the step that
\* writes one announces it, and the step that revokes some corrects those.
Silent == /\ entitlements' = entitlements
          /\ outbox \subseteq outbox'
          /\ \A m \in outbox' \ outbox : ~Announces(m) /\ ~Corrects(m)

Announced == \E i \in Invoices, rows \in SUBSET Payments, by \in {"policy", "owner"}, a \in outbox' :
    /\ entitlements' = WithGrant(i, rows, by)
    /\ outbox \subseteq outbox'
    /\ Announces(a) /\ a.ref = i /\ a.dedup = Len(entitlements) + 1
    /\ \A m \in outbox' \ outbox : ~Corrects(m) /\ (Announces(m) => m = a)

\* Messages are only ever added, and those about grants only by the step that
\* writes or revokes the grant.
LEMMA OutboxMoves ==
    ASSUME TypeInv, [Next]_vars
    PROVE  Silent \/ Announced \/ \E w \in Workers : ReorgCommit(w)
<1>t. TypeOK /\ TxOK
  BY DEF TypeInv
<1>e. outbox' = outbox /\ entitlements' = entitlements => Silent
  BY DEF Silent
<1>1. ASSUME NEW w \in Workers, SettleGrant(w) PROVE Silent \/ Announced
  <2> DEFINE i == tx[w].invoice
             rows == tx[w].rows
             id == Len(entitlements) + 1
             new == SettledMessages(i, id, tx[w].outcome)
             a == Message("invoice_settled", i, id)
  <2>1. i \in Invoices /\ rows \in SUBSET Payments
    BY <1>1, <1>t DEF SettleGrant, Settling, TypeOK, TxOK, Transactions
  <2>2. a \in new /\ Announces(a) /\ a.ref = i /\ a.dedup = id
    BY DEF SettledMessages, Message, Announces
  <2>3. \A m \in new : ~Corrects(m) /\ (Announces(m) => m = a)
    BY DEF SettledMessages, Message, Announces, Corrects
  <2>4. \/ outbox' = outbox /\ entitlements' = entitlements
        \/ entitlements' = WithGrant(i, rows, "policy") /\ outbox' = outbox \union new
    BY <1>1 DEF SettleGrant
  <2> HIDE DEF i, rows, id, new, a
  <2>5. ASSUME entitlements' = WithGrant(i, rows, "policy"), outbox' = outbox \union new
        PROVE  Announced
    BY <2>1, <2>2, <2>3, <2>5 DEF Announced, id
  <2> QED BY <1>e, <2>4, <2>5
<1>2. ASSUME NEW r \in reviews, ResolveCredit(r) PROVE Silent \/ Announced
  <2> DEFINE i == r.invoice
             rows == MoneyOn(i)
             id == Len(entitlements) + 1
             a == Message("invoice_manual_credit", i, id)
  <2>1. i \in Invoices /\ rows \in SUBSET Payments
    <3>1. r \in Reviews
      BY <1>t DEF TypeOK
    <3>2. i \in Invoices \union {NoInvoice} /\ i # NoInvoice
      BY <1>2, <3>1 DEF ResolveCredit, Reviews
    <3> QED BY <1>t, <3>2, ReadType
  <2>2. Announces(a) /\ ~Corrects(a) /\ a.ref = i /\ a.dedup = id
    BY DEF Message, Announces, Corrects
  <2>3. \/ outbox' = outbox /\ entitlements' = entitlements
        \/ entitlements' = WithGrant(i, rows, "owner") /\ outbox' = outbox \union {a}
    BY <1>2 DEF ResolveCredit
  <2> HIDE DEF i, rows, id, a
  <2>4. ASSUME entitlements' = WithGrant(i, rows, "owner"), outbox' = outbox \union {a}
        PROVE  Announced
    BY <2>1, <2>2, <2>4 DEF Announced, id
  <2> QED BY <1>e, <2>3, <2>4
<1>3. ASSUME NEW m, outbox' = outbox \union {m}, ~Announces(m), ~Corrects(m),
             entitlements' = entitlements
      PROVE  Silent
  BY <1>3 DEF Silent
<1>4. \A kind, ref, dedup :
        kind \notin {"invoice_settled", "invoice_manual_credit", "entitlement_revoked"} =>
            ~Announces(Message(kind, ref, dedup)) /\ ~Corrects(Message(kind, ref, dedup))
  BY DEF Announces, Corrects, Message
<1>5. ASSUME NEW w \in Workers, WorkerStep(w), ~SettleGrant(w), ~ReorgCommit(w) PROVE Silent
  <2>1. CASE SettlePartial(w)
    BY <2>1, <1>3, <1>4 DEF SettlePartial
  <2>2. CASE SettleUnderpaid(w)
    BY <2>2, <1>3, <1>4 DEF SettleUnderpaid
  <2>3. CASE SettleRefuse(w) \/ SettleWait(w) \/ SweepCommit(w)
    <3>1. outbox' = outbox
      BY <2>3 DEF SettleRefuse, SettleWait, SweepCommit, moneyVars
    <3> QED BY <2>3, <3>1, <1>e, GrantlessSteps
  <2>4. CASE ~SettleCommit(w) /\ ~SweepCommit(w)
    BY <1>5, <2>4, <1>e, ReadingSteps
  <2> QED BY <1>5, <2>1, <2>2, <2>3, <2>4 DEF SettleCommit
<1>6. CASE SettlerPasses
  <2>1. ASSUME NEW i \in Invoices, ExpireStale(i) PROVE Silent
    BY <2>1, <1>3, <1>4 DEF ExpireStale
  <2>2. ASSUME NEW p \in Payments, NotifySeen(p) PROVE Silent
    BY <2>2, <1>3, <1>4 DEF NotifySeen
  <2>3. ASSUME NEW p \in Payments, ReviewAnomaly(p) PROVE Silent
    BY <2>3, <1>e DEF ReviewAnomaly
  <2> QED BY <1>6, <2>1, <2>2, <2>3 DEF SettlerPasses
<1>7. ASSUME NEW r \in reviews, ResolveRefund(r) PROVE Silent
  <2> DEFINE received == {p \in PaymentsOf(r.invoice) : payStatus[p] \in CreditableStatuses}
  <2>1. entitlements' = entitlements
    BY <1>7 DEF ResolveRefund
  <2>2. \/ outbox' = outbox
        \/ outbox' = outbox \union {Message("refund_requested", r.invoice, SumOf(received))}
    BY <1>7 DEF ResolveRefund
  <2> QED BY <1>e, <1>3, <1>4, <2>1, <2>2
<1>8. ASSUME NEW r \in reviews, ResolveReject(r) PROVE Silent
  <2>1. entitlements' = entitlements
    BY <1>8 DEF ResolveReject
  <2>2. \/ outbox' = outbox
        \/ outbox' = outbox \union {Message("invoice_rejected", r.invoice, r)}
    BY <1>8 DEF ResolveReject
  <2> QED BY <1>e, <1>3, <1>4, <2>1, <2>2
<1>9. CASE Tick \/ Watcher \/ (\E i \in Invoices : Tamper(i)) \/ UNCHANGED vars
  <2>1. outbox' = outbox /\ entitlements' = entitlements
    BY <1>9 DEF Tick, Watcher, WatcherHeader, WatcherPayment, WatcherMoves, Tamper, moneyVars, vars
  <2> QED BY <2>1, <1>e
<1> QED BY <1>1, <1>2, <1>5, <1>6, <1>7, <1>8, <1>9 DEF Next, OwnerResolves

\* Every step keeps NoneTooEarly.
LEMMA NoneTooEarlyStep ==
    TypeInv /\ ReorgOK /\ NoneTooEarly /\ [Next]_vars => NoneTooEarly'
<1> SUFFICES ASSUME TypeInv, ReorgOK, NoneTooEarly, [Next]_vars,
                    NEW m \in outbox', Announces(m) \/ Corrects(m)
             PROVE  m.dedup \in DOMAIN entitlements'
  BY DEF NoneTooEarly, Announces, Corrects
<1>t. TypeOK
  BY DEF TypeInv
<1>1. m \in outbox => m.dedup \in DOMAIN entitlements'
  BY GrantsKeepInvoice DEF NoneTooEarly
<1>2. CASE Silent
  BY <1>1, <1>2 DEF Silent
<1>3. CASE Announced
  BY <1>1, <1>3, <1>t, ActiveAfterGrant DEF Announced
<1>4. ASSUME NEW w \in Workers, ReorgCommit(w), m \notin outbox
      PROVE  m.dedup \in DOMAIN entitlements'
  <2>1. \E k \in tx[w].grants : m = Message("entitlement_revoked", entitlements[k].invoice, k)
    BY <1>4 DEF ReorgCommit, Correction
  <2>2. m.dedup \in tx[w].grants
    BY <2>1 DEF Message
  <2>3. m.dedup \in DOMAIN entitlements
    BY <1>4, <2>2 DEF ReorgOK, ReorgCommit
  <2> QED BY <2>3, GrantsKeepInvoice
<1> QED BY <1>1, <1>2, <1>3, <1>4, OutboxMoves

\* Every grant is announced by exactly one message, and corrected by exactly
\* one when it is revoked, however often an invoice is settled and rolled back
\* (settler/repository.py, enqueue_notification).
THEOREM AnnouncedExactlyOnce == Spec => []AnnouncedOnce
<1>1. Init => ReorgOK /\ NoneTooEarly /\ AnnouncedOnce
  BY DEF Init, ReorgOK, IdleTx, NoneTooEarly, AnnouncedOnce
<1>2. TypeInv /\ ReorgOK /\ NoneTooEarly /\ AnnouncedOnce /\ [Next]_vars => AnnouncedOnce'
  <2> SUFFICES ASSUME TypeInv, ReorgOK, NoneTooEarly, AnnouncedOnce, [Next]_vars,
                      NEW k \in DOMAIN entitlements'
               PROVE  /\ \E m \in Announcements(k)' : Announcements(k)' = {m}
                      /\ entitlements'[k].revoked <=> Correction(k)' \in outbox'
    BY DEF AnnouncedOnce
  <2> DEFINE Goal == /\ \E m \in Announcements(k)' : Announcements(k)' = {m}
                     /\ entitlements'[k].revoked <=> Correction(k)' \in outbox'
  <2>t. TypeOK
    BY DEF TypeInv
  <2>1. CASE Silent
    <3>1. Announcements(k)' = Announcements(k)
      BY <2>1 DEF Silent, Announcements, Announces
    <3>2. Correction(k)' = Correction(k) /\ Corrects(Correction(k))
      BY <2>1 DEF Silent, Correction, Corrects, Message
    <3> QED BY <2>1, <3>1, <3>2 DEF Silent, AnnouncedOnce
  <2>2. CASE Announced
    <3>1. PICK i \in Invoices, rows \in SUBSET Payments, by \in {"policy", "owner"}, a \in outbox' :
              /\ entitlements' = WithGrant(i, rows, by)
              /\ outbox \subseteq outbox'
              /\ Announces(a) /\ a.ref = i /\ a.dedup = Len(entitlements) + 1
              /\ \A m \in outbox' \ outbox : ~Corrects(m) /\ (Announces(m) => m = a)
      BY <2>2 DEF Announced
    <3> DEFINE id == Len(entitlements) + 1
    <3>2. /\ DOMAIN entitlements' = DOMAIN entitlements \union {id}
          /\ id \notin DOMAIN entitlements
      BY <2>t, <3>1, ActiveAfterGrant
    <3>3. /\ \A l \in DOMAIN entitlements : entitlements'[l] = entitlements[l]
          /\ entitlements'[id].invoice = i /\ ~entitlements'[id].revoked
      <4>1. NewGrant(i, rows, by).invoice = i /\ ~NewGrant(i, rows, by).revoked
        BY DEF NewGrant
      <4>2. /\ \A l \in DOMAIN entitlements : WithGrant(i, rows, by)[l] = entitlements[l]
            /\ WithGrant(i, rows, by)[id] = NewGrant(i, rows, by)
        BY <2>t, GrantType
      <4> QED BY <3>1, <4>1, <4>2
    <3> HIDE DEF id
    <3>4. Corrects(Correction(k)') /\ Correction(k)'.dedup = k
      BY DEF Correction, Corrects, Message
    <3>5. CASE k = id
      <4>1. Announcements(k)' = {a}
        BY <3>1, <3>2, <3>3, <3>5 DEF Announcements, Announces, NoneTooEarly, id
      <4>2. Correction(k)' \notin outbox'
        BY <3>1, <3>2, <3>4, <3>5 DEF NoneTooEarly
      <4> QED BY <3>3, <3>5, <4>1, <4>2
    <3>6. CASE k \in DOMAIN entitlements
      <4>1. entitlements'[k] = entitlements[k] /\ k # id
        BY <3>2, <3>3, <3>6
      <4>2. Announcements(k)' = Announcements(k)
        BY <3>1, <4>1 DEF Announcements, Announces, id
      <4>3. Correction(k)' = Correction(k)
        BY <4>1 DEF Correction
      <4>4. Correction(k)' \in outbox' <=> Correction(k) \in outbox
        BY <3>1, <3>4, <4>3
      <4> QED BY <3>6, <4>1, <4>2, <4>4 DEF AnnouncedOnce
    <3> QED BY <3>2, <3>5, <3>6
  <2>3. ASSUME NEW w \in Workers, ReorgCommit(w) PROVE Goal
    <3> DEFINE new == {Correction(l) : l \in tx[w].grants}
    <3>1. k \in DOMAIN entitlements
      BY <2>3, <2>t, ActiveAfterRevoke
    <3>2. /\ entitlements'[k].invoice = entitlements[k].invoice
          /\ entitlements'[k].revoked <=> k \in tx[w].grants \/ entitlements[k].revoked
      BY <2>3, <2>t, <3>1, RevokeType DEF ReorgCommit
    <3>3. outbox' = outbox \union new
      BY <2>3 DEF ReorgCommit, Correction
    <3>4. \A m \in new : ~Announces(m)
      BY DEF Correction, Announces, Message
    <3>5. Correction(k)' = Correction(k)
      BY <3>2 DEF Correction
    <3>6. Correction(k) \in new <=> k \in tx[w].grants
      <4>1. \A l : Correction(l).dedup = l
        BY DEF Correction, Message
      <4> QED BY <4>1
    <3> HIDE DEF new
    <3>7. Announcements(k)' = Announcements(k)
      BY <3>2, <3>3, <3>4 DEF Announcements, Announces
    <3>8. entitlements'[k].revoked <=> Correction(k)' \in outbox'
      BY <3>1, <3>2, <3>3, <3>5, <3>6 DEF AnnouncedOnce
    <3> QED BY <3>1, <3>7, <3>8 DEF AnnouncedOnce
  <2> QED BY <2>1, <2>2, <2>3, OutboxMoves
<1> QED BY <1>1, <1>2, NoneTooEarlyStep, ReorgOKStep, TypeInvHolds, PTL DEF Spec

-----------------------------------------------------------------------------
\* What the lock on the invoice row protects

\* While a settlement is open nobody else settles its invoice, the invoice
\* stays live, and a decision to grant was taken on a row that verifies.
LockOK == \A w \in Workers : tx[w].op = "settle" =>
    /\ invoice[tx[w].invoice] \in LiveStatuses
    /\ tx[w].outcome \in GrantingOutcomes => macOk[tx[w].invoice]
    /\ \A v \in Workers \ {w} : ~(tx[v].op = "settle" /\ tx[v].invoice = tx[w].invoice)

\* While a settlement has the row lock of an invoice, nobody else changes its
\* status or its row.
LEMMA LockHolds ==
    ASSUME TypeInv, LockOK, [Next]_vars, NEW w \in Workers,
           tx[w].op = "settle", tx'[w] = tx[w]
    PROVE  /\ invoice'[tx[w].invoice] = invoice[tx[w].invoice]
           /\ macOk'[tx[w].invoice] = macOk[tx[w].invoice]
<1> DEFINE i == tx[w].invoice
           Held == invoice'[i] = invoice[i] /\ macOk'[i] = macOk[i]
<1>t. /\ tx \in [Workers -> Transactions] /\ invoice \in [Invoices -> InvoiceStatuses]
      /\ macOk \in [Invoices -> BOOLEAN] /\ i \in Invoices
      /\ invoice[i] \in LiveStatuses
  BY DEF TypeInv, TypeOK, TxOK, LockOK
<1>f. ~InvoiceFree(i)
  BY DEF InvoiceFree
<1>c. ASSUME Commit(w) PROVE FALSE
  BY <1>c, <1>t DEF Commit, IdleTx
<1>1. ASSUME NEW v \in Workers, SettleCommit(v) PROVE Held
  <2>1. Commit(v) /\ tx[v].op = "settle"
    BY <1>1 DEF SettleCommit, SettleGrant, SettlePartial, SettleUnderpaid, SettleRefuse,
                SettleWait, Settling
  <2>2. tx[v].invoice # i
    BY <1>c, <2>1 DEF LockOK
  <2>3. \/ invoice' = invoice
        \/ \E s : invoice' = [invoice EXCEPT ![tx[v].invoice] = s]
    BY <1>1 DEF SettleCommit, SettleGrant, SettlePartial, SettleUnderpaid, SettleRefuse,
                SettleWait, moneyVars
  <2>4. macOk' = macOk
    BY <1>1 DEF SettleCommit, SettleGrant, SettlePartial, SettleUnderpaid, SettleRefuse,
                SettleWait
  <2> HIDE DEF i
  <2> QED BY <1>t, <2>2, <2>3, <2>4
<1>2. ASSUME NEW v \in Workers, ReorgCommit(v) PROVE Held
  BY <1>2, <1>t DEF ReorgCommit, Unsettles, SettledStatuses, LiveStatuses
<1>3. ASSUME NEW v \in Workers, SweepCommit(v) PROVE Held
  <2>1. tx[v].invoice # i
    BY <1>3, <1>f DEF SweepCommit
  <2>2. \/ invoice' = invoice
        \/ \E s : invoice' = [invoice EXCEPT ![tx[v].invoice] = s]
    BY <1>3 DEF SweepCommit
  <2>3. macOk' = macOk
    BY <1>3 DEF SweepCommit
  <2> HIDE DEF i
  <2> QED BY <1>t, <2>1, <2>2, <2>3
<1>4. ASSUME NEW r \in reviews, ResolveCredit(r) \/ ResolveRefund(r) \/ ResolveReject(r)
      PROVE  Held
  <2>1. r.invoice # i
    BY <1>4, <1>f, <1>t DEF ResolveCredit, ResolveRefund, ResolveReject
  <2>2. \/ invoice' = invoice
        \/ \E s : invoice' = [invoice EXCEPT ![r.invoice] = s]
    BY <1>4 DEF ResolveCredit, ResolveRefund, ResolveReject
  <2>3. macOk' = macOk
    BY <1>4 DEF ResolveCredit, ResolveRefund, ResolveReject
  <2> HIDE DEF i
  <2> QED BY <1>t, <2>1, <2>2, <2>3
<1>5. ASSUME NEW j \in Invoices, ExpireStale(j) \/ Tamper(j) PROVE Held
  <2>1. j # i
    BY <1>5, <1>f DEF ExpireStale, Tamper
  <2> HIDE DEF i
  <2> QED BY <1>5, <1>t, <2>1 DEF ExpireStale, Tamper, moneyVars
<1>6. ASSUME NEW v \in Workers, WorkerStep(v), ~SettleCommit(v), ~ReorgCommit(v), ~SweepCommit(v)
      PROVE  Held
  BY <1>6, ReadingSteps
<1>7. ASSUME NEW p \in Payments, NotifySeen(p) \/ ReviewAnomaly(p) PROVE Held
  BY <1>7 DEF NotifySeen, ReviewAnomaly
<1>8. CASE Tick \/ Watcher \/ UNCHANGED vars
  BY <1>8, OutsideSteps
<1> QED BY <1>1, <1>2, <1>3, <1>4, <1>5, <1>6, <1>7, <1>8
        DEF Next, SettlerPasses, OwnerResolves

\* Every step keeps LockOK.
LEMMA LockOKStep == TypeInv /\ LockOK /\ [Next]_vars => LockOK'
<1> SUFFICES ASSUME TypeInv, LockOK, [Next]_vars,
                    NEW w \in Workers, tx'[w].op = "settle"
             PROVE  /\ invoice'[tx'[w].invoice] \in LiveStatuses
                    /\ tx'[w].outcome \in GrantingOutcomes => macOk'[tx'[w].invoice]
                    /\ \A v \in Workers \ {w} :
                          ~(tx'[v].op = "settle" /\ tx'[v].invoice = tx'[w].invoice)
  BY DEF LockOK, LiveStatuses, GrantingOutcomes
<1>0. IdleTx.op # "settle"
  BY DEF IdleTx
<1>b. \A v \in Workers, i \in Invoices : SettleBegin(v, i) =>
          /\ InvoiceFree(i) /\ tx' = [tx EXCEPT ![v] = tx'[v]]
          /\ UNCHANGED <<invoice, macOk>>
          /\ invoice[i] \in LiveStatuses
          /\ SettleDecision(i) \in GrantingOutcomes => macOk[i]
  <2>1. ASSUME NEW v \in Workers, NEW i \in Invoices, SettleBegin(v, i)
        PROVE  tx' = [tx EXCEPT ![v] = tx'[v]]
    BY <2>1 DEF SettleBegin, Begin, TypeInv, TypeOK
  <2>2. "integrity_failed" \notin GrantingOutcomes
    BY DEF GrantingOutcomes
  <2> QED BY <2>1, <2>2 DEF SettleBegin, SettleCandidate, SettleDecision, moneyVars
<1>1. CASE tx'[w] = tx[w]
  <2>1. /\ invoice'[tx[w].invoice] = invoice[tx[w].invoice]
        /\ macOk'[tx[w].invoice] = macOk[tx[w].invoice]
    BY <1>1, LockHolds
  <2>2. ASSUME NEW v \in Workers \ {w}, tx'[v].op = "settle", tx'[v].invoice = tx[w].invoice
        PROVE  FALSE
    <3>1. CASE tx'[v] = tx[v]
      BY <1>1, <2>2, <3>1 DEF LockOK
    <3>2. ASSUME NEW i \in Invoices, SettleBegin(v, i), tx'[v].invoice = i PROVE FALSE
      BY <1>1, <1>b, <2>2, <3>2 DEF InvoiceFree
    <3> QED BY <1>0, <2>2, <3>1, <3>2, TxMoves
  <2> QED BY <1>1, <2>1, <2>2 DEF LockOK
<1>2. ASSUME NEW i \in Invoices, SettleBegin(w, i), tx'[w].invoice = i,
             tx'[w].outcome = SettleDecision(i)
      PROVE  /\ invoice'[i] \in LiveStatuses
             /\ tx'[w].outcome \in GrantingOutcomes => macOk'[i]
             /\ \A v \in Workers \ {w} : ~(tx'[v].op = "settle" /\ tx'[v].invoice = i)
  <2>1. \A v \in Workers \ {w} : tx'[v] = tx[v]
    BY <1>2 DEF SettleBegin, Begin, TypeInv, TypeOK
  <2> QED BY <1>2, <1>b, <2>1 DEF InvoiceFree
<1> QED BY <1>0, <1>1, <1>2, TxMoves

\* LockOK is an invariant of the settler.
LEMMA LockHeld == Spec => []LockOK
<1>1. Init => LockOK
  BY DEF Init, LockOK, IdleTx
<1> QED BY <1>1, LockOKStep, TypeInvHolds, PTL DEF Spec

\* The policy grants nothing on a row that does not verify at the moment of
\* the grant, whoever changes rows and whenever (settler/service.py,
\* settle_invoice: the check comes after the row lock).
THEOREM TamperedIsRefused == Spec => TamperedNeverGranted
<1>1. TypeInv /\ LockOK /\ [Next]_vars =>
          [\A i \in Invoices :
              ~macOk[i] => \A k \in DOMAIN entitlements' \ DOMAIN entitlements :
                  entitlements'[k].invoice = i => entitlements'[k].by = "owner"]_vars
  <2> SUFFICES ASSUME TypeInv, LockOK, [Next]_vars, NEW i \in Invoices, ~macOk[i],
                      NEW k \in DOMAIN entitlements' \ DOMAIN entitlements,
                      entitlements'[k].invoice = i
               PROVE  entitlements'[k].by = "owner"
    OBVIOUS
  <2>t. TypeOK
    BY DEF TypeInv
  <2>1. ASSUME NEW w \in Workers, SettleGrant(w) PROVE macOk[tx[w].invoice]
    BY <2>1 DEF SettleGrant, Settling, LockOK
  <2>2. ASSUME NEW j \in Invoices, NEW rows \in SUBSET Payments, NEW by \in {"policy", "owner"},
               entitlements' = WithGrant(j, rows, by),
               by = "policy" => \E w \in Workers : SettleGrant(w) /\ tx[w].invoice = j
        PROVE  entitlements'[k].by = "owner"
    <3>1. k = Len(entitlements) + 1
      BY <2>t, <2>2, ActiveAfterGrant
    <3>2. entitlements'[k] = NewGrant(j, rows, by)
      BY <2>t, <2>2, <3>1, GrantType
    <3>3. j = i /\ entitlements'[k].by = by
      BY <3>2 DEF NewGrant
    <3> QED BY <2>1, <2>2, <3>3
  <2>3. ASSUME NEW w \in Workers, ReorgCommit(w) PROVE FALSE
    BY <2>t, <2>3, ActiveAfterRevoke
  <2> QED BY <2>2, <2>3, GrantMoves DEF GrantsChange
<1> QED BY <1>1, TypeInvHolds, LockHeld, PTL DEF Spec, TamperedNeverGranted

\* Nothing that is over is reopened: a late commit finds its invoice as it was
\* read, or leaves it alone (settler/service.py, settle_invoice and
\* sweep_expired_invoices; settler/admin/reviews.py).
THEOREM ClosedIsFinal == Spec => ClosedStaysClosed
<1>1. TypeInv /\ LockOK /\ [Next]_vars =>
          [\A i \in Invoices :
              /\ invoice[i] \in Terminal => invoice'[i] = invoice[i]
              /\ invoice[i] = "manual_review" /\ invoice'[i] # "manual_review" =>
                    \E r \in reviews \ reviews' : r.invoice = i]_vars
  <2> DEFINE Over(i) == invoice[i] \in Terminal \union {"manual_review"}
             Closed(i) == \E r \in reviews \ reviews' : r.invoice = i
             Goal(i) == /\ invoice[i] \in Terminal => invoice'[i] = invoice[i]
                        /\ invoice[i] = "manual_review" /\ invoice'[i] # "manual_review" =>
                              Closed(i)
  <2> SUFFICES ASSUME TypeInv, LockOK, [Next]_vars, NEW i \in Invoices, Over(i) PROVE Goal(i)
    OBVIOUS
  <2>t. invoice \in [Invoices -> InvoiceStatuses]
    BY DEF TypeInv, TypeOK
  <2>o. invoice[i] \notin LiveStatuses \union SettledStatuses
    BY DEF Terminal, LiveStatuses, SettledStatuses
  <2>1. ASSUME NEW w \in Workers, SettleCommit(w) PROVE invoice'[i] = invoice[i]
    <3>1. tx[w].invoice # i
      BY <2>1, <2>o DEF SettleCommit, SettleGrant, SettlePartial, SettleUnderpaid, SettleRefuse,
                  SettleWait, Settling, LockOK
    <3>2. \/ invoice' = invoice
          \/ \E s : invoice' = [invoice EXCEPT ![tx[w].invoice] = s]
      BY <2>1 DEF SettleCommit, SettleGrant, SettlePartial, SettleUnderpaid, SettleRefuse,
                  SettleWait, moneyVars
    <3> QED BY <2>t, <3>1, <3>2
  <2>2. ASSUME NEW w \in Workers, ReorgCommit(w) PROVE invoice'[i] = invoice[i]
    BY <2>2, <2>o, <2>t DEF ReorgCommit, Unsettles
  <2>3. ASSUME NEW w \in Workers, SweepCommit(w) PROVE invoice'[i] = invoice[i]
    <3>1. \/ invoice' = invoice
          \/ /\ invoice[tx[w].invoice] \in LiveStatuses
             /\ \E s : invoice' = [invoice EXCEPT ![tx[w].invoice] = s]
      BY <2>3 DEF SweepCommit
    <3> QED BY <2>t, <2>o, <3>1
  <2>4. ASSUME NEW r \in reviews, ResolveCredit(r) \/ ResolveRefund(r) \/ ResolveReject(r)
        PROVE  Goal(i)
    <3>1. r \in reviews \ reviews'
      BY <2>4 DEF ResolveCredit, ResolveRefund, ResolveReject, CloseCase
    <3>2. \/ invoice' = invoice
          \/ /\ invoice[r.invoice] \in ResolvableStatuses
             /\ \E s : invoice' = [invoice EXCEPT ![r.invoice] = s]
      BY <2>4 DEF ResolveCredit, ResolveRefund, ResolveReject
    <3>3. invoice'[i] # invoice[i] => r.invoice = i /\ invoice[i] \in ResolvableStatuses
      BY <2>t, <3>2
    <3>4. \A s \in Terminal : s \notin ResolvableStatuses
      BY DEF Terminal, ResolvableStatuses, LiveStatuses
    <3> QED BY <3>1, <3>3, <3>4
  <2>5. ASSUME NEW j \in Invoices, ExpireStale(j) \/ Tamper(j) PROVE invoice'[i] = invoice[i]
    BY <2>5, <2>t, <2>o DEF ExpireStale, Tamper, moneyVars
  <2>6. ASSUME NEW w \in Workers, WorkerStep(w), ~SettleCommit(w), ~ReorgCommit(w), ~SweepCommit(w)
        PROVE  invoice' = invoice
    BY <2>6, ReadingSteps
  <2>7. ASSUME NEW p \in Payments, NotifySeen(p) \/ ReviewAnomaly(p) PROVE invoice' = invoice
    BY <2>7 DEF NotifySeen, ReviewAnomaly
  <2>8. CASE Tick \/ Watcher \/ UNCHANGED vars
    <3>1. invoice' = invoice
      BY <2>8, OutsideSteps
    <3> QED BY <3>1
  <2> QED BY <2>1, <2>2, <2>3, <2>4, <2>5, <2>6, <2>7, <2>8
          DEF Next, SettlerPasses, OwnerResolves
<1> QED BY <1>1, TypeInvHolds, LockHeld, PTL DEF Spec, ClosedStaysClosed

-----------------------------------------------------------------------------
\* One settler, and no decision of the owner under way

Alone == ~OwnerActs /\ \E w : Workers = {w}

\* The reorganisation under way takes every grant of the invoices it touches.
ReorgWhole == \A w \in Workers : tx[w].op = "reorg" =>
    \A p \in tx[w].rows : InvoiceOf[p] # NoInvoice => ActiveIds(InvoiceOf[p]) \subseteq tx[w].grants

\* The settlement under way counts money of its own invoice that is still there
\* and enough.
RowsCount == \A w \in Workers : tx[w].op = "settle" /\ tx[w].outcome \in GrantingOutcomes =>
    /\ \A p \in tx[w].rows : InvoiceOf[p] = tx[w].invoice /\ payStatus[p] \in RevertibleStatuses
    /\ Grants(Due[tx[w].invoice], SumOf(tx[w].rows), TRUE)

\* Nobody else touches grants or recorded money while the only transaction is open.
LEMMA AloneFrozen ==
    ASSUME Alone, TypeInv, [Next]_vars, NEW w \in Workers,
           tx[w].op # "idle", tx'[w] = tx[w]
    PROVE  /\ entitlements' = entitlements
           /\ \A p \in Payments : payStatus[p] \in RevertibleStatuses => payStatus'[p] = payStatus[p]
<1> DEFINE Frozen == /\ entitlements' = entitlements
                     /\ \A p \in Payments : payStatus[p] \in RevertibleStatuses =>
                                                payStatus'[p] = payStatus[p]
<1>t. tx \in [Workers -> Transactions] /\ payStatus \in [Payments -> PaymentStatuses]
  BY DEF TypeInv, TypeOK
<1>1. ASSUME NEW v \in Workers, WorkerStep(v) PROVE FALSE
  <2>1. v = w
    BY DEF Alone
  <2>2. Commit(w) \/ tx[w].op = "idle"
    BY <1>1, <2>1 DEF WorkerStep, SettleCommit, SettleGrant, SettlePartial, SettleUnderpaid,
              SettleRefuse, SettleWait, ReorgCommit, SweepCommit, Abort,
              SettleBegin, SweepBegin, ReorgBegin
  <2> QED BY <1>t, <2>2 DEF Commit, IdleTx
<1>2. CASE SettlerPasses \/ Tick \/ (\E i \in Invoices : Tamper(i)) \/ UNCHANGED vars
  BY <1>2 DEF SettlerPasses, ExpireStale, NotifySeen, ReviewAnomaly, Tick, Tamper,
              ledgerVars, moneyVars, vars
<1>3. CASE Watcher
  <2>1. entitlements' = entitlements
    BY <1>3 DEF Watcher, WatcherHeader, WatcherPayment, WatcherMoves, moneyVars
  <2>2. ASSUME NEW q \in Payments, NEW h \in Heights, WatcherPayment(q, h)
        PROVE  \A p \in Payments : payStatus[p] \in RevertibleStatuses =>
                                       payStatus'[p] = payStatus[p]
    BY <1>t, <2>2 DEF WatcherPayment, RevertibleStatuses, CreditableStatuses
  <2> QED BY <1>3, <2>1, <2>2 DEF Watcher, WatcherHeader, WatcherMoves, ledgerVars
<1> QED BY <1>1, <1>2, <1>3 DEF Next, OwnerResolves, Alone

\* Whatever the window, a granting outcome means that the sum is enough.
LEMMA WindowGrantsAlike ==
    ASSUME NEW d, NEW t, NEW w, Classify(d, t, w) \in GrantingOutcomes
    PROVE  Grants(d, t, TRUE)
BY DEF Classify, Grants, GrantingOutcomes

\* Every step of a single settler keeps what its transaction has read true.
LEMMA DeployedStep ==
    ASSUME Alone, TypeInv, [Next]_vars, ReorgWhole, RowsCount
    PROVE  ReorgWhole' /\ RowsCount'
<1>t. TypeOK
  BY DEF TypeInv
<1>0. IdleTx.op = "idle"
  BY DEF IdleTx
<1>1. ASSUME NEW w \in Workers, tx'[w].op = "reorg", NEW p \in tx'[w].rows, InvoiceOf[p] # NoInvoice
      PROVE  ActiveIds(InvoiceOf[p])' \subseteq tx'[w].grants
  <2>1. CASE tx'[w] = tx[w]
    BY <1>1, <2>1, AloneFrozen DEF ReorgWhole, ActiveIds
  <2>2. CASE /\ entitlements' = entitlements /\ tx'[w].rows = Uprooted
             /\ tx'[w].grants = GrantsOf(Uprooted)
    <3>1. InvoiceOf[p] \in InvoicesOf(Uprooted)
      BY <1>1, <2>2 DEF InvoicesOf
    <3> QED BY <2>2, <3>1 DEF GrantsOf, ActiveIds
  <2> QED BY <1>0, <1>1, <2>1, <2>2, TxMoves
<1>2. ASSUME NEW w \in Workers, tx'[w].op = "settle", tx'[w].outcome \in GrantingOutcomes
      PROVE  /\ \A p \in tx'[w].rows : /\ InvoiceOf[p] = tx'[w].invoice
                                       /\ payStatus'[p] \in RevertibleStatuses
             /\ Grants(Due[tx'[w].invoice], SumOf(tx'[w].rows), TRUE)
  <2>1. CASE tx'[w] = tx[w]
    <3>1. tx[w].rows \subseteq Payments
      BY <1>t DEF TypeOK, Transactions
    <3>2. /\ \A p \in tx[w].rows : InvoiceOf[p] = tx[w].invoice /\ payStatus[p] \in RevertibleStatuses
          /\ Grants(Due[tx[w].invoice], SumOf(tx[w].rows), TRUE)
      BY <1>2, <2>1, Zenon DEF RowsCount
    <3>3. tx[w].op # "idle"
      BY <1>2, <2>1
    <3>4. \A p \in tx[w].rows : payStatus'[p] = payStatus[p]
      BY <2>1, <3>1, <3>2, <3>3, AloneFrozen
    <3>5. \A p \in tx[w].rows : InvoiceOf[p] = tx[w].invoice /\ payStatus'[p] \in RevertibleStatuses
      BY <3>2, <3>4
    <3> QED BY <2>1, <3>2, <3>5, Zenon
  <2>2. ASSUME NEW i \in Invoices, SettleBegin(w, i), tx'[w].invoice = i,
               tx'[w].outcome = SettleDecision(i)
        PROVE  /\ \A p \in tx'[w].rows : /\ InvoiceOf[p] = tx'[w].invoice
                                         /\ payStatus'[p] \in RevertibleStatuses
               /\ Grants(Due[tx'[w].invoice], SumOf(tx'[w].rows), TRUE)
    <3>1. macOk[i] /\ Classify(Due[i], SumOf(DeepRows(i)), now <= TopupUntil) \in GrantingOutcomes
      BY <1>2, <2>2 DEF SettleDecision, GrantingOutcomes
    <3>2. tx'[w].rows = DeepRows(i) /\ payStatus' = payStatus
      BY <1>t, <2>2, <3>1 DEF SettleBegin, Begin, TypeOK, ledgerVars
    <3>3. \A p \in DeepRows(i) : InvoiceOf[p] = i /\ payStatus[p] \in RevertibleStatuses
      BY DEF DeepRows, MoneyOn, PaymentsOf
    <3>4. Grants(Due[i], SumOf(DeepRows(i)), TRUE)
      BY <3>1, WindowGrantsAlike
    <3>5. Grants(Due[i], SumOf(tx'[w].rows), TRUE)
      BY <3>2, <3>4, Zenon
    <3>6. \A p \in tx'[w].rows : InvoiceOf[p] = i /\ payStatus'[p] \in RevertibleStatuses
      BY <3>2, <3>3
    <3> QED BY <2>2, <3>5, <3>6, Zenon
  <2>3. \/ tx'[w] = tx[w]
        \/ \E i \in Invoices : /\ SettleBegin(w, i) /\ tx'[w].invoice = i
                               /\ tx'[w].outcome = SettleDecision(i)
    BY <1>0, <1>2, TxMoves
  <2> QED BY <2>1, <2>2, <2>3, Zenon
<1>3. ReorgWhole'
  BY <1>1 DEF ReorgWhole
<1>4. RowsCount'
  BY <1>2 DEF RowsCount
<1> QED BY <1>3, <1>4

\* ReorgWhole and RowsCount are invariants of a single settler.
LEMMA DeployedHolds == Alone => (Spec => [](ReorgWhole /\ RowsCount))
<1> SUFFICES ASSUME Alone PROVE Spec => [](ReorgWhole /\ RowsCount)
  OBVIOUS
<1>1. Init => ReorgWhole /\ RowsCount
  <2>1. Init => \A w \in Workers : tx[w].op = "idle"
    BY DEF Init, IdleTx
  <2> QED BY <2>1 DEF ReorgWhole, RowsCount
<1>2. TypeInv /\ ReorgWhole /\ RowsCount /\ [Next]_vars => (ReorgWhole /\ RowsCount)'
  BY DeployedStep
<1> QED BY <1>1, <1>2, TypeInvHolds, PTL DEF Spec

\* With one settler, and no decision of the owner in flight, a grant in force
\* belongs to an invoice that counts as paid: handle_reorg takes back every
\* grant of every invoice it touches, in one commit (settler/service.py).
THEOREM DeployedGrantIsSettled == Alone => (Spec => []GrantIsSettled)
<1> SUFFICES ASSUME Alone PROVE Spec => []GrantIsSettled
  OBVIOUS
<1>1. Init => GrantIsSettled
  BY DEF Init, GrantIsSettled, HasActive, ActiveIds
<1>2. TypeInv /\ LockOK /\ ReorgWhole /\ GrantIsSettled /\ [Next]_vars => GrantIsSettled'
  <2> SUFFICES ASSUME TypeInv, LockOK, ReorgWhole, GrantIsSettled, [Next]_vars,
                      NEW i \in Invoices, HasActive(i)'
               PROVE  invoice'[i] \in SettledStatuses
    BY DEF GrantIsSettled
  <2>t. TypeOK /\ TxOK /\ invoice \in [Invoices -> InvoiceStatuses]
    BY DEF TypeInv, TypeOK
  <2>1. ASSUME NEW w \in Workers, SettleGrant(w) PROVE invoice'[i] \in SettledStatuses
    <3>1. tx[w].invoice \in Invoices /\ tx[w].rows \in SUBSET Payments
      BY <2>1, <2>t DEF SettleGrant, Settling, TypeOK, TxOK, Transactions
    <3>2. CASE i = tx[w].invoice
      BY <2>1, <2>t, <3>2 DEF SettleGrant, SettledStatuses
    <3>3. CASE i # tx[w].invoice
      <4>1. ActiveIds(i)' = ActiveIds(i)
        <5>1. CASE entitlements' = entitlements
          BY <5>1 DEF ActiveIds
        <5>2. CASE entitlements' = WithGrant(tx[w].invoice, tx[w].rows, "policy")
          BY <2>t, <3>1, <3>3, <5>2, GrantLeavesOthers
        <5> QED BY <2>1, <5>1, <5>2 DEF SettleGrant
      <4>2. invoice'[i] = invoice[i]
        BY <2>1, <2>t, <3>1, <3>3 DEF SettleGrant
      <4> QED BY <4>1, <4>2 DEF GrantIsSettled, HasActive
    <3> QED BY <3>2, <3>3
  <2>2. ASSUME NEW w \in Workers, ReorgCommit(w) PROVE invoice'[i] \in SettledStatuses
    <3>1. HasActive(i) /\ ~(ActiveIds(i) \subseteq tx[w].grants)
      BY <2>2, <2>t, ActiveAfterRevoke DEF HasActive
    <3>2. i \notin InvoicesOf(tx[w].rows)
      BY <2>2, <3>1 DEF InvoicesOf, ReorgWhole, ReorgCommit
    <3> QED BY <2>2, <3>1, <3>2 DEF ReorgCommit, GrantIsSettled
  <2>3. CASE entitlements' = entitlements /\ ~\E w \in Workers : SettleGrant(w) \/ ReorgCommit(w)
    <3>1. invoice[i] \in SettledStatuses
      BY <2>3 DEF GrantIsSettled, HasActive, ActiveIds
    <3>2. invoice[i] \notin LiveStatuses
      BY <3>1 DEF SettledStatuses, LiveStatuses
    <3>3. ASSUME NEW w \in Workers,
                 SettlePartial(w) \/ SettleUnderpaid(w) \/ SettleRefuse(w) \/ SettleWait(w)
          PROVE  invoice'[i] = invoice[i]
      <4>1. tx[w].invoice # i
        BY <3>2, <3>3 DEF SettlePartial, SettleUnderpaid, SettleRefuse, SettleWait, Settling, LockOK
      <4>2. \/ invoice' = invoice
            \/ \E s : invoice' = [invoice EXCEPT ![tx[w].invoice] = s]
        BY <3>3 DEF SettlePartial, SettleUnderpaid, SettleRefuse, SettleWait, moneyVars
      <4> QED BY <2>t, <4>1, <4>2
    <3>4. ASSUME NEW w \in Workers, SweepCommit(w) PROVE invoice'[i] = invoice[i]
      <4>1. \/ invoice' = invoice
            \/ /\ invoice[tx[w].invoice] \in LiveStatuses
               /\ \E s : invoice' = [invoice EXCEPT ![tx[w].invoice] = s]
        BY <3>4 DEF SweepCommit
      <4> QED BY <2>t, <3>2, <4>1
    <3>5. ASSUME NEW j \in Invoices, ExpireStale(j) PROVE invoice'[i] = invoice[i]
      BY <3>5, <2>t, <3>2 DEF ExpireStale
    <3>6. ASSUME NEW w \in Workers, WorkerStep(w), ~SettleCommit(w), ~SweepCommit(w), ~ReorgCommit(w)
          PROVE  invoice' = invoice
      BY <3>6, ReadingSteps
    <3>7. CASE Tick \/ Watcher \/ UNCHANGED vars \/ (\E j \in Invoices : Tamper(j))
               \/ (\E p \in Payments : NotifySeen(p) \/ ReviewAnomaly(p))
      <4>1. invoice' = invoice
        BY <3>7, OutsideSteps DEF Tamper, NotifySeen, ReviewAnomaly, moneyVars
      <4> QED BY <3>1, <4>1
    <3> QED BY <2>3, <3>1, <3>3, <3>4, <3>5, <3>6, <3>7
            DEF Next, SettlerPasses, OwnerResolves, Alone, SettleCommit
  <2>4. \/ entitlements' = entitlements
        \/ \E w \in Workers : SettleGrant(w) \/ ReorgCommit(w)
    <3>1. ~OwnerResolves
      BY DEF OwnerResolves, Alone
    <3> QED BY <3>1, GrantMoves DEF GrantsChange
  <2> QED BY <2>1, <2>2, <2>3, <2>4
<1> QED BY <1>1, <1>2, LockHeld, DeployedHolds, TypeInvHolds, PTL DEF Spec

\* Credited money stays credited until a reorganisation that read it commits.
LEMMA CreditedStays ==
    ASSUME TypeInv, [Next]_vars, NEW p \in Payments, payStatus[p] = "credited"
    PROVE  \/ payStatus'[p] = "credited"
           \/ \E w \in Workers : ReorgCommit(w) /\ p \in tx[w].rows
<1> DEFINE Moves == \E w \in Workers : ReorgCommit(w) /\ p \in tx[w].rows
<1>t. payStatus \in [Payments -> PaymentStatuses]
  BY DEF TypeInv, TypeOK
<1>1. \A S \in SUBSET Payments : PromotedStatus(S)[p] = "credited" /\ CreditedStatus(S)[p] = "credited"
  BY DEF PromotedStatus, CreditedStatus
<1>2. ASSUME NEW w \in Workers, SettleCommit(w) PROVE payStatus'[p] = "credited"
  <2>1. tx[w].rows \in SUBSET Payments
    BY DEF TypeInv, TypeOK, Transactions
  <2> QED BY <1>1, <1>2, <2>1 DEF SettleCommit, SettleGrant, SettlePartial, SettleUnderpaid,
                SettleRefuse, SettleWait, ledgerVars
<1>3. ASSUME NEW w \in Workers, ReorgCommit(w) PROVE payStatus'[p] = "credited" \/ Moves
  BY <1>3 DEF ReorgCommit
<1>4. ASSUME NEW w \in Workers, WorkerStep(w), ~SettleCommit(w), ~ReorgCommit(w)
      PROVE  payStatus' = payStatus
  BY <1>4, ReadingSteps DEF SweepCommit, ledgerVars
<1>5. CASE SettlerPasses \/ Tick \/ (\E i \in Invoices : Tamper(i)) \/ UNCHANGED vars
  <2>1. payStatus' = payStatus
    BY <1>5 DEF SettlerPasses, ExpireStale, NotifySeen, ReviewAnomaly, Tick, Tamper,
                ledgerVars, vars
  <2> QED BY <2>1
<1>6. CASE Watcher
  BY <1>t, <1>6 DEF Watcher, WatcherHeader, WatcherPayment, WatcherMoves, ledgerVars
<1>7. ASSUME NEW r \in reviews, ResolveCredit(r) PROVE payStatus'[p] = "credited"
  BY <1>7 DEF ResolveCredit, CreditedStatus
<1>8. ASSUME NEW r \in reviews, ResolveRefund(r) \/ ResolveReject(r)
      PROVE  payStatus' = payStatus
  BY <1>8 DEF ResolveRefund, ResolveReject, ledgerVars
<1> QED BY <1>2, <1>3, <1>4, <1>5, <1>6, <1>7, <1>8 DEF Next, OwnerResolves

\* With one settler, and no decision of the owner in flight, the money a grant
\* of the policy was decided on is still there and still enough as long as the
\* grant is in force (settle_invoice, handle_reorg in settler/service.py).
THEOREM DeployedGrantBacked == Alone => (Spec => []GrantBacked)
<1> SUFFICES ASSUME Alone PROVE Spec => []GrantBacked
  OBVIOUS
<1>1. Init => GrantBacked
  BY DEF Init, GrantBacked
<1>2. TypeInv /\ ReorgWhole /\ RowsCount /\ GrantBacked /\ [Next]_vars => GrantBacked'
  <2> SUFFICES ASSUME TypeInv, ReorgWhole, RowsCount, GrantBacked, [Next]_vars,
                      NEW k \in DOMAIN entitlements',
                      entitlements'[k].by = "policy", ~entitlements'[k].revoked
               PROVE  Backed(k)'
    BY DEF GrantBacked
  <2>t. TypeOK /\ TxOK
    BY DEF TypeInv
  \* The rows a grant already stood on.
  <2>1. ASSUME k \in DOMAIN entitlements, entitlements'[k] = entitlements[k],
               \A w \in Workers : ReorgCommit(w) => k \notin tx[w].grants
        PROVE  Backed(k)'
    <3> DEFINE e == entitlements[k]
    <3>1. Backed(k)
      BY <2>1 DEF GrantBacked
    <3>2. e.invoice \in Invoices /\ e.basis \in SUBSET Payments
      <4>1. e \in EntitlementRows
        BY <2>t, <2>1, ElementOfSeq, LenProperties DEF TypeOK
      <4> QED BY <4>1 DEF EntitlementRows
    <3>3. k \in ActiveIds(e.invoice)
      BY <2>1 DEF ActiveIds
    <3>4. ASSUME NEW p \in e.basis PROVE payStatus'[p] = "credited" /\ InvoiceOf[p] = e.invoice
      <4>1. payStatus[p] = "credited" /\ InvoiceOf[p] = e.invoice
        BY <3>1 DEF Backed
      <4>2. ASSUME NEW w \in Workers, ReorgCommit(w), p \in tx[w].rows PROVE FALSE
        <5>1. ActiveIds(e.invoice) \subseteq tx[w].grants
          BY <3>2, <4>1, <4>2, SettlementAssumption DEF ReorgWhole, ReorgCommit
        <5> QED BY <2>1, <3>3, <4>2, <5>1
      <4> QED BY <3>2, <4>1, <4>2, CreditedStays
    <3>5. Grants(Due[e.invoice], SumOf(e.basis), TRUE)
      BY <3>1, Zenon DEF Backed
    <3>6. entitlements'[k].basis = e.basis /\ entitlements'[k].invoice = e.invoice
      BY <2>1
    <3> HIDE DEF e
    <3>7. Grants(Due[entitlements'[k].invoice], SumOf(entitlements'[k].basis), TRUE)
      BY <3>5, <3>6, Zenon
    <3>8. \A p \in entitlements'[k].basis : payStatus'[p] = "credited"
                                              /\ InvoiceOf[p] = entitlements'[k].invoice
      BY <3>4, <3>6
    <3> QED BY <3>7, <3>8, Zenon DEF Backed
  <2>2. CASE entitlements' = entitlements /\ ~\E w \in Workers : ReorgCommit(w)
    BY <2>1, <2>2
  <2>3. ASSUME NEW w \in Workers, ReorgCommit(w) PROVE Backed(k)'
    <3>1. k \in DOMAIN entitlements /\ k \notin tx[w].grants /\ entitlements'[k] = entitlements[k]
      BY <2>3, <2>t, RevokeType DEF ReorgCommit, WithRevoked
    <3>2. \A v \in Workers : v = w
      BY DEF Alone
    <3> QED BY <2>1, <3>1, <3>2
  <2>4. ASSUME NEW w \in Workers, SettleGrant(w),
               entitlements' = WithGrant(tx[w].invoice, tx[w].rows, "policy"),
               ~\E v \in Workers : ReorgCommit(v)
        PROVE  Backed(k)'
    <3> DEFINE i == tx[w].invoice
               rows == tx[w].rows
    <3>1. i \in Invoices /\ rows \in SUBSET Payments
      BY <2>4, <2>t DEF SettleGrant, Settling, TypeOK, TxOK, Transactions
    <3>2. /\ \A p \in rows : InvoiceOf[p] = i /\ payStatus[p] \in RevertibleStatuses
          /\ Grants(Due[i], SumOf(rows), TRUE)
      BY <2>4, Zenon DEF RowsCount, SettleGrant, Settling
    <3>3. CASE k \in DOMAIN entitlements
      <4>1. entitlements'[k] = entitlements[k]
        BY <2>4, <2>t, <3>1, <3>3, GrantType
      <4> QED BY <2>1, <2>4, <3>3, <4>1
    <3>4. CASE k \notin DOMAIN entitlements
      <4>1. entitlements'[k] = NewGrant(i, rows, "policy")
        BY <2>4, <2>t, <3>1, <3>4, GrantType, ActiveAfterGrant
      <4>2. entitlements'[k].basis = rows /\ entitlements'[k].invoice = i
        BY <4>1 DEF NewGrant
      <4>3. \A p \in rows : payStatus'[p] = "credited"
        <5>1. \A p \in rows : payStatus[p] \in RevertibleStatuses
          BY <3>2, Zenon
        <5> QED BY <2>4, <3>1, <5>1 DEF SettleGrant, CreditedStatus, RevertibleStatuses, CreditableStatuses
      <4> HIDE DEF i, rows
      <4>4. Grants(Due[entitlements'[k].invoice], SumOf(entitlements'[k].basis), TRUE)
        BY <3>2, <4>2, Zenon
      <4>5. \A p \in entitlements'[k].basis : payStatus'[p] = "credited"
                                                /\ InvoiceOf[p] = entitlements'[k].invoice
        BY <3>2, <4>2, <4>3, Zenon
      <4> QED BY <4>4, <4>5, Zenon DEF Backed
    <3> QED BY <3>3, <3>4
  <2>5. \/ entitlements' = entitlements
        \/ \E w \in Workers : SettleGrant(w)
                                /\ entitlements' = WithGrant(tx[w].invoice, tx[w].rows, "policy")
        \/ \E w \in Workers : ReorgCommit(w)
    <3>1. entitlements' = entitlements \/ GrantsChange
      BY GrantMoves
    <3>2. ~OwnerResolves
      BY DEF OwnerResolves, Alone
    <3>3. ASSUME NEW w \in Workers, SettleGrant(w)
          PROVE  \/ entitlements' = entitlements
                 \/ entitlements' = WithGrant(tx[w].invoice, tx[w].rows, "policy")
      BY <3>3 DEF SettleGrant
    <3> QED BY <3>1, <3>2, <3>3 DEF GrantsChange
  <2> QED BY <2>2, <2>3, <2>4, <2>5
<1> QED BY <1>1, <1>2, DeployedHolds, TypeInvHolds, PTL DEF Spec

-----------------------------------------------------------------------------
\* The promise of access

\* With one settler the status of an invoice moves in one of two ways: one live
\* invoice gets a status, or a reorganisation takes back settled ones together.
LEMMA InvoiceMoves ==
    ASSUME Alone, TypeInv, LockOK, [Next]_vars
    PROVE  \/ invoice' = invoice
           \/ \E i \in Invoices, s \in InvoiceStatuses :
                 invoice[i] \in LiveStatuses /\ invoice' = [invoice EXCEPT ![i] = s]
           \/ \E S \in SUBSET Invoices, back \in {"awaiting", "reverted"} :
                 /\ \A i \in S : invoice[i] \in SettledStatuses
                 /\ invoice' = [i \in Invoices |-> IF i \in S THEN back ELSE invoice[i]]
<1> DEFINE OneMoves == \E i \in Invoices, s \in InvoiceStatuses :
                          invoice[i] \in LiveStatuses /\ invoice' = [invoice EXCEPT ![i] = s]
           SomeGoBack == \E S \in SUBSET Invoices, back \in {"awaiting", "reverted"} :
                            /\ \A i \in S : invoice[i] \in SettledStatuses
                            /\ invoice' = [i \in Invoices |-> IF i \in S THEN back ELSE invoice[i]]
<1>t. TypeOK /\ TxOK
  BY DEF TypeInv
<1>1. ASSUME NEW w \in Workers, SettleCommit(w) PROVE invoice' = invoice \/ OneMoves
  <2>1. tx[w].invoice \in Invoices /\ invoice[tx[w].invoice] \in LiveStatuses
    BY <1>1, <1>t DEF SettleCommit, SettleGrant, SettlePartial, SettleUnderpaid, SettleRefuse,
                      SettleWait, Settling, TxOK, LockOK
  <2>2. \/ invoice' = invoice
        \/ \E s \in InvoiceStatuses : invoice' = [invoice EXCEPT ![tx[w].invoice] = s]
    BY <1>1 DEF SettleCommit, SettleGrant, SettlePartial, SettleUnderpaid, SettleRefuse,
                SettleWait, moneyVars, InvoiceStatuses, LiveStatuses, SettledStatuses
  <2> QED BY <2>1, <2>2
<1>2. ASSUME NEW w \in Workers, SweepCommit(w) PROVE invoice' = invoice \/ OneMoves
  <2>1. tx[w].invoice \in Invoices
    BY <1>2, <1>t DEF SweepCommit, TxOK
  <2>2. \/ invoice' = invoice
        \/ /\ invoice[tx[w].invoice] \in LiveStatuses
           /\ \E s \in InvoiceStatuses : invoice' = [invoice EXCEPT ![tx[w].invoice] = s]
    BY <1>2 DEF SweepCommit, InvoiceStatuses
  <2> QED BY <2>1, <2>2
<1>3. ASSUME NEW w \in Workers, ReorgCommit(w) PROVE SomeGoBack
  <2> DEFINE S == {i \in Invoices : i \in InvoicesOf(tx[w].rows) /\ Unsettles(i)}
             back == IF tx[w].started < TopupUntil THEN "awaiting" ELSE "reverted"
  <2>1. S \in SUBSET Invoices /\ back \in {"awaiting", "reverted"}
    OBVIOUS
  <2>2. \A i \in S : invoice[i] \in SettledStatuses
    BY DEF Unsettles
  <2>3. invoice' = [i \in Invoices |-> IF i \in S THEN back ELSE invoice[i]]
    BY <1>3 DEF ReorgCommit
  <2> HIDE DEF S, back
  <2> QED BY <2>1, <2>2, <2>3
<1>4. ASSUME NEW j \in Invoices, ExpireStale(j) PROVE OneMoves
  BY <1>4 DEF ExpireStale, InvoiceStatuses
<1>5. ASSUME NEW w \in Workers, WorkerStep(w), ~SettleCommit(w), ~SweepCommit(w), ~ReorgCommit(w)
      PROVE  invoice' = invoice
  BY <1>5, ReadingSteps
<1>6. CASE Tick \/ Watcher \/ UNCHANGED vars \/ (\E j \in Invoices : Tamper(j))
               \/ (\E p \in Payments : NotifySeen(p) \/ ReviewAnomaly(p))
  <2>1. invoice' = invoice
    BY <1>6, OutsideSteps DEF Tamper, NotifySeen, ReviewAnomaly, moneyVars
  <2> QED BY <2>1
<1> QED BY <1>1, <1>2, <1>3, <1>4, <1>5, <1>6 DEF Next, SettlerPasses, OwnerResolves, Alone

\* The two halves of the promise: the product is there exactly while the invoice
\* counts as settled.
Delivered == \A i \in Invoices : HasActive(i) <=> invoice[i] \in SettledStatuses

\* Every step of a single settler is one act of the promise, or none.
LEMMA PromiseStep ==
    ASSUME Alone, TypeInv, TypeInv', LockOK, Delivered, Delivered', [Next]_vars
    PROVE  [Abstract!PromiseNext]_(Abstract!pvars)
<1> DEFINE stage == [i \in Invoices |-> StageOf(i)]
           access == [i \in Invoices |-> HasActive(i)]
<1>t. invoice \in [Invoices -> InvoiceStatuses]
  BY DEF TypeInv, TypeOK
<1>1. /\ \A i \in Invoices : StageOf(i) = "delivered" <=> invoice[i] \in SettledStatuses
      /\ \A i \in Invoices : StageOf(i)' = "delivered" <=> invoice'[i] \in SettledStatuses
  BY DEF StageOf, LiveStatuses, SettledStatuses
<1>2. \A i \in Invoices : HasActive(i) <=> stage[i] = "delivered"
  BY <1>1, Zenon DEF Delivered
<1>3. \A i \in Invoices : HasActive(i)' <=> stage'[i] = "delivered"
  BY <1>1, Zenon DEF Delivered
<1> HIDE DEF stage
<1>4. /\ access = [i \in Invoices |-> stage[i] = "delivered"]
      /\ access' = [i \in Invoices |-> stage'[i] = "delivered"]
  BY <1>2, <1>3 DEF HasActive
<1>s. stage = [i \in Invoices |-> stage[i]]
  BY DEF stage
<1> HIDE DEF access
<1>5. CASE invoice' = invoice
  <2>1. stage' = stage
    BY <1>5 DEF stage, StageOf
  <2>2. access' = access
    BY <1>4, <2>1
  <2> QED BY <2>1, <2>2 DEF stage, access, Abstract!pvars
<1>6. ASSUME NEW i \in Invoices, NEW s \in InvoiceStatuses,
             invoice[i] \in LiveStatuses, invoice' = [invoice EXCEPT ![i] = s]
      PROVE  [Abstract!PromiseNext]_(Abstract!pvars)
  <2>1. stage[i] = "open"
    BY <1>6 DEF stage, StageOf
  <2>2. \E next \in {"open", "delivered", "with_human", "closed"} :
            stage' = [stage EXCEPT ![i] = next]
    <3> DEFINE next == StageOf(i)'
    <3>1. next \in {"open", "delivered", "with_human", "closed"}
      BY DEF StageOf
    <3>2. \A j \in Invoices \ {i} : StageOf(j)' = StageOf(j)
      BY <1>t, <1>6 DEF StageOf
    <3>3. stage' = [stage EXCEPT ![i] = next]
      BY <3>2 DEF stage
    <3> HIDE DEF next
    <3> QED BY <3>1, <3>3
  <2>3. CASE stage' = [stage EXCEPT ![i] = "open"]
    <3>1. stage' = stage
      BY <1>s, <2>1, <2>3
    <3>2. access' = access
      BY <1>4, <3>1
    <3> QED BY <3>1, <3>2 DEF stage, access, Abstract!pvars
  <2>4. CASE stage' = [stage EXCEPT ![i] = "delivered"]
    <3>1. \A j \in Invoices : stage'[j] = IF j = i THEN "delivered" ELSE stage[j]
      BY <1>s, <2>4
    <3>2. access' = [access EXCEPT ![i] = TRUE]
      BY <1>4, <3>1
    <3>3. Abstract!Deliver(i)
      BY <2>1, <2>4, <3>2 DEF stage, access, Abstract!Deliver
    <3> QED BY <3>3 DEF Abstract!PromiseNext
  <2>5. ASSUME NEW next \in {"with_human", "closed"}, stage' = [stage EXCEPT ![i] = next]
        PROVE  Abstract!HandOver(i) \/ Abstract!GiveUp(i)
    <3>1. \A j \in Invoices : stage'[j] = IF j = i THEN next ELSE stage[j]
      BY <1>s, <2>5
    <3>2. access' = access
      BY <1>4, <2>1, <3>1
    <3> QED BY <2>1, <2>5, <3>2 DEF stage, access, Abstract!HandOver, Abstract!GiveUp
  <2> QED BY <2>2, <2>3, <2>4, <2>5 DEF Abstract!PromiseNext
<1>7. ASSUME NEW S \in SUBSET Invoices, NEW back \in {"awaiting", "reverted"},
             \A i \in S : invoice[i] \in SettledStatuses,
             invoice' = [i \in Invoices |-> IF i \in S THEN back ELSE invoice[i]],
             S # {}
      PROVE  \E next \in Abstract!Stages : Abstract!TakeBack(S, next)
  <2> DEFINE next == IF back = "awaiting" THEN "open" ELSE "closed"
  <2>1. \A i \in S : stage[i] = "delivered"
    BY <1>1, <1>7 DEF stage
  <2>2. stage' = [i \in Invoices |-> IF i \in S THEN next ELSE stage[i]]
    BY <1>t, <1>7 DEF stage, StageOf, LiveStatuses, SettledStatuses
  <2>3. next \in {"open", "closed"}
    OBVIOUS
  <2> HIDE DEF next
  <2>4. access' = [i \in Invoices |-> IF i \in S THEN FALSE ELSE access[i]]
    BY <1>4, <2>2, <2>3
  <2>5. Abstract!TakeBack(S, next)
    BY <1>7, <2>1, <2>2, <2>3, <2>4 DEF stage, access, Abstract!TakeBack
  <2> QED BY <2>3, <2>5 DEF Abstract!Stages
<1>8. ASSUME NEW S \in SUBSET Invoices, NEW back \in {"awaiting", "reverted"},
             invoice' = [i \in Invoices |-> IF i \in S THEN back ELSE invoice[i]], S = {}
      PROVE  invoice' = invoice
  BY <1>t, <1>8
<1> QED BY <1>5, <1>6, <1>7, <1>8, InvoiceMoves DEF Abstract!PromiseNext

\* With one settler, and no decision of the owner in flight, the tables keep the
\* promise of module AccessPromise (settler/service.py, settler/repository.py).
THEOREM DeployedKeepsPromise == Alone => (Spec => KeepsPromise)
<1> SUFFICES ASSUME Alone PROVE Spec => KeepsPromise
  OBVIOUS
<1>1. Init => Abstract!PromiseInit
  <2> SUFFICES ASSUME Init PROVE Abstract!PromiseInit
    OBVIOUS
  <2>1. \A i \in Invoices : StageOf(i) = "open"
    BY DEF Init, StageOf, LiveStatuses
  <2>2. \A i \in Invoices : ActiveIds(i) = {}
    <3>1. DOMAIN entitlements = {}
      BY DEF Init
    <3> QED BY <3>1 DEF ActiveIds
  <2>3. [i \in Invoices |-> StageOf(i)] = [i \in Invoices |-> "open"]
    BY <2>1
  <2>4. [i \in Invoices |-> HasActive(i)] = [i \in Invoices |-> FALSE]
    BY <2>2 DEF HasActive
  <2> QED BY <2>3, <2>4 DEF Abstract!PromiseInit
<1>2. GrantIsSettled /\ SettledHasGrant => Delivered
  BY DEF GrantIsSettled, SettledHasGrant, Delivered
<1>3. /\ TypeInv /\ TypeInv' /\ LockOK
      /\ GrantIsSettled /\ SettledHasGrant /\ GrantIsSettled' /\ SettledHasGrant'
      /\ [Next]_vars
      => [Abstract!PromiseNext]_(Abstract!pvars)
  <2>1. GrantIsSettled' /\ SettledHasGrant' => Delivered'
    BY DEF GrantIsSettled, SettledHasGrant, Delivered
  <2> QED BY <1>2, <2>1, PromiseStep
<1>4. Spec => []GrantIsSettled
  BY DeployedGrantIsSettled
<1> QED
  BY <1>1, <1>3, <1>4, PaidHasProduct, LockHeld, TypeInvHolds, PTL
     DEF Spec, KeepsPromise, Abstract!PromiseSafety
=============================================================================
