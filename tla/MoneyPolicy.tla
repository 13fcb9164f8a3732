---------------------------- MODULE MoneyPolicy ----------------------------
(***************************************************************************)
(* The money policy of settler/policy.py, settler/confirmations.py and     *)
(* settler/amounts.py: pure functions from an amount to a decision.        *)
(*                                                                         *)
(* Amounts are integers of the asset's base unit.  One US dollar is        *)
(* RawPerUsdNum / RawPerUsdDen base units, which is 10^decimals / rate in  *)
(* the code.  Percentages are in thousandths.  Decimal arithmetic of the   *)
(* code is exact (80 digits), so integers lose nothing.                    *)
(*                                                                         *)
(* Where a definition stands directly before another one of the same       *)
(* parameters it is a plausible slip in it, which a property must notice.  *)
(***************************************************************************)
EXTENDS Integers

CONSTANTS
    UnderpayPct,        \* underpay_tolerance_pct, thousandths of the price
    UnderpayCapUsd,     \* underpay_tolerance_cap_usd
    OverpayPct,         \* overpay_tolerance_pct, thousandths of the price
    OverpayFloorUsd,    \* overpay_tolerance_floor_usd
    RawPerUsdNum,
    RawPerUsdDen,
    UsdQuantum,         \* representable steps of a balance in one dollar
    CreditThresholdUsd, \* chains.credit_threshold_usd
    MinConfirmations    \* chains.min_confirmations

ASSUME PolicyAssumption ==
    /\ UnderpayPct \in 0..1000 /\ OverpayPct \in Nat
    /\ UnderpayCapUsd \in Nat /\ OverpayFloorUsd \in Nat
    /\ RawPerUsdNum \in Nat \ {0} /\ RawPerUsdDen \in Nat \ {0}
    /\ UsdQuantum \in Nat \ {0} /\ CreditThresholdUsd \in Nat
    /\ MinConfirmations \in Nat \ {0}

-----------------------------------------------------------------------------
\* Conversions

\* usd_to_raw: rounded down to a whole base unit.
UsdToRaw(usd) == (usd * RawPerUsdNum) \div RawPerUsdDen

\* raw_to_usd(raw) > usd, compared exactly.
WorthMoreThan(raw, usd) == raw * RawPerUsdDen > usd * RawPerUsdNum

\* _creditable_usd: rounded down to the scale of users.internal_balance_usd.
CreditableRoundedUp(raw) ==
    (raw * RawPerUsdDen * UsdQuantum + RawPerUsdNum - 1) \div RawPerUsdNum
CreditableUsd(raw) == (raw * RawPerUsdDen * UsdQuantum) \div RawPerUsdNum

-----------------------------------------------------------------------------
\* Tolerances and the decision table

Lesser(a, b)  == IF a <= b THEN a ELSE b
Greater(a, b) == IF a >= b THEN a ELSE b

UnderpayToleranceRoundedUp(due) ==
    Lesser((due * UnderpayPct + 999) \div 1000, UsdToRaw(UnderpayCapUsd))
UnderpayTolerance(due) ==
    Lesser((due * UnderpayPct) \div 1000, UsdToRaw(UnderpayCapUsd))

OverpayTolerance(due) ==
    Greater((due * OverpayPct) \div 1000, UsdToRaw(OverpayFloorUsd))

GrantingExceptRefund == {"paid", "underpaid_tolerated", "overpaid_credited"}
GrantingOutcomes == {"paid", "underpaid_tolerated", "overpaid_credited",
                     "overpaid_refund_pending"}

AmountOutcomes == GrantingOutcomes \union
                  {"no_funds", "partially_paid", "underpaid_manual_review"}

\* classify: windowOpen is now <= topup_window_until.
Classify(due, total, windowOpen) ==
    IF total <= 0 THEN "no_funds"
    ELSE IF total < due THEN
        IF due - total <= UnderpayTolerance(due) THEN "underpaid_tolerated"
        ELSE IF windowOpen THEN "partially_paid"
        ELSE "underpaid_manual_review"
    ELSE IF total = due THEN "paid"
    ELSE IF total - due <= OverpayTolerance(due) THEN "overpaid_credited"
    ELSE "overpaid_refund_pending"

Grants(due, total, windowOpen) ==
    Classify(due, total, windowOpen) \in GrantingOutcomes

-----------------------------------------------------------------------------
\* Confirmations

\* required_rule: above the threshold a block count is not enough.
NeedsFinality(total) == WorthMoreThan(total, CreditThresholdUsd)

\* creditable_cutoff_height; finalizedHead is 0 when no block is confirmed yet.
CutoffWithoutFinality(head, needsFinality, finalizedHead) == head - MinConfirmations + 1
CutoffHeight(head, needsFinality, finalizedHead) ==
    LET byCount == head - MinConfirmations + 1
    IN  IF ~needsFinality THEN byCount
        ELSE IF finalizedHead = 0 THEN -1
        ELSE Lesser(byCount, finalizedHead)
=============================================================================
