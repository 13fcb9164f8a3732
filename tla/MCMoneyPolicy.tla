--------------------------- MODULE MCMoneyPolicy ---------------------------
(***************************************************************************)
(* The money policy over every price, sum and chain height up to a bound:  *)
(* a buyer sends one base unit after another, the top-up window closes,    *)
(* the chain grows and finality follows it.                                *)
(***************************************************************************)
EXTENDS MoneyPolicy

CONSTANTS MaxDue, MaxTotal, MaxHead   \* bounds

ASSUME PolicyBounds == MaxDue \in Nat /\ MaxTotal \in Nat /\ MaxHead \in Nat

VARIABLES due, total, open, chainHead, finalized

pvars == <<due, total, open, chainHead, finalized>>

PolicyInit ==
    /\ due \in 1..MaxDue /\ total = 0 /\ open = TRUE
    /\ chainHead = 1 /\ finalized = 0

TopUp == /\ total < MaxTotal /\ total' = total + 1
         /\ UNCHANGED <<due, open, chainHead, finalized>>
CloseWindow == /\ open /\ open' = FALSE
               /\ UNCHANGED <<due, total, chainHead, finalized>>
Extend == /\ chainHead < MaxHead /\ chainHead' = chainHead + 1
          /\ UNCHANGED <<due, total, open, finalized>>
Finalize == /\ finalized < chainHead /\ finalized' = finalized + 1
            /\ UNCHANGED <<due, total, open, chainHead>>

PolicyNext == TopUp \/ CloseWindow \/ Extend \/ Finalize
PolicySpec == PolicyInit /\ [][PolicyNext]_pvars

\* The product is granted exactly when the shortfall is inside both halves of
\* the tolerance, compared here without any rounding (TZ 5.5, classify).
ToleranceRespected ==
    Grants(due, total, open) <=>
        /\ total > 0
        /\ (due - total) * 1000 <= due * UnderpayPct
        /\ (due - total) * RawPerUsdDen <= UnderpayCapUsd * RawPerUsdNum

\* Sending more, or sending it before the window closes rather than after,
\* never loses the product (classify is called again on every top-up).
MoreMoneyKeepsAccess == [][Grants(due, total, open) => Grants(due', total', open')]_pvars

\* What an automatic credit puts on the balance is worth no more than what was
\* sent beyond the price, and falls short by less than one step of the column
\* (_creditable_usd rounds down).
ExcessCreditExact ==
    total > due => LET excess == total - due
                       credit == CreditableUsd(excess) * RawPerUsdNum
                       sent   == excess * RawPerUsdDen * UsdQuantum
                   IN  credit <= sent /\ sent < credit + RawPerUsdNum

\* A block that counts has MinConfirmations blocks on it, itself included, and
\* for a sum above the threshold is finalized too (creditable_cutoff_height).
CountedIsDeep ==
    LET cutoff == CutoffHeight(chainHead, NeedsFinality(total), finalized)
    IN  \A h \in 1..chainHead :
          h <= cutoff <=> /\ chainHead - h + 1 >= MinConfirmations
                          /\ WorthMoreThan(total, CreditThresholdUsd) => h <= finalized
=============================================================================
