--------------------------- MODULE MCSettlement ---------------------------
(***************************************************************************)
(* Settlement on a small instance: a price of 200 units, a dollar is one   *)
(* unit, tolerances of 1 below and 10 above, finality above 150.           *)
(***************************************************************************)
EXTENDS Settlement, TLC

CONSTANTS i1, p1, p2, p3, w1, w2

\* Two transfers that are each too small and together overpay a little.
TwoInvoiceOf == (p1 :> i1) @@ (p2 :> i1)
TwoAmount    == (p1 :> 100) @@ (p2 :> 106)
OneDue       == (i1 :> 200)

\* A transfer that pays the price alone, and a stray one on top of it.
StrayAmount  == (p1 :> 200) @@ (p2 :> 20)

\* Two transfers that each pay the price: together a refund is due, and the
\* second one can still buy the product once a reorganisation took the first.
TwiceAmount  == (p1 :> 200) @@ (p2 :> 206)

\* One transfer pays the price, the other one belongs to no invoice.
LostInvoiceOf == (p1 :> i1) @@ (p2 :> NoInvoice)
=============================================================================
