--------------------------- MODULE AccessPromise ---------------------------
(***************************************************************************)
(* What the shop promises about an invoice, with no tables, transactions   *)
(* or blocks in it: the product is in the buyer's hands exactly while the  *)
(* invoice counts as delivered, a delivery happens at most once at a time, *)
(* it can be taken back only by the chain, a human is asked at most once,  *)
(* and no invoice stays open for ever.                                     *)
(***************************************************************************)
CONSTANT Invoices

VARIABLES
    stage,   \* where the invoice stands
    access   \* whether the buyer holds the product

pvars == <<stage, access>>

Stages == {"open", "delivered", "with_human", "closed"}

PromiseInit ==
    /\ stage = [i \in Invoices |-> "open"]
    /\ access = [i \in Invoices |-> FALSE]

Deliver(i) ==
    /\ stage[i] = "open"
    /\ stage' = [stage EXCEPT ![i] = "delivered"]
    /\ access' = [access EXCEPT ![i] = TRUE]

\* A reorganisation takes back every delivery it touches, in one act: before
\* the deadline the invoices wait again, after it they are closed.
TakeBack(S, next) ==
    /\ S # {} /\ \A i \in S : stage[i] = "delivered"
    /\ next \in {"open", "closed"}
    /\ stage' = [i \in Invoices |-> IF i \in S THEN next ELSE stage[i]]
    /\ access' = [i \in Invoices |-> IF i \in S THEN FALSE ELSE access[i]]

HandOver(i) ==
    /\ stage[i] = "open"
    /\ stage' = [stage EXCEPT ![i] = "with_human"]
    /\ UNCHANGED access

GiveUp(i) ==
    /\ stage[i] = "open"
    /\ stage' = [stage EXCEPT ![i] = "closed"]
    /\ UNCHANGED access

PromiseNext ==
    \/ \E i \in Invoices : Deliver(i) \/ HandOver(i) \/ GiveUp(i)
    \/ \E S \in SUBSET Invoices, next \in Stages : TakeBack(S, next)

PromiseSafety == PromiseInit /\ [][PromiseNext]_pvars

\* In the end every invoice is delivered, with a human, or closed.
PromiseLiveness == \A i \in Invoices : <>[](stage[i] # "open")

Promise == PromiseSafety /\ PromiseLiveness
=============================================================================
