------------------------------ MODULE MCQueues ------------------------------
(***************************************************************************)
(* The two request tables of the deriver at which a client waits, checked  *)
(* side by side: each has rows and clients of its own, and the loop of the *)
(* deriver drains one after the other, so a behaviour is a behaviour of    *)
(* one of them, chosen at the start, and the other stands still.           *)
(*                                                                         *)
(*   invoices    RequestQueue, two derivers, one user who asks twice       *)
(*   proofs      ProofQueue, two users with an invoice each                *)
(***************************************************************************)
EXTENDS RequestQueue, ProofQueue, TLC

CONSTANTS ana, bob, b1, b2, d1, d2

OneAsker == [r \in Requests |-> ana]
OneEach  == (b1 :> ana) @@ (b2 :> bob)

VARIABLE queue

queueVars == <<vars, proofVars, queue>>

QueuesInit ==
    /\ queue \in {"invoices", "proofs"}
    /\ RequestQueueInit /\ ProofQueueInit

QueuesNext ==
    /\ UNCHANGED queue
    /\ \/ queue = "invoices" /\ RequestQueueNext /\ UNCHANGED proofVars
       \/ queue = "proofs" /\ ProofQueueNext /\ UNCHANGED vars

\* The fairness of RequestQueue, for the behaviours that are its own.
InvoicesRun ==
    /\ \A w \in Workers :
          /\ WF_vars(queue = "invoices" /\ (Claim(w) \/ EndPass(w)))
          /\ WF_vars(queue = "invoices" /\ Serve(w))
          /\ WF_vars(queue = "invoices" /\ (Woken(w) \/ Sweep(w)))
          /\ WF_vars(queue = "invoices" /\ worker[w].phase = "down" /\ Sweep(w))
    /\ \A r \in Requests : /\ WF_vars(queue = "invoices" /\ LeaseEnds(r))
                           /\ WF_vars(queue = "invoices" /\ (ReadAnswer(r) \/ GiveUp(r)))

QueuesSpec == QueuesInit /\ [][QueuesNext]_queueVars /\ InvoicesRun

\* The type invariants of the two.
QueuesTypeOK == RequestQueueTypeOK /\ ProofQueueTypeOK
=============================================================================
