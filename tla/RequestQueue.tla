---------------------------- MODULE RequestQueue ----------------------------
(***************************************************************************)
(* The ask-the-deriver queue: InvoiceClient of core/invoicing/client.py on *)
(* one side, drain and serve_one of deriver/main.py under the loop of      *)
(* serve on the other, invoice_requests between them.                      *)
(*                                                                         *)
(* The claim is a transaction of its own, the work and its answer are one, *)
(* a refusal and a retry follow a rollback.  Between the claim and the     *)
(* answer a worker holds nothing on the row but its status, so the lease   *)
(* can lapse, another worker can take the request over, and the first one  *)
(* can still come back with an answer.                                     *)
(*                                                                         *)
(* Where a definition stands directly before another one of the same       *)
(* parameters it is a plausible slip in it, which a property must notice.  *)
(***************************************************************************)
EXTENDS QueueRow, FiniteSets

CONSTANTS
    Users,
    MaxRequests,        \* bound: requests submitted
    OwnerOf,            \* invoice_requests.user_id, by request
    Workers,            \* deriver processes
    MaxCrashes          \* bound: processes that die holding a request

Requests == 1..MaxRequests      \* in the order of requested_at

ASSUME RequestQueueAssumption ==
    /\ MaxRequests \in Nat \ {0} /\ MaxCrashes \in Nat
    /\ OwnerOf \in [Requests -> Users]

VARIABLES
    row,        \* invoice_requests
    invoices,   \* how many committed invoices each request has led to
    spent,      \* how often a worker has started on each request
    client,     \* what each asker has been told
    worker,     \* each deriver process
    crashes

vars == <<row, invoices, spent, client, worker, crashes>>

\* waiting for an answer; issued or refused, as the row told it; timeout, after
\* the deadline; in_flight, the unique index refused the INSERT.
Answers == {"none", "waiting", "issued", "refused", "timeout", "in_flight"}

\* drain: between two requests of a pass. work: the issuer runs in an open
\* transaction. raised: rolled back, requeue matched no row, refuse not yet sent.
\* wait: the pass served nothing. down: the process is dead.
Phases == {"drain", "work", "raised", "wait", "down"}

\* request is the one held, 0 for none; tried is drain's list of this pass.
Passes == [phase: Phases, request: 0..MaxRequests, tried: SUBSET Requests]
NewPass == [phase |-> "drain", request |-> 0, tried |-> {}]

RequestQueueTypeOK ==
    /\ row \in [Requests -> Rows]
    /\ invoices \in [Requests -> Nat]
    /\ spent \in [Requests -> Nat]
    /\ client \in [Requests -> Answers]
    /\ worker \in [Workers -> Passes]
    /\ crashes \in 0..MaxCrashes

RequestQueueInit ==
    /\ row = [r \in Requests |-> NoRow]
    /\ invoices = [r \in Requests |-> 0]
    /\ spent = [r \in Requests |-> 0]
    /\ client = [r \in Requests |-> "none"]
    /\ worker = [w \in Workers |-> [NewPass EXCEPT !.phase = "down"]]
    /\ crashes = 0

-----------------------------------------------------------------------------
\* The client

Before(r) == {q \in Requests : q < r}

\* create_invoice, _insert: uq_invoice_requests_one_open_per_user decides.
Submit(r) ==
    /\ client[r] = "none" /\ \A q \in Before(r) : client[q] # "none"
    /\ IF \E q \in Requests : OwnerOf[q] = OwnerOf[r] /\ Open(row[q])
       THEN client' = [client EXCEPT ![r] = "in_flight"] /\ UNCHANGED row
       ELSE /\ client' = [client EXCEPT ![r] = "waiting"]
            /\ row' = [row EXCEPT ![r] = NewRow]
    /\ UNCHANGED <<invoices, spent, worker, crashes>>

\* _wait: the row is read before the deadline is looked at.
ReadAnswer(r) ==
    /\ client[r] = "waiting" /\ Finished(row[r])
    /\ client' = [client EXCEPT ![r] = IF row[r].status = "done" THEN "issued" ELSE "refused"]
    /\ UNCHANGED <<row, invoices, spent, worker, crashes>>

GiveUp(r) ==
    /\ client[r] = "waiting" /\ Open(row[r])
    /\ client' = [client EXCEPT ![r] = "timeout"]
    /\ UNCHANGED <<row, invoices, spent, worker, crashes>>

-----------------------------------------------------------------------------
\* One request

Pending(tried) == {r \in Requests \ tried : row[r].status = "pending"}
Oldest(r, S) == r \in S /\ \A q \in S : r <= q

\* claim_next and the commit of drain.
Claim(w) ==
    /\ worker[w].phase = "drain"
    /\ \E r \in Requests :
       /\ Oldest(r, Pending(worker[w].tried))
       /\ row' = [row EXCEPT ![r] = Claimed(@)]
       /\ spent' = [spent EXCEPT ![r] = @ + 1]
       /\ worker' = [worker EXCEPT ![w] =
              [phase |-> "work", request |-> r, tried |-> @.tried \cup {r}]]
    /\ UNCHANGED <<invoices, client, crashes>>

Served(w) == worker' = [worker EXCEPT ![w].phase = "drain", ![w].request = 0]

\* serve_one, the issuer returned an invoice: complete commits it with the
\* answer, or the rollback throws it away with the lost lease.
Issue(w) ==
    /\ worker[w].phase = "work"
    /\ LET r == worker[w].request IN
       IF CanFinish(row[r])
       THEN /\ row' = [row EXCEPT ![r] = FinishedAs(@, "done")]
            /\ invoices' = [invoices EXCEPT ![r] = @ + 1]
       ELSE UNCHANGED <<row, invoices>>
    /\ Served(w)
    /\ UNCHANGED <<spent, client, crashes>>

\* refuse: the compare-and-set that records a refusal, whoever sends it.
RecordRefusalBlindly(w) ==
    /\ row' = [row EXCEPT ![worker[w].request] = FinishedAs(@, "failed")]
    /\ Served(w)
    /\ UNCHANGED <<invoices, spent, client, crashes>>
RecordRefusal(w) ==
    /\ LET r == worker[w].request IN
       row' = IF CanFinish(row[r]) THEN [row EXCEPT ![r] = FinishedAs(@, "failed")] ELSE row
    /\ Served(w)
    /\ UNCHANGED <<invoices, spent, client, crashes>>

\* serve_one, the issuer declined.
Decline(w) == worker[w].phase = "work" /\ RecordRefusal(w)

\* serve_one, the issuer raised: requeue, and a statement later, if it matched
\* no row, refuse.
Raise(w) ==
    /\ worker[w].phase = "work"
    /\ LET r == worker[w].request IN
       IF CanRequeue(row[r])
       THEN row' = [row EXCEPT ![r] = Requeued(@)] /\ Served(w)
       ELSE UNCHANGED row /\ worker' = [worker EXCEPT ![w].phase = "raised"]
    /\ UNCHANGED <<invoices, spent, client, crashes>>

Abandon(w) == worker[w].phase = "raised" /\ RecordRefusal(w)

-----------------------------------------------------------------------------
\* The loop of serve

\* claim_next finds nothing: round again after a pass that served something.
EndPass(w) ==
    /\ worker[w].phase = "drain" /\ Pending(worker[w].tried) = {}
    /\ worker' = [worker EXCEPT ![w] =
           IF @.tried = {} THEN [NewPass EXCEPT !.phase = "wait"] ELSE NewPass]
    /\ UNCHANGED <<row, invoices, spent, client, crashes>>

\* wait_for_request returned True: this queue's channel, or one of the other two.
Woken(w) ==
    /\ worker[w].phase = "wait"
    /\ worker' = [worker EXCEPT ![w] = NewPass]
    /\ UNCHANGED <<row, invoices, spent, client, crashes>>

\* housekeeping: reclaim_stale, then prune_completed, one commit.  The retention
\* of an hour outlasts the ten seconds a client waits: it deletes no answer that
\* somebody is still waiting for.
CanPrune(r) == Finished(row[r]) /\ client[r] # "waiting"
Housekeeping(pruned) ==
    row' = [r \in Requests |->
        IF r \in pruned THEN FinishedAs(row[r], "pruned") ELSE Reclaimed(row[r])]

Sweep(w) ==
    /\ worker[w].phase \in {"wait", "down"}     \* the poll interval, or a start
    /\ \E pruned \in SUBSET {r \in Requests : CanPrune(r)} : Housekeeping(pruned)
    /\ worker' = [worker EXCEPT ![w] = NewPass]
    /\ UNCHANGED <<invoices, spent, client, crashes>>

\* The process dies with a claimed request; its open transaction is undone.
Crash(w) ==
    /\ crashes < MaxCrashes /\ worker[w].phase \in {"work", "raised"}
    /\ worker' = [worker EXCEPT ![w] = [NewPass EXCEPT !.phase = "down"]]
    /\ crashes' = crashes + 1
    /\ UNCHANGED <<row, invoices, spent, client>>

\* Thirty seconds after the claim, whether its holder is alive or not.
LeaseEnds(r) ==
    /\ row[r].status = "processing" /\ ~row[r].lapsed
    /\ row' = [row EXCEPT ![r] = LeaseLapsed(@)]
    /\ UNCHANGED <<invoices, spent, client, worker, crashes>>

-----------------------------------------------------------------------------
Serve(w) == Issue(w) \/ Decline(w) \/ Raise(w) \/ Abandon(w)

RequestQueueNext ==
    \/ \E r \in Requests : Submit(r) \/ ReadAnswer(r) \/ GiveUp(r) \/ LeaseEnds(r)
    \/ \E w \in Workers : \/ Claim(w) \/ Serve(w) \/ EndPass(w)
                          \/ Woken(w) \/ Sweep(w) \/ Crash(w)

RequestQueueSpec == RequestQueueInit /\ [][RequestQueueNext]_vars

\* A live process goes on, a dead one is started again, time passes.
Runs ==
    /\ \A w \in Workers :
          /\ WF_vars(Claim(w) \/ EndPass(w)) /\ WF_vars(Serve(w))
          /\ WF_vars(Woken(w) \/ Sweep(w))
          /\ WF_vars(worker[w].phase = "down" /\ Sweep(w))
    /\ \A r \in Requests : WF_vars(LeaseEnds(r)) /\ WF_vars(ReadAnswer(r) \/ GiveUp(r))

ServingSpec == RequestQueueSpec /\ Runs

-----------------------------------------------------------------------------
\* "Re-running a reclaimed request cannot double-issue": however often a request
\* is claimed, lost and claimed again, and however late a former holder comes
\* back, its invoice exists at most once, and exactly when the row says done (or
\* said so before it was pruned).
IssuedOnce ==
    \A r \in Requests :
        /\ invoices[r] <= 1
        /\ row[r].status = "done" => invoices[r] = 1
        /\ row[r].status \notin {"done", "pruned"} => invoices[r] = 0

\* "No state where an invoice was issued and the asker was told it was not": what
\* the client read stays true, also when other workers still hold the request.
AnswerIsTrue ==
    \A r \in Requests :
        /\ client[r] = "issued" => invoices[r] = 1
        /\ client[r] = "refused" => invoices[r] = 0

\* A request that kills every process that serves it is served MaxAttempts times
\* and no more: the claim counts, not the completion.
BudgetKept == \A r \in Requests : spent[r] <= MaxAttempts

\* A claim whose holder is dead.
Lost(r) == row[r].status = "processing" /\ \A w \in Workers : worker[w].request # r

\* No request waits for ever, whoever dies with it in hand.  A claim that is lost comes
\* back with the sweep, and serve sweeps when it starts and when nothing notified it for
\* a poll interval.  So every request is answered or ends as a lost claim, whatever the
\* traffic; and it is answered if the sweep runs again and again.
EventuallyAnswered ==
    /\ \A r \in Requests : Open(row[r]) ~> ~Open(row[r]) \/ Lost(r)
    /\ []<><<\E w \in Workers : Sweep(w)>>_vars =>
           \A r \in Requests : Open(row[r]) ~> ~Open(row[r])
=============================================================================
