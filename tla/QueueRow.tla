------------------------------ MODULE QueueRow ------------------------------
(***************************************************************************)
(* One row of a request table as the statements of deriver/requests.py     *)
(* move it.  The three tables of that file (invoices, derivation proofs,   *)
(* address lifecycle) are moved by the same statements, so the modules of  *)
(* those queues share these operators.                                     *)
(*                                                                         *)
(* Time enters as one bit: lapsed says that claimed_at is further back     *)
(* than the lease.                                                         *)
(*                                                                         *)
(* Where a definition stands directly before another one of the same       *)
(* parameters it is a plausible slip in it, which a property must notice.  *)
(***************************************************************************)
EXTENDS Integers

CONSTANT MaxAttempts    \* DEFAULT_MAX_ATTEMPTS

ASSUME QueueRowAssumption == MaxAttempts \in Nat \ {0}

\* absent before the INSERT, pruned after the DELETE.
RowStatuses == {"absent", "pending", "processing", "done", "failed", "pruned"}

Rows == [status: RowStatuses, attempts: 0..MaxAttempts, lapsed: BOOLEAN]

NoRow == [status |-> "absent", attempts |-> 0, lapsed |-> FALSE]
NewRow == [status |-> "pending", attempts |-> 0, lapsed |-> FALSE]

Open(row) == row.status \in {"pending", "processing"}
Finished(row) == row.status \in {"done", "failed"}

\* SQL_CLAIM_NEXT: the claim is committed before the work and counts it.
ClaimedUncounted(row) == [row EXCEPT !.status = "processing", !.lapsed = FALSE]
Claimed(row) == [status |-> "processing", attempts |-> row.attempts + 1, lapsed |-> FALSE]

\* SQL_COMPLETE, SQL_REFUSE: compare-and-set on the status, and on nothing else.
CanFinishAnyRow(row) == row.status # "absent"
CanFinish(row) == row.status = "processing"
FinishedAs(row, status) == [row EXCEPT !.status = status]

\* SQL_REQUEUE
CanRequeueForEver(row) == row.status = "processing"
CanRequeue(row) == row.status = "processing" /\ row.attempts < MaxAttempts
Requeued(row) == [row EXCEPT !.status = "pending", !.lapsed = FALSE]

\* claimed_at + lease_seconds passes.
LeaseLapsed(row) == [row EXCEPT !.lapsed = TRUE]

\* SQL_RECLAIM_STALE and SQL_ABANDON_STALE, the two halves of reclaim_stale:
\* budget left, back to the queue; no budget, an answer.
Stale(row) == row.status = "processing" /\ row.lapsed
ReclaimedWithBudget(row) ==
    IF Stale(row) /\ row.attempts < MaxAttempts THEN Requeued(row) ELSE row
Reclaimed(row) ==
    IF ~Stale(row) THEN row
    ELSE IF row.attempts < MaxAttempts THEN Requeued(row)
    ELSE FinishedAs(row, "failed")
=============================================================================
