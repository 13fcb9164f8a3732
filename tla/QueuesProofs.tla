---------------------------- MODULE QueuesProofs ----------------------------
(***************************************************************************)
(* The two request tables of the deriver, for any number of users,         *)
(* requests, derivers, attempts, crashes and changes behind the            *)
(* application; and both at once, as MCQueues has them.                    *)
(***************************************************************************)
EXTENDS MCQueues, TLAPS

-----------------------------------------------------------------------------
(***************************************************************************)
(* RequestQueue                                                            *)
(*                                                                         *)
(* Everything rests on one fact per request that relates the row, the      *)
(* invoice, the count of attempts and what the asker was told              *)
(* (RequestIntact), because each statement is a compare-and-set on the row *)
(* alone.                                                                  *)
(***************************************************************************)
\* A pending row has budget left; an invoice exists from the moment the row says
\* done; an asker who was told something was told by a finished row.
RequestIntact(r) ==
    /\ spent[r] = row[r].attempts
    /\ row[r].status = "absent" => row[r].attempts = 0
    /\ row[r].status = "pending" => row[r].attempts < MaxAttempts
    /\ invoices[r] <= 1
    /\ row[r].status = "done" => invoices[r] = 1
    /\ row[r].status \notin {"done", "pruned"} => invoices[r] = 0
    /\ client[r] = "none" => row[r].status = "absent"
    /\ client[r] = "issued" => row[r].status \in {"done", "pruned"} /\ invoices[r] = 1
    /\ client[r] = "refused" => row[r].status \in {"failed", "pruned"} /\ invoices[r] = 0

\* Who works holds a request.
HolderIntact(w) == worker[w].phase \in {"work", "raised"} => worker[w].request \in Requests

QueueInv ==
    /\ RequestQueueTypeOK
    /\ \A r \in Requests : RequestIntact(r)
    /\ \A w \in Workers : HolderIntact(w)

-----------------------------------------------------------------------------
\* The statements of the table keep a row a row, and a sweep never finishes a
\* request as done nor takes it out of a final state.
LEMMA RowOperators ==
    ASSUME NEW x \in Rows
    PROVE  /\ NewRow \in Rows /\ NoRow \in Rows
           /\ x.attempts < MaxAttempts => Claimed(x) \in Rows
           /\ Requeued(x) \in Rows /\ LeaseLapsed(x) \in Rows /\ Reclaimed(x) \in Rows
           /\ \A s \in RowStatuses : FinishedAs(x, s) \in Rows
           /\ Reclaimed(x).attempts = x.attempts
           /\ Reclaimed(x) # x => /\ x.status = "processing"
                                  /\ Reclaimed(x).status \in {"pending", "failed"}
                                  /\ Reclaimed(x).status = "pending" => x.attempts < MaxAttempts
<1> USE QueueRowAssumption DEF Rows, RowStatuses
<1>1. NewRow \in Rows /\ NoRow \in Rows
  BY DEF NewRow, NoRow
<1>2. x.attempts < MaxAttempts => Claimed(x) \in Rows
  BY DEF Claimed
<1>3. Requeued(x) \in Rows /\ LeaseLapsed(x) \in Rows
  BY DEF Requeued, LeaseLapsed
<1>4. \A s \in RowStatuses : FinishedAs(x, s) \in Rows
  BY DEF FinishedAs
<1>5. Reclaimed(x) \in Rows
  BY <1>3, <1>4 DEF Reclaimed
<1>6. /\ Reclaimed(x).attempts = x.attempts
      /\ Reclaimed(x) # x => /\ x.status = "processing"
                             /\ Reclaimed(x).status \in {"pending", "failed"}
                             /\ Reclaimed(x).status = "pending" => x.attempts < MaxAttempts
  BY DEF Reclaimed, Stale, Requeued, FinishedAs
<1>7. QED
  BY <1>1, <1>2, <1>3, <1>4, <1>5, <1>6

\* Nothing is asked at the start.
LEMMA QueueInvInit == RequestQueueInit => QueueInv
<1> SUFFICES ASSUME RequestQueueInit PROVE QueueInv
  OBVIOUS
<1> USE RequestQueueAssumption, QueueRowAssumption
<1>1. RequestQueueTypeOK
  BY DEF RequestQueueInit, RequestQueueTypeOK, Rows, RowStatuses, NoRow, Answers, Passes,
         Phases, NewPass
<1>2. \A r \in Requests : RequestIntact(r)
  BY DEF RequestQueueInit, RequestIntact, NoRow
<1>3. \A w \in Workers : HolderIntact(w)
  BY DEF RequestQueueInit, HolderIntact, NewPass
<1>4. QED
  BY <1>1, <1>2, <1>3 DEF QueueInv

\* The client's own steps: they touch the row only to insert it.
LEMMA ClientSteps ==
    ASSUME QueueInv, NEW r \in Requests, Submit(r) \/ ReadAnswer(r) \/ GiveUp(r)
    PROVE  QueueInv'
<1> USE DEF QueueInv
<1>1. row' \in [Requests -> Rows]
  BY RowOperators DEF Submit, ReadAnswer, GiveUp, RequestQueueTypeOK
<1>2. client' \in [Requests -> Answers]
  BY DEF Submit, ReadAnswer, GiveUp, RequestQueueTypeOK, Answers
<1>3. /\ UNCHANGED <<invoices, spent, worker, crashes>>
      /\ \A q \in Requests : q # r => row'[q] = row[q] /\ client'[q] = client[q]
  BY DEF Submit, ReadAnswer, GiveUp, RequestQueueTypeOK
<1>4. RequestIntact(r)'
  <2>1. CASE Submit(r)
    <3>1. client[r] = "none" /\ row[r].status = "absent" /\ row[r].attempts \in 0..MaxAttempts
      BY <2>1 DEF Submit, RequestIntact, RequestQueueTypeOK, Rows
    <3>2. CASE client' = [client EXCEPT ![r] = "in_flight"] /\ UNCHANGED row
      BY <3>1, <3>2, <1>3 DEF RequestIntact, RequestQueueTypeOK
    <3>3. CASE /\ client' = [client EXCEPT ![r] = "waiting"]
               /\ row' = [row EXCEPT ![r] = NewRow]
      BY <3>1, <3>3, <1>3, QueueRowAssumption DEF RequestIntact, RequestQueueTypeOK, NewRow
    <3>4. QED
      BY <2>1, <3>2, <3>3 DEF Submit
  <2>2. CASE ReadAnswer(r) \/ GiveUp(r)
    BY <2>2, <1>3 DEF ReadAnswer, GiveUp, RequestIntact, RequestQueueTypeOK, Finished
  <2>3. QED
    BY <2>1, <2>2
<1>5. \A q \in Requests : RequestIntact(q)'
  BY <1>3, <1>4 DEF RequestIntact
<1>6. RequestQueueTypeOK' /\ \A w \in Workers : HolderIntact(w)'
  BY <1>1, <1>2, <1>3 DEF RequestQueueTypeOK, HolderIntact
<1>7. QED
  BY <1>5, <1>6

\* A claim, and every way to serve what was claimed: the holder moves the one row
\* it holds.
LEMMA ServeSteps ==
    ASSUME QueueInv, NEW w \in Workers, Claim(w) \/ Serve(w)
    PROVE  QueueInv'
<1> USE DEF QueueInv
<1>1. CASE Claim(w)
  <2>1. PICK r \in Requests :
        /\ Oldest(r, Pending(worker[w].tried))
        /\ row' = [row EXCEPT ![r] = Claimed(row[r])]
        /\ spent' = [spent EXCEPT ![r] = spent[r] + 1]
        /\ worker' = [worker EXCEPT ![w] =
               [phase |-> "work", request |-> r, tried |-> worker[w].tried \cup {r}]]
    BY <1>1 DEF Claim
  <2>2. row[r].status = "pending" /\ row[r].attempts < MaxAttempts
    BY <2>1 DEF Oldest, Pending, RequestIntact
  <2>3. UNCHANGED <<invoices, client, crashes>>
    BY <1>1 DEF Claim
  <2>4. Claimed(row[r]) \in Rows
    BY <2>2, RowOperators DEF RequestQueueTypeOK
  <2>5. RequestQueueTypeOK'
    BY <2>1, <2>2, <2>3, <2>4 DEF RequestQueueTypeOK, Passes, Phases, Requests
  <2>6. \A q \in Requests : RequestIntact(q)'
    BY <2>1, <2>2, <2>3 DEF RequestIntact, Claimed, RequestQueueTypeOK, Rows
  <2>7. \A v \in Workers : HolderIntact(v)'
    BY <2>1, <2>3 DEF HolderIntact, RequestQueueTypeOK
  <2>8. QED
    BY <2>5, <2>6, <2>7
<1>2. CASE Serve(w)
  <2> DEFINE r == worker[w].request
  <2>1. worker[w].phase \in {"work", "raised"} /\ r \in Requests
    BY <1>2 DEF Serve, Issue, Decline, Raise, Abandon, HolderIntact
  <2>2. /\ UNCHANGED <<spent, client, crashes>>
        /\ worker' \in [Workers -> Passes]
        /\ \A v \in Workers : HolderIntact(v)'
    BY <1>2, <2>1 DEF Serve, Issue, Decline, Raise, Abandon, RecordRefusal, Served,
       RequestQueueTypeOK, Passes, Phases, HolderIntact
  <2>3. \/ UNCHANGED <<row, invoices>>
        \/ /\ row[r].status = "processing"
           /\ row' = [row EXCEPT ![r] = FinishedAs(row[r], "done")]
           /\ invoices' = [invoices EXCEPT ![r] = invoices[r] + 1]
        \/ /\ row[r].status = "processing"
           /\ row' = [row EXCEPT ![r] = FinishedAs(row[r], "failed")]
           /\ UNCHANGED invoices
        \/ /\ row[r].status = "processing" /\ row[r].attempts < MaxAttempts
           /\ row' = [row EXCEPT ![r] = Requeued(row[r])]
           /\ UNCHANGED invoices
    BY <1>2 DEF Serve, Issue, Decline, Raise, Abandon, RecordRefusal, CanFinish, CanRequeue
  <2> HIDE DEF r
  <2>4. /\ FinishedAs(row[r], "done") \in Rows /\ FinishedAs(row[r], "failed") \in Rows
        /\ Requeued(row[r]) \in Rows
    BY <2>1, RowOperators DEF RequestQueueTypeOK, RowStatuses
  <2>5. RequestQueueTypeOK'
    BY <2>1, <2>2, <2>3, <2>4 DEF RequestQueueTypeOK
  <2>6. ASSUME NEW q \in Requests
        PROVE  RequestIntact(q)'
    <3>1. CASE q # r \/ UNCHANGED <<row, invoices>>
      BY <2>1, <2>2, <2>3, <3>1 DEF RequestIntact, RequestQueueTypeOK
    <3>2. CASE q = r /\ ~UNCHANGED <<row, invoices>>
      <4>1. /\ row[q].status = "processing" /\ invoices[q] = 0
            /\ client[q] \notin {"none", "issued", "refused"}
        BY <2>1, <2>3, <3>2 DEF RequestIntact
      <4>2. /\ row'[q].attempts = row[q].attempts
            /\ \/ row'[q].status = "done" /\ invoices'[q] = 1
               \/ row'[q].status = "failed" /\ invoices'[q] = 0
               \/ /\ row'[q].status = "pending" /\ row[q].attempts < MaxAttempts
                  /\ invoices'[q] = 0
        <5>1. /\ row \in [Requests -> Rows] /\ invoices \in [Requests -> Nat]
              /\ row[q] \in Rows /\ q = r
          BY <3>2 DEF RequestQueueTypeOK
        <5>2. CASE /\ row' = [row EXCEPT ![r] = FinishedAs(row[r], "done")]
                   /\ invoices' = [invoices EXCEPT ![r] = invoices[r] + 1]
          BY <4>1, <5>1, <5>2 DEF FinishedAs, Rows
        <5>3. CASE row' = [row EXCEPT ![r] = FinishedAs(row[r], "failed")] /\ UNCHANGED invoices
          BY <4>1, <5>1, <5>3 DEF FinishedAs, Rows
        <5>4. CASE /\ row[r].attempts < MaxAttempts
                   /\ row' = [row EXCEPT ![r] = Requeued(row[r])] /\ UNCHANGED invoices
          BY <4>1, <5>1, <5>4 DEF Requeued, Rows
        <5>5. QED
          BY <2>3, <3>2, <5>2, <5>3, <5>4
      <4>3. QED
        BY <2>2, <4>1, <4>2 DEF RequestIntact
    <3>3. QED
      BY <3>1, <3>2
  <2>7. QED
    BY <2>2, <2>5, <2>6
<1>3. QED
  BY <1>1, <1>2

\* The loop of serve, the lease and a crash: rows move only by the sweep and by
\* the clock.
LEMMA LoopSteps ==
    ASSUME QueueInv, NEW w \in Workers, EndPass(w) \/ Woken(w) \/ Crash(w)
    PROVE  QueueInv'
<1> USE DEF QueueInv
<1>1. UNCHANGED <<row, invoices, spent, client>> /\ crashes' \in 0..MaxCrashes
  BY RequestQueueAssumption DEF EndPass, Woken, Crash, RequestQueueTypeOK
<1>2. \E p \in {"drain", "wait", "down"} :
        worker' = [worker EXCEPT ![w] = [phase |-> p, request |-> 0, tried |-> {}]]
  BY DEF EndPass, Woken, Crash, NewPass
<1>3. RequestQueueTypeOK'
  BY <1>1, <1>2, RequestQueueAssumption DEF RequestQueueTypeOK, Passes, Phases
<1>4. \A r \in Requests : RequestIntact(r)'
  BY <1>1 DEF RequestIntact
<1>5. \A v \in Workers : HolderIntact(v)'
  BY <1>2 DEF HolderIntact, RequestQueueTypeOK
<1>6. QED
  BY <1>3, <1>4, <1>5

\* A lease runs out.
LEMMA LeaseStep ==
    ASSUME QueueInv, NEW r \in Requests, LeaseEnds(r)
    PROVE  QueueInv'
<1> USE DEF QueueInv
<1>1. LeaseLapsed(row[r]) \in Rows
  BY RowOperators DEF RequestQueueTypeOK
<1>2. RequestQueueTypeOK'
  BY <1>1 DEF RequestQueueTypeOK, LeaseEnds
<1>3. \A q \in Requests : RequestIntact(q)'
  BY DEF RequestIntact, LeaseEnds, LeaseLapsed, RequestQueueTypeOK, Rows
<1>4. \A v \in Workers : HolderIntact(v)'
  BY DEF HolderIntact, LeaseEnds
<1>5. QED
  BY <1>2, <1>3, <1>4

\* Stale rows go back to the queue, or are answered when their budget is out.
LEMMA SweepStep ==
    ASSUME QueueInv, NEW w \in Workers, Sweep(w)
    PROVE  QueueInv'
<1> USE DEF QueueInv
<1>1. PICK pruned \in SUBSET {r \in Requests : CanPrune(r)} : Housekeeping(pruned)
  BY DEF Sweep
<1>2. /\ worker' = [worker EXCEPT ![w] = NewPass]
      /\ UNCHANGED <<invoices, spent, client, crashes>>
  BY DEF Sweep
<1>3. \A r \in Requests :
        row'[r] = IF r \in pruned THEN FinishedAs(row[r], "pruned") ELSE Reclaimed(row[r])
  BY <1>1 DEF Housekeeping
<1>4. \A r \in Requests : FinishedAs(row[r], "pruned") \in Rows /\ Reclaimed(row[r]) \in Rows
  BY RowOperators DEF RequestQueueTypeOK, RowStatuses
<1>5. row' \in [Requests -> Rows]
  BY <1>1, <1>4 DEF Housekeeping
<1>6. RequestQueueTypeOK'
  BY <1>2, <1>5, RequestQueueAssumption DEF RequestQueueTypeOK, Passes, Phases, NewPass
<1>7. ASSUME NEW r \in Requests
      PROVE  RequestIntact(r)'
  <2>1. CASE r \in pruned
    <3>1. row[r].status \in {"done", "failed"} /\ client[r] # "waiting"
      BY <1>1, <2>1 DEF CanPrune, Finished
    <3>2. row'[r].status = "pruned" /\ row'[r].attempts = row[r].attempts
      BY <1>3, <2>1 DEF FinishedAs, RequestQueueTypeOK, Rows
    <3>3. QED
      BY <1>2, <3>1, <3>2 DEF RequestIntact
  <2>2. CASE r \notin pruned
    <3>1. row'[r] = Reclaimed(row[r])
      BY <1>3, <2>2
    <3>2. CASE Reclaimed(row[r]) = row[r]
      BY <1>2, <3>1, <3>2 DEF RequestIntact
    <3>3. CASE Reclaimed(row[r]) # row[r]
      <4>1. /\ row[r].status = "processing" /\ row'[r].status \in {"pending", "failed"}
            /\ row'[r].attempts = row[r].attempts
            /\ row'[r].status = "pending" => row[r].attempts < MaxAttempts
        BY <3>1, <3>3, RowOperators DEF RequestQueueTypeOK
      <4>2. QED
        BY <1>2, <4>1 DEF RequestIntact
    <3>4. QED
      BY <3>2, <3>3
  <2>3. QED
    BY <2>1, <2>2
<1>8. \A v \in Workers : HolderIntact(v)'
  BY <1>2 DEF HolderIntact, NewPass, RequestQueueTypeOK
<1>9. QED
  BY <1>6, <1>7, <1>8

\* Every step keeps the invariant of the queue.
LEMMA QueueInvNext == QueueInv /\ [RequestQueueNext]_vars => QueueInv'
<1> SUFFICES ASSUME QueueInv, [RequestQueueNext]_vars PROVE QueueInv'
  OBVIOUS
<1>1. CASE UNCHANGED vars
  BY <1>1 DEF QueueInv, RequestQueueTypeOK, RequestIntact, HolderIntact, vars
<1>2. CASE RequestQueueNext
  BY <1>2, ClientSteps, ServeSteps, LoopSteps, LeaseStep, SweepStep DEF RequestQueueNext
<1>3. QED
  BY <1>1, <1>2

\* The invariant of the invoice queue.
LEMMA QueueInvAlways == RequestQueueSpec => []QueueInv
<1>1. QED
  BY QueueInvInit, QueueInvNext, PTL DEF RequestQueueSpec

-----------------------------------------------------------------------------
\* Every variable of the queue keeps its type.
THEOREM QueueTypeCorrect == RequestQueueSpec => []RequestQueueTypeOK
<1>1. QueueInv => RequestQueueTypeOK
  BY DEF QueueInv
<1>2. QED
  BY <1>1, QueueInvAlways, PTL

\* However many workers hold the same request, it leads to one invoice at most,
\* and to none unless its row says so.
THEOREM NeverIssuedTwice == RequestQueueSpec => []IssuedOnce
<1>1. QueueInv => IssuedOnce
  BY DEF QueueInv, RequestIntact, IssuedOnce
<1>2. QED
  BY <1>1, QueueInvAlways, PTL

\* What an asker was told of its request stays true.
THEOREM AnswersAreTrue == RequestQueueSpec => []AnswerIsTrue
<1>1. QueueInv => AnswerIsTrue
  BY DEF QueueInv, RequestIntact, AnswerIsTrue
<1>2. QED
  BY <1>1, QueueInvAlways, PTL

\* No request is started on more often than its budget allows.
THEOREM PoisonIsBounded == RequestQueueSpec => []BudgetKept
<1>1. QueueInv => BudgetKept
  BY DEF QueueInv, RequestIntact, RequestQueueTypeOK, Rows, BudgetKept
<1>2. QED
  BY <1>1, QueueInvAlways, PTL

-----------------------------------------------------------------------------
(***************************************************************************)
(* ProofQueue                                                              *)
(*                                                                         *)
(* The rows are not to be trusted, so the proof follows what cannot be     *)
(* changed: that a question was found to be the owner's own (AskerOwns)    *)
(* before anything telling was written about it, and that a signature was  *)
(* made over an address that had just been derived.                        *)
(***************************************************************************)
AskerOwns(r) ==
    question[r].about \in Bills /\ BillOwner[question[r].about] = question[r].by

SlotIntact(r) ==
    /\ slot[r].status = "pending" => slot[r].attempts < MaxAttempts
    /\ slot[r].status # "absent" => question[r].about \in Bills
    /\ slot[r].status = "done" => AskerOwns(r)
    /\ slot[r].status = "failed" => proof[r].kind \in {"not_found", "mismatch", "unavailable"}

ProofIntact(r) ==
    /\ proof[r].kind \in {"proof", "mismatch"} => AskerOwns(r)
    /\ proof[r].signed => /\ proof[r].kind = "proof" /\ proof[r].of \in Bills
                          /\ proof[r].address = "ours"

HeardIntact(r) ==
    /\ heard[r].kind = "none" => slot[r].status = "absent" /\ proof[r].kind = "none"
    /\ heard[r].kind \in {"proof", "mismatch", "tampered"} => AskerOwns(r)
    /\ heard[r].kind = "proof" => heard[r].of = question[r].about /\ heard[r].address = "ours"

ProverIntact(p) ==
    /\ prover[p].phase \in {"work", "verified", "raised"} =>
          prover[p].on \in Questions /\ slot[prover[p].on].status # "absent"
    /\ prover[p].phase = "verified" => AskerOwns(prover[p].on) /\ prover[p].view = "ours"

ProofsInv ==
    /\ ProofQueueTypeOK
    /\ \A r \in Questions : SlotIntact(r) /\ ProofIntact(r) /\ HeardIntact(r)
    /\ \A p \in Provers : ProverIntact(p)

-----------------------------------------------------------------------------
\* A question's row is moved by the same statements.
LEMMA SlotOperators ==
    ASSUME NEW x \in Rows
    PROVE  /\ NewRow \in Rows /\ NoRow \in Rows
           /\ x.attempts < MaxAttempts => Claimed(x) \in Rows
           /\ Requeued(x) \in Rows /\ LeaseLapsed(x) \in Rows /\ Reclaimed(x) \in Rows
           /\ \A s \in RowStatuses : FinishedAs(x, s) \in Rows /\ FinishedAs(x, s).status = s
BY RowOperators DEF FinishedAs, Rows

\* Nothing is asked at the start, and the rows are as the application wrote them.
LEMMA ProofsInvInit == ProofQueueInit => ProofsInv
<1> SUFFICES ASSUME ProofQueueInit PROVE ProofsInv
  OBVIOUS
<1> USE ProofQueueAssumption, QueueRowAssumption DEF ProofQueueInit
<1>1. slot \in [Questions -> Rows] /\ proof \in [Questions -> Proofs]
  BY DEF Rows, RowStatuses, NoRow, Proofs, NoProof
<1>2. prover \in [Provers -> ProverStates]
  BY DEF ProverStates, NewProver
<1>3. heard \in [Questions -> Proofs \cup {Refusing(t) : t \in Tellings}]
  BY DEF Tellings
<1>4. ProofQueueTypeOK
  BY <1>1, <1>2, <1>3 DEF ProofQueueTypeOK, BillStates
<1>5. \A r \in Questions : SlotIntact(r) /\ ProofIntact(r) /\ HeardIntact(r)
  BY DEF SlotIntact, ProofIntact, HeardIntact, NoRow, NoProof, Refusing
<1>6. \A p \in Provers : ProverIntact(p)
  BY DEF ProverIntact, NewProver
<1> QED
  BY <1>4, <1>5, <1>6 DEF ProofsInv

-----------------------------------------------------------------------------
\* Questions, and what is heard of them

\* Somebody asks.
LEMMA AskProofKeeps ==
    ASSUME ProofsInv, NEW r \in Questions, AskProof(r)
    PROVE  ProofsInv'
<1>1. PICK u \in Askers, i \in Bills \cup {NoBill} :
         /\ question' = [question EXCEPT ![r] = [by |-> u, about |-> i]]
         /\ \/ /\ Told(r, Refusing("in_flight")) \/ Told(r, Refusing("not_found"))
               /\ UNCHANGED slot
            \/ Told(r, Refusing("waiting")) /\ slot' = [slot EXCEPT ![r] = NewRow] /\ i \in Bills
  BY DEF AskProof
<1>2. /\ heard[r].kind = "none" /\ UNCHANGED <<proof, bill, account, prover, changes, stumbles>>
      /\ ProofQueueTypeOK
      /\ \A q \in Questions : SlotIntact(q) /\ ProofIntact(q) /\ HeardIntact(q)
      /\ \A p \in Provers : ProverIntact(p)
  BY DEF AskProof, ProofsInv
<1>3. slot[r].status = "absent" /\ proof[r].kind = "none" /\ ~proof[r].signed
  BY <1>2 DEF HeardIntact, ProofIntact
<1>4. PICK answer \in {Refusing(t) : t \in {"in_flight", "not_found", "waiting"}} :
         heard' = [heard EXCEPT ![r] = answer]
  BY <1>1 DEF Told
<1>5. answer.kind \in {"in_flight", "not_found", "waiting"}
  BY DEF Refusing, NoProof
<1>6. answer \in Proofs \cup {Refusing(t) : t \in Tellings}
  BY DEF Proofs, Refusing, NoProof, Tellings
<1>7. NewRow \in Rows /\ NewRow.status = "pending" /\ NewRow.attempts = 0
  BY QueueRowAssumption DEF Rows, RowStatuses, NewRow
<1>8. slot' \in [Questions -> Rows] /\ \A q \in Questions : q # r => slot'[q] = slot[q]
  BY <1>1, <1>2, <1>7 DEF ProofQueueTypeOK
<1>9. ProofQueueTypeOK'
  BY <1>1, <1>2, <1>4, <1>6, <1>8 DEF ProofQueueTypeOK
<1>10. \A q \in Questions : q # r => /\ question'[q] = question[q] /\ slot'[q] = slot[q]
                                     /\ heard'[q] = heard[q]
  BY <1>1, <1>2, <1>4, <1>8 DEF ProofQueueTypeOK
<1>11. \A q \in Questions : q # r => SlotIntact(q)' /\ ProofIntact(q)' /\ HeardIntact(q)'
  BY <1>2, <1>10 DEF SlotIntact, ProofIntact, HeardIntact, AskerOwns
<1>12. SlotIntact(r)'
  <2>1. question'[r].about = i
    BY <1>1, <1>2 DEF ProofQueueTypeOK
  <2>2. slot'[r] = slot[r] \/ (slot'[r] = NewRow /\ i \in Bills)
    BY <1>1, <1>2 DEF ProofQueueTypeOK
  <2> QED
    BY <1>3, <1>7, <2>1, <2>2, QueueRowAssumption DEF SlotIntact
<1>13. ProofIntact(r)' /\ HeardIntact(r)'
  <2>1. heard'[r] = answer
    BY <1>2, <1>4 DEF ProofQueueTypeOK
  <2> QED
    BY <1>2, <1>3, <1>5, <2>1 DEF ProofIntact, HeardIntact
<1>14. \A p \in Provers : ProverIntact(p)'
  BY <1>2, <1>3, <1>10 DEF ProverIntact, AskerOwns
<1> QED
  BY <1>9, <1>11, <1>12, <1>13, <1>14 DEF ProofsInv

\* He reads the answer, or stops waiting.
LEMMA HearProofKeeps ==
    ASSUME ProofsInv, NEW r \in Questions, HearProof(r) \/ StopWaiting(r)
    PROVE  ProofsInv'
<1>1. /\ UNCHANGED <<question, slot, proof, bill, account, prover, changes, stumbles>>
      /\ ProofQueueTypeOK
      /\ \A q \in Questions : SlotIntact(q) /\ ProofIntact(q) /\ HeardIntact(q)
      /\ \A p \in Provers : ProverIntact(p)
  BY DEF HearProof, StopWaiting, ProofsInv
<1>2. PICK answer :
         /\ heard' = [heard EXCEPT ![r] = answer]
         /\ \/ answer = proof[r] /\ (slot[r].status = "failed" \/ Accepted(r))
            \/ answer = Refusing("tampered") /\ slot[r].status = "done"
            \/ answer = Refusing("timeout")
  BY DEF HearProof, StopWaiting, Told, Finished
<1>3. /\ answer \in Proofs \cup {Refusing(t) : t \in Tellings}
      /\ answer.kind # "none"
      /\ answer.kind \in {"proof", "mismatch", "tampered"} => AskerOwns(r)
      /\ answer.kind = "proof" => answer.of = question[r].about /\ answer.address = "ours"
  <2>1. CASE answer = proof[r] /\ (slot[r].status = "failed" \/ Accepted(r))
    <3>1. proof[r] \in Proofs
      BY <1>1 DEF ProofQueueTypeOK
    <3>2. proof[r].kind # "tampered"
      BY <3>1 DEF Proofs
    <3> QED
      BY <1>1, <2>1, <3>1, <3>2 DEF Accepted, SlotIntact, ProofIntact
  <2>2. CASE answer = Refusing("tampered") /\ slot[r].status = "done"
    BY <1>1, <2>2 DEF Refusing, NoProof, Tellings, SlotIntact
  <2>3. CASE answer = Refusing("timeout")
    BY <2>3 DEF Refusing, NoProof, Tellings
  <2> QED
    BY <1>2, <2>1, <2>2, <2>3
<1>4. ProofQueueTypeOK'
  BY <1>1, <1>2, <1>3 DEF ProofQueueTypeOK
<1>5. \A q \in Questions : SlotIntact(q)' /\ ProofIntact(q)' /\ HeardIntact(q)'
  <2> SUFFICES ASSUME NEW q \in Questions PROVE SlotIntact(q)' /\ ProofIntact(q)' /\ HeardIntact(q)'
    OBVIOUS
  <2>1. SlotIntact(q)' /\ ProofIntact(q)'
    BY <1>1 DEF SlotIntact, ProofIntact, AskerOwns
  <2>2. heard'[q] = IF q = r THEN answer ELSE heard[q]
    BY <1>1, <1>2 DEF ProofQueueTypeOK
  <2>3. HeardIntact(q)'
    BY <1>1, <1>3, <2>2 DEF HeardIntact, AskerOwns
  <2> QED
    BY <2>1, <2>3
<1>6. \A p \in Provers : ProverIntact(p)'
  BY <1>1 DEF ProverIntact, AskerOwns
<1> QED
  BY <1>4, <1>5, <1>6 DEF ProofsInv

-----------------------------------------------------------------------------
\* Whatever is changed behind the application, an answer that was a proof still
\* looks like one, and nobody can sign.
LEMMA ChangeKeeps ==
    ASSUME ProofsInv, Change
    PROVE  ProofsInv'
<1>1. /\ UNCHANGED <<question, slot, heard, prover, stumbles>>
      /\ changes < MaxChanges /\ changes' = changes + 1
      /\ ProofQueueTypeOK
      /\ \A q \in Questions : SlotIntact(q) /\ ProofIntact(q) /\ HeardIntact(q)
      /\ \A p \in Provers : ProverIntact(p)
  BY DEF Change, ProofsInv
<1>2. changes' \in 0..MaxChanges
  BY <1>1, ProofQueueAssumption DEF ProofQueueTypeOK
<1>3. bill' \in [Bills -> BillStates] /\ account' \in BOOLEAN
  BY <1>1 DEF Change, ProofQueueTypeOK, BillStates
<1>4. /\ proof' \in [Questions -> Proofs]
      /\ \A r \in Questions : ProofIntact(r)' /\ (proof[r].kind # "proof" => proof'[r] = proof[r])
  <2>1. CASE UNCHANGED proof
    BY <1>1, <2>1 DEF ProofIntact, AskerOwns, ProofQueueTypeOK
  <2>2. ASSUME NEW r \in Questions, proof[r].kind = "proof",
               proof' = [proof EXCEPT ![r].address = "foreign", ![r].signed = FALSE]
        PROVE  /\ proof' \in [Questions -> Proofs]
               /\ \A x \in Questions :
                     ProofIntact(x)' /\ (proof[x].kind # "proof" => proof'[x] = proof[x])
    <3>1. proof[r] \in Proofs
      BY <1>1 DEF ProofQueueTypeOK
    <3>2. /\ proof'[r] \in Proofs /\ proof'[r].kind = "proof" /\ ~proof'[r].signed
      BY <1>1, <2>2, <3>1 DEF ProofQueueTypeOK, Proofs
    <3>3. \A q \in Questions : q # r => proof'[q] = proof[q]
      BY <1>1, <2>2 DEF ProofQueueTypeOK
    <3>4. proof' \in [Questions -> Proofs]
      BY <1>1, <2>2, <3>2, <3>3 DEF ProofQueueTypeOK
    <3> QED
      BY <1>1, <2>2, <3>2, <3>3, <3>4 DEF ProofIntact, AskerOwns
  <2>3. ASSUME NEW r \in Questions, NEW q \in Questions,
               proof[r].kind = "proof", proof[q].kind = "proof",
               proof' = [proof EXCEPT ![r] = proof[q]]
        PROVE  /\ proof' \in [Questions -> Proofs]
               /\ \A x \in Questions :
                     ProofIntact(x)' /\ (proof[x].kind # "proof" => proof'[x] = proof[x])
    BY <1>1, <2>3 DEF ProofIntact, AskerOwns, ProofQueueTypeOK
  <2> QED
    BY <2>1, <2>2, <2>3 DEF Change
<1>5. ProofQueueTypeOK'
  BY <1>1, <1>2, <1>3, <1>4 DEF ProofQueueTypeOK
<1>6. \A r \in Questions : SlotIntact(r)' /\ HeardIntact(r)'
  BY <1>1, <1>4 DEF SlotIntact, HeardIntact, AskerOwns
<1>7. \A p \in Provers : ProverIntact(p)'
  BY <1>1 DEF ProverIntact, AskerOwns
<1> QED
  BY <1>4, <1>5, <1>6, <1>7 DEF ProofsInv

-----------------------------------------------------------------------------
\* The derivers

\* A process that turns to another question or to none, while no row changes.
LEMMA LetGoKeeps ==
    ASSUME ProofsInv, NEW p \in Provers, NEW next \in ProverStates,
           prover' = [prover EXCEPT ![p] = next],
           next.phase \notin {"work", "verified", "raised"},
           UNCHANGED <<question, slot, proof, heard, bill, account, changes>>,
           stumbles' \in 0..MaxStumbles
    PROVE  ProofsInv'
<1>1. ProofQueueTypeOK'
  BY DEF ProofsInv, ProofQueueTypeOK
<1>2. \A r \in Questions : SlotIntact(r)' /\ ProofIntact(r)' /\ HeardIntact(r)'
  BY DEF ProofsInv, SlotIntact, ProofIntact, HeardIntact, AskerOwns
<1>3. \A q \in Provers : prover'[q] = IF q = p THEN next ELSE prover[q]
  BY DEF ProofsInv, ProofQueueTypeOK
<1>4. \A q \in Provers : ProverIntact(q)'
  BY <1>3 DEF ProofsInv, ProverIntact, AskerOwns
<1> QED
  BY <1>1, <1>2, <1>4 DEF ProofsInv

\* What a deriver is between two questions.
LEMMA IdleStates ==
    ASSUME ProofQueueTypeOK, NEW p \in Provers
    PROVE  /\ NewProver \in ProverStates
           /\ [NewProver EXCEPT !.tried = prover[p].tried] \in ProverStates
           /\ [NewProver EXCEPT !.phase = "wait"] \in ProverStates
           /\ [NewProver EXCEPT !.phase = "down"] \in ProverStates
<1>1. prover[p].tried \in SUBSET Questions
  BY DEF ProofQueueTypeOK, ProverStates
<1>2. 0 \in 0..MaxQuestions
  BY ProofQueueAssumption
<1> QED
  BY <1>1, <1>2 DEF NewProver, ProverStates

\* A deriver claims a question.
LEMMA TakeProofKeeps ==
    ASSUME ProofsInv, NEW p \in Provers, TakeProof(p)
    PROVE  ProofsInv'
<1>1. PICK r \in Questions :
         /\ slot[r].status = "pending"
         /\ slot' = [slot EXCEPT ![r] = Claimed(slot[r])]
         /\ prover' = [prover EXCEPT ![p] =
              [NewProver EXCEPT !.phase = "work", !.on = r, !.tried = prover[p].tried \cup {r}]]
  BY DEF TakeProof, Unproven
<1>2. /\ UNCHANGED <<question, proof, heard, bill, account, changes, stumbles>>
      /\ ProofQueueTypeOK
      /\ \A q \in Questions : SlotIntact(q) /\ ProofIntact(q) /\ HeardIntact(q)
      /\ \A q \in Provers : ProverIntact(q)
  BY DEF TakeProof, ProofsInv
<1>3. /\ slot'[r] \in Rows /\ slot'[r].status = "processing"
      /\ \A q \in Questions : q # r => slot'[q] = slot[q]
      /\ slot' \in [Questions -> Rows]
  <2>1. slot[r] \in Rows /\ slot[r].attempts < MaxAttempts
    BY <1>1, <1>2 DEF ProofQueueTypeOK, SlotIntact
  <2>2. Claimed(slot[r]) \in Rows /\ Claimed(slot[r]).status = "processing"
    BY <2>1, SlotOperators DEF Claimed
  <2> QED
    BY <1>1, <1>2, <2>2 DEF ProofQueueTypeOK
<1>4. /\ prover'[p] \in ProverStates /\ prover'[p].phase = "work" /\ prover'[p].on = r
      /\ \A q \in Provers : q # p => prover'[q] = prover[q]
      /\ prover' \in [Provers -> ProverStates]
  <2>1. r \in 0..MaxQuestions
    BY ProofQueueAssumption DEF Questions
  <2>2. prover[p].tried \cup {r} \in SUBSET Questions
    BY <1>2 DEF ProofQueueTypeOK, ProverStates
  <2>3. prover'[p] = [phase |-> "work", on |-> r, view |-> "ours", tried |-> prover[p].tried \cup {r}]
    BY <1>1, <1>2 DEF ProofQueueTypeOK, NewProver
  <2>4. prover'[p] \in ProverStates
    BY <2>1, <2>2, <2>3 DEF ProverStates
  <2> QED
    BY <1>1, <1>2, <2>3, <2>4 DEF ProofQueueTypeOK
<1>5. ProofQueueTypeOK'
  BY <1>2, <1>3, <1>4 DEF ProofQueueTypeOK
<1>6. \A q \in Questions : SlotIntact(q)' /\ ProofIntact(q)' /\ HeardIntact(q)'
  <2> SUFFICES ASSUME NEW q \in Questions PROVE SlotIntact(q)' /\ ProofIntact(q)' /\ HeardIntact(q)'
    OBVIOUS
  <2>1. CASE q = r
    BY <1>1, <1>2, <1>3, <2>1 DEF SlotIntact, ProofIntact, HeardIntact, AskerOwns
  <2>2. CASE q # r
    BY <1>2, <1>3, <2>2 DEF SlotIntact, ProofIntact, HeardIntact, AskerOwns
  <2> QED
    BY <2>1, <2>2
<1>7. \A q \in Provers : ProverIntact(q)'
  <2> SUFFICES ASSUME NEW q \in Provers PROVE ProverIntact(q)'
    OBVIOUS
  <2>1. \A x \in Questions : slot[x].status # "absent" => slot'[x].status # "absent"
    BY <1>3
  <2>2. CASE q = p
    BY <1>3, <1>4, <2>2 DEF ProverIntact
  <2>3. CASE q # p
    BY <1>2, <1>4, <2>1, <2>3 DEF ProverIntact, AskerOwns
  <2> QED
    BY <2>2, <2>3
<1> QED
  BY <1>5, <1>6, <1>7 DEF ProofsInv

\* The compare-and-set at the end of an attempt, with an answer that may be given.
LEMMA FinishKeeps ==
    ASSUME ProofsInv, NEW p \in Provers, NEW status \in {"done", "failed"}, NEW answer \in Proofs,
           Finish(p, status, answer),
           UNCHANGED <<question, heard, bill, account, changes, stumbles>>,
           prover[p].on \in Questions,
           status = "done" => AskerOwns(prover[p].on),
           status = "failed" => answer.kind \in {"not_found", "mismatch", "unavailable"},
           answer.kind \in {"proof", "mismatch"} => AskerOwns(prover[p].on),
           answer.signed => /\ answer.kind = "proof" /\ answer.of \in Bills
                            /\ answer.address = "ours"
    PROVE  ProofsInv'
<1> DEFINE r == prover[p].on
           next == [NewProver EXCEPT !.tried = prover[p].tried]
<1>1. /\ ProofQueueTypeOK
      /\ \A q \in Questions : SlotIntact(q) /\ ProofIntact(q) /\ HeardIntact(q)
      /\ \A q \in Provers : ProverIntact(q)
  BY DEF ProofsInv
<1>2. next \in ProverStates /\ next.phase = "drain"
  BY <1>1, IdleStates DEF NewProver
<1>3. prover' = [prover EXCEPT ![p] = next]
  BY DEF Finish, LetGo
<1>4. CASE UNCHANGED <<slot, proof>>
  <2>1. stumbles' \in 0..MaxStumbles
    BY <1>1 DEF ProofQueueTypeOK
  <2> HIDE DEF next
  <2> QED
    BY <1>2, <1>3, <1>4, <2>1, LetGoKeeps
<1>5. CASE /\ CanFinish(slot[r])
           /\ slot' = [slot EXCEPT ![r] = FinishedAs(slot[r], status)]
           /\ proof' = [proof EXCEPT ![r] = answer]
  <2>1. /\ slot[r] \in Rows /\ slot[r].status = "processing" /\ status \in RowStatuses
    BY <1>1, <1>5 DEF ProofQueueTypeOK, CanFinish, RowStatuses
  <2>2. /\ slot'[r] \in Rows /\ slot'[r].status = status
        /\ \A q \in Questions : q # r => slot'[q] = slot[q]
        /\ slot' \in [Questions -> Rows]
    <3>1. FinishedAs(slot[r], status) \in Rows /\ FinishedAs(slot[r], status).status = status
      BY <2>1, SlotOperators
    <3> QED
      BY <1>1, <1>5, <3>1 DEF ProofQueueTypeOK
  <2>3. /\ proof'[r] = answer /\ proof' \in [Questions -> Proofs]
        /\ \A q \in Questions : q # r => proof'[q] = proof[q]
    BY <1>1, <1>5 DEF ProofQueueTypeOK
  <2>4. \A q \in Provers : prover'[q] = IF q = p THEN next ELSE prover[q]
    BY <1>1, <1>3 DEF ProofQueueTypeOK
  <2>5. ProofQueueTypeOK'
    <3>1. prover' \in [Provers -> ProverStates]
      BY <1>1, <1>2, <1>3 DEF ProofQueueTypeOK
    <3> QED
      BY <1>1, <2>2, <2>3, <3>1 DEF ProofQueueTypeOK
  <2>6. heard[r].kind # "none"
    BY <1>1, <2>1 DEF HeardIntact
  <2>7. \A q \in Questions : SlotIntact(q)' /\ ProofIntact(q)' /\ HeardIntact(q)'
    <3> SUFFICES ASSUME NEW q \in Questions
                 PROVE  SlotIntact(q)' /\ ProofIntact(q)' /\ HeardIntact(q)'
      OBVIOUS
    <3>1. CASE q = r
      BY <1>1, <2>1, <2>2, <2>3, <2>6, <3>1 DEF SlotIntact, ProofIntact, HeardIntact, AskerOwns
    <3>2. CASE q # r
      BY <1>1, <2>2, <2>3, <3>2 DEF SlotIntact, ProofIntact, HeardIntact, AskerOwns
    <3> QED
      BY <3>1, <3>2
  <2>8. \A q \in Provers : ProverIntact(q)'
    <3>1. \A x \in Questions : slot[x].status # "absent" => slot'[x].status # "absent"
      BY <2>2
    <3> QED
      BY <1>1, <1>2, <2>4, <3>1 DEF ProverIntact, AskerOwns
  <2> QED
    BY <2>5, <2>7, <2>8 DEF ProofsInv
<1> QED
  BY <1>4, <1>5 DEF Finish

\* It reads the invoice and the address, as they are by now.
LEMMA ReadInvoiceKeeps ==
    ASSUME ProofsInv, NEW p \in Provers, ReadInvoice(p)
    PROVE  ProofsInv'
<1> DEFINE r == prover[p].on
<1>1. /\ UNCHANGED <<question, heard, bill, account, changes, stumbles>>
      /\ ProofQueueTypeOK
      /\ \A q \in Questions : SlotIntact(q) /\ ProofIntact(q) /\ HeardIntact(q)
      /\ \A q \in Provers : ProverIntact(q)
  BY DEF ReadInvoice, ProofsInv
<1>2. r \in Questions /\ question[r].about \in Bills
  BY <1>1 DEF ReadInvoice, ProverIntact, SlotIntact
<1>3. /\ Verdict(r) \in {"verified", "mismatch", "not_found"}
      /\ Verdict(r) \in {"verified", "mismatch"} => AskerOwns(r)
  BY <1>2 DEF Verdict, AskerOwns
<1>4. CASE Verdict(r) = "verified"
  <2>1. /\ prover' = [prover EXCEPT ![p].phase = "verified", ![p].view = "ours"]
        /\ UNCHANGED <<slot, proof>>
    BY <1>4 DEF ReadInvoice
  <2>2. /\ prover'[p] \in ProverStates /\ prover'[p].phase = "verified"
        /\ prover'[p].view = "ours" /\ prover'[p].on = r
        /\ \A q \in Provers : q # p => prover'[q] = prover[q]
        /\ prover' \in [Provers -> ProverStates]
    BY <1>1, <2>1 DEF ProofQueueTypeOK, ProverStates
  <2>3. ProofQueueTypeOK'
    BY <1>1, <2>1, <2>2 DEF ProofQueueTypeOK
  <2>4. \A q \in Questions : SlotIntact(q)' /\ ProofIntact(q)' /\ HeardIntact(q)'
    BY <1>1, <2>1 DEF SlotIntact, ProofIntact, HeardIntact, AskerOwns
  <2>5. slot[r].status # "absent"
    BY <1>1 DEF ReadInvoice, ProverIntact
  <2>6. \A q \in Provers : ProverIntact(q)'
    <3> SUFFICES ASSUME NEW q \in Provers PROVE ProverIntact(q)'
      OBVIOUS
    <3>1. CASE q = p
      BY <1>1, <1>2, <1>3, <1>4, <2>1, <2>2, <2>5, <3>1 DEF ProverIntact, AskerOwns
    <3>2. CASE q # p
      BY <1>1, <2>1, <2>2, <3>2 DEF ProverIntact, AskerOwns
    <3> QED
      BY <3>1, <3>2
  <2> QED
    BY <2>3, <2>4, <2>6 DEF ProofsInv
<1>5. CASE Verdict(r) # "verified"
  <2> DEFINE answer == Refusing(Verdict(r))
  <2>1. Finish(p, "failed", answer)
    BY <1>5 DEF ReadInvoice
  <2>2. answer \in Proofs /\ answer.kind = Verdict(r) /\ ~answer.signed
    <3>1. \A k \in {"mismatch", "not_found"} :
             Refusing(k) \in Proofs /\ Refusing(k).kind = k /\ ~Refusing(k).signed
      BY DEF Refusing, NoProof, Proofs
    <3> QED
      BY <1>3, <1>5, <3>1
  <2> HIDE DEF answer
  <2> QED
    BY <1>1, <1>2, <1>3, <1>5, <2>1, <2>2, FinishKeeps
<1> QED
  BY <1>4, <1>5

\* It signs what it has derived.
LEMMA ProveKeeps ==
    ASSUME ProofsInv, NEW p \in Provers, Prove(p)
    PROVE  ProofsInv'
<1> DEFINE r == prover[p].on
<1>1. /\ UNCHANGED <<question, heard, bill, account, changes, stumbles>>
      /\ r \in Questions /\ AskerOwns(r) /\ prover[p].view = "ours"
  BY DEF Prove, ProofsInv, ProverIntact
<1>2. CASE account
  <2> DEFINE answer == ProofOf(question[r].about, SignedAddress(p))
  <2>1. Finish(p, "done", answer)
    BY <1>2 DEF Prove
  <2>2. /\ answer \in Proofs /\ answer.kind = "proof" /\ answer.of \in Bills
        /\ answer.address = "ours"
    BY <1>1 DEF ProofOf, SignedAddress, Proofs, AskerOwns
  <2> HIDE DEF answer
  <2> QED
    BY <1>1, <2>1, <2>2, FinishKeeps
<1>3. CASE ~account
  <2> DEFINE answer == Refusing("mismatch")
  <2>1. Finish(p, "failed", answer)
    BY <1>3 DEF Prove
  <2>2. answer \in Proofs /\ answer.kind = "mismatch" /\ ~answer.signed
    BY DEF Refusing, NoProof, Proofs
  <2> HIDE DEF answer
  <2> QED
    BY <1>1, <2>1, <2>2, FinishKeeps
<1> QED
  BY <1>2, <1>3

\* It answers that it could not, once the budget is out.
LEMMA GiveUpProofKeeps ==
    ASSUME ProofsInv, NEW p \in Provers, GiveUpProof(p)
    PROVE  ProofsInv'
<1> DEFINE answer == Refusing("unavailable")
<1>1. /\ UNCHANGED <<question, heard, bill, account, changes, stumbles>>
      /\ prover[p].on \in Questions /\ Finish(p, "failed", answer)
  BY DEF GiveUpProof, ProofsInv, ProverIntact
<1>2. answer \in Proofs /\ answer.kind = "unavailable" /\ ~answer.signed
  BY DEF Refusing, NoProof, Proofs
<1> HIDE DEF answer
<1> QED
  BY <1>1, <1>2, FinishKeeps

\* A claimed row that is claimed on or waits again, whoever lets go of it.
LEMMA RowStaysOpen ==
    ASSUME ProofsInv, NEW r \in Questions, NEW x \in Rows,
           slot[r].status = "processing", slot' = [slot EXCEPT ![r] = x],
           x.status = "processing" \/ (x.status = "pending" /\ x.attempts < MaxAttempts),
           prover' \in [Provers -> ProverStates],
           \A p \in Provers : \/ prover'[p] = prover[p]
                              \/ prover'[p].phase \notin {"work", "verified", "raised"},
           UNCHANGED <<question, proof, heard, bill, account, changes>>,
           stumbles' \in 0..MaxStumbles
    PROVE  ProofsInv'
<1>1. /\ ProofQueueTypeOK
      /\ \A q \in Questions : SlotIntact(q) /\ ProofIntact(q) /\ HeardIntact(q)
      /\ \A q \in Provers : ProverIntact(q)
  BY DEF ProofsInv
<1>2. /\ slot'[r] = x /\ slot' \in [Questions -> Rows]
      /\ \A q \in Questions : q # r => slot'[q] = slot[q]
  BY <1>1 DEF ProofQueueTypeOK
<1>3. ProofQueueTypeOK'
  BY <1>1, <1>2 DEF ProofQueueTypeOK
<1>4. \A q \in Questions : SlotIntact(q)' /\ ProofIntact(q)' /\ HeardIntact(q)'
  <2> SUFFICES ASSUME NEW q \in Questions PROVE SlotIntact(q)' /\ ProofIntact(q)' /\ HeardIntact(q)'
    OBVIOUS
  <2>1. CASE q = r
    BY <1>1, <1>2, <2>1 DEF SlotIntact, ProofIntact, HeardIntact, AskerOwns
  <2>2. CASE q # r
    BY <1>1, <1>2, <2>2 DEF SlotIntact, ProofIntact, HeardIntact, AskerOwns
  <2> QED
    BY <2>1, <2>2
<1>5. \A p \in Provers : ProverIntact(p)'
  <2>1. \A q \in Questions : slot[q].status # "absent" => slot'[q].status # "absent"
    BY <1>2
  <2> QED
    BY <1>1, <2>1 DEF ProverIntact, AskerOwns
<1> QED
  BY <1>3, <1>4, <1>5 DEF ProofsInv

\* An attempt fails and leaves the question to another one.
LEMMA ProofRaisesKeeps ==
    ASSUME ProofsInv, NEW p \in Provers, ProofRaises(p)
    PROVE  ProofsInv'
<1> DEFINE r == prover[p].on
           next == [NewProver EXCEPT !.tried = prover[p].tried]
<1>1. /\ ProofQueueTypeOK
      /\ \A q \in Questions : SlotIntact(q) /\ ProofIntact(q) /\ HeardIntact(q)
      /\ \A q \in Provers : ProverIntact(q)
  BY DEF ProofsInv
<1>2. /\ UNCHANGED <<question, proof, heard, bill, account, changes>>
      /\ r \in Questions /\ slot[r].status # "absent" /\ slot[r] \in Rows
  BY <1>1 DEF ProofRaises, ProverIntact, ProofQueueTypeOK
<1>3. stumbles' \in 0..MaxStumbles
  BY <1>1, ProofQueueAssumption DEF ProofRaises, ProofQueueTypeOK
<1>4. CASE CanRequeue(slot[r])
  <2>1. slot' = [slot EXCEPT ![r] = Requeued(slot[r])] /\ prover' = [prover EXCEPT ![p] = next]
    BY <1>4 DEF ProofRaises, LetGo
  <2>2. /\ Requeued(slot[r]) \in Rows /\ Requeued(slot[r]).status = "pending"
        /\ Requeued(slot[r]).attempts < MaxAttempts /\ slot[r].status = "processing"
    BY <1>2, <1>4, SlotOperators DEF Requeued, CanRequeue, Rows
  <2>3. next \in ProverStates /\ next.phase = "drain"
    BY <1>1, IdleStates DEF NewProver
  <2>4. /\ prover' \in [Provers -> ProverStates]
        /\ \A q \in Provers : prover'[q] = prover[q] \/ prover'[q].phase = "drain"
    BY <1>1, <2>1, <2>3 DEF ProofQueueTypeOK
  <2> HIDE DEF r, next
  <2> QED
    BY <1>2, <1>3, <2>1, <2>2, <2>4, RowStaysOpen
<1>5. CASE ~CanRequeue(slot[r])
  <2>1. UNCHANGED slot /\ prover' = [prover EXCEPT ![p].phase = "raised"]
    BY <1>5 DEF ProofRaises
  <2>2. /\ prover'[p] \in ProverStates /\ prover'[p].phase = "raised" /\ prover'[p].on = r
        /\ \A q \in Provers : q # p => prover'[q] = prover[q]
        /\ prover' \in [Provers -> ProverStates]
    BY <1>1, <2>1 DEF ProofQueueTypeOK, ProverStates
  <2>3. ProofQueueTypeOK'
    BY <1>1, <1>2, <1>3, <2>1, <2>2 DEF ProofQueueTypeOK
  <2>4. \A q \in Questions : SlotIntact(q)' /\ ProofIntact(q)' /\ HeardIntact(q)'
    BY <1>1, <1>2, <2>1 DEF SlotIntact, ProofIntact, HeardIntact, AskerOwns
  <2>5. \A q \in Provers : ProverIntact(q)'
    <3> SUFFICES ASSUME NEW q \in Provers PROVE ProverIntact(q)'
      OBVIOUS
    <3>1. CASE q = p
      BY <1>2, <2>1, <2>2, <3>1 DEF ProverIntact
    <3>2. CASE q # p
      BY <1>1, <1>2, <2>1, <2>2, <3>2 DEF ProverIntact, AskerOwns
    <3> QED
      BY <3>1, <3>2
  <2> QED
    BY <2>3, <2>4, <2>5 DEF ProofsInv
<1> QED
  BY <1>4, <1>5

\* A deriver has nothing to do, is woken or dies.
LEMMA LoopKeeps ==
    ASSUME ProofsInv, NEW p \in Provers, ProofsDrained(p) \/ ProverWoken(p) \/ ProverDies(p)
    PROVE  ProofsInv'
<1>1. ProofQueueTypeOK
  BY DEF ProofsInv
<1>2. /\ UNCHANGED <<question, slot, proof, heard, bill, account, changes>>
      /\ stumbles' \in 0..MaxStumbles
  BY <1>1, ProofQueueAssumption DEF ProofsDrained, ProverWoken, ProverDies, ProofQueueTypeOK
<1>3. PICK next : /\ next \in {NewProver, [NewProver EXCEPT !.phase = "wait"],
                               [NewProver EXCEPT !.phase = "down"]}
                  /\ prover' = [prover EXCEPT ![p] = next]
  BY DEF ProofsDrained, ProverWoken, ProverDies
<1>4. next \in ProverStates /\ next.phase \in {"drain", "wait", "down"}
  <2>1. next \in ProverStates
    BY <1>1, <1>3, IdleStates
  <2>2. next.phase \in {"drain", "wait", "down"}
    BY <1>3 DEF NewProver
  <2> QED
    BY <2>1, <2>2
<1> QED
  BY <1>2, <1>3, <1>4, LetGoKeeps

\* Reclaiming takes nothing that is not in progress, and an abandoned question is
\* the one that gets the answer of a failure; pruning takes only answers.
LEMMA SweepProofsKeeps ==
    ASSUME ProofsInv, NEW p \in Provers, SweepProofs(p)
    PROVE  ProofsInv'
<1>1. /\ UNCHANGED <<question, heard, bill, account, changes, stumbles>>
      /\ prover' = [prover EXCEPT ![p] = NewProver]
      /\ slot' = [r \in Questions |->
             IF Finished(slot[r]) /\ heard[r].kind # "waiting" THEN FinishedAs(slot[r], "pruned")
             ELSE Reclaimed(slot[r])]
      /\ proof' = [r \in Questions |-> IF Expiring(r) THEN Refusing("unavailable") ELSE proof[r]]
      /\ ProofQueueTypeOK
      /\ \A q \in Questions : SlotIntact(q) /\ ProofIntact(q) /\ HeardIntact(q)
      /\ \A q \in Provers : ProverIntact(q)
  BY DEF SweepProofs, ProofsInv
<1>2. ASSUME NEW r \in Questions
      PROVE  /\ slot'[r] \in Rows
             /\ \/ slot'[r] = slot[r]
                \/ slot[r].status \in {"done", "failed"} /\ slot'[r].status = "pruned"
                \/ /\ slot[r].status = "processing" /\ slot'[r].status = "pending"
                   /\ slot'[r].attempts < MaxAttempts
                \/ slot[r].status = "processing" /\ slot'[r].status = "failed" /\ Expiring(r)
             /\ Expiring(r) => slot[r].status = "processing" /\ slot'[r].status = "failed"
  <2>1. slot[r] \in Rows
    BY <1>1 DEF ProofQueueTypeOK
  <2>2. CASE Finished(slot[r]) /\ heard[r].kind # "waiting"
    <3>1. FinishedAs(slot[r], "pruned") \in Rows /\ FinishedAs(slot[r], "pruned").status = "pruned"
      BY <2>1, SlotOperators DEF RowStatuses
    <3> QED
      BY <1>1, <2>2, <3>1 DEF Finished, Expiring
  <2>3. CASE ~(Finished(slot[r]) /\ heard[r].kind # "waiting")
    <3>1. slot'[r] = Reclaimed(slot[r]) /\ Reclaimed(slot[r]) \in Rows
      BY <1>1, <2>1, <2>3, SlotOperators
    <3>2. CASE ~Stale(slot[r])
      BY <3>1, <3>2 DEF Reclaimed, Expiring, Stale
    <3>3. CASE Stale(slot[r]) /\ slot[r].attempts < MaxAttempts
      <4>1. slot'[r] = Requeued(slot[r]) /\ ~Expiring(r)
        BY <2>1, <3>1, <3>3, QueueRowAssumption DEF Reclaimed, Expiring, Rows
      <4> QED
        BY <2>1, <3>1, <3>3, <4>1 DEF Requeued, Stale, Rows
    <3>4. CASE Stale(slot[r]) /\ ~(slot[r].attempts < MaxAttempts)
      <4>1. slot[r].attempts = MaxAttempts
        BY <2>1, <3>4, QueueRowAssumption DEF Rows
      <4>2. slot'[r].status = "failed"
        <5>1. slot'[r] = FinishedAs(slot[r], "failed")
          BY <3>1, <3>4 DEF Reclaimed
        <5>2. FinishedAs(slot[r], "failed").status = "failed"
          BY <2>1, SlotOperators DEF RowStatuses
        <5> QED
          BY <5>1, <5>2
      <4> QED
        BY <3>1, <3>4, <4>1, <4>2 DEF Stale, Expiring
    <3> QED
      BY <3>2, <3>3, <3>4
  <2> QED
    BY <2>2, <2>3
<1>3. ASSUME NEW r \in Questions
      PROVE  /\ proof'[r] \in Proofs
             /\ ~Expiring(r) => proof'[r] = proof[r]
             /\ Expiring(r) => proof'[r].kind = "unavailable" /\ ~proof'[r].signed
  <2>1. Refusing("unavailable") \in Proofs
    BY DEF Refusing, NoProof, Proofs
  <2> QED
    BY <1>1, <2>1 DEF ProofQueueTypeOK, Refusing, NoProof
<1>4. ProofQueueTypeOK'
  <2>1. slot' \in [Questions -> Rows] /\ proof' \in [Questions -> Proofs]
    BY <1>1, <1>2, <1>3
  <2>2. prover' \in [Provers -> ProverStates]
    BY <1>1, IdleStates DEF ProofQueueTypeOK
  <2> QED
    BY <1>1, <2>1, <2>2 DEF ProofQueueTypeOK
<1>5. ASSUME NEW r \in Questions
      PROVE  SlotIntact(r)' /\ ProofIntact(r)' /\ HeardIntact(r)'
  <2>1. SlotIntact(r)'
    BY <1>1, <1>2, <1>3 DEF SlotIntact, AskerOwns
  <2>2. ProofIntact(r)'
    BY <1>1, <1>2, <1>3 DEF ProofIntact, AskerOwns
  <2>3. HeardIntact(r)'
    BY <1>1, <1>2, <1>3 DEF HeardIntact, AskerOwns
  <2> QED
    BY <2>1, <2>2, <2>3
<1>6. \A q \in Provers : ProverIntact(q)'
  <2>1. \A r \in Questions : slot[r].status # "absent" => slot'[r].status # "absent"
    BY <1>2
  <2>2. \A q \in Provers : prover'[q] = prover[q] \/ prover'[q].phase = "drain"
    BY <1>1 DEF ProofQueueTypeOK, NewProver
  <2> QED
    BY <1>1, <2>1, <2>2 DEF ProverIntact, AskerOwns
<1> QED
  BY <1>4, <1>5, <1>6 DEF ProofsInv

\* A lease runs out.
LEMMA ProofLapsesKeeps ==
    ASSUME ProofsInv, NEW r \in Questions, ProofLapses(r)
    PROVE  ProofsInv'
<1>1. /\ slot[r].status = "processing" /\ slot[r] \in Rows
      /\ slot' = [slot EXCEPT ![r] = LeaseLapsed(slot[r])]
      /\ UNCHANGED <<question, proof, heard, bill, account, prover, changes>>
      /\ prover \in [Provers -> ProverStates]
  BY DEF ProofLapses, ProofsInv, ProofQueueTypeOK
<1>2. stumbles' \in 0..MaxStumbles
  BY ProofQueueAssumption DEF ProofLapses, ProofsInv, ProofQueueTypeOK
<1>3. LeaseLapsed(slot[r]) \in Rows /\ LeaseLapsed(slot[r]).status = "processing"
  BY <1>1, SlotOperators DEF LeaseLapsed, Rows
<1> QED
  BY <1>1, <1>2, <1>3, RowStaysOpen

-----------------------------------------------------------------------------
\* Every step, and every change behind the application, keeps the invariant.
LEMMA EveryProofStepKeeps == ProofsInv /\ [ProofQueueNext]_proofVars => ProofsInv'
<1> SUFFICES ASSUME ProofsInv, [ProofQueueNext]_proofVars PROVE ProofsInv'
  OBVIOUS
<1>1. ASSUME NEW r \in Questions, AskProof(r) PROVE ProofsInv'
  BY <1>1, AskProofKeeps
<1>2. ASSUME NEW r \in Questions, HearProof(r) \/ StopWaiting(r) PROVE ProofsInv'
  BY <1>2, HearProofKeeps
<1>3. ASSUME NEW r \in Questions, ProofLapses(r) PROVE ProofsInv'
  BY <1>3, ProofLapsesKeeps
<1>4. CASE Change
  BY <1>4, ChangeKeeps
<1>5. ASSUME NEW p \in Provers, TakeProof(p) PROVE ProofsInv'
  BY <1>5, TakeProofKeeps
<1>6. ASSUME NEW p \in Provers, ReadInvoice(p) PROVE ProofsInv'
  BY <1>6, ReadInvoiceKeeps
<1>7. ASSUME NEW p \in Provers, Prove(p) PROVE ProofsInv'
  BY <1>7, ProveKeeps
<1>8. ASSUME NEW p \in Provers, ProofRaises(p) \/ GiveUpProof(p) PROVE ProofsInv'
  BY <1>8, ProofRaisesKeeps, GiveUpProofKeeps
<1>9. ASSUME NEW p \in Provers, ProofsDrained(p) \/ ProverWoken(p) \/ ProverDies(p)
      PROVE  ProofsInv'
  BY <1>9, LoopKeeps
<1>10. ASSUME NEW p \in Provers, SweepProofs(p) PROVE ProofsInv'
  BY <1>10, SweepProofsKeeps
<1>11. CASE UNCHANGED proofVars
  BY <1>11 DEF proofVars, ProofsInv, ProofQueueTypeOK, SlotIntact, ProofIntact, HeardIntact,
               ProverIntact, AskerOwns, Expiring
<1> QED
  BY <1>1, <1>2, <1>3, <1>4, <1>5, <1>6, <1>7, <1>8, <1>9, <1>10, <1>11 DEF ProofQueueNext

\* The invariant of the ownership proofs.
LEMMA ProofsInvHolds == ProofQueueSpec => []ProofsInv
<1> QED
  BY ProofsInvInit, EveryProofStepKeeps, PTL DEF ProofQueueSpec

\* The tables and processes of /verify keep their types: deriver/requests.py and
\* core/invoicing/proof.py, whatever is changed behind them.
THEOREM ProofsTypeCorrect == ProofQueueSpec => []ProofQueueTypeOK
<1>1. ProofsInv => ProofQueueTypeOK
  BY DEF ProofsInv
<1> QED
  BY <1>1, ProofsInvHolds, PTL

\* A proof that the client of core/invoicing/proof.py accepts is about the asker's
\* own invoice and an address of ours, however the rows were changed before,
\* between and after the statements of the issuer.
THEOREM AcceptedProofsVouch == ProofQueueSpec => []ProofVouchesForOurs
<1>1. ProofsInv => ProofVouchesForOurs
  BY DEF ProofsInv, HeardIntact, AskerOwns, ProofVouchesForOurs
<1> QED
  BY <1>1, ProofsInvHolds, PTL

\* verify_invoice_address asks for the owner before anything else: nothing that is
\* said of a foreign invoice tells it from none.
THEOREM StrangersLearnNothing == ProofQueueSpec => []StrangerLearnsNothing
<1>1. ProofsInv => StrangerLearnsNothing
  BY DEF ProofsInv, HeardIntact, AskerOwns, StrangerLearnsNothing
<1> QED
  BY <1>1, ProofsInvHolds, PTL

-----------------------------------------------------------------------------
(***************************************************************************)
(* Both                                                                    *)
(***************************************************************************)
QueuesInv == QueueInv /\ ProofsInv

\* Both queues start empty.
LEMMA QueuesStart == QueuesInit => QueuesInv
BY QueueInvInit, ProofsInvInit DEF QueuesInit, QueuesInv

\* A step of one queue is none of the other.
LEMMA OneQueueMoves ==
    [QueuesNext]_queueVars => [RequestQueueNext]_vars /\ [ProofQueueNext]_proofVars
BY DEF QueuesNext, queueVars

\* Every step keeps both invariants.
LEMMA QueuesStep == QueuesInv /\ [QueuesNext]_queueVars => QueuesInv'
BY OneQueueMoves, QueueInvNext, EveryProofStepKeeps DEF QueuesInv

\* The two queues side by side, as the run has them, keep their types
\* (QueuesTypeOK) and their budgets of attempts, and promise what each one does alone.
THEOREM QueuesAreSafe ==
    QueuesSpec => /\ []QueuesTypeOK
                  /\ [](IssuedOnce /\ AnswerIsTrue /\ ProofVouchesForOurs /\ StrangerLearnsNothing)
<1>1. QueuesInv => QueuesTypeOK
  BY DEF QueuesInv, QueueInv, ProofsInv, QueuesTypeOK
<1>2. QueuesInit => RequestQueueInit /\ ProofQueueInit
  BY DEF QueuesInit
<1>3. QueuesSpec => RequestQueueSpec /\ ProofQueueSpec
  BY <1>2, OneQueueMoves, PTL DEF QueuesSpec, RequestQueueSpec, ProofQueueSpec
<1> QED
  BY <1>1, <1>3, QueuesStart, QueuesStep, NeverIssuedTwice, AnswersAreTrue, AcceptedProofsVouch,
     StrangersLearnNothing, PTL DEF QueuesSpec
=============================================================================
