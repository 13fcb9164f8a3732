----------------------------- MODULE ProofQueue -----------------------------
(***************************************************************************)
(* /verify: ProofClient of core/invoicing/proof.py, the second queue of    *)
(* the deriver's loop, and the proof issuer behind it.                     *)
(*                                                                         *)
(* The issuer reads the invoice, and a statement later the account; the    *)
(* client reads a row that other processes could have written.  Meanwhile  *)
(* the rows are changed behind the application.                            *)
(*                                                                         *)
(* Where a definition stands directly before another one of the same       *)
(* parameters it is a plausible slip in it, which a property must notice.  *)
(***************************************************************************)
EXTENDS QueueRow, FiniteSets

CONSTANTS
    Askers,
    Bills,              \* invoices
    BillOwner,          \* invoices.user_id
    NoBill,             \* a mistyped id
    Provers,            \* deriver processes
    MaxQuestions,       \* bound: proofs asked for
    MaxChanges,         \* bound: rows changed behind the application
    MaxStumbles         \* bound: attempts that raise, die or outlast their lease

Questions == 1..MaxQuestions        \* in the order of requested_at

ASSUME ProofQueueAssumption ==
    /\ NoBill \notin Bills /\ BillOwner \in [Bills -> Askers]
    /\ MaxQuestions \in Nat /\ MaxChanges \in Nat /\ MaxStumbles \in Nat

VARIABLES
    question,   \* user_id and invoice_id of each request
    slot,       \* derivation_proof_requests: status, attempts, lease
    proof,      \* ... and result_json, or error_code
    heard,      \* what each asker has been told
    bill,       \* the invoice rows
    account,    \* does hd_accounts.xpub_fingerprint agree with the loaded key?
    prover,     \* each deriver process
    changes, stumbles

proofVars == <<question, slot, proof, heard, bill, account, prover, changes, stumbles>>

\* foreign: the address does not re-derive.  edited: it does, the MAC does not verify.
BillStates == {"ours", "foreign", "edited"}

NoQuestion == [by |-> "nobody", about |-> NoBill]

\* signed: proof_mac verifies over invoice and address.
NoProof == [kind |-> "none", of |-> NoBill, address |-> "ours", signed |-> FALSE]
ProofOf(i, address) == [kind |-> "proof", of |-> i, address |-> address, signed |-> TRUE]
Refusing(kind) == [NoProof EXCEPT !.kind = kind]
Proofs == [kind : {"none", "proof", "not_found", "mismatch", "unavailable"},
           of : Bills \cup {NoBill}, address : {"ours", "foreign"}, signed : BOOLEAN]

Tellings == {"none", "waiting", "in_flight", "timeout", "tampered"}

\* work: nothing read yet.  verified: verify_invoice_address has returned a view,
\* with this address.  raised: rolled back, requeue matched no row.
ProverStates == [phase : {"drain", "work", "verified", "raised", "wait", "down"},
                 on : 0..MaxQuestions, view : {"ours", "foreign"}, tried : SUBSET Questions]
NewProver == [phase |-> "drain", on |-> 0, view |-> "ours", tried |-> {}]

ProofQueueTypeOK ==
    /\ question \in [Questions -> [by : Askers, about : Bills \cup {NoBill}] \cup {NoQuestion}]
    /\ slot \in [Questions -> Rows] /\ proof \in [Questions -> Proofs]
    /\ heard \in [Questions -> Proofs \cup {Refusing(t) : t \in Tellings}]
    /\ bill \in [Bills -> BillStates] /\ account \in BOOLEAN
    /\ prover \in [Provers -> ProverStates]
    /\ changes \in 0..MaxChanges /\ stumbles \in 0..MaxStumbles

ProofQueueInit ==
    /\ question = [r \in Questions |-> NoQuestion]
    /\ slot = [r \in Questions |-> NoRow] /\ proof = [r \in Questions |-> NoProof]
    /\ heard = [r \in Questions |-> Refusing("none")]
    /\ bill = [i \in Bills |-> "ours"] /\ account = TRUE
    /\ prover = [p \in Provers |-> [NewProver EXCEPT !.phase = "down"]]
    /\ changes = 0 /\ stumbles = 0

-----------------------------------------------------------------------------
\* ProofClient

Told(r, answer) == heard' = [heard EXCEPT ![r] = answer]

\* _insert: one open question per user, then the foreign key of the invoice.
AskProof(r) ==
    /\ heard[r].kind = "none" /\ \A q \in 1..(r - 1) : heard[q].kind # "none"
    /\ \E u \in Askers, i \in Bills \cup {NoBill} :
       /\ question' = [question EXCEPT ![r] = [by |-> u, about |-> i]]
       /\ IF \E q \in 1..(r - 1) : Open(slot[q]) /\ question[q].by = u
          THEN Told(r, Refusing("in_flight")) /\ UNCHANGED slot
          ELSE IF i = NoBill THEN Told(r, Refusing("not_found")) /\ UNCHANGED slot
          ELSE Told(r, Refusing("waiting")) /\ slot' = [slot EXCEPT ![r] = NewRow]
    /\ UNCHANGED <<proof, bill, account, prover, changes, stumbles>>

\* _interpret: the proof is about the invoice asked for, and its MAC verifies.
AcceptedSigned(r) == proof[r].signed
Accepted(r) == proof[r].signed /\ proof[r].of = question[r].about

HearProof(r) ==
    /\ heard[r].kind = "waiting" /\ Finished(slot[r])
    /\ Told(r, IF slot[r].status = "failed" \/ Accepted(r) THEN proof[r] ELSE Refusing("tampered"))
    /\ UNCHANGED <<question, slot, proof, bill, account, prover, changes, stumbles>>

StopWaiting(r) ==
    /\ heard[r].kind = "waiting" /\ Open(slot[r])
    /\ Told(r, Refusing("timeout"))
    /\ UNCHANGED <<question, slot, proof, bill, account, prover, changes, stumbles>>

-----------------------------------------------------------------------------
\* Behind the application: an invoice row, the account row, an answer

Change ==
    /\ changes < MaxChanges /\ changes' = changes + 1
    /\ \/ /\ \E i \in Bills, to \in {"foreign", "edited"} : bill' = [bill EXCEPT ![i] = to]
          /\ UNCHANGED <<account, proof>>
       \/ account' = FALSE /\ UNCHANGED <<bill, proof>>
       \/ /\ \E r \in Questions : proof[r].kind = "proof"
                /\ \/ proof' = [proof EXCEPT ![r].address = "foreign", ![r].signed = FALSE]
                   \/ \E q \in Questions : proof[q].kind = "proof" /\ proof' = [proof EXCEPT ![r] = proof[q]]
          /\ UNCHANGED <<bill, account>>
    /\ UNCHANGED <<question, slot, heard, prover, stumbles>>

-----------------------------------------------------------------------------
\* serve_one_proof around the issuer

Unproven(p) == {r \in Questions \ prover[p].tried : slot[r].status = "pending"}

TakeProof(p) ==
    /\ prover[p].phase = "drain"
    /\ \E r \in Unproven(p) :
       /\ \A q \in Unproven(p) : r <= q
       /\ slot' = [slot EXCEPT ![r] = Claimed(@)]
       /\ prover' = [prover EXCEPT ![p] =
              [NewProver EXCEPT !.phase = "work", !.on = r, !.tried = prover[p].tried \cup {r}]]
    /\ UNCHANGED <<question, proof, heard, bill, account, changes, stumbles>>

LetGo(p) == prover' = [prover EXCEPT ![p] = [NewProver EXCEPT !.tried = prover[p].tried]]

\* complete_proof and refuse_proof: compare-and-set, no effect on a lost lease.
Finish(p, status, answer) ==
    LET r == prover[p].on IN
    /\ IF CanFinish(slot[r])
       THEN /\ slot' = [slot EXCEPT ![r] = FinishedAs(@, status)]
            /\ proof' = [proof EXCEPT ![r] = answer]
       ELSE UNCHANGED <<slot, proof>>
    /\ LetGo(p)

\* verify_invoice_address, in its order: owner, derivation, MAC.
VerdictIntegrityFirst(r) ==
    LET i == question[r].about IN
    IF bill[i] # "ours" THEN "mismatch"
    ELSE IF BillOwner[i] # question[r].by THEN "not_found" ELSE "verified"
Verdict(r) ==
    LET i == question[r].about IN
    IF BillOwner[i] # question[r].by THEN "not_found"
    ELSE IF bill[i] # "ours" THEN "mismatch" ELSE "verified"

ReadInvoice(p) ==
    /\ prover[p].phase = "work"
    /\ LET verdict == Verdict(prover[p].on) IN
       IF verdict = "verified"
       THEN /\ prover' = [prover EXCEPT ![p].phase = "verified", ![p].view = "ours"]
            /\ UNCHANGED <<slot, proof>>
       ELSE Finish(p, "failed", Refusing(verdict))
    /\ UNCHANGED <<question, heard, bill, account, changes, stumbles>>

\* SQL_ACCOUNT_PATH and the rest of prove.  The address that is signed is the one
\* of the view, not the one of the row by now.
SignedAddressReread(p) ==
    IF bill[question[prover[p].on].about] = "foreign" THEN "foreign" ELSE "ours"
SignedAddress(p) == prover[p].view

Prove(p) ==
    /\ prover[p].phase = "verified"
    /\ IF account THEN Finish(p, "done", ProofOf(question[prover[p].on].about, SignedAddress(p)))
       ELSE Finish(p, "failed", Refusing("mismatch"))
    /\ UNCHANGED <<question, heard, bill, account, changes, stumbles>>

\* Anything raised: requeue_proof, or refuse_proof a statement later.
ProofRaises(p) ==
    /\ prover[p].phase \in {"work", "verified"} /\ stumbles < MaxStumbles
    /\ stumbles' = stumbles + 1
    /\ LET r == prover[p].on IN
       IF CanRequeue(slot[r])
       THEN slot' = [slot EXCEPT ![r] = Requeued(@)] /\ LetGo(p)
       ELSE UNCHANGED slot /\ prover' = [prover EXCEPT ![p].phase = "raised"]
    /\ UNCHANGED <<question, proof, heard, bill, account, changes>>

GiveUpProof(p) ==
    /\ prover[p].phase = "raised"
    /\ Finish(p, "failed", Refusing("unavailable"))
    /\ UNCHANGED <<question, heard, bill, account, changes, stumbles>>

-----------------------------------------------------------------------------
\* The loop of serve, with this queue in it

ProofsDrained(p) ==
    /\ prover[p].phase = "drain" /\ Unproven(p) = {}
    /\ prover' = [prover EXCEPT ![p] =
           IF @.tried = {} THEN [NewProver EXCEPT !.phase = "wait"] ELSE NewProver]
    /\ UNCHANGED <<question, slot, proof, heard, bill, account, changes, stumbles>>

ProverWoken(p) ==
    /\ prover[p].phase = "wait"
    /\ prover' = [prover EXCEPT ![p] = NewProver]
    /\ UNCHANGED <<question, slot, proof, heard, bill, account, changes, stumbles>>

\* housekeeping_proofs; pruning takes answers that nobody waits for.
Expiring(r) == slot[r].status = "processing" /\ slot[r].lapsed /\ slot[r].attempts = MaxAttempts
SweepProofs(p) ==
    /\ prover[p].phase \in {"wait", "down"}
    /\ slot' = [r \in Questions |->
           IF Finished(slot[r]) /\ heard[r].kind # "waiting" THEN FinishedAs(slot[r], "pruned")
           ELSE Reclaimed(slot[r])]
    /\ proof' = [r \in Questions |-> IF Expiring(r) THEN Refusing("unavailable") ELSE proof[r]]
    /\ prover' = [prover EXCEPT ![p] = NewProver]
    /\ UNCHANGED <<question, heard, bill, account, changes, stumbles>>

ProverDies(p) ==
    /\ stumbles < MaxStumbles /\ prover[p].phase \in {"work", "verified", "raised"}
    /\ stumbles' = stumbles + 1
    /\ prover' = [prover EXCEPT ![p] = [NewProver EXCEPT !.phase = "down"]]
    /\ UNCHANGED <<question, slot, proof, heard, bill, account, changes>>

ProofLapses(r) ==
    /\ slot[r].status = "processing" /\ ~slot[r].lapsed
    /\ IF \E p \in Provers : prover[p].on = r
       THEN stumbles < MaxStumbles /\ stumbles' = stumbles + 1
       ELSE UNCHANGED stumbles
    /\ slot' = [slot EXCEPT ![r] = LeaseLapsed(@)]
    /\ UNCHANGED <<question, proof, heard, bill, account, prover, changes>>

-----------------------------------------------------------------------------
ProofQueueNext ==
    \/ \E r \in Questions : AskProof(r) \/ HearProof(r) \/ StopWaiting(r) \/ ProofLapses(r)
    \/ Change
    \/ \E p \in Provers : \/ TakeProof(p) \/ ReadInvoice(p) \/ Prove(p)
                          \/ ProofRaises(p) \/ GiveUpProof(p)
                          \/ ProofsDrained(p) \/ ProverWoken(p) \/ SweepProofs(p) \/ ProverDies(p)

ProofQueueSpec == ProofQueueInit /\ [][ProofQueueNext]_proofVars

-----------------------------------------------------------------------------
\* A proof that the asker accepts is about the invoice he has asked for, his own,
\* and vouches for an address that our key derives, whatever is changed in the
\* rows before, between and after the statements of the issuer.
ProofVouchesForOurs ==
    \A r \in Questions :
        heard[r].kind = "proof" =>
            /\ heard[r].of = question[r].about /\ BillOwner[heard[r].of] = question[r].by
            /\ heard[r].address = "ours"

\* What is said of somebody else's invoice is what is said of no invoice: a
\* failed check of the row does not show through.
StrangerLearnsNothing ==
    \A r \in Questions :
        question[r] # NoQuestion /\ question[r].about # NoBill
            /\ BillOwner[question[r].about] # question[r].by =>
                heard[r].kind \notin {"proof", "mismatch", "tampered"}
=============================================================================
