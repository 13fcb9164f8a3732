----------------------------- MODULE AdminQueue -----------------------------
(***************************************************************************)
(* The owner's commands: AdminClient of settler/admin/client.py in the     *)
(* bot, AdminWorker of settler/admin/queue.py in the settler,              *)
(* admin_action_requests between them, and the second turn of the key of   *)
(* settler/admin/twostep.py for a large credit.                            *)
(*                                                                         *)
(* The claim, the decision and the answer are three transactions.  A       *)
(* decision that is committed and not answered must neither be made again  *)
(* nor be denied.                                                          *)
(*                                                                         *)
(* Where a definition stands directly before another one of the same       *)
(* parameters it is a plausible slip in it, which a property must notice.  *)
(***************************************************************************)
EXTENDS Integers, FiniteSets

CONSTANTS
    Cases,              \* manual_reviews
    LargeCases,         \* amount_due_usd above manual_credit_limit_usd
    StrayCases,         \* no invoice behind them
    Verbs,              \* what the owner decides
    Settlers,
    Keyed,              \* the settlers that have ADMIN_CONFIRMATION_KEY
    BatchSize,          \* batch of AdminWorker
    MaxCommands,        \* bound: commands sent
    MaxPeriods,         \* bound: periods of confirmation_ttl_seconds
    MaxDeaths           \* bound: settlers that die at work

Commands == 1..MaxCommands      \* in the order of requested_at

ASSUME AdminQueueAssumption ==
    /\ LargeCases \cup StrayCases \subseteq Cases /\ LargeCases \cap StrayCases = {}
    /\ Verbs \subseteq {"credit", "refund", "reject"}
    /\ Keyed \subseteq Settlers
    /\ BatchSize \in Nat \ {0} /\ MaxCommands \in Nat
    /\ MaxPeriods \in Nat /\ MaxDeaths \in Nat

VARIABLES
    command,    \* args_json
    request,    \* admin_action_requests
    review,     \* manual_reviews
    decided,    \* the commands whose decision is committed
    told,       \* what the owner has read, by command
    settler,    \* each AdminWorker
    period,     \* _bucket
    deaths

adminVars == <<command, request, review, decided, told, settler, period, deaths>>

Periods == 0..MaxPeriods

\* What the code of a confirmation is bound to; for is nothing but a large case.
NoCode == [for |-> "none", of |-> 0]
Codes == [for : LargeCases, of : Periods]

Decisions == [case : Cases, verb : Verbs, code : Codes \cup {NoCode}]
NoDecision == [case |-> "none", verb |-> "none", code |-> NoCode]

\* error_code, or the result of a done request.  unavailable is the answer of the
\* lease sweep, and what the client says when it gets none: it promises nothing.
Refusals == {"already_resolved", "not_applicable", "no_key", "wrong_code", "failed"}
Replies == Refusals \cup {"resolved", "confirm", "unavailable"}

CommandRows == [status : {"absent", "pending", "processing", "done", "failed", "pruned"},
                lapsed : BOOLEAN, reply : Replies \cup {"none"}, code : Codes \cup {NoCode}]
NoCommandRow == [status |-> "absent", lapsed |-> FALSE, reply |-> "none", code |-> NoCode]

\* start: a pass begins. claim: between two commands. work: the command runs.
\* answer: its transaction is over, its answer not yet written.
Shifts == [phase : {"start", "claim", "work", "answer", "down"}, id : 0..MaxCommands,
           served : 0..BatchSize, reply : Replies \cup {"none"}, code : Codes \cup {NoCode}]
NewShift == [phase |-> "start", id |-> 0, served |-> 0, reply |-> "none", code |-> NoCode]

AdminQueueTypeOK ==
    /\ command \in [Commands -> Decisions \cup {NoDecision}]
    /\ request \in [Commands -> CommandRows]
    /\ review \in [Cases -> Verbs \cup {"open"}]
    /\ decided \subseteq Commands
    /\ told \in [Commands -> Replies \cup {"none", "waiting"}]
    /\ settler \in [Settlers -> Shifts]
    /\ period \in Periods /\ deaths \in 0..MaxDeaths

AdminQueueInit ==
    /\ command = [r \in Commands |-> NoDecision]
    /\ request = [r \in Commands |-> NoCommandRow]
    /\ review = [c \in Cases |-> "open"]
    /\ decided = {}
    /\ told = [r \in Commands |-> "none"]
    /\ settler = [s \in Settlers |-> NewShift]
    /\ period = 0 /\ deaths = 0

-----------------------------------------------------------------------------
\* The owner and the bot

\* The codes the owner has read so far, out of the confirmations asked for.
ShownCodes == {request[r].code : r \in {q \in Commands : told[q] = "confirm"}}

\* _call_blocking.  A code is typed again for whatever case the owner names, and
\* the connection may go before the INSERT.
Ask(r) ==
    /\ told[r] = "none" /\ \A q \in 1..(r - 1) : told[q] # "none"
    /\ \E c \in Cases, v \in Verbs, code \in ShownCodes \cup {NoCode} :
          command' = [command EXCEPT ![r] = [case |-> c, verb |-> v, code |-> code]]
    /\ \/ /\ request' = [request EXCEPT ![r].status = "pending"]
          /\ told' = [told EXCEPT ![r] = "waiting"]
       \/ /\ told' = [told EXCEPT ![r] = "unavailable"]
          /\ UNCHANGED request
    /\ UNCHANGED <<review, decided, settler, period, deaths>>

\* _wait, _interpret, _rebuild: the row is read before the deadline is looked at.
Hear(r) ==
    /\ told[r] = "waiting" /\ request[r].status \in {"done", "failed"}
    /\ told' = [told EXCEPT ![r] = request[r].reply]
    /\ UNCHANGED <<command, request, review, decided, settler, period, deaths>>

\* The deadline passes on an open request, or the connection goes at any time:
\* AdminUnavailable either way, and the request stands.
HearNothing(r) ==
    /\ told[r] = "waiting"
    /\ told' = [told EXCEPT ![r] = "unavailable"]
    /\ UNCHANGED <<command, request, review, decided, settler, period, deaths>>

PeriodPasses ==
    /\ period < MaxPeriods
    /\ period' = period + 1
    /\ UNCHANGED <<command, request, review, decided, told, settler, deaths>>

-----------------------------------------------------------------------------
\* resolve_manual_review: one transaction under the lock of the case

\* verify_code: this decision, this period or the one before.
VerifiesAnyCase(code, c) == code # NoCode /\ code.of \in {period, period - 1}
Verifies(code, c) == code.for = c /\ code.of \in {period, period - 1}

NeedsCode(d) == d.verb = "credit" /\ d.case \in LargeCases

\* Nothing is written before the confirmation is through.
ReplyTo(s, d) ==
    CASE review[d.case] # "open" -> "already_resolved"
      [] review[d.case] = "open" /\ d.case \in StrayCases /\ d.verb # "reject" -> "not_applicable"
      [] review[d.case] = "open" /\ NeedsCode(d) /\ s \notin Keyed -> "no_key"
      [] review[d.case] = "open" /\ NeedsCode(d) /\ s \in Keyed /\ d.code = NoCode -> "confirm"
      [] review[d.case] = "open" /\ NeedsCode(d) /\ s \in Keyed /\ d.code # NoCode
            /\ ~Verifies(d.code, d.case) -> "wrong_code"
      [] OTHER -> "resolved"

\* AdminOps.resolve commits, whatever the result.
Decide(s) ==
    /\ settler[s].phase = "work"
    /\ LET d == command[settler[s].id]
           reply == ReplyTo(s, d) IN
       /\ settler' = [settler EXCEPT ![s].phase = "answer", ![s].reply = reply,
              ![s].code = IF reply = "confirm" THEN [for |-> d.case, of |-> period] ELSE NoCode]
       /\ IF reply = "resolved"
          THEN /\ review' = [review EXCEPT ![d.case] = d.verb]
               /\ decided' = decided \cup {settler[s].id}
          ELSE UNCHANGED <<review, decided>>
    /\ UNCHANGED <<command, request, told, period, deaths>>

\* Anything raised rolls the transaction back and is answered as AdminActionFailed.
FailToDecide(s) ==
    /\ settler[s].phase = "work"
    /\ settler' = [settler EXCEPT ![s].phase = "answer", ![s].reply = "failed"]
    /\ UNCHANGED <<command, request, review, decided, told, period, deaths>>

-----------------------------------------------------------------------------
\* AdminWorker.run_once

Overdue(r) == request[r].status = "processing" /\ request[r].lapsed

\* abandon_stale: a claim whose lease is over is answered, never served again.
AbandonedForRetry(r) ==
    IF Overdue(r) THEN [request[r] EXCEPT !.status = "pending", !.lapsed = FALSE] ELSE request[r]
AbandonedIfNew(r) ==
    IF Overdue(r) /\ r \notin decided
    THEN [request[r] EXCEPT !.status = "failed", !.reply = "unavailable"] ELSE request[r]
Abandoned(r) ==
    IF Overdue(r) THEN [request[r] EXCEPT !.status = "failed", !.reply = "unavailable"]
    ELSE request[r]

\* prune_completed: the retention of an hour outlasts every deadline of a client.
Prunable(r) == request[r].status \in {"done", "failed"} /\ told[r] # "waiting"

StartPass(s) ==
    /\ settler[s].phase \in {"start", "down"}
    /\ \E gone \in SUBSET {r \in Commands : Prunable(r)} :
          request' = [r \in Commands |->
              IF r \in gone THEN [request[r] EXCEPT !.status = "pruned"] ELSE Abandoned(r)]
    /\ settler' = [settler EXCEPT ![s] = [NewShift EXCEPT !.phase = "claim"]]
    /\ UNCHANGED <<command, review, decided, told, period, deaths>>

\* claim_next and its commit.
Waiting == {r \in Commands : request[r].status = "pending"}

ClaimCommand(s) ==
    /\ settler[s].phase = "claim" /\ settler[s].served < BatchSize
    /\ \E r \in Waiting :
       /\ \A q \in Waiting : r <= q
       /\ request' = [request EXCEPT ![r].status = "processing", ![r].lapsed = FALSE]
       /\ settler' = [settler EXCEPT ![s].phase = "work", ![s].id = r]
    /\ UNCHANGED <<command, review, decided, told, period, deaths>>

FinishPass(s) ==
    /\ settler[s].phase = "claim" /\ (settler[s].served = BatchSize \/ Waiting = {})
    /\ settler' = [settler EXCEPT ![s] = NewShift]
    /\ UNCHANGED <<command, request, review, decided, told, period, deaths>>

\* complete and refuse: compare-and-set on the status.
CanAnswerAny(r) == request[r].status # "absent"
CanAnswer(r) == request[r].status = "processing"

AnswerOf(s) ==
    [status |-> IF settler[s].reply = "resolved" THEN "done" ELSE "failed", lapsed |-> FALSE,
     reply |-> settler[s].reply, code |-> settler[s].code]

WriteAnswer(s) ==
    /\ settler[s].phase = "answer"
    /\ LET r == settler[s].id IN
       request' = IF CanAnswer(r) THEN [request EXCEPT ![r] = AnswerOf(s)] ELSE request
    /\ settler' = [settler EXCEPT ![s] =
           [NewShift EXCEPT !.phase = "claim", !.served = settler[s].served + 1]]
    /\ UNCHANGED <<command, review, decided, told, period, deaths>>

\* The process dies at work: before its decision is committed, or after.
Die(s) ==
    /\ deaths < MaxDeaths /\ settler[s].phase \in {"work", "answer"}
    /\ settler' = [settler EXCEPT ![s] = [NewShift EXCEPT !.phase = "down"]]
    /\ deaths' = deaths + 1
    /\ UNCHANGED <<command, request, review, decided, told, period>>

\* lease_seconds after the claim, whether its holder is alive or not.
ClaimLapses(r) ==
    /\ request[r].status = "processing" /\ ~request[r].lapsed
    /\ request' = [request EXCEPT ![r].lapsed = TRUE]
    /\ UNCHANGED <<command, review, decided, told, settler, period, deaths>>

-----------------------------------------------------------------------------
WorkOn(s) == Decide(s) \/ FailToDecide(s)

AdminQueueNext ==
    \/ \E r \in Commands : Ask(r) \/ Hear(r) \/ HearNothing(r) \/ ClaimLapses(r)
    \/ \E s \in Settlers : \/ StartPass(s) \/ ClaimCommand(s) \/ FinishPass(s)
                           \/ WorkOn(s) \/ WriteAnswer(s) \/ Die(s)
    \/ PeriodPasses

\* A settler ticks on, a dead one is started again, time passes.
AdminQueueFairness ==
    /\ \A s \in Settlers : /\ WF_adminVars(StartPass(s) \/ ClaimCommand(s) \/ FinishPass(s))
                           /\ WF_adminVars(WorkOn(s)) /\ WF_adminVars(WriteAnswer(s))
    /\ \A r \in Commands : WF_adminVars(ClaimLapses(r))

AdminQueueSpec == AdminQueueInit /\ [][AdminQueueNext]_adminVars /\ AdminQueueFairness

-----------------------------------------------------------------------------
\* "A second attempt at a money decision is worse than an honest it did not
\* finish": what the owner reads of a command is true of that command.  Resolved
\* means that its decision stands and that no other command has decided the case,
\* and a refusal, the one that somebody else was first included, means that this
\* command has decided nothing.
RepliesAreTrue ==
    /\ \A r \in Commands :
          /\ told[r] = "resolved" => r \in decided
          /\ told[r] \in Refusals \cup {"confirm"} => r \notin decided
    /\ \A r, q \in decided : command[r].case = command[q].case => r = q

\* A large credit stands on a code that the owner has read in the answer to an
\* earlier command about this very case.
LargeCreditsConfirmed ==
    \A r \in decided :
        NeedsCode(command[r]) =>
            \E q \in 1..(r - 1) : /\ told[q] = "confirm"
                                 /\ command[q].case = command[r].case
                                 /\ command[r].code.for = command[q].case

\* A command that was recorded gets an answer, whoever dies with it in hand and
\* however far its decision has come.
EveryCommandAnswered ==
    \A r \in Commands :
        request[r].status = "pending" ~> request[r].status \in {"done", "failed", "pruned"}
=============================================================================
