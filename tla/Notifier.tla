------------------------------ MODULE Notifier ------------------------------
(***************************************************************************)
(* The outbox and what a buyer sees: run_once and _deliver of              *)
(* notifier/service.py over the statements of notifier/repository.py.      *)
(*                                                                         *)
(* A batch is claimed in one transaction and then delivered note by note;  *)
(* each note is looked up, sent and recorded in three steps, and nothing   *)
(* holds the row meanwhile but a lease.  The lease may end under a live    *)
(* sender, the pass may die, Telegram may take a message and lose the      *)
(* answer, and the buyer may block the bot and come back.                  *)
(*                                                                         *)
(* A note is numbered by created_at.  A message is its place in the chat.  *)
(*                                                                         *)
(* Where a definition stands directly before another one of the same       *)
(* parameters it is a plausible slip in it, which a property must notice.  *)
(***************************************************************************)
EXTENDS Integers, Sequences, FiniteSets

CONSTANTS
    Buyers,
    MaxNotes,       \* bound: notes the settler writes
    BuyerOf,        \* notifications.user_id
    Invoices,
    InvoicesFor,    \* bound: the invoices a note may be about
    Corrections,    \* notes of a kind with edits_kind: they edit the others
    Unsendable,     \* notes that may have no renderer, or an address the ledger denies
    Senders,        \* notifier processes
    NoInvoice,
    Batch,          \* NotifierConfig.batch
    MaxTries,       \* NotifierConfig.max_attempts
    MaxLapses,      \* bound: leases that end under their holder, and passes that die
    MaxLeaves       \* bound: how often a buyer blocks the bot

Notes == 1..MaxNotes

ASSUME NotifierAssumption ==
    /\ IsFiniteSet(Senders)
    /\ MaxNotes \in Nat /\ MaxLapses \in Nat /\ MaxLeaves \in Nat
    /\ Batch \in Nat \ {0} /\ MaxTries \in Nat \ {0}
    /\ BuyerOf \in [Notes -> Buyers] /\ Unsendable \subseteq Notes
    /\ InvoicesFor \in [Notes -> SUBSET Invoices] /\ Corrections \subseteq Notes /\ NoInvoice \notin Invoices

VARIABLES
    note,       \* notifications
    muted,      \* users.bot_blocked_at is set
    gone,       \* the buyer has blocked the bot at Telegram
    chat,       \* what is on each buyer's screen
    taken,      \* how often Telegram has taken each note
    sender,     \* each notifier process
    lapses, leaves

outboxVars == <<note, lapses>>
buyerVars == <<muted, gone, leaves>>
chatVars == <<chat, taken>>
notifierVars == <<outboxVars, buyerVars, chatVars, sender>>

\* invoice: ref_id.  until: next_attempt_at, passed or never set, the end of a lease, or of a backoff.
NoteStatuses == {"absent", "queued", "failed", "sent", "dead"}
NoteRows == [status: NoteStatuses, invoice: Invoices \union {NoInvoice}, attempts: Nat,
             until: {"now", "lease", "backoff"}, message: Nat]
NoNote == [status |-> "absent", invoice |-> NoInvoice, attempts |-> 0, until |-> "now", message |-> 0]

\* ClaimedNotification, as far as the outcome depends on it.
Claims == [note: Notes, attempts: Nat]

\* message is the one to edit until the note is sent, and then the one it became.
Verdicts == {"none", "delivered", "transient", "blocked", "permanent"}
Passes == [phase: {"idle", "look", "send", "record"}, batch: SUBSET Claims,
           verdict: Verdicts, message: Nat]
IdlePass == [phase |-> "idle", batch |-> {}, verdict |-> "none", message |-> 0]

NotifierTypeOK ==
    /\ note \in [Notes -> NoteRows]
    /\ muted \in [Buyers -> BOOLEAN] /\ gone \in [Buyers -> BOOLEAN]
    /\ chat \in [Buyers -> Seq(Notes)] /\ taken \in [Notes -> Nat]
    /\ sender \in [Senders -> Passes]
    /\ \A s \in Senders : sender[s].phase # "idle" => sender[s].batch # {}
    /\ lapses \in 0..MaxLapses /\ leaves \in 0..MaxLeaves

NotifierInit ==
    /\ note = [n \in Notes |-> NoNote]
    /\ muted = [b \in Buyers |-> FALSE] /\ gone = [b \in Buyers |-> FALSE]
    /\ chat = [b \in Buyers |-> <<>>] /\ taken = [n \in Notes |-> 0]
    /\ sender = [s \in Senders |-> IdlePass]
    /\ lapses = 0 /\ leaves = 0

-----------------------------------------------------------------------------
\* The rows

\* The settler inserts into the outbox.
Enqueue(n) ==
    /\ note[n].status = "absent" /\ \A m \in 1..n - 1 : note[m].status # "absent"
    /\ \E i \in InvoicesFor[n] : note' = [note EXCEPT ![n].status = "queued", ![n].invoice = i]
    /\ UNCHANGED <<lapses, buyerVars, chatVars, sender>>

\* SQL_CLAIM
ClaimableNew(n) == ~muted[BuyerOf[n]] /\ note[n].status = "queued"
Claimable(n) ==
    /\ ~muted[BuyerOf[n]]
    /\ note[n].status = "queued" \/ (note[n].status = "failed" /\ note[n].until = "now")

ClaimedNoteUncounted(r) == [r EXCEPT !.status = "failed", !.until = "lease"]
ClaimedNote(r) ==
    [r EXCEPT !.status = "failed", !.attempts = @ + 1, !.until = "lease"]

\* claim_batch takes the oldest; the sort that undoes the order of RETURNING is in
\* FirstClaim.
FirstOf(S) == {n \in S : Cardinality({m \in S : m < n}) < Batch}

ClaimBatch(s) ==
    /\ sender[s].phase = "idle" /\ \E n \in Notes : Claimable(n)
    /\ LET batch == FirstOf({n \in Notes : Claimable(n)}) IN
       /\ note' = [n \in Notes |-> IF n \in batch THEN ClaimedNote(note[n]) ELSE note[n]]
       /\ sender' = [sender EXCEPT ![s] =
              [IdlePass EXCEPT !.phase = "look",
                  !.batch = {[note |-> n, attempts |-> ClaimedNote(note[n]).attempts] : n \in batch}]]
    /\ UNCHANGED <<lapses, buyerVars, chatVars>>

Held(n) == \E s \in Senders : [note |-> n, attempts |-> note[n].attempts] \in sender[s].batch

\* The lease ends, whether its holder is alive or not; the backoff ends.
Again(n) ==
    /\ note[n].status = "failed" /\ note[n].until # "now"
    /\ Held(n) => lapses < MaxLapses
    /\ note' = [note EXCEPT ![n].until = "now"]
    /\ lapses' = IF Held(n) THEN lapses + 1 ELSE lapses
    /\ UNCHANGED <<buyerVars, chatVars, sender>>

-----------------------------------------------------------------------------
\* _deliver

FirstClaim(s) == CHOOSE c \in sender[s].batch : \A d \in sender[s].batch : c.note <= d.note

\* find_message_id: the message of a note that went out to the same buyer about the
\* same invoice, or none.  The code takes the newest of the kind that is replaced; a
\* note has neither kind nor sent_at here, so which one it is stays open.
Corrected(n) == {m \in Notes \ Corrections : BuyerOf[m] = BuyerOf[n] /\ note[m].status = "sent"}
AboutTheSame(n) == {m \in Corrected(n) : note[m].invoice = note[n].invoice}
MessagesOfAnyInvoice(n) ==
    {0} \union IF n \in Corrections THEN {note[m].message : m \in Corrected(n)} ELSE {}
MessagesToEdit(n) ==
    {0} \union IF n \in Corrections THEN {note[m].message : m \in AboutTheSame(n)} ELSE {}

Verdict(s, verdict, message) ==
    sender' = [sender EXCEPT ![s].phase = "record", ![s].verdict = verdict, ![s].message = message]

\* render and _address_mismatch refuse it unsent; or the message to edit is read,
\* and the wait for the rate limiter begins.
Look(s) ==
    /\ sender[s].phase = "look"
    /\ LET n == FirstClaim(s).note IN
       \/ n \in Unsendable /\ Verdict(s, "permanent", 0)
       \/ \E m \in MessagesToEdit(n) :
             sender' = [sender EXCEPT ![s].phase = "send", ![s].message = m]
    /\ UNCHANGED <<outboxVars, buyerVars, chatVars>>

\* AiogramSender.send: 403; anything else that fails without effect; or Telegram
\* takes it, as an edit or as a new message, and the answer may be lost.
SendFails(s) ==
    /\ sender[s].phase = "send"
    /\ IF gone[BuyerOf[FirstClaim(s).note]]
       THEN Verdict(s, "blocked", 0)
       ELSE Verdict(s, "transient", 0) \/ Verdict(s, "permanent", 0)
    /\ UNCHANGED <<outboxVars, buyerVars, chatVars>>

SendTaken(s) ==
    /\ sender[s].phase = "send" /\ ~gone[BuyerOf[FirstClaim(s).note]]
    /\ LET n == FirstClaim(s).note
           b == BuyerOf[n]
           m == IF sender[s].message # 0 THEN sender[s].message ELSE Len(chat[b]) + 1
       IN  /\ chat' = [chat EXCEPT ![b] =
                  IF sender[s].message # 0 THEN [@ EXCEPT ![m] = n] ELSE Append(@, n)]
           /\ taken' = [taken EXCEPT ![n] = @ + 1]
           /\ Verdict(s, "delivered", m) \/ Verdict(s, "transient", 0)
    /\ UNCHANGED <<outboxVars, buyerVars>>

\* The loop of run_once.
RestOfBatch(s) == sender[s].batch \ {FirstClaim(s)}
NextOfBatchEndless(s) ==
    sender' = [sender EXCEPT ![s] = [IdlePass EXCEPT !.phase = "look", !.batch = RestOfBatch(s)]]
NextOfBatch(s) ==
    sender' = [sender EXCEPT ![s] =
        IF RestOfBatch(s) = {} THEN IdlePass
        ELSE [IdlePass EXCEPT !.phase = "look", !.batch = RestOfBatch(s)]]

\* The compare-and-set of SQL_MARK_SENT and SQL_SCHEDULE_RETRY: attempts is the
\* generation of the lease.
StillMineByStatus(c) == note[c.note].status \in {"failed", "sent"}
StillMine(c) == note[c.note].status = "failed" /\ note[c.note].attempts = c.attempts

\* SQL_MARK_DEAD compares no attempts.
DeadRow(r) == [r EXCEPT !.status = "dead", !.until = "now"]
RetiredAny(r) == DeadRow(r)
Retired(r) == IF r.status # "sent" THEN DeadRow(r) ELSE r

RecordSent(s) ==
    /\ sender[s].phase = "record" /\ sender[s].verdict = "delivered"
    /\ LET c == FirstClaim(s) IN
       note' = IF StillMine(c)
               THEN [note EXCEPT ![c.note] = [@ EXCEPT !.status = "sent", !.until = "now",
                                                       !.message = sender[s].message]]
               ELSE note
    /\ NextOfBatch(s)
    /\ UNCHANGED <<lapses, buyerVars, chatVars>>

\* _handle_transient
Exhausted(c) == c.attempts >= MaxTries
RecordTransient(s) ==
    /\ sender[s].phase = "record" /\ sender[s].verdict = "transient"
    /\ LET c == FirstClaim(s) IN
       note' = CASE Exhausted(c) -> [note EXCEPT ![c.note] = Retired(@)]
                 [] ~Exhausted(c) /\ StillMine(c) -> [note EXCEPT ![c.note].until = "backoff"]
                 [] OTHER -> note
    /\ NextOfBatch(s)
    /\ UNCHANGED <<lapses, buyerVars, chatVars>>

\* _retire, _retire_address_mismatch
RecordPermanent(s) ==
    /\ sender[s].phase = "record" /\ sender[s].verdict = "permanent"
    /\ note' = [note EXCEPT ![FirstClaim(s).note] = Retired(@)]
    /\ NextOfBatch(s)
    /\ UNCHANGED <<lapses, buyerVars, chatVars>>

\* _handle_blocked: the mark and the rest of the buyer's queue, one transaction.
RecordBlocked(s) ==
    /\ sender[s].phase = "record" /\ sender[s].verdict = "blocked"
    /\ LET b == BuyerOf[FirstClaim(s).note] IN
       /\ muted' = [muted EXCEPT ![b] = TRUE]
       /\ note' = [n \in Notes |->
              IF BuyerOf[n] = b /\ note[n].status \in {"queued", "failed"}
              THEN DeadRow(note[n]) ELSE note[n]]
    /\ NextOfBatch(s)
    /\ UNCHANGED <<lapses, gone, leaves, chatVars>>

\* run_forever drops a pass that raised; a process that dies is started again.
\* The claims of the rest of its batch are not given back.
PassDies(s) ==
    /\ sender[s].phase # "idle" /\ lapses < MaxLapses
    /\ sender' = [sender EXCEPT ![s] = IdlePass]
    /\ lapses' = lapses + 1
    /\ UNCHANGED <<note, buyerVars, chatVars>>

-----------------------------------------------------------------------------
\* The buyer

Leave(b) ==
    /\ ~gone[b] /\ leaves < MaxLeaves
    /\ gone' = [gone EXCEPT ![b] = TRUE] /\ leaves' = leaves + 1
    /\ UNCHANGED <<muted, outboxVars, chatVars, sender>>

\* /start, SQL_UPSERT_USER of bot/repository.py.
Return(b) ==
    /\ gone[b]
    /\ gone' = [gone EXCEPT ![b] = FALSE] /\ muted' = [muted EXCEPT ![b] = FALSE]
    /\ UNCHANGED <<leaves, outboxVars, chatVars, sender>>

-----------------------------------------------------------------------------
Record(s) == RecordSent(s) \/ RecordTransient(s) \/ RecordPermanent(s) \/ RecordBlocked(s)
Deliver(s) == Look(s) \/ SendFails(s) \/ SendTaken(s) \/ Record(s)

NotifierNext ==
    \/ \E n \in Notes : Enqueue(n) \/ Again(n)
    \/ \E s \in Senders : ClaimBatch(s) \/ Deliver(s) \/ PassDies(s)
    \/ \E b \in Buyers : Leave(b) \/ Return(b)

NotifierSpec == NotifierInit /\ [][NotifierNext]_notifierVars

\* Some process runs, and time passes for some note.
NotifierFairSpec ==
    /\ NotifierSpec
    /\ WF_notifierVars(\E s \in Senders : ClaimBatch(s) \/ Deliver(s))
    /\ WF_notifierVars(\E n \in Notes : Again(n))

-----------------------------------------------------------------------------
\* "A stale winner updates zero rows": nothing that another claimant, a late
\* verdict or a block does takes a delivered note back or moves its message.
SentStands == [][\A n \in Notes : note[n].status = "sent" => note'[n] = note[n]]_notifierVars

\* An edit replaces what it corrects and nothing else: the message of a note that
\* was sent shows that note or one about the same invoice.
OwnMessageOnly ==
    \A n \in Notes : note[n].status = "sent" =>
        LET shown == chat[BuyerOf[n]][note[n].message]
        IN  shown = n \/ note[shown].invoice = note[n].invoice

\* No message leaves uncounted, whatever dies after it left: a crash loop does not
\* re-send "with attempts still at zero".
EveryTryCounted == \A n \in Notes : taken[n] <= note[n].attempts

\* Every note is sent or ends where a human finds it, unless its buyer is muted.
Settles(n) == note[n].status \in {"sent", "dead"} \/ muted[BuyerOf[n]]
NotesGetOut == \A n \in Notes : note[n].status \in {"queued", "failed"} ~> Settles(n)
=============================================================================
