------------------------------- MODULE Watcher -------------------------------
(***************************************************************************)
(* One chain's walker: ChainWalker of watcher/traversal.py under the loop  *)
(* of watcher/main.py, over the store of watcher/store/postgres.py.        *)
(*                                                                         *)
(* The network is a tree of blocks with one common trunk up to ForkAt and  *)
(* branches above it.  The provider answers every request from the branch  *)
(* it follows at that moment, and may change it between two requests.  One *)
(* action is one request with the statement that its answer leads to: no   *)
(* one else writes these tables, so nothing can come between the two.      *)
(*                                                                         *)
(* Where a definition stands directly before another one of the same       *)
(* parameters it is a plausible slip in it, which a property must notice.  *)
(***************************************************************************)
EXTENDS ChainIndex

CONSTANTS
    ForkAt,             \* the last height all branches share
    Payments,           \* transfers to watched addresses
    InBlock,            \* the blocks <<height, fork>> that contain each of them
    MaxBlocksPerStep, InitialLookback, MaxReorgDepth, ConfirmDepth,
    UseFinalizedTag,    \* chains.use_finalized_tag
    MaxSwitches,        \* bound: changes of branch
    MaxFaults           \* bound: crashes, failed requests, failed statements

ASSUME WatcherAssumption ==
    /\ ForkAt \in 0..MaxHeight - 1
    /\ InBlock \in [Payments -> SUBSET (Heights \X Forks)]
    /\ MaxBlocksPerStep \in Nat \ {0} /\ InitialLookback \in Nat
    /\ MaxReorgDepth \in Nat /\ ConfirmDepth \in Nat \ {0}
    /\ UseFinalizedTag \in BOOLEAN /\ MaxSwitches \in Nat /\ MaxFaults \in Nat

VARIABLES
    branch, length,     \* what the provider follows, and its latest block
    switches, faults,   \* how much of the bounds is used up
    rows,               \* payments.block_number, 0 while there is no row
    walk,               \* the step under way; lost when the process dies
    \* History, which no step reads: what the properties have to tell apart.
    returned,           \* the network has come back to a branch it had left; branches
                        \* are numbered in the order in which it takes them up
    start,              \* the checkpoint of the latest step that began without one
    sunk                \* one of those began below stored blocks, with a gap between

netVars  == <<branch, length, switches, returned>>
coldVars == <<start, sunk>>
vars == <<chainVars, netVars, faults, rows, walk, coldVars>>

Phases == {"idle", "tail", "headers", "logs", "checkpoint", "promote",
           "finalize", "rollback", "rewind", "stopped"}

\* head is the answer of block_number, next the height to look at, got the
\* headers verified in this step (0 for none), depth the blocks rolled back.
Walks == [phase: Phases, head: 0..MaxHeight, next: 0..MaxHeight + 1, target: 0..MaxHeight,
          got: [Heights -> 0..MaxFork], depth: 0..MaxHeight + 1, rewalk: BOOLEAN]

NoHeaders == [h \in Heights |-> 0]
AtRest(rewalk) == [phase |-> "idle", head |-> 0, next |-> 0, target |-> 0,
                   got |-> NoHeaders, depth |-> 0, rewalk |-> rewalk]

WatcherTypeOK ==
    /\ ChainTypeOK
    /\ branch \in Forks /\ length \in 0..MaxHeight
    /\ switches \in 0..MaxSwitches /\ faults \in 0..MaxFaults
    /\ rows \in [Payments -> 0..MaxHeight]
    /\ walk \in Walks
    /\ returned \in BOOLEAN /\ start \in 0..MaxHeight /\ sunk \in BOOLEAN

-----------------------------------------------------------------------------
\* The tree of blocks, and the provider's answers

ForkOn(b, h) == IF h <= ForkAt THEN 1 ELSE b

\* parent_hash of block f at height h is the hash of block ParentOf(h, f).
ParentOf(h, f) == ForkOn(f, h - 1)

\* get_block(h): the block of the branch, no answer above its latest.
Serves(h) == h \in 1..length
Served(h) == ForkOn(branch, h)

\* The finalized tag: a block below every future branch.
FinalizedTag == IF ForkAt < length THEN ForkAt ELSE length

-----------------------------------------------------------------------------
\* Reading the store

StoredFork(h) == CHOOSE f \in Forks : Canonical(h, f)
CanonicalHeights == {h \in Heights : CanonicalAt(h)}
LatestCanonical == CHOOSE h \in CanonicalHeights : \A g \in CanonicalHeights : g <= h

\* _effective_checkpoint
CheckpointUnclamped == IF head > 0 THEN head ELSE length - InitialLookback
CheckpointAtTip == IF CanonicalHeights = {} THEN 0 ELSE LatestCanonical
EffectiveCheckpoint ==
    IF head > 0 THEN head
    ELSE IF length > InitialLookback THEN length - InitialLookback ELSE 0

\* Between height n and any stored block above it every height is stored.
Unbroken(n) == \A h \in CanonicalHeights : n + 1..h \subseteq CanonicalHeights

\* _status_for
StatusFor(h) == IF walk.head - h + 1 >= ConfirmDepth THEN "confirmed" ELSE "pending"

-----------------------------------------------------------------------------
\* step()

Goto(phase) == walk' = [walk EXCEPT !.phase = phase]
Finish(rewalk) == walk' = AtRest(rewalk)

StepBegin ==
    /\ walk.phase = "idle"
    /\ walk' = [walk EXCEPT !.phase = "tail", !.head = length,
                            !.next = EffectiveCheckpoint + 1,
                            !.target = IF length < EffectiveCheckpoint + MaxBlocksPerStep
                                       THEN length ELSE EffectiveCheckpoint + MaxBlocksPerStep]
    /\ start' = IF head > 0 THEN start ELSE EffectiveCheckpoint
    /\ sunk' = (sunk \/ (head = 0 /\ ~Unbroken(EffectiveCheckpoint)))
    /\ UNCHANGED <<chainVars, netVars, faults, rows>>

\* _rollback starts at a height; _verify_tail and _check_parent lead to it.
RollBackFrom(h) == walk' = [walk EXCEPT !.phase = "rollback", !.next = h, !.depth = 0]

\* What step() does after the tail is verified.
WalkOn == IF walk.next > walk.head THEN Finish(FALSE) ELSE Goto("headers")

TailTrusted == TRUE
TailStands == \/ CanonicalHeights = {}
              \/ ~Serves(LatestCanonical)
              \/ Served(LatestCanonical) = StoredFork(LatestCanonical)

\* _verify_tail: an RPC error is no evidence of a reorg.
VerifyTail ==
    /\ walk.phase = "tail"
    /\ IF TailStands THEN WalkOn ELSE RollBackFrom(LatestCanonical)
    /\ UNCHANGED <<chainVars, netVars, coldVars, faults, rows>>

TailUnanswered ==
    /\ walk.phase = "tail"
    /\ CanonicalHeights # {} /\ faults < MaxFaults
    /\ faults' = faults + 1
    /\ WalkOn
    /\ UNCHANGED <<chainVars, netVars, coldVars, rows>>

\* _check_parent: where the header of height h contradicts the store.
ParentStored(h) == h > 1 /\ CanonicalAt(h - 1)
ContradictsParentSkipped(h) == FALSE
Contradicts(h) ==
    IF ParentStored(h) THEN StoredFork(h - 1) # ParentOf(h, Served(h))
    ELSE CanonicalAt(h) /\ StoredFork(h) # Served(h)

\* Phase one, one height: a header above the provider's latest is an error,
\* a second canonical block at the height is refused by the unique index.
ReadHeader ==
    LET h == walk.next
        f == Served(h)
    IN  /\ walk.phase = "headers"
        /\ Serves(h)
        /\ IF Contradicts(h)
           THEN RollBackFrom(h - 1) /\ UNCHANGED chainVars
           ELSE IF blocks[h][f] = "absent" /\ CanonicalAt(h)
           THEN Finish(FALSE) /\ UNCHANGED chainVars
           ELSE /\ \/ WriteHeader(h, f, StatusFor(h))
                   \/ blocks[h][f] # "absent" /\ UNCHANGED chainVars
                /\ walk' = [walk EXCEPT !.got[h] = f, !.next = h + 1,
                                        !.phase = IF h = walk.target THEN "logs" ELSE "headers"]
        /\ UNCHANGED <<netVars, coldVars, faults, rows>>

\* Phase two: one eth_getLogs over the span, answered from today's branch; a
\* log of a block that was not verified in this step is dropped, a transfer
\* that has a row already meets ON CONFLICT DO NOTHING.
VerifiedUnchecked(h) == TRUE
Verified(h) == walk.got[h] = Served(h)
Sightings(p) == {h \in Heights : /\ walk.got[h] # 0 /\ Serves(h)
                                 /\ <<h, Served(h)>> \in InBlock[p] /\ Verified(h)}

ReadLogs ==
    /\ walk.phase = "logs"
    /\ rows' = [p \in Payments |->
           IF rows[p] # 0 \/ Sightings(p) = {} THEN rows[p]
           ELSE CHOOSE h \in Sightings(p) : TRUE]
    /\ Goto("checkpoint")
    /\ UNCHANGED <<chainVars, netVars, coldVars, faults>>

\* set_checkpoint, after the payments of the whole span are committed.
MoveCheckpoint ==
    /\ walk.phase = "checkpoint"
    /\ SetCheckpoint(walk.target)
    /\ Goto("promote")
    /\ UNCHANGED <<netVars, coldVars, faults, rows>>

PromoteUpTo(h) ==
    \/ PromoteBlocks(h)
    \/ UNCHANGED chainVars /\ ~\E g \in Heights, f \in Forks : g <= h /\ blocks[g][f] = "pending"

\* _promote_confirmed, its two halves.
PromoteDeep ==
    /\ walk.phase = "promote"
    /\ PromoteUpTo(walk.head - ConfirmDepth + 1)
    /\ IF UseFinalizedTag THEN Goto("finalize") ELSE Finish(FALSE)
    /\ UNCHANGED <<netVars, coldVars, faults, rows>>

PromoteFinalized ==
    /\ walk.phase = "finalize"
    /\ PromoteUpTo(FinalizedTag)
    /\ Finish(FALSE)
    /\ UNCHANGED <<netVars, coldVars, faults, rows>>

-----------------------------------------------------------------------------
\* _rollback: walk down until store and provider agree, orphan what is above,
\* then, in another transaction, move the checkpoint to the ancestor.

AncestorFound == walk.next > 0 /\ CanonicalAt(walk.next) =>
                     Serves(walk.next) /\ Served(walk.next) = StoredFork(walk.next)

ScanDown ==
    /\ walk.phase = "rollback"
    /\ ~AncestorFound /\ Serves(walk.next)
    /\ walk.depth <= MaxReorgDepth
    /\ walk' = [walk EXCEPT !.next = @ - 1, !.depth = @ + 1]
    /\ UNCHANGED <<chainVars, netVars, coldVars, faults, rows>>

OrphanBranch ==
    /\ walk.phase = "rollback"
    /\ AncestorFound /\ walk.depth <= MaxReorgDepth
    /\ \/ OrphanAbove(walk.next)
       \/ UNCHANGED chainVars /\ \A h \in CanonicalHeights : h <= walk.next
    /\ Goto("rewind")
    /\ UNCHANGED <<netVars, coldVars, faults, rows>>

Rewind ==
    /\ walk.phase = "rewind"
    /\ SetCheckpoint(walk.next) \/ (head = walk.next /\ UNCHANGED chainVars)
    /\ Finish(~walk.rewalk)
    /\ UNCHANGED <<netVars, coldVars, faults, rows>>

\* ReorgTooDeep ends the process, except in rewalk_after_reorg, where run_forever
\* suppresses every exception and the next step meets it again.
TooDeep ==
    /\ walk.phase = "rollback"
    /\ walk.depth > MaxReorgDepth
    /\ IF walk.rewalk THEN Finish(FALSE) ELSE Goto("stopped")
    /\ UNCHANGED <<chainVars, netVars, coldVars, faults, rows>>

\* The provider has no such height (any more): the step ends with an error.
HeightGone ==
    /\ \/ walk.phase = "headers"
       \/ walk.phase = "rollback" /\ ~AncestorFound /\ walk.depth <= MaxReorgDepth
    /\ ~Serves(walk.next)
    /\ Finish(FALSE)
    /\ UNCHANGED <<chainVars, netVars, coldVars, faults, rows>>

\* A crash, an outage or a database error: run_forever starts a step anew.
StepDies ==
    /\ walk.phase \notin {"idle", "stopped"} /\ faults < MaxFaults
    /\ faults' = faults + 1
    /\ Finish(FALSE)
    /\ UNCHANGED <<chainVars, netVars, coldVars, rows>>

-----------------------------------------------------------------------------
\* The network

Grows ==
    /\ length < MaxHeight
    /\ length' = length + 1
    /\ UNCHANGED <<chainVars, coldVars, branch, switches, returned, faults, rows, walk>>

Switch(b, to) ==
    /\ switches < MaxSwitches
    /\ b # branch /\ length > ForkAt /\ to > ForkAt
    /\ branch' = b /\ length' = to /\ switches' = switches + 1
    /\ returned' = (returned \/ b < branch)
    /\ UNCHANGED <<chainVars, coldVars, faults, rows, walk>>

WatcherInit ==
    /\ ChainInit
    /\ branch = 1 /\ length = 0 /\ switches = 0 /\ faults = 0
    /\ rows = [p \in Payments |-> 0]
    /\ walk = AtRest(FALSE)
    /\ returned = FALSE /\ start = 0 /\ sunk = FALSE

Step == \/ StepBegin \/ VerifyTail \/ TailUnanswered \/ ReadHeader \/ ReadLogs
        \/ MoveCheckpoint \/ PromoteDeep \/ PromoteFinalized
        \/ ScanDown \/ OrphanBranch \/ Rewind \/ TooDeep \/ HeightGone

WatcherNext == \/ Step \/ StepDies
               \/ Grows \/ \E b \in Forks, to \in Heights : Switch(b, to)

WatcherSpec == WatcherInit /\ [][WatcherNext]_vars

\* run_forever steps for ever, and the network goes on making blocks.
WatcherFairSpec == WatcherSpec /\ WF_vars(Step) /\ WF_vars(Grows)

-----------------------------------------------------------------------------
\* Properties

\* traversal.py, invariant 1: the parent check turns a list of blocks into a verified
\* chain, so stored neighbours are parent and child.
ChainIsVerified == \A h \in Heights \ {1} : \A f, g \in Forks :
    Canonical(h, f) /\ Canonical(h - 1, g) => g = ParentOf(h, f)

\* It does as long as the network does not come back to a branch it has left, and no
\* walk without a checkpoint began below the stored blocks: whatever died, failed or
\* switched in between, and however often.
Linked == ~returned /\ ~sunk => ChainIsVerified

\* Every payment row stands for a transfer that the block its height had when
\* it was verified really contained, and that block is on record.
RowsWereVerified == \A p \in Payments : rows[p] # 0 =>
    \E f \in Forks : <<rows[p], f>> \in InBlock[p] /\ blocks[rows[p]][f] # "absent"

\* traversal.py calls a payment that stays invisible for ever "the one failure
\* mode this process must not have": once the network has settled, a transfer
\* in a stored block of its branch, up to the checkpoint, has a row.
NoInvisiblePayment == switches = MaxSwitches =>
    \A p \in Payments, h \in 1..head :
        Canonical(h, Served(h)) /\ <<h, Served(h)>> \in InBlock[p] => rows[p] # 0

\* As long as the network keeps to its branch, no crash or failed request at any point
\* makes the walker skip a transfer of the heights it set out to walk (step(): the
\* checkpoint moves once, after the payments of the whole span are committed): every
\* transfer above the height where the latest walk without a checkpoint began, up to
\* the checkpoint, in a stored block, has a row.
CrashLosesNothing == switches = 0 => \A p \in Payments : \A b \in InBlock[p] :
    start < b[1] /\ b[1] <= head /\ Canonical(b[1], b[2]) => rows[p] # 0

\* A branch the network abandoned does not stay canonical, and the tip is found
\* again: in the end the store agrees with the provider above the height where the
\* latest walk without a checkpoint began, or the process has stopped for a human.
\* The network may leave its branch at any moment, as long as it does not come back to
\* one it has left.  A step that died between the two statements of _rollback leaves
\* the checkpoint above heights that are orphaned and never read again, the tip
\* possibly among them: that gap is all the property concedes to faults.
OnTheNetwork == \A h \in Heights :
    /\ h = length => CanonicalAt(h) \/ (faults > 0 /\ h <= head)
    /\ start < h /\ CanonicalAt(h) => h <= length /\ StoredFork(h) = Served(h)

EndsOnTheNetwork == [](~returned /\ ~sunk) => <>[](walk.phase = "stopped" \/ OnTheNetwork)
=============================================================================
