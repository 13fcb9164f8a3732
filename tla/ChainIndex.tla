----------------------------- MODULE ChainIndex -----------------------------
(***************************************************************************)
(* What the watcher leaves in PostgreSQL about one chain, as the settler   *)
(* reads it: the rows of `blocks` (one per block, two different blocks of  *)
(* one height are two forks of it) and chains.last_indexed_block.  Every   *)
(* action is one statement of watcher/store/postgres.py.  Module Watcher   *)
(* issues them in the order of the walk; module Settlement lets them come  *)
(* in any order the schema admits, so that the settler is checked against  *)
(* every watcher.                                                          *)
(***************************************************************************)
EXTENDS Integers, FiniteSets

CONSTANTS
    MaxHeight,   \* bound: heights 1..MaxHeight exist
    MaxFork      \* bound: different blocks one height may see

ASSUME ChainAssumption == MaxHeight \in Nat \ {0} /\ MaxFork \in Nat \ {0}

VARIABLES
    blocks,      \* blocks[h][f]: status of the f-th block seen at height h
    head         \* chains.last_indexed_block

chainVars == <<blocks, head>>

Heights == 1..MaxHeight
Forks   == 1..MaxFork

BlockStatus == {"absent", "pending", "confirmed", "orphaned"}

ChainTypeOK ==
    /\ blocks \in [Heights -> [Forks -> BlockStatus]]
    /\ head \in 0..MaxHeight

ChainInit ==
    /\ blocks = [h \in Heights |-> [f \in Forks |-> "absent"]]
    /\ head = 0

\* status <> 'orphaned'; uq_blocks_canonical_height allows one per height.
Canonical(h, f) == blocks[h][f] \in {"pending", "confirmed"}

CanonicalAt(h) == \E f \in Forks : Canonical(h, f)

OrphanedAt(h) == \E f \in Forks : blocks[h][f] = "orphaned"

\* SQL_FINALIZED_HEAD: highest confirmed block, 0 for NULL.
ConfirmedHeights == {h \in Heights : \E f \in Forks : blocks[h][f] = "confirmed"}

FinalizedHead ==
    IF ConfirmedHeights = {} THEN 0
    ELSE CHOOSE h \in ConfirmedHeights : \A g \in ConfirmedHeights : g <= h

-----------------------------------------------------------------------------
\* insert_block under a hash not seen before.  Two canonical blocks at one
\* height are refused by uq_blocks_canonical_height.  The walker chooses the
\* status from the depth it sees.
WriteHeader(h, f, status) ==
    /\ blocks[h][f] = "absent"
    /\ ~CanonicalAt(h)
    /\ status \in {"pending", "confirmed"}
    /\ blocks' = [blocks EXCEPT ![h][f] = status]
    /\ UNCHANGED head

\* set_checkpoint: forwards at the end of a step, to the common ancestor after
\* a rollback.
SetCheckpoint(to) ==
    /\ to # head
    /\ head' = to
    /\ UNCHANGED blocks

\* promote_confirmed_blocks: every pending block up to a height.
PromoteBlocks(upTo) ==
    /\ \E h \in 1..upTo, f \in Forks : blocks[h][f] = "pending"
    /\ blocks' = [h \in Heights |-> [f \in Forks |->
           IF h <= upTo /\ blocks[h][f] = "pending" THEN "confirmed"
           ELSE blocks[h][f]]]
    /\ UNCHANGED head

\* orphan_blocks_above: one UPDATE over every height above the ancestor.
OrphanAbove(ancestor) ==
    /\ \E h \in Heights : h > ancestor /\ CanonicalAt(h)
    /\ blocks' = [h \in Heights |-> [f \in Forks |->
           IF h > ancestor /\ Canonical(h, f) THEN "orphaned"
           ELSE blocks[h][f]]]
    /\ UNCHANGED head
=============================================================================
