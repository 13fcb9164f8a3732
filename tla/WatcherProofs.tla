---------------------------- MODULE WatcherProofs ----------------------------
(***************************************************************************)
(* The walker for any number of heights, branches, transfers, switches of  *)
(* the network and faults.                                                 *)
(*                                                                         *)
(* That every row was verified, and that no crash loses a transfer of the  *)
(* heights the walker has set out for, holds for every lookback.  That the *)
(* store is one chain is proved for the pasts that Linked names: the rows  *)
(* of a branch that comes back stay orphaned, and a walk without a         *)
(* checkpoint that begins below the stored blocks builds up to them.       *)
(***************************************************************************)
EXTENDS Watcher, WellFoundedInduction, TLAPS

\* What holds whatever happens: one canonical block a height
\* (uq_blocks_canonical_height), nothing verified or recorded without a row in
\* blocks, and a rollback that ends where it runs out of heights.
StoreInv ==
    /\ WatcherTypeOK
    /\ \A h \in Heights, f, g \in Forks : Canonical(h, f) /\ Canonical(h, g) => f = g
    /\ \A h \in Heights : walk.got[h] # 0 => blocks[h][walk.got[h]] # "absent"
    /\ walk.phase \in {"rollback", "rewind"} => walk.next + walk.depth <= MaxHeight
    /\ RowsWereVerified

-----------------------------------------------------------------------------
\* The checkpoint of the database is in use.
Started == head > 0

\* Blocks of one run of stored heights are of one branch.
OneBranch ==
    \A g, h \in Heights, e, f \in Forks :
        /\ h <= g /\ Canonical(g, f) /\ Canonical(h, e)
        /\ h..g \subseteq CanonicalHeights
        => e = ForkOn(f, h)

\* A network that does not come back has its branches in the order of their numbers:
\* no block is of a branch to come, none of the present one is orphaned.
InOrder == \A h \in Heights, f \in Forks :
    /\ blocks[h][f] # "absent" => f <= branch /\ (h <= ForkAt => f = 1)
    /\ blocks[h][f] = "orphaned" => h > ForkAt /\ f < branch

\* Every stored block from height n on is of a branch that the network has left.
LeftFrom(n) == \A h \in Heights, f \in Forks :
    h >= n /\ Canonical(h, f) => h > ForkAt /\ f < branch

\* What Linked asks of the past.
Steady == ~returned /\ ~sunk

ChainInv ==
    /\ StoreInv /\ InOrder /\ OneBranch
    /\ Started => Unbroken(head)
    /\ walk.phase \in {"tail", "headers"} =>
          /\ Unbroken(walk.next - 1)
          /\ Started => \/ walk.next = head + 1
                        \/ head < walk.next /\ walk.next - 1 \in CanonicalHeights
    /\ walk.phase \in {"logs", "checkpoint"} => Unbroken(walk.target)
    /\ walk.phase \in {"rollback", "rewind"} => Unbroken(walk.next)
    /\ walk.phase = "rollback" => LeftFrom(walk.next + 1)

-----------------------------------------------------------------------------
\* Every transfer in a stored block of the heights set out for, up to n, has a row.
Covered(n) == \A p \in Payments : \A b \in InBlock[p] :
    start < b[1] /\ b[1] <= n /\ Canonical(b[1], b[2]) => rows[p] # 0

\* One branch: there is nothing to roll back, and what lies between the checkpoint
\* and the next height was verified in this very step.
QuietInv ==
    /\ branch = 1
    /\ \A h \in Heights, f \in Forks :
          blocks[h][f] # "absent" => f = 1 /\ h <= length /\ Canonical(h, f)
    /\ \A h \in Heights : walk.got[h] # 0 => walk.got[h] = 1 /\ h <= length
    /\ walk.phase \notin {"rollback", "rewind", "stopped"}
    /\ Covered(head)
    /\ walk.phase \in {"tail", "headers", "logs", "checkpoint"} => head < walk.next
    /\ walk.phase \in {"tail", "headers", "logs"} =>
          \A h \in CanonicalHeights : h < walk.next => h <= head \/ h <= start \/ walk.got[h] # 0
    /\ walk.phase \in {"logs", "checkpoint"} => walk.next = walk.target + 1
    /\ walk.phase = "checkpoint" => Covered(walk.target)

CrashInv == StoreInv /\ (switches = 0 => QuietInv)

-----------------------------------------------------------------------------
\* The least number of a set, and with it the highest height.
LEMMA NatMin ==
    ASSUME NEW T \in SUBSET Nat, T # {}
    PROVE  \E m \in T : \A k \in T : m <= k
<1> DEFINE R == OpToRel(<, Nat)
<1>1. PICK m \in T : \A k \in T : ~(<<k, m>> \in R)
  <2>1. IsWellFoundedOn(R, Nat)
    BY NatLessThanWellFounded, Zenon
  <2> HIDE DEF R
  <2> QED
    BY <2>1, WFMin, Zenon
<1>2. \A k \in T : k < m => <<k, m>> \in R
  BY DEF OpToRel
<1>3. \A k \in T : ~(k < m)
  BY <1>1, <1>2
<1> QED
  BY <1>3

LEMMA HasMax ==
    ASSUME NEW n \in Nat, NEW S \in SUBSET (0..n), S # {}
    PROVE  \E x \in S : \A y \in S : y <= x
<1> DEFINE T == {n - x : x \in S}
<1>1. T \in SUBSET Nat
  <2> SUFFICES ASSUME NEW x \in S PROVE n - x \in Nat
    OBVIOUS
  <2>1. x \in 0..n
    OBVIOUS
  <2> QED
    BY <2>1
<1>2. T # {}
  <2>1. PICK x \in S : TRUE
    OBVIOUS
  <2> QED
    BY <2>1
<1>3. PICK m \in T : \A k \in T : m <= k
  <2> HIDE DEF T
  <2> QED
    BY <1>1, <1>2, NatMin
<1>4. PICK x \in S : m = n - x
  BY <1>3
<1>5. \A y \in S : n - x <= n - y
  BY <1>3, <1>4
<1>6. ASSUME NEW y \in S PROVE y <= x
  <2>1. x \in 0..n /\ y \in 0..n /\ n - x <= n - y
    BY <1>5
  <2> QED
    BY <2>1
<1> QED
  BY <1>6

\* latest_canonical_block and canonical_block find what they are named for.
LEMMA LatestStands ==
    CanonicalHeights # {} => /\ LatestCanonical \in CanonicalHeights
                             /\ \A h \in CanonicalHeights : h <= LatestCanonical
<1>1. MaxHeight \in Nat /\ CanonicalHeights \in SUBSET (0..MaxHeight)
  BY ChainAssumption DEF CanonicalHeights, Heights
<1> QED
  BY <1>1, HasMax DEF LatestCanonical

LEMMA StoredForkStands ==
    \A h \in Heights : CanonicalAt(h) => StoredFork(h) \in Forks /\ Canonical(h, StoredFork(h))
BY DEF CanonicalAt, StoredFork

-----------------------------------------------------------------------------
\* The types the steps below use.
LEMMA WalkTyped ==
    ASSUME StoreInv
    PROVE  /\ MaxHeight \in Nat \ {0} /\ MaxFork \in Nat \ {0} /\ MaxBlocksPerStep \in Nat \ {0}
           /\ InitialLookback \in Nat /\ 1 \in Forks
           /\ branch \in Forks /\ length \in Nat /\ length <= MaxHeight
           /\ head \in Nat /\ head <= MaxHeight
           /\ switches \in Nat /\ faults \in Nat
           /\ blocks \in [Heights -> [Forks -> BlockStatus]] /\ rows \in [Payments -> 0..MaxHeight]
           /\ walk \in Walks /\ walk.phase \in Phases
           /\ walk.head \in Nat /\ walk.head <= MaxHeight
           /\ walk.next \in Nat /\ walk.next <= MaxHeight + 1
           /\ walk.target \in Nat /\ walk.target <= MaxHeight
           /\ walk.got \in [Heights -> 0..MaxFork] /\ walk.depth \in Nat
           /\ \A h : Served(h) \in Forks
<1>1. WatcherTypeOK
  BY DEF StoreInv
<1>2. 1 \in Forks /\ \A h : Served(h) \in Forks
  BY <1>1, ChainAssumption DEF WatcherTypeOK, Forks, Served, ForkOn
<1> QED
  BY <1>1, <1>2, ChainAssumption, WatcherAssumption DEF WatcherTypeOK, ChainTypeOK, Walks

\* A record of the walk with some fields changed is one again.
LEMMA WalkMoves ==
    ASSUME StoreInv
    PROVE  /\ \A p \in Phases : [walk EXCEPT !.phase = p] \in Walks
           /\ \A n \in 0..MaxHeight + 1 :
                 [walk EXCEPT !.phase = "rollback", !.next = n, !.depth = 0] \in Walks
           /\ \A b \in BOOLEAN : AtRest(b) \in Walks
<1>1. walk \in Walks
  BY WalkTyped
<1>2. ASSUME NEW p \in Phases PROVE [walk EXCEPT !.phase = p] \in Walks
  BY <1>1 DEF Walks
<1>3. ASSUME NEW n \in 0..MaxHeight + 1
      PROVE  [walk EXCEPT !.phase = "rollback", !.next = n, !.depth = 0] \in Walks
  <2>1. "rollback" \in Phases /\ 0 \in 0..MaxHeight + 1
    BY WalkTyped DEF Phases
  <2> QED
    BY <1>1, <1>3, <2>1 DEF Walks
<1>4. ASSUME NEW b \in BOOLEAN PROVE AtRest(b) \in Walks
  BY WalkTyped DEF AtRest, NoHeaders, Walks, Phases
<1> QED
  BY <1>2, <1>3, <1>4

\* What every statement on blocks keeps.
BlocksKept ==
    /\ blocks' \in [Heights -> [Forks -> BlockStatus]]
    /\ \A h \in Heights, f \in Forks : blocks[h][f] # "absent" => blocks'[h][f] # "absent"
    /\ \A h \in Heights, f, g \in Forks : Canonical(h, f)' /\ Canonical(h, g)' => f = g

LEMMA UnwrittenKept ==
    ASSUME StoreInv, UNCHANGED blocks
    PROVE  BlocksKept
BY WalkTyped DEF StoreInv, BlocksKept, Canonical

\* Nothing canonical becomes so but the row that WriteHeader inserts.
LEMMA WriteKept ==
    ASSUME StoreInv, NEW h \in Heights, NEW f \in Forks, NEW status, WriteHeader(h, f, status)
    PROVE  /\ BlocksKept /\ head' = head /\ Canonical(h, f)' /\ ~CanonicalAt(h)
           /\ \A g \in Heights, e \in Forks : g # h \/ e # f => blocks'[g][e] = blocks[g][e]
<1>1. /\ blocks[h][f] = "absent" /\ ~CanonicalAt(h) /\ status \in {"pending", "confirmed"}
      /\ blocks' = [blocks EXCEPT ![h][f] = status] /\ head' = head
  BY DEF WriteHeader
<1>2. /\ blocks' \in [Heights -> [Forks -> BlockStatus]] /\ blocks'[h][f] = status
      /\ \A g \in Heights, e \in Forks : g # h \/ e # f => blocks'[g][e] = blocks[g][e]
  BY <1>1, WalkTyped DEF BlockStatus
<1>3. \A g \in Heights, d, e \in Forks : Canonical(g, d)' /\ Canonical(g, e)' => d = e
  BY <1>1, <1>2 DEF StoreInv, Canonical, CanonicalAt
<1> QED
  BY <1>1, <1>2, <1>3 DEF BlocksKept, Canonical

LEMMA PromoteKept ==
    ASSUME StoreInv, NEW n, PromoteUpTo(n)
    PROVE  /\ BlocksKept /\ head' = head
           /\ \A h \in Heights, f \in Forks :
                 /\ Canonical(h, f)' <=> Canonical(h, f)
                 /\ blocks'[h][f] = blocks[h][f] \/ Canonical(h, f)
<1>1. CASE PromoteBlocks(n)
  <2>1. /\ head' = head
        /\ blocks' = [h \in Heights |-> [f \in Forks |->
               IF h <= n /\ blocks[h][f] = "pending" THEN "confirmed" ELSE blocks[h][f]]]
    BY <1>1 DEF PromoteBlocks
  <2>2. \A h \in Heights, f \in Forks :
           /\ blocks'[h][f] \in BlockStatus
           /\ \/ blocks'[h][f] = blocks[h][f]
              \/ blocks[h][f] = "pending" /\ blocks'[h][f] = "confirmed"
    BY <2>1, WalkTyped DEF BlockStatus
  <2>3. blocks' \in [Heights -> [Forks -> BlockStatus]]
    BY <2>1, WalkTyped DEF BlockStatus
  <2> QED
    BY <2>1, <2>2, <2>3 DEF StoreInv, BlocksKept, Canonical
<1>2. CASE UNCHANGED chainVars
  <2>1. blocks' = blocks /\ head' = head
    BY <1>2 DEF chainVars
  <2> QED
    BY <2>1, UnwrittenKept DEF Canonical
<1> QED
  BY <1>1, <1>2 DEF PromoteUpTo

LEMMA OrphanKept ==
    ASSUME StoreInv, NEW n \in Nat, OrphanAbove(n)
    PROVE  /\ BlocksKept /\ head' = head
           /\ \A h \in Heights, f \in Forks :
                 /\ Canonical(h, f)' <=> h <= n /\ Canonical(h, f)
                 /\ \/ blocks'[h][f] = blocks[h][f]
                    \/ h > n /\ Canonical(h, f) /\ blocks'[h][f] = "orphaned"
<1>1. /\ head' = head
      /\ blocks' = [h \in Heights |-> [f \in Forks |->
             IF h > n /\ Canonical(h, f) THEN "orphaned" ELSE blocks[h][f]]]
  BY DEF OrphanAbove
<1>2. \A h \in Heights, f \in Forks :
         blocks'[h][f] = IF h > n /\ Canonical(h, f) THEN "orphaned" ELSE blocks[h][f]
  BY <1>1
<1>3. blocks' \in [Heights -> [Forks -> BlockStatus]]
  BY <1>1, WalkTyped DEF BlockStatus
<1>4. \A h \in Heights, f \in Forks :
         /\ Canonical(h, f)' <=> h <= n /\ Canonical(h, f)
         /\ \/ blocks'[h][f] = blocks[h][f]
            \/ h > n /\ Canonical(h, f) /\ blocks'[h][f] = "orphaned"
  BY <1>2, WalkTyped DEF Canonical, Heights
<1>5. \A h \in Heights, f \in Forks : blocks[h][f] # "absent" => blocks'[h][f] # "absent"
  BY <1>4
<1>6. \A h \in Heights, f, g \in Forks : Canonical(h, f)' /\ Canonical(h, g)' => f = g
  BY <1>4 DEF StoreInv
<1> QED
  BY <1>1, <1>3, <1>4, <1>5, <1>6 DEF BlocksKept

\* A step that leaves the rows of payments alone needs a look at blocks and walk only.
LEMMA StoreKept ==
    ASSUME StoreInv, BlocksKept, UNCHANGED rows, WatcherTypeOK',
           \A h \in Heights : walk'.got[h] # 0 => blocks'[h][walk'.got[h]] # "absent",
           walk'.phase \in {"rollback", "rewind"} => walk'.next + walk'.depth <= MaxHeight
    PROVE  StoreInv'
<1>1. RowsWereVerified'
  <2> SUFFICES ASSUME NEW p \in Payments, rows[p] # 0
               PROVE  \E f \in Forks : <<rows[p], f>> \in InBlock[p] /\ blocks'[rows[p]][f] # "absent"
    BY DEF RowsWereVerified
  <2>1. PICK f \in Forks : <<rows[p], f>> \in InBlock[p] /\ blocks[rows[p]][f] # "absent"
    BY DEF StoreInv, RowsWereVerified
  <2>2. rows[p] \in Heights
    BY WalkTyped DEF Heights
  <2> QED
    BY <2>1, <2>2 DEF BlocksKept
<1> QED
  BY <1>1 DEF StoreInv, BlocksKept

\* What has been verified in this step stays on record.
LEMMA GotKept ==
    ASSUME StoreInv, BlocksKept, walk'.got = walk.got
    PROVE  \A h \in Heights : walk'.got[h] # 0 => blocks'[h][walk'.got[h]] # "absent"
<1> SUFFICES ASSUME NEW h \in Heights, walk.got[h] # 0
             PROVE  blocks'[h][walk.got[h]] # "absent"
  OBVIOUS
<1>1. walk.got[h] \in Forks
  BY WalkTyped DEF Forks
<1> QED
  BY <1>1 DEF StoreInv, BlocksKept

\* The four ends of a request: go on in another phase, end the step, roll back.
LEMMA GotoKeepsStore ==
    ASSUME StoreInv, BlocksKept, UNCHANGED <<netVars, coldVars, rows>>,
           head' \in 0..MaxHeight, faults' \in 0..MaxFaults,
           NEW phase \in Phases, phase = "rewind" => walk.phase = "rollback", phase # "rollback",
           Goto(phase)
    PROVE  StoreInv'
<1>1. /\ walk' = [walk EXCEPT !.phase = phase] /\ walk' \in Walks /\ walk'.phase = phase
      /\ walk'.got = walk.got /\ walk'.next = walk.next /\ walk'.depth = walk.depth
  BY WalkTyped, WalkMoves DEF Goto, Walks
<1>2. WatcherTypeOK'
  BY <1>1 DEF StoreInv, WatcherTypeOK, ChainTypeOK, BlocksKept, netVars, coldVars
<1>3. walk'.phase \in {"rollback", "rewind"} => walk'.next + walk'.depth <= MaxHeight
  BY <1>1 DEF StoreInv
<1> QED
  BY <1>1, <1>2, <1>3, StoreKept, GotKept

LEMMA FinishKeepsStore ==
    ASSUME StoreInv, BlocksKept, UNCHANGED <<netVars, coldVars, rows>>,
           head' \in 0..MaxHeight, faults' \in 0..MaxFaults,
           NEW b \in BOOLEAN, Finish(b)
    PROVE  StoreInv'
<1>1. walk' \in Walks /\ walk'.phase = "idle" /\ walk'.got = NoHeaders
  BY WalkMoves DEF Finish, AtRest
<1>2. WatcherTypeOK'
  BY <1>1 DEF StoreInv, WatcherTypeOK, ChainTypeOK, BlocksKept, netVars, coldVars
<1>3. \A h \in Heights : walk'.got[h] = 0
  BY <1>1 DEF NoHeaders
<1> QED
  BY <1>1, <1>2, <1>3, StoreKept

LEMMA RollBackKeepsStore ==
    ASSUME StoreInv, UNCHANGED <<chainVars, netVars, coldVars, faults, rows>>,
           NEW n \in 0..MaxHeight, RollBackFrom(n)
    PROVE  StoreInv'
<1>1. n \in 0..MaxHeight + 1 /\ n + 0 <= MaxHeight
  BY WalkTyped
<1>2. /\ walk' \in Walks /\ walk'.phase = "rollback"
      /\ walk'.got = walk.got /\ walk'.next = n /\ walk'.depth = 0
  BY <1>1, WalkTyped, WalkMoves DEF RollBackFrom, Walks
<1>3. BlocksKept
  BY UnwrittenKept DEF chainVars
<1>4. WatcherTypeOK'
  BY <1>2 DEF StoreInv, WatcherTypeOK, ChainTypeOK, chainVars, netVars, coldVars
<1> QED
  BY <1>1, <1>2, <1>3, <1>4, StoreKept, GotKept

-----------------------------------------------------------------------------
\* The steps, taken apart once for all the proofs.
LEMMA BeginStep ==
    ASSUME StoreInv, StepBegin
    PROVE  /\ EffectiveCheckpoint \in 0..MaxHeight
           /\ head > 0 => EffectiveCheckpoint = head
           /\ start' = IF head > 0 THEN start ELSE EffectiveCheckpoint
           /\ sunk' = (sunk \/ (head = 0 /\ ~Unbroken(EffectiveCheckpoint)))
           /\ walk' \in Walks /\ walk'.phase = "tail" /\ walk'.got = walk.got
           /\ walk'.next = EffectiveCheckpoint + 1 /\ walk'.head = length
           /\ walk'.next <= length => walk'.next <= walk'.target
           /\ UNCHANGED <<chainVars, netVars, faults, rows>>
<1>1. /\ EffectiveCheckpoint \in 0..MaxHeight
      /\ head > 0 => EffectiveCheckpoint = head
  BY WalkTyped DEF EffectiveCheckpoint
<1> DEFINE from == EffectiveCheckpoint
           to == IF length < from + MaxBlocksPerStep THEN length ELSE from + MaxBlocksPerStep
<1>2. walk' = [walk EXCEPT !.phase = "tail", !.head = length, !.next = from + 1, !.target = to]
  BY DEF StepBegin
<1>3. /\ to \in 0..MaxHeight /\ from + 1 \in 0..MaxHeight + 1 /\ length \in 0..MaxHeight
      /\ from + 1 <= length => from + 1 <= to
  <2>1. from \in Nat /\ from <= MaxHeight
    BY <1>1, WalkTyped
  <2> HIDE DEF from
  <2>2. MaxHeight \in Nat /\ MaxBlocksPerStep \in Nat \ {0} /\ length \in Nat /\ length <= MaxHeight
    BY WalkTyped
  <2>3. CASE length < from + MaxBlocksPerStep
    BY <2>1, <2>2, <2>3
  <2>4. CASE ~(length < from + MaxBlocksPerStep)
    BY <2>1, <2>2, <2>4
  <2> QED
    BY <2>3, <2>4
<1> HIDE DEF from, to
<1>4. "tail" \in Phases /\ walk \in Walks
  BY WalkTyped DEF Phases
<1>5. /\ walk' \in Walks /\ walk'.phase = "tail" /\ walk'.got = walk.got
      /\ walk'.next = from + 1 /\ walk'.head = length /\ walk'.target = to
  BY <1>2, <1>3, <1>4 DEF Walks
<1> QED
  BY <1>1, <1>3, <1>5 DEF StepBegin, from

\* Phase one for one height: one more header that is on record.
Headed(h, f) ==
    /\ ~Contradicts(h)
    /\ \/ \E status : WriteHeader(h, f, status)
       \/ blocks[h][f] # "absent" /\ UNCHANGED chainVars
    /\ walk' \in Walks /\ walk'.got = [walk.got EXCEPT ![h] = f]
    /\ walk'.next = h + 1 /\ walk'.target = walk.target
    /\ walk'.phase = IF h = walk.target THEN "logs" ELSE "headers"

\* Or a contradiction, or an insert that the unique index refuses.
HeaderMove(h, f) ==
    /\ h \in Heights /\ f \in Forks /\ h <= length
    /\ h = walk.next /\ f = Served(h) /\ walk.phase = "headers"
    /\ UNCHANGED <<head, netVars, coldVars, faults, rows>>
    /\ \/ Contradicts(h) /\ RollBackFrom(h - 1) /\ UNCHANGED chainVars
       \/ ~Contradicts(h) /\ Finish(FALSE) /\ UNCHANGED chainVars
       \/ Headed(h, f)

LEMMA HeaderStep ==
    ASSUME StoreInv, ReadHeader
    PROVE  \E h, f : HeaderMove(h, f)
<1>0. PICK h, f : h = walk.next /\ f = Served(h)
  OBVIOUS
<1>1. h \in Heights /\ f \in Forks /\ h <= length
  BY <1>0, WalkTyped DEF ReadHeader, Serves, Heights
<1>2. ASSUME walk' = [walk EXCEPT !.got[h] = f, !.next = h + 1,
                                  !.phase = IF h = walk.target THEN "logs" ELSE "headers"]
      PROVE  /\ walk' \in Walks /\ walk'.got = [walk.got EXCEPT ![h] = f]
             /\ walk'.next = h + 1 /\ walk'.target = walk.target
             /\ walk'.phase = IF h = walk.target THEN "logs" ELSE "headers"
  <2> DEFINE phase == IF h = walk.target THEN "logs" ELSE "headers"
             got == [walk.got EXCEPT ![h] = f]
  <2>1. phase \in Phases /\ h + 1 \in 0..MaxHeight + 1 /\ walk \in Walks
    BY <1>1, WalkTyped DEF Phases, Heights
  <2>2. got \in [Heights -> 0..MaxFork]
    BY <1>1, WalkTyped DEF Forks
  <2>3. walk' = [walk EXCEPT !.got = got, !.next = h + 1, !.phase = phase]
    BY <1>2
  <2> HIDE DEF phase, got
  <2>4. /\ walk' \in Walks /\ walk'.got = got /\ walk'.next = h + 1
        /\ walk'.target = walk.target /\ walk'.phase = phase
    BY <2>1, <2>2, <2>3 DEF Walks
  <2> QED
    BY <2>4 DEF phase, got
<1>3. UNCHANGED <<head, netVars, coldVars, faults, rows>>
  BY DEF ReadHeader, WriteHeader, chainVars
<1>4. \/ Contradicts(h) /\ RollBackFrom(h - 1) /\ UNCHANGED chainVars
      \/ ~Contradicts(h) /\ Finish(FALSE) /\ UNCHANGED chainVars
      \/ Headed(h, f)
  <2>1. CASE Contradicts(h)
    BY <1>0, <2>1 DEF ReadHeader
  <2>2. CASE ~Contradicts(h) /\ blocks[h][f] = "absent" /\ CanonicalAt(h)
    BY <1>0, <2>2 DEF ReadHeader
  <2>3. CASE ~Contradicts(h) /\ ~(blocks[h][f] = "absent" /\ CanonicalAt(h))
    BY <1>0, <1>2, <2>3 DEF ReadHeader, Headed
  <2> QED
    BY <2>1, <2>2, <2>3
<1> QED
  BY <1>0, <1>1, <1>3, <1>4 DEF HeaderMove, ReadHeader

LEMMA BeginKeepsStore ==
    ASSUME StoreInv, StepBegin
    PROVE  StoreInv'
<1>1. /\ walk' \in Walks /\ walk'.phase = "tail" /\ walk'.got = walk.got
      /\ UNCHANGED <<chainVars, netVars, faults, rows>>
      /\ EffectiveCheckpoint \in 0..MaxHeight
      /\ start' = IF head > 0 THEN start ELSE EffectiveCheckpoint
      /\ sunk' = (sunk \/ (head = 0 /\ ~Unbroken(EffectiveCheckpoint)))
  BY BeginStep
<1>2. BlocksKept
  BY <1>1, UnwrittenKept DEF chainVars
<1>3. start' \in 0..MaxHeight /\ sunk' \in BOOLEAN
  BY <1>1 DEF StoreInv, WatcherTypeOK
<1>4. WatcherTypeOK'
  BY <1>1, <1>3 DEF StoreInv, WatcherTypeOK, ChainTypeOK, chainVars, netVars
<1> QED
  BY <1>1, <1>2, <1>4, StoreKept, GotKept

LEMMA TailKeepsStore ==
    ASSUME StoreInv, VerifyTail \/ TailUnanswered
    PROVE  StoreInv'
<1>1. /\ UNCHANGED <<chainVars, netVars, coldVars, rows>> /\ head' \in 0..MaxHeight /\ BlocksKept
      /\ faults' \in 0..MaxFaults
  BY UnwrittenKept, WatcherAssumption
  DEF VerifyTail, TailUnanswered, chainVars, StoreInv, WatcherTypeOK, ChainTypeOK
<1>2. CASE WalkOn
  <2>1. "headers" \in Phases
    BY DEF Phases
  <2> QED
    BY <1>1, <1>2, <2>1, GotoKeepsStore, FinishKeepsStore DEF WalkOn
<1>3. CASE RollBackFrom(LatestCanonical) /\ ~TailStands /\ UNCHANGED faults
  <2>1. LatestCanonical \in 0..MaxHeight
    BY <1>3, LatestStands, WalkTyped DEF TailStands, CanonicalHeights, Heights
  <2> QED
    BY <1>1, <1>3, <2>1, RollBackKeepsStore
<1> QED
  BY <1>2, <1>3 DEF VerifyTail, TailUnanswered

LEMMA HeaderKeepsStore ==
    ASSUME StoreInv, ReadHeader
    PROVE  StoreInv'
<1>1. PICK h, f : HeaderMove(h, f)
  BY HeaderStep
<1>2. h \in Heights /\ f \in Forks /\ UNCHANGED <<head, netVars, coldVars, faults, rows>>
  BY <1>1 DEF HeaderMove
<1>3. head' \in 0..MaxHeight /\ faults' \in 0..MaxFaults
  BY <1>2 DEF StoreInv, WatcherTypeOK, ChainTypeOK
<1>4. CASE RollBackFrom(h - 1) /\ UNCHANGED chainVars
  <2>1. h - 1 \in 0..MaxHeight
    BY <1>2, WalkTyped DEF Heights
  <2> QED
    BY <1>2, <1>4, <2>1, RollBackKeepsStore
<1>5. CASE Finish(FALSE) /\ UNCHANGED chainVars
  <2>1. BlocksKept
    BY <1>5, UnwrittenKept DEF chainVars
  <2> QED
    BY <1>2, <1>3, <1>5, <2>1, FinishKeepsStore
<1>6. CASE Headed(h, f)
  <2>0. /\ \/ \E status : WriteHeader(h, f, status)
           \/ blocks[h][f] # "absent" /\ UNCHANGED chainVars
        /\ walk' \in Walks /\ walk'.got = [walk.got EXCEPT ![h] = f]
        /\ walk'.phase \in {"headers", "logs"}
    BY <1>6 DEF Headed
  <2>1. BlocksKept /\ blocks'[h][f] # "absent"
    <3>1. CASE \E status : WriteHeader(h, f, status)
      BY <1>2, <3>1, WriteKept DEF Canonical
    <3>2. CASE blocks[h][f] # "absent" /\ UNCHANGED chainVars
      BY <3>2, UnwrittenKept DEF chainVars
    <3> QED
      BY <2>0, <3>1, <3>2
  <2>2. ASSUME NEW g \in Heights, walk'.got[g] # 0
        PROVE  blocks'[g][walk'.got[g]] # "absent"
    <3>1. CASE g = h
      BY <1>2, <2>0, <2>1, <3>1, WalkTyped
    <3>2. CASE g # h
      <4>1. walk'.got[g] = walk.got[g]
        BY <1>2, <2>0, <3>2, WalkTyped
      <4>2. walk.got[g] \in Forks /\ blocks[g][walk.got[g]] # "absent"
        BY <2>2, <4>1, WalkTyped DEF StoreInv, Forks
      <4> QED
        BY <2>1, <4>1, <4>2 DEF BlocksKept
    <3> QED
      BY <3>1, <3>2
  <2>3. WatcherTypeOK'
    BY <1>2, <1>3, <2>0, <2>1 DEF StoreInv, WatcherTypeOK, ChainTypeOK, BlocksKept, netVars, coldVars
  <2>4. walk'.phase \notin {"rollback", "rewind"}
    BY <2>0
  <2> QED
    BY <1>2, <2>1, <2>2, <2>3, <2>4, StoreKept
<1> QED
  BY <1>1, <1>4, <1>5, <1>6 DEF HeaderMove

\* A log becomes a row only if its block is the one whose header was verified.
LEMMA LogsKeepStore ==
    ASSUME StoreInv, ReadLogs
    PROVE  StoreInv'
<1>1. /\ walk' = [walk EXCEPT !.phase = "checkpoint"] /\ "checkpoint" \in Phases
      /\ UNCHANGED <<chainVars, netVars, coldVars, faults>>
      /\ rows' = [p \in Payments |->
             IF rows[p] # 0 \/ Sightings(p) = {} THEN rows[p]
             ELSE CHOOSE h \in Sightings(p) : TRUE]
  BY DEF ReadLogs, Goto, Phases
<1>2. /\ walk' \in Walks /\ walk'.phase = "checkpoint" /\ walk'.got = walk.got
      /\ blocks' = blocks
  BY <1>1, WalkTyped, WalkMoves DEF Walks, chainVars
<1>3. ASSUME NEW p \in Payments
      PROVE  rows'[p] = rows[p] \/ rows'[p] \in Sightings(p)
  BY <1>1
<1>4. ASSUME NEW p \in Payments, NEW h \in Sightings(p)
      PROVE  /\ h \in Heights /\ Served(h) \in Forks /\ <<h, Served(h)>> \in InBlock[p]
             /\ blocks[h][Served(h)] # "absent"
  BY WalkTyped DEF Sightings, Verified, StoreInv
<1>5. rows' \in [Payments -> 0..MaxHeight]
  <2>1. ASSUME NEW p \in Payments PROVE rows'[p] \in 0..MaxHeight
    <3>1. rows[p] \in 0..MaxHeight /\ MaxHeight \in Nat
      BY WalkTyped
    <3>2. rows'[p] \in Sightings(p) => rows'[p] \in Heights
      BY <1>4
    <3> QED
      BY <1>3, <3>1, <3>2 DEF Heights
  <2> QED
    BY <1>1, <2>1
<1>6. WatcherTypeOK'
  BY <1>1, <1>2, <1>5 DEF StoreInv, WatcherTypeOK, ChainTypeOK, chainVars, netVars, coldVars
<1>7. RowsWereVerified'
  <2> SUFFICES ASSUME NEW p \in Payments, rows'[p] # 0
               PROVE  \E f \in Forks : <<rows'[p], f>> \in InBlock[p] /\ blocks[rows'[p]][f] # "absent"
    BY <1>2 DEF RowsWereVerified
  <2>1. CASE rows'[p] = rows[p]
    BY <2>1 DEF StoreInv, RowsWereVerified
  <2>2. CASE rows'[p] \in Sightings(p)
    BY <1>4, <2>2
  <2> QED
    BY <1>3, <2>1, <2>2
<1> QED
  BY <1>2, <1>6, <1>7 DEF StoreInv, Canonical

LEMMA CheckpointKeepsStore ==
    ASSUME StoreInv, MoveCheckpoint \/ PromoteDeep \/ PromoteFinalized
    PROVE  StoreInv'
<1>1. UNCHANGED <<netVars, coldVars, rows>> /\ faults' \in 0..MaxFaults
  BY DEF MoveCheckpoint, PromoteDeep, PromoteFinalized, StoreInv, WatcherTypeOK
<1>2. BlocksKept /\ head' \in 0..MaxHeight
  <2>1. CASE MoveCheckpoint
    BY <2>1, UnwrittenKept, WalkTyped DEF MoveCheckpoint, SetCheckpoint
  <2>2. CASE PromoteDeep \/ PromoteFinalized
    <3>1. \E n : PromoteUpTo(n)
      BY <2>2 DEF PromoteDeep, PromoteFinalized
    <3>2. BlocksKept /\ head' = head
      BY <3>1, PromoteKept
    <3> QED
      BY <3>2, WalkTyped
  <2> QED
    BY <2>1, <2>2
<1>3. "promote" \in Phases /\ "finalize" \in Phases
  BY DEF Phases
<1>4. Goto("promote") \/ Goto("finalize") \/ Finish(FALSE)
  BY DEF MoveCheckpoint, PromoteDeep, PromoteFinalized
<1> QED
  BY <1>1, <1>2, <1>3, <1>4, GotoKeepsStore, FinishKeepsStore

LEMMA RollbackKeepsStore ==
    ASSUME StoreInv, ScanDown \/ OrphanBranch \/ Rewind \/ TooDeep \/ HeightGone
    PROVE  StoreInv'
<1>1. UNCHANGED <<netVars, coldVars, rows>> /\ faults' \in 0..MaxFaults
  BY DEF ScanDown, OrphanBranch, Rewind, TooDeep, HeightGone, StoreInv, WatcherTypeOK
<1>2. CASE ScanDown
  <2>1. /\ walk.next \in 1..length /\ walk.next + walk.depth <= MaxHeight
        /\ UNCHANGED chainVars
        /\ walk' = [walk EXCEPT !.next = walk.next - 1, !.depth = walk.depth + 1]
    BY <1>2 DEF ScanDown, Serves, StoreInv
  <2>2. /\ walk.next - 1 \in 0..MaxHeight + 1 /\ walk.depth + 1 \in 0..MaxHeight + 1
        /\ (walk.next - 1) + (walk.depth + 1) <= MaxHeight
    BY <2>1, WalkTyped
  <2>3. /\ walk' \in Walks /\ walk'.got = walk.got
        /\ walk'.next = walk.next - 1 /\ walk'.depth = walk.depth + 1
    BY <2>1, <2>2, WalkTyped DEF Walks
  <2>4. WatcherTypeOK'
    BY <1>1, <2>1, <2>3 DEF StoreInv, WatcherTypeOK, ChainTypeOK, chainVars, netVars, coldVars
  <2>5. BlocksKept
    BY <2>1, UnwrittenKept DEF chainVars
  <2> QED
    BY <1>1, <2>2, <2>3, <2>4, <2>5, StoreKept, GotKept
<1>3. CASE OrphanBranch
  <2>1. BlocksKept /\ head' = head
    BY <1>3, OrphanKept, UnwrittenKept, WalkTyped DEF OrphanBranch, chainVars
  <2>2. Goto("rewind") /\ "rewind" \in Phases /\ walk.phase = "rollback"
    BY <1>3 DEF OrphanBranch, Phases
  <2> QED
    BY <1>1, <2>1, <2>2, GotoKeepsStore, WalkTyped
<1>4. CASE Rewind
  <2>1. walk.next \in 0..MaxHeight
    BY <1>4, WalkTyped DEF Rewind, StoreInv
  <2>2. BlocksKept /\ head' \in 0..MaxHeight
    BY <1>4, <2>1, UnwrittenKept, WalkTyped DEF Rewind, SetCheckpoint, chainVars
  <2>3. Finish(~walk.rewalk)
    BY <1>4 DEF Rewind
  <2>4. (~walk.rewalk) \in BOOLEAN
    BY Zenon
  <2> QED
    BY <1>1, <2>2, <2>3, <2>4, FinishKeepsStore
<1>5. CASE TooDeep \/ HeightGone
  <2>1. BlocksKept /\ head' \in 0..MaxHeight
    <3>1. blocks' = blocks /\ head' = head
      BY <1>5 DEF TooDeep, HeightGone, chainVars
    <3> QED
      BY <3>1, UnwrittenKept, WalkTyped
  <2>2. Finish(FALSE) \/ Goto("stopped")
    BY <1>5 DEF TooDeep, HeightGone
  <2>3. "stopped" \in Phases
    BY DEF Phases
  <2> QED
    BY <1>1, <2>1, <2>2, <2>3, GotoKeepsStore, FinishKeepsStore
<1> QED
  BY <1>2, <1>3, <1>4, <1>5

\* Deaths, and the network, which touches no table.
LEMMA WorldKeepsStore ==
    ASSUME StoreInv, StepDies \/ Grows \/ \E b \in Forks, to \in Heights : Switch(b, to)
    PROVE  StoreInv'
<1>1. CASE StepDies
  <2>1. /\ UNCHANGED <<chainVars, netVars, coldVars, rows>> /\ faults' \in 0..MaxFaults /\ Finish(FALSE)
    <3>1. faults \in 0..MaxFaults /\ MaxFaults \in Nat
      BY WatcherAssumption DEF StoreInv, WatcherTypeOK
    <3>2. /\ UNCHANGED <<chainVars, netVars, coldVars, rows>> /\ Finish(FALSE)
          /\ faults < MaxFaults /\ faults' = faults + 1
      BY <1>1 DEF StepDies
    <3>3. faults' \in 0..MaxFaults
      BY <3>1, <3>2
    <3> QED
      BY <3>2, <3>3
  <2>2. BlocksKept /\ head' \in 0..MaxHeight
    BY <2>1, UnwrittenKept, WalkTyped DEF chainVars
  <2> QED
    BY <2>1, <2>2, FinishKeepsStore
<1>2. CASE Grows \/ \E b \in Forks, to \in Heights : Switch(b, to)
  <2>1. UNCHANGED <<blocks, head, faults, rows, walk, start, sunk>>
    BY <1>2 DEF Grows, Switch, chainVars, coldVars
  <2>2. /\ branch' \in Forks /\ length' \in 0..MaxHeight /\ switches' \in 0..MaxSwitches
        /\ returned' \in BOOLEAN
    <3>1. /\ branch \in Forks /\ length \in 0..MaxHeight /\ MaxHeight \in Nat
          /\ switches \in 0..MaxSwitches /\ MaxSwitches \in Nat /\ returned \in BOOLEAN
      BY WalkTyped, WatcherAssumption DEF StoreInv, WatcherTypeOK
    <3>2. CASE Grows
      BY <3>1, <3>2 DEF Grows
    <3>3. CASE \E b \in Forks, to \in Heights : Switch(b, to)
      BY <3>1, <3>3 DEF Switch, Heights
    <3> QED
      BY <1>2, <3>2, <3>3
  <2> QED
    BY <2>1, <2>2 DEF StoreInv, WatcherTypeOK, ChainTypeOK, Canonical, RowsWereVerified
<1> QED
  BY <1>1, <1>2

LEMMA StoreAtStart == WatcherInit => StoreInv
<1> SUFFICES ASSUME WatcherInit PROVE StoreInv
  OBVIOUS
<1>1. MaxHeight \in Nat \ {0} /\ 1 \in Forks /\ MaxFork \in Nat
  BY ChainAssumption DEF Forks
<1>2. AtRest(FALSE) \in Walks
  BY <1>1 DEF AtRest, NoHeaders, Walks, Phases
<1>3. WatcherTypeOK
  <2>1. MaxSwitches \in Nat /\ MaxFaults \in Nat
    BY WatcherAssumption
  <2>2. ChainTypeOK
    BY <1>1 DEF WatcherInit, ChainInit, ChainTypeOK, BlockStatus
  <2>3. 0 \in 0..MaxHeight /\ 0 \in 0..MaxSwitches /\ 0 \in 0..MaxFaults
    BY <1>1, <2>1
  <2>4. rows \in [Payments -> 0..MaxHeight]
    BY <2>3 DEF WatcherInit
  <2> QED
    BY <1>1, <1>2, <2>2, <2>3, <2>4 DEF WatcherInit, WatcherTypeOK
<1>4. /\ walk.phase = "idle" /\ \A h \in Heights : walk.got[h] = 0
      /\ \A h \in Heights, f \in Forks : ~Canonical(h, f)
  BY DEF WatcherInit, ChainInit, AtRest, NoHeaders, Canonical
<1>5. RowsWereVerified
  BY DEF WatcherInit, RowsWereVerified
<1> QED
  BY <1>3, <1>4, <1>5 DEF StoreInv

LEMMA EveryStepKeepsStore == StoreInv /\ [WatcherNext]_vars => StoreInv'
<1> SUFFICES ASSUME StoreInv, [WatcherNext]_vars PROVE StoreInv'
  OBVIOUS
<1>1. CASE Step
  BY <1>1, BeginKeepsStore, TailKeepsStore, HeaderKeepsStore, LogsKeepStore,
     CheckpointKeepsStore, RollbackKeepsStore DEF Step
<1>2. CASE StepDies \/ Grows \/ \E b \in Forks, to \in Heights : Switch(b, to)
  BY <1>2, WorldKeepsStore
<1>3. CASE UNCHANGED vars
  BY <1>3 DEF vars, chainVars, netVars, coldVars, StoreInv, WatcherTypeOK, ChainTypeOK, Canonical,
              RowsWereVerified
<1> QED
  BY <1>1, <1>2, <1>3 DEF WatcherNext

\* The walk keeps within its heights whatever the provider answers and whenever
\* the process dies: a rollback is no deeper than the heights there are.
THEOREM WatcherTypeCorrect == WatcherSpec => []WatcherTypeOK
<1>1. StoreInv => WatcherTypeOK
  BY DEF StoreInv
<1> QED
  BY <1>1, StoreAtStart, EveryStepKeepsStore, PTL DEF WatcherSpec

\* Without any condition on the network: a payment row stands for a transfer in a
\* block whose header was verified and is on record.
THEOREM RowsAreVerified == WatcherSpec => []RowsWereVerified
<1>1. StoreInv => RowsWereVerified
  BY DEF StoreInv
<1> QED
  BY <1>1, StoreAtStart, EveryStepKeepsStore, PTL DEF WatcherSpec

-----------------------------------------------------------------------------
\* On one branch the provider and the store say the same of every height.
LEMMA QuietStands ==
    ASSUME StoreInv, QuietInv
    PROVE  /\ \A h : Served(h) = 1 /\ ParentOf(h, 1) = 1
           /\ \A h \in Heights : CanonicalAt(h) =>
                 Canonical(h, 1) /\ StoredFork(h) = 1 /\ h <= length
           /\ TailStands /\ \A h \in Heights : ~Contradicts(h)
<1>1. \A h : Served(h) = 1 /\ ParentOf(h, 1) = 1
  BY DEF QuietInv, Served, ParentOf, ForkOn
<1>2. ASSUME NEW h \in Heights, CanonicalAt(h)
      PROVE  Canonical(h, 1) /\ StoredFork(h) = 1 /\ h <= length
  <2>1. StoredFork(h) \in Forks /\ Canonical(h, StoredFork(h))
    BY <1>2, StoredForkStands
  <2> QED
    BY <2>1 DEF QuietInv, Canonical
<1>3. TailStands
  <2> SUFFICES ASSUME CanonicalHeights # {} PROVE StoredFork(LatestCanonical) = 1
    BY <1>1 DEF TailStands
  <2>1. LatestCanonical \in Heights /\ CanonicalAt(LatestCanonical)
    BY LatestStands DEF CanonicalHeights
  <2> QED
    BY <1>2, <2>1
<1>4. ASSUME NEW h \in Heights PROVE ~Contradicts(h)
  <2>1. h > 1 => h - 1 \in Heights
    BY ChainAssumption DEF Heights
  <2> QED
    BY <1>1, <1>2, <2>1 DEF Contradicts, ParentStored
<1> QED
  BY <1>1, <1>2, <1>3, <1>4

LEMMA FinishKeepsQuiet ==
    ASSUME QuietInv, NEW b, Finish(b), UNCHANGED <<blocks, head, branch, length, rows, start>>
    PROVE  QuietInv'
<1>1. walk'.phase = "idle" /\ \A h \in Heights : walk'.got[h] = 0
  BY DEF Finish, AtRest, NoHeaders
<1> QED
  BY <1>1 DEF QuietInv, Covered, Canonical

LEMMA BeginKeepsQuiet ==
    ASSUME StoreInv, QuietInv, StepBegin
    PROVE  QuietInv'
<1>1. /\ EffectiveCheckpoint \in Nat /\ head \in Nat
      /\ head > 0 => EffectiveCheckpoint = head
      /\ start' = IF head > 0 THEN start ELSE EffectiveCheckpoint
      /\ walk'.phase = "tail" /\ walk'.got = walk.got /\ walk'.next = EffectiveCheckpoint + 1
      /\ blocks' = blocks /\ head' = head /\ branch' = branch /\ length' = length /\ rows' = rows
  BY BeginStep, WalkTyped DEF chainVars, netVars
<1>2. head < walk'.next
  BY <1>1
<1>3. ASSUME NEW h \in CanonicalHeights, h < walk'.next PROVE h <= head \/ h <= start'
  <2>1. h \in Nat /\ h < EffectiveCheckpoint + 1
    BY <1>1, <1>3 DEF CanonicalHeights, Heights
  <2> QED
    BY <1>1, <2>1
<1>4. CanonicalHeights' = CanonicalHeights
  BY <1>1 DEF CanonicalHeights, CanonicalAt, Canonical
<1>5. Covered(head)'
  <2>1. CASE head > 0
    BY <1>1, <2>1 DEF QuietInv, Covered, Canonical
  <2>2. CASE head = 0
    <3>1. \A p \in Payments : \A b \in InBlock[p] : ~(b[1] <= head)
      BY <2>2, WatcherAssumption DEF Heights
    <3> QED
      BY <1>1, <3>1 DEF Covered
  <2> QED
    BY <1>1, <2>1, <2>2
<1> QED
  BY <1>1, <1>2, <1>3, <1>4, <1>5 DEF QuietInv, Canonical

LEMMA TailKeepsQuiet ==
    ASSUME StoreInv, QuietInv, VerifyTail \/ TailUnanswered
    PROVE  QuietInv'
<1>1. /\ blocks' = blocks /\ head' = head /\ branch' = branch /\ length' = length /\ rows' = rows /\ start' = start
      /\ walk.phase = "tail" /\ WalkOn
  BY QuietStands DEF VerifyTail, TailUnanswered, chainVars, netVars, coldVars
<1>2. CASE Finish(FALSE)
  BY <1>1, <1>2, FinishKeepsQuiet
<1>3. CASE Goto("headers")
  <2>1. walk'.phase = "headers" /\ walk'.got = walk.got /\ walk'.next = walk.next
    BY <1>3, WalkTyped DEF Goto, Walks
  <2>2. CanonicalHeights' = CanonicalHeights /\ Covered(head)'
    BY <1>1 DEF QuietInv, Covered, CanonicalHeights, CanonicalAt, Canonical
  <2> QED
    BY <1>1, <2>1, <2>2 DEF QuietInv, Canonical
<1> QED
  BY <1>1, <1>2, <1>3 DEF WalkOn

LEMMA HeaderKeepsQuiet ==
    ASSUME StoreInv, QuietInv, ReadHeader
    PROVE  QuietInv'
<1>1. PICK h, f : HeaderMove(h, f)
  BY HeaderStep
<1>2. /\ h \in Heights /\ h <= length /\ h \in Nat /\ head \in Nat /\ 1 \in Forks
      /\ head' = head /\ branch' = branch /\ length' = length /\ rows' = rows /\ start' = start
      /\ walk.phase = "headers" /\ walk.next = h /\ ~Contradicts(h) /\ f = 1
  BY <1>1, QuietStands, WalkTyped DEF HeaderMove, netVars, coldVars
<1>3. CASE Finish(FALSE) /\ UNCHANGED chainVars
  BY <1>2, <1>3, FinishKeepsQuiet DEF chainVars
<1>4. CASE Headed(h, f)
  <2>0. /\ \/ \E status : WriteHeader(h, 1, status)
           \/ blocks[h][1] # "absent" /\ UNCHANGED chainVars
        /\ walk'.got = [walk.got EXCEPT ![h] = 1]
        /\ walk'.next = h + 1 /\ walk'.target = walk.target
        /\ walk'.phase = IF h = walk.target THEN "logs" ELSE "headers"
    BY <1>2, <1>4 DEF Headed
  <2>1. /\ Canonical(h, 1)'
        /\ \A g \in Heights, e \in Forks : g # h \/ e # 1 => blocks'[g][e] = blocks[g][e]
    <3>1. CASE \E status : WriteHeader(h, 1, status)
      BY <1>2, <3>1, WriteKept
    <3>2. CASE blocks[h][1] # "absent" /\ UNCHANGED chainVars
      BY <1>2, <3>2 DEF chainVars, QuietInv, Canonical
    <3> QED
      BY <2>0, <3>1, <3>2
  <2>2. /\ walk'.got[h] = 1 /\ \A g \in Heights : g # h => walk'.got[g] = walk.got[g]
    BY <1>2, <2>0, WalkTyped
  <2>3. \A g \in Heights, e \in Forks : Canonical(g, e)' => Canonical(g, e) \/ (g = h /\ e = 1)
    BY <2>1 DEF Canonical
  <2>4. \A g \in Heights, e \in Forks :
           blocks'[g][e] # "absent" => e = 1 /\ g <= length /\ Canonical(g, e)'
    BY <1>2, <2>1 DEF QuietInv, Canonical
  <2>5. head < h
    BY <1>2 DEF QuietInv
  <2>6. Covered(head)'
    <3> SUFFICES ASSUME NEW p \in Payments, NEW b \in InBlock[p],
                        start < b[1], b[1] <= head, Canonical(b[1], b[2])'
                 PROVE  rows[p] # 0
      BY <1>2 DEF Covered
    <3>1. b[1] \in Heights /\ b[2] \in Forks
      BY WatcherAssumption
    <3>2. b[1] # h
      BY <1>2, <2>5
    <3> QED
      BY <2>3, <3>1, <3>2 DEF QuietInv, Covered
  <2>7. ASSUME NEW g \in CanonicalHeights', g < h + 1 PROVE g <= head \/ g <= start \/ walk'.got[g] # 0
    <3>1. CASE g = h
      BY <2>2, <3>1
    <3>2. CASE g # h
      <4>1. g \in Heights /\ g < h /\ CanonicalAt(g)
        BY <1>2, <2>3, <2>7, <3>2 DEF CanonicalHeights, CanonicalAt, Heights
      <4> QED
        BY <1>2, <2>2, <3>2, <4>1 DEF QuietInv, CanonicalHeights
    <3> QED
      BY <3>1, <3>2
  <2>8. \A g \in Heights : walk'.got[g] # 0 => walk'.got[g] = 1 /\ g <= length
    BY <1>2, <2>2 DEF QuietInv
  <2>9. walk'.phase \in {"logs", "headers"} /\ (walk'.phase = "logs" => walk'.next = walk'.target + 1)
    BY <2>0
  <2>10. head' < walk'.next
    BY <1>2, <2>0, <2>5
  <2> QED
    BY <1>2, <2>0, <2>4, <2>6, <2>7, <2>8, <2>9, <2>10 DEF QuietInv
<1> QED
  BY <1>1, <1>2, <1>3, <1>4 DEF HeaderMove

\* The span is read as a whole before the checkpoint moves past it.
LEMMA LogsKeepQuiet ==
    ASSUME StoreInv, QuietInv, ReadLogs
    PROVE  QuietInv'
<1>1. /\ blocks' = blocks /\ head' = head /\ branch' = branch /\ length' = length /\ start' = start
      /\ walk.phase = "logs" /\ walk' = [walk EXCEPT !.phase = "checkpoint"]
      /\ rows' = [p \in Payments |->
             IF rows[p] # 0 \/ Sightings(p) = {} THEN rows[p]
             ELSE CHOOSE h \in Sightings(p) : TRUE]
  BY DEF ReadLogs, Goto, chainVars, netVars, coldVars
<1>2. /\ walk'.phase = "checkpoint" /\ walk'.got = walk.got
      /\ walk'.next = walk.next /\ walk'.target = walk.target
  BY <1>1, WalkTyped DEF Walks
<1>3. \A p \in Payments : /\ rows[p] # 0 => rows'[p] # 0
                          /\ Sightings(p) # {} => rows'[p] # 0
  <2>1. \A p \in Payments : \A h \in Sightings(p) : h # 0
    BY DEF Sightings, Heights
  <2> QED
    BY <1>1, <2>1
<1>4. Covered(head)'
  BY <1>1, <1>3 DEF QuietInv, Covered, Canonical
<1>5. Covered(walk.target)'
  <2> SUFFICES ASSUME NEW p \in Payments, NEW b \in InBlock[p],
                      start < b[1], b[1] <= walk.target, Canonical(b[1], b[2])
               PROVE  rows'[p] # 0
    BY <1>1, <1>2 DEF Covered, Canonical
  <2>1. b[1] \in Heights /\ b[2] \in Forks /\ b = <<b[1], b[2]>>
    BY WatcherAssumption
  <2>2. b[2] = 1 /\ b[1] \in CanonicalHeights
    BY <2>1, QuietStands DEF QuietInv, Canonical, CanonicalHeights, CanonicalAt
  <2>3. b[1] < walk.next /\ ~(b[1] <= start)
    <3>1. b[1] \in Nat /\ start \in Nat
      BY <2>1, ChainAssumption DEF StoreInv, WatcherTypeOK, Heights
    <3>2. b[1] < walk.next
      BY <1>1, <2>1, WalkTyped DEF QuietInv, Heights
    <3> QED
      BY <3>1, <3>2
  <2>4. CASE b[1] <= head
    BY <1>3, <2>4 DEF QuietInv, Covered
  <2>5. CASE walk.got[b[1]] # 0
    <3>1. walk.got[b[1]] = 1 /\ b[1] <= length /\ <<b[1], 1>> \in InBlock[p]
      BY <2>1, <2>2, <2>5 DEF QuietInv
    <3>2. b[1] \in Sightings(p)
      BY <2>1, <3>1, QuietStands DEF Sightings, Verified, Serves, Heights
    <3> QED
      BY <1>3, <3>2
  <2> QED
    BY <1>1, <2>2, <2>3, <2>4, <2>5 DEF QuietInv
<1>6. head' < walk'.next /\ walk'.next = walk'.target + 1
  BY <1>1, <1>2 DEF QuietInv
<1> QED
  BY <1>1, <1>2, <1>4, <1>5, <1>6 DEF QuietInv, Canonical

LEMMA CheckpointKeepsQuiet ==
    ASSUME StoreInv, QuietInv, MoveCheckpoint \/ PromoteDeep \/ PromoteFinalized
    PROVE  QuietInv'
<1>1. branch' = branch /\ length' = length /\ rows' = rows /\ start' = start
  BY DEF MoveCheckpoint, PromoteDeep, PromoteFinalized, netVars, coldVars
<1>2. /\ walk'.phase \in {"promote", "finalize", "idle"}
      /\ \A h \in Heights : walk'.got[h] = walk.got[h] \/ walk'.got[h] = 0
  <2>1. Goto("promote") \/ Goto("finalize") \/ Finish(FALSE)
    BY DEF MoveCheckpoint, PromoteDeep, PromoteFinalized
  <2> QED
    BY <2>1, WalkTyped DEF Goto, Finish, AtRest, NoHeaders, Walks
<1>3. \A h \in Heights, f \in Forks :
         /\ Canonical(h, f)' <=> Canonical(h, f)
         /\ blocks'[h][f] # "absent" => blocks[h][f] # "absent"
  <2>1. CASE MoveCheckpoint
    BY <2>1 DEF MoveCheckpoint, SetCheckpoint, Canonical
  <2>2. CASE PromoteDeep \/ PromoteFinalized
    <3>1. \E n : PromoteUpTo(n)
      BY <2>2 DEF PromoteDeep, PromoteFinalized
    <3> QED
      BY <3>1, PromoteKept DEF Canonical
  <2> QED
    BY <2>1, <2>2
<1>4. head' = head \/ (walk.phase = "checkpoint" /\ head' = walk.target)
  <2>1. CASE MoveCheckpoint
    BY <2>1 DEF MoveCheckpoint, SetCheckpoint
  <2>2. CASE PromoteDeep \/ PromoteFinalized
    <3>1. \E n : PromoteUpTo(n)
      BY <2>2 DEF PromoteDeep, PromoteFinalized
    <3> QED
      BY <3>1, PromoteKept
  <2> QED
    BY <2>1, <2>2
<1>5. Covered(head)'
  <2>1. Covered(head')
    BY <1>4 DEF QuietInv
  <2> SUFFICES ASSUME NEW p \in Payments, NEW b \in InBlock[p],
                      start < b[1], b[1] <= head', Canonical(b[1], b[2])'
               PROVE  rows[p] # 0
    BY <1>1 DEF Covered
  <2>2. b[1] \in Heights /\ b[2] \in Forks
    BY WatcherAssumption
  <2> QED
    BY <1>3, <2>1, <2>2 DEF Covered
<1>6. /\ branch' = 1
      /\ \A h \in Heights, f \in Forks :
            blocks'[h][f] # "absent" => f = 1 /\ h <= length' /\ Canonical(h, f)'
      /\ \A h \in Heights : walk'.got[h] # 0 => walk'.got[h] = 1 /\ h <= length'
  BY <1>1, <1>2, <1>3 DEF QuietInv
<1> QED
  BY <1>2, <1>5, <1>6 DEF QuietInv

LEMMA EveryStepKeepsQuiet ==
    StoreInv /\ QuietInv /\ [WatcherNext]_vars /\ UNCHANGED switches => QuietInv'
<1> SUFFICES ASSUME StoreInv, QuietInv, [WatcherNext]_vars, UNCHANGED switches
             PROVE  QuietInv'
  OBVIOUS
<1>1. CASE ScanDown \/ OrphanBranch \/ Rewind \/ TooDeep
  BY <1>1 DEF ScanDown, OrphanBranch, Rewind, TooDeep, QuietInv
<1>2. CASE HeightGone \/ StepDies
  <2>1. Finish(FALSE) /\ UNCHANGED <<blocks, head, branch, length, rows, start>>
    BY <1>2 DEF HeightGone, StepDies, chainVars, netVars, coldVars
  <2> QED
    BY <2>1, FinishKeepsQuiet
<1>3. CASE Grows
  <2>1. UNCHANGED <<blocks, head, branch, rows, walk, start>> /\ length' = length + 1
    BY <1>3 DEF Grows, chainVars, coldVars
  <2>2. \A h \in Heights : h <= length => h <= length'
    BY <2>1, WalkTyped DEF Heights
  <2>3. CanonicalHeights' = CanonicalHeights /\ \A n : Covered(n)' <=> Covered(n)
    BY <2>1 DEF Covered, CanonicalHeights, CanonicalAt, Canonical
  <2> QED
    BY <2>1, <2>2, <2>3 DEF QuietInv, Canonical, Covered
<1>4. CASE \E b \in Forks, to \in Heights : Switch(b, to)
  BY <1>4, WalkTyped DEF Switch
<1>5. CASE UNCHANGED vars
  BY <1>5 DEF vars, chainVars, netVars, coldVars, QuietInv, Covered, CanonicalHeights, CanonicalAt, Canonical
<1>6. CASE Step /\ ~(ScanDown \/ OrphanBranch \/ Rewind \/ TooDeep) /\ ~HeightGone
  BY <1>6, BeginKeepsQuiet, TailKeepsQuiet, HeaderKeepsQuiet, LogsKeepQuiet,
     CheckpointKeepsQuiet DEF Step
<1> QED
  BY <1>1, <1>2, <1>3, <1>4, <1>5, <1>6 DEF WatcherNext

LEMMA QuietAtStart == WatcherInit => QuietInv
<1> SUFFICES ASSUME WatcherInit PROVE QuietInv
  OBVIOUS
<1>1. /\ branch = 1 /\ walk.phase = "idle" /\ \A h \in Heights : walk.got[h] = 0
      /\ \A h \in Heights, f \in Forks : blocks[h][f] = "absent"
      /\ head = 0
  BY DEF WatcherInit, ChainInit, AtRest, NoHeaders
<1>2. Covered(head)
  BY <1>1, WatcherAssumption DEF Covered, Canonical
<1> QED
  BY <1>1, <1>2 DEF QuietInv

\* As long as the network keeps to its branch, the checkpoint never is past a transfer
\* that has no row, of the heights the walker has set out for, whenever the process
\* dies and whatever requests fail; for any lookback, also one far shorter than the chain.
THEOREM CrashTheorem == WatcherSpec => []CrashLosesNothing
<1>1. WatcherInit => CrashInv
  BY StoreAtStart, QuietAtStart DEF CrashInv
<1>2. CrashInv /\ [WatcherNext]_vars => CrashInv'
  <2> SUFFICES ASSUME CrashInv, [WatcherNext]_vars PROVE CrashInv'
    OBVIOUS
  <2>1. StoreInv /\ StoreInv'
    BY EveryStepKeepsStore DEF CrashInv
  <2>2. switches' = 0 => switches = 0
    <3>1. CASE \E b \in Forks, to \in Heights : Switch(b, to)
      BY <2>1, <3>1, WalkTyped DEF Switch
    <3>2. CASE ~\E b \in Forks, to \in Heights : Switch(b, to)
      BY <3>2 DEF WatcherNext, Step, StepBegin, VerifyTail, TailUnanswered, ReadHeader, ReadLogs,
                  MoveCheckpoint, PromoteDeep, PromoteFinalized, ScanDown, OrphanBranch, Rewind,
                  TooDeep, HeightGone, StepDies, Grows, netVars, coldVars, vars
    <3> QED
      BY <3>1, <3>2
  <2>3. CASE switches' = 0
    BY <2>1, <2>2, <2>3, EveryStepKeepsQuiet DEF CrashInv
  <2> QED
    BY <2>1, <2>3 DEF CrashInv
<1>3. CrashInv => CrashLosesNothing
  BY DEF CrashInv, QuietInv, CrashLosesNothing, Covered
<1> QED
  BY <1>1, <1>2, <1>3, PTL DEF WatcherSpec

-----------------------------------------------------------------------------
\* A block of the tree below another one of its branch.
LEMMA SameBranch ==
    \A b, h, k \in Int : h <= k => /\ ForkOn(ForkOn(b, k), h) = ForkOn(b, h)
                                   /\ h <= ForkAt => ForkOn(b, h) = 1
                                   /\ h > ForkAt => ForkOn(b, h) = b
BY WatcherAssumption, ChainAssumption DEF ForkOn

LEMMA CanonicalStands ==
    \A h \in CanonicalHeights : /\ h \in Heights /\ h \in Nat /\ StoredFork(h) \in Forks
                                /\ StoredFork(h) \in Nat /\ Canonical(h, StoredFork(h))
BY StoredForkStands DEF CanonicalHeights, Heights, Forks

LEMMA IsCanonical ==
    \A h \in Heights, f \in Forks : Canonical(h, f) => h \in CanonicalHeights
BY DEF CanonicalHeights, CanonicalAt

LEMMA ChainTyped ==
    ASSUME ChainInv
    PROVE  /\ branch \in Forks /\ head \in Nat /\ ForkAt \in Nat
           /\ \A h \in Heights : h \in Nat /\ h - 1 \in Nat
           /\ \A f \in Forks : f \in Nat /\ 1 <= f
<1>1. branch \in Forks /\ head \in Nat
  BY WalkTyped DEF ChainInv
<1>2. \A h \in Heights : h \in Nat /\ h - 1 \in Nat
  BY ChainAssumption DEF Heights
<1> QED
  BY <1>1, <1>2, ChainAssumption, WatcherAssumption DEF Forks

\* Where the provider has another block than the store, the network has left the
\* branch of the stored one; and a block it serves is not orphaned.
LEMMA ServedStands ==
    ASSUME ChainInv, NEW h \in Heights
    PROVE  /\ Served(h) \in Forks /\ Served(h) <= branch /\ (h <= ForkAt => Served(h) = 1)
           /\ blocks[h][Served(h)] # "orphaned"
           /\ \A f \in Forks : Canonical(h, f) /\ f # Served(h) => h > ForkAt /\ f < branch
<1>1. /\ branch \in Forks /\ branch \in Nat /\ 1 <= branch /\ Served(h) \in Forks
      /\ ForkAt \in Nat /\ h \in Nat /\ \A f \in Forks : f \in Nat
  <2>1. Served(h) \in Forks
    BY WalkTyped DEF ChainInv
  <2> QED
    BY <2>1, ChainTyped
<1>2. (h <= ForkAt => Served(h) = 1) /\ (h > ForkAt => Served(h) = branch)
  BY <1>1 DEF Served, ForkOn
<1>3. Served(h) <= branch
  BY <1>1, <1>2
<1>4. \A f \in Forks : blocks[h][f] # "absent" => f <= branch /\ (h <= ForkAt => f = 1)
  BY DEF ChainInv, InOrder
<1>5. blocks[h][Served(h)] # "orphaned"
  BY <1>1, <1>2 DEF ChainInv, InOrder
<1>6. ASSUME NEW f \in Forks, Canonical(h, f), f # Served(h) PROVE h > ForkAt /\ f < branch
  <2>1. f <= branch /\ (h <= ForkAt => f = 1) /\ f \in Nat
    BY <1>1, <1>4, <1>6 DEF Canonical
  <2> QED
    BY <1>1, <1>2, <1>6, <2>1
<1> QED
  BY <1>1, <1>2, <1>3, <1>5, <1>6

\* One block of a left branch, and so is everything stored in the same run above it.
LEMMA LeftAbove ==
    ASSUME ChainInv, NEW n \in Nat, Unbroken(n),
           NEW h \in Heights, h \in {n, n + 1}, NEW e \in Forks,
           Canonical(h, e), h > ForkAt, e < branch
    PROVE  LeftFrom(h)
<1> SUFFICES ASSUME NEW g \in Heights, NEW f \in Forks, g >= h, Canonical(g, f)
             PROVE  g > ForkAt /\ f < branch
  BY DEF LeftFrom
<1>1. g \in Nat /\ h \in Nat /\ ForkAt \in Nat /\ e \in Int /\ f \in Int
  BY WatcherAssumption, ChainAssumption DEF Heights, Forks
<1>2. g \in CanonicalHeights /\ h \in CanonicalHeights
  BY IsCanonical
<1>3. h..g \subseteq CanonicalHeights
  <2>1. n + 1..g \subseteq CanonicalHeights
    BY <1>2 DEF Unbroken
  <2>2. \A k \in h..g : k = h \/ k \in n + 1..g
    BY <1>1
  <2> QED
    BY <1>2, <2>1, <2>2
<1>4. e = ForkOn(f, h)
  BY <1>1, <1>3 DEF ChainInv, OneBranch
<1> QED
  BY <1>1, <1>4 DEF ForkOn

-----------------------------------------------------------------------------
\* What a step keeps that makes no block canonical and orphans none.
SameChain == \A h \in Heights, f \in Forks :
    /\ Canonical(h, f)' <=> Canonical(h, f)
    /\ blocks'[h][f] = blocks[h][f] \/ Canonical(h, f)

LEMMA ChainKept ==
    ASSUME ChainInv, StoreInv', SameChain, branch' >= branch
    PROVE  InOrder' /\ OneBranch' /\ CanonicalHeights' = CanonicalHeights
<1>1. CanonicalHeights' = CanonicalHeights
  BY DEF SameChain, CanonicalHeights, CanonicalAt
<1>2. OneBranch'
  BY <1>1 DEF ChainInv, OneBranch, SameChain
<1>3. branch \in Nat /\ branch' \in Nat /\ \A f \in Forks : f \in Nat
  BY DEF ChainInv, StoreInv, WatcherTypeOK, Forks
<1>4. ASSUME NEW h \in Heights, NEW f \in Forks
      PROVE  /\ blocks'[h][f] # "absent" => f <= branch' /\ (h <= ForkAt => f = 1)
             /\ blocks'[h][f] = "orphaned" => h > ForkAt /\ f < branch'
  <2>1. /\ blocks'[h][f] # "absent" => blocks[h][f] # "absent"
        /\ blocks'[h][f] = "orphaned" => blocks[h][f] = "orphaned"
    BY DEF SameChain, Canonical
  <2>2. /\ blocks[h][f] # "absent" => f <= branch /\ (h <= ForkAt => f = 1)
        /\ blocks[h][f] = "orphaned" => h > ForkAt /\ f < branch
    BY DEF ChainInv, InOrder
  <2> QED
    BY <1>3, <2>1, <2>2
<1> QED
  BY <1>1, <1>2, <1>4 DEF InOrder

LEMMA SameBlocks == UNCHANGED blocks => SameChain
BY DEF SameChain, Canonical

\* A step that ends the walk, or leaves it where it makes no claim any more.
LEMMA RestKeepsChain ==
    ASSUME ChainInv, StoreInv', SameChain, branch' >= branch,
           head' = head \/ Unbroken(head'),
           walk'.phase \in {"idle", "promote", "finalize", "stopped"}
    PROVE  ChainInv'
<1>1. InOrder' /\ OneBranch' /\ CanonicalHeights' = CanonicalHeights
  BY ChainKept
<1>2. Started' => Unbroken(head)'
  BY <1>1 DEF ChainInv, Started, Unbroken
<1> QED
  BY <1>1, <1>2 DEF ChainInv

LEMMA BeginKeepsChain ==
    ASSUME ChainInv, StoreInv', ~sunk', StepBegin
    PROVE  ChainInv'
<1>0. head = 0 => Unbroken(EffectiveCheckpoint)
  <2>1. sunk' = (sunk \/ (head = 0 /\ ~Unbroken(EffectiveCheckpoint)))
    BY DEF StepBegin
  <2> QED
    BY <2>1, Zenon
<1>1. /\ head > 0 => EffectiveCheckpoint = head
      /\ head = 0 => Unbroken(EffectiveCheckpoint)
      /\ EffectiveCheckpoint \in Nat /\ head \in Nat
      /\ walk'.phase = "tail" /\ walk'.next = EffectiveCheckpoint + 1
      /\ blocks' = blocks /\ head' = head /\ branch' = branch /\ walk.phase = "idle"
  BY <1>0, BeginStep, WalkTyped DEF ChainInv, StepBegin, chainVars, netVars
<1>2. InOrder' /\ OneBranch' /\ CanonicalHeights' = CanonicalHeights
  BY <1>1, ChainKept, SameBlocks, WalkTyped DEF ChainInv, Forks
<1>3. Started => EffectiveCheckpoint = head
  BY <1>1 DEF Started
<1>4. walk'.next - 1 = EffectiveCheckpoint
  BY <1>1
<1>5. Unbroken(EffectiveCheckpoint)
  <2>1. CASE Started
    BY <1>3, <2>1 DEF ChainInv
  <2>2. CASE ~Started
    BY <1>1, <2>2 DEF Started
  <2> QED
    BY <2>1, <2>2
<1>6. Started' <=> Started
  BY <1>1 DEF Started
<1>7. Started' => Unbroken(head)'
  BY <1>1, <1>2, <1>6 DEF ChainInv, Unbroken
<1>8. Unbroken(walk.next - 1)'
  BY <1>2, <1>4, <1>5 DEF Unbroken
<1>9. Started' => walk'.next = head' + 1
  BY <1>1, <1>3, <1>6
<1> QED
  BY <1>1, <1>2, <1>7, <1>8, <1>9 DEF ChainInv

LEMMA TailKeepsChain ==
    ASSUME ChainInv, StoreInv', VerifyTail \/ TailUnanswered
    PROVE  ChainInv'
<1>1. /\ blocks' = blocks /\ head' = head /\ branch' = branch /\ walk.phase = "tail"
      /\ branch' >= branch /\ SameChain
  BY SameBlocks, WalkTyped DEF ChainInv, VerifyTail, TailUnanswered, chainVars, netVars, coldVars, Forks
<1>2. InOrder' /\ OneBranch' /\ CanonicalHeights' = CanonicalHeights
  BY <1>1, ChainKept
<1>3. (Started' <=> Started) /\ (Started' => Unbroken(head)')
  BY <1>1, <1>2 DEF ChainInv, Unbroken, Started
<1>4. CASE Finish(FALSE)
  <2>1. walk'.phase = "idle"
    BY <1>4 DEF Finish, AtRest
  <2> QED
    BY <1>1, <2>1, RestKeepsChain
<1>5. CASE Goto("headers")
  <2>1. walk'.phase = "headers" /\ walk'.next = walk.next
    BY <1>5, WalkTyped DEF ChainInv, Goto, Walks
  <2> QED
    BY <1>1, <1>2, <1>3, <2>1 DEF ChainInv, Unbroken
<1>6. CASE RollBackFrom(LatestCanonical) /\ ~TailStands
  <2>1. /\ walk'.phase = "rollback" /\ walk'.next = LatestCanonical
    BY <1>6, WalkTyped DEF ChainInv, RollBackFrom, Walks
  <2>2. LatestCanonical \in Nat /\ \A h \in CanonicalHeights : h \in Nat /\ h <= LatestCanonical
    BY <1>6, LatestStands, CanonicalStands DEF TailStands
  <2>3. Unbroken(walk.next)'
    BY <1>2, <2>1, <2>2 DEF Unbroken
  <2>4. LeftFrom(walk.next + 1)'
    <3> SUFFICES ASSUME NEW h \in Heights, NEW f \in Forks,
                        h >= LatestCanonical + 1, Canonical(h, f)'
                 PROVE  FALSE
      BY <2>1 DEF LeftFrom
    <3>1. h \in CanonicalHeights
      BY <1>1, IsCanonical DEF Canonical
    <3> QED
      BY <2>2, <3>1
  <2> QED
    BY <1>2, <1>3, <2>1, <2>3, <2>4 DEF ChainInv
<1> QED
  BY <1>4, <1>5, <1>6 DEF VerifyTail, TailUnanswered, WalkOn

\* A header that contradicts the store: its branch is not that of the block below, or
\* of the block that stands in its place, nor then that of anything stored above.
LEMMA ContradictionKeepsChain ==
    ASSUME ChainInv, StoreInv', NEW h, NEW f, HeaderMove(h, f), Contradicts(h),
           RollBackFrom(h - 1), UNCHANGED chainVars
    PROVE  ChainInv'
<1>1. /\ blocks' = blocks /\ head' = head /\ branch' = branch /\ branch' >= branch
      /\ SameChain /\ h \in Heights /\ h \in Nat /\ h - 1 \in Nat /\ f = Served(h)
      /\ walk.phase = "headers" /\ h = walk.next
      /\ branch \in Forks /\ branch \in Nat /\ ForkAt \in Nat
  <2>1. /\ blocks' = blocks /\ head' = head /\ branch' = branch /\ h \in Heights
        /\ f = Served(h) /\ walk.phase = "headers" /\ h = walk.next
    BY DEF HeaderMove, chainVars, netVars, coldVars
  <2>2. branch \in Forks /\ branch \in Nat /\ ForkAt \in Nat /\ h \in Nat /\ h - 1 \in Nat
    BY <2>1, ChainTyped
  <2> QED
    BY <2>1, <2>2, SameBlocks
<1>2. InOrder' /\ OneBranch' /\ CanonicalHeights' = CanonicalHeights
  BY <1>1, ChainKept
<1>3. Started' => Unbroken(head)'
  BY <1>1, <1>2 DEF ChainInv, Unbroken, Started
<1>4. Unbroken(h - 1)
  BY <1>1 DEF ChainInv
<1>5. LeftFrom(h)
  <2>1. CASE ParentStored(h)
    <3> DEFINE e == StoredFork(h - 1)
    <3>1. h > 1 /\ h - 1 \in Heights /\ h - 1 \in CanonicalHeights /\ e # ParentOf(h, Served(h))
      <4>1. h > 1 /\ CanonicalAt(h - 1) /\ StoredFork(h - 1) # ParentOf(h, Served(h))
        BY <2>1 DEF Contradicts, ParentStored
      <4>2. h - 1 \in Heights
        BY <1>1, <4>1, ChainAssumption DEF Heights
      <4> QED
        BY <4>1, <4>2 DEF CanonicalHeights
    <3>2. e \in Forks /\ Canonical(h - 1, e)
      BY <3>1, CanonicalStands
    <3>3. ParentOf(h, Served(h)) = Served(h - 1)
      BY <1>1, SameBranch DEF ParentOf, Served
    <3>4. h - 1 > ForkAt /\ e < branch
      BY <3>1, <3>2, <3>3, ServedStands
    <3>5. LeftFrom(h - 1)
      BY <1>1, <1>4, <3>1, <3>2, <3>4, LeftAbove
    <3> QED
      BY <1>1, <3>5 DEF LeftFrom, Heights
  <2>2. CASE ~ParentStored(h)
    <3> DEFINE e == StoredFork(h)
    <3>1. h \in CanonicalHeights /\ e # Served(h)
      BY <1>1, <2>2 DEF Contradicts, CanonicalHeights
    <3>2. e \in Forks /\ Canonical(h, e)
      BY <3>1, CanonicalStands
    <3>3. h > ForkAt /\ e < branch
      BY <1>1, <3>1, <3>2, ServedStands
    <3>4. h = (h - 1) + 1
      BY <1>1
    <3> QED
      BY <1>1, <1>4, <3>2, <3>3, <3>4, LeftAbove
  <2> QED
    BY <2>1, <2>2
<1>6. walk'.phase = "rollback" /\ walk'.next = h - 1
  BY WalkTyped DEF ChainInv, RollBackFrom, Walks
<1>7. Unbroken(walk.next)'
  BY <1>2, <1>4, <1>6 DEF Unbroken
<1>8. LeftFrom(walk.next + 1)'
  <2>1. walk'.next + 1 = h
    BY <1>1, <1>6
  <2> QED
    BY <1>1, <1>5, <2>1 DEF LeftFrom, Canonical
<1> QED
  BY <1>2, <1>3, <1>6, <1>7, <1>8 DEF ChainInv

\* The header goes on top of everything that is stored, onto a block of its branch.
LEMMA HeadedKeepsChain ==
    ASSUME ChainInv, StoreInv', NEW h, NEW f, HeaderMove(h, f), Headed(h, f)
    PROVE  ChainInv'
<1>1. /\ h \in Heights /\ h \in Nat /\ f \in Forks /\ f \in Nat /\ f = Served(h)
      /\ head' = head /\ branch' = branch /\ branch' >= branch
      /\ walk.phase = "headers" /\ h = walk.next /\ ~Contradicts(h)
      /\ branch \in Forks /\ branch \in Nat /\ ForkAt \in Nat /\ head \in Nat
      /\ walk'.next = h + 1 /\ walk'.target = walk.target
      /\ walk'.phase = IF h = walk.target THEN "logs" ELSE "headers"
  <2>1. /\ h \in Heights /\ f \in Forks /\ f = Served(h)
        /\ head' = head /\ branch' = branch
        /\ walk.phase = "headers" /\ h = walk.next /\ ~Contradicts(h)
        /\ walk'.next = h + 1 /\ walk'.target = walk.target
        /\ walk'.phase = IF h = walk.target THEN "logs" ELSE "headers"
    BY DEF HeaderMove, Headed, netVars, coldVars
  <2>2. branch \in Forks /\ branch \in Nat /\ ForkAt \in Nat /\ head \in Nat /\ h \in Nat /\ f \in Nat
    BY <2>1, ChainTyped
  <2> QED
    BY <2>1, <2>2
<1>2. Unbroken(h - 1)
  BY <1>1 DEF ChainInv
<1>3. \A g \in Heights, e \in Forks :
         /\ Canonical(g, e)' <=> Canonical(g, e) \/ (g = h /\ e = f)
         /\ blocks'[g][e] = blocks[g][e] \/ (g = h /\ e = f)
  <2>1. CASE \E status : WriteHeader(h, f, status)
    BY <1>1, <2>1, WriteKept DEF ChainInv, Canonical
  <2>2. CASE blocks[h][f] # "absent" /\ UNCHANGED chainVars
    <3>1. Canonical(h, f)
      BY <1>1, <2>2, ServedStands, WalkTyped DEF ChainInv, Canonical, BlockStatus
    <3> QED
      BY <2>2, <3>1 DEF chainVars, Canonical
  <2> QED
    BY <2>1, <2>2 DEF Headed
<1>4. CanonicalHeights' = CanonicalHeights \cup {h}
  BY <1>1, <1>3 DEF CanonicalHeights, CanonicalAt
<1>5. \A g \in CanonicalHeights : g > h => h \in CanonicalHeights
  <2>1. \A g \in CanonicalHeights : g > h => h \in h - 1 + 1..g
    BY <1>1, CanonicalStands
  <2> QED
    BY <1>2, <2>1 DEF Unbroken
<1>6. \A n \in Nat : Unbroken(n) /\ (n = h - 1 \/ n = h \/ (n < h /\ h - 1 \in CanonicalHeights))
                     => Unbroken(n)'
  <2> SUFFICES ASSUME NEW n \in Nat, Unbroken(n),
                      n = h - 1 \/ n = h \/ (n < h /\ h - 1 \in CanonicalHeights),
                      NEW g \in CanonicalHeights', NEW k \in n + 1..g
               PROVE  k \in CanonicalHeights \cup {h}
    BY <1>4 DEF Unbroken
  <2>1. CASE g \in CanonicalHeights
    BY <2>1 DEF Unbroken
  <2>2. CASE g = h
    <3>1. k = h \/ (k \in n + 1..h - 1 /\ h - 1 \in CanonicalHeights)
      BY <1>1, <2>2
    <3> QED
      BY <3>1 DEF Unbroken
  <2> QED
    BY <1>4, <2>1, <2>2
<1>7. InOrder'
  <2> SUFFICES ASSUME NEW g \in Heights, NEW e \in Forks
               PROVE  /\ blocks'[g][e] # "absent" => e <= branch /\ (g <= ForkAt => e = 1)
                      /\ blocks'[g][e] = "orphaned" => g > ForkAt /\ e < branch
    BY <1>1 DEF InOrder
  <2>1. CASE g = h /\ e = f
    <3>1. blocks'[g][e] # "orphaned"
      BY <1>3, <2>1 DEF Canonical
    <3> QED
      BY <1>1, <2>1, <3>1, ServedStands
  <2>2. CASE ~(g = h /\ e = f)
    BY <1>3, <2>2 DEF ChainInv, InOrder
  <2> QED
    BY <2>1, <2>2
<1>8. OneBranch'
  <2> SUFFICES ASSUME NEW g \in Heights, NEW d \in Heights, NEW e \in Forks, NEW c \in Forks,
                      d <= g, Canonical(g, c)', Canonical(d, e)',
                      d..g \subseteq CanonicalHeights'
               PROVE  e = ForkOn(c, d)
    BY DEF OneBranch
  <2>0. /\ g \in Nat /\ d \in Nat /\ e \in Nat /\ c \in Nat
        /\ \A i \in Heights, a, b \in Forks : Canonical(i, a)' /\ Canonical(i, b)' => a = b
    BY DEF Heights, Forks, StoreInv
  <2>1. CASE d..g \subseteq CanonicalHeights
    <3>1. \A i \in {d, g} : \A a \in Forks : Canonical(i, a)' => Canonical(i, a)
      <4>1. d \in CanonicalHeights /\ g \in CanonicalHeights
        BY <2>0, <2>1
      <4>2. \A i \in {d, g} : Canonical(i, StoredFork(i)) /\ StoredFork(i) \in Forks
        BY <4>1, CanonicalStands
      <4>3. ASSUME NEW i \in {d, g}, NEW a \in Forks, Canonical(i, a)' PROVE Canonical(i, a)
        <5>1. i \in Heights /\ Canonical(i, StoredFork(i)) /\ StoredFork(i) \in Forks
          BY <4>2
        <5>2. Canonical(i, StoredFork(i))
          BY <5>1
        <5>3. PICK b \in Forks : b = StoredFork(i)
          BY <5>1
        <5>4. Canonical(i, b)'
          BY <1>3, <5>1, <5>3
        <5>5. a = b
          BY <2>0, <4>3, <5>1, <5>4
        <5> QED
          BY <5>2, <5>3, <5>5
      <4> QED
        BY <4>3
    <3> QED
      BY <2>1, <3>1 DEF ChainInv, OneBranch
  <2>2. CASE ~(d..g \subseteq CanonicalHeights)
    <3>1. h \in d..g /\ h \notin CanonicalHeights
      BY <1>4, <2>2
    <3>2. g = h
      <4>1. g \in CanonicalHeights \cup {h}
        BY <1>4, <2>0
      <4> QED
        BY <1>1, <1>5, <2>0, <3>1, <4>1
    <3>3. c = f
      BY <1>1, <1>3, <2>0, <3>2
    <3>4. CASE d = h
      <4>1. e = f
        BY <1>1, <1>3, <2>0, <3>4
      <4> QED
        BY <1>1, <3>3, <3>4, <4>1, SameBranch DEF Served
    <3>5. CASE d < h
      <4>1. h - 1 \in CanonicalHeights /\ d..h - 1 \subseteq CanonicalHeights
        <5>1. \A i \in d..h - 1 : i \in d..g /\ i # h
          BY <1>1, <2>0, <3>2
        <5>2. h - 1 \in d..h - 1
          BY <1>1, <2>0, <3>5
        <5> QED
          BY <1>4, <5>1, <5>2
      <4>2. ParentStored(h)
        BY <1>1, <2>0, <3>5, <4>1 DEF ParentStored, CanonicalHeights, Heights
      <4>3. StoredFork(h - 1) = ForkOn(branch, h - 1)
        BY <1>1, <4>2, SameBranch DEF Contradicts, ParentOf, Served
      <4>4. h - 1 \in Heights /\ StoredFork(h - 1) \in Forks /\ Canonical(h - 1, StoredFork(h - 1))
        BY <4>1, CanonicalStands
      <4>5. Canonical(d, e) /\ d <= h - 1
        BY <1>1, <1>3, <2>0, <3>5
      <4>6. e = ForkOn(StoredFork(h - 1), d)
        BY <4>1, <4>4, <4>5 DEF ChainInv, OneBranch
      <4>7. ForkOn(ForkOn(branch, h - 1), d) = ForkOn(branch, d)
        BY <1>1, <2>0, <4>5, SameBranch
      <4>8. ForkOn(ForkOn(branch, h), d) = ForkOn(branch, d)
        BY <1>1, <2>0, <3>5, SameBranch
      <4> QED
        BY <1>1, <3>3, <4>3, <4>6, <4>7, <4>8 DEF Served
    <3> QED
      BY <1>1, <2>0, <3>2, <3>4, <3>5
  <2> QED
    BY <2>1, <2>2
<1>9. Started => head < h /\ (head = h - 1 \/ h - 1 \in CanonicalHeights)
  BY <1>1 DEF ChainInv
<1>10. Started' <=> Started
  BY <1>1 DEF Started
<1>11. Started' => Unbroken(head)'
  <2>1. Started => Unbroken(head)
    BY DEF ChainInv
  <2>2. PICK n : n = head
    OBVIOUS
  <2>3. Started => Unbroken(n)'
    BY <1>1, <1>6, <1>9, <2>1, <2>2
  <2> QED
    BY <1>1, <1>10, <2>2, <2>3 DEF Unbroken
<1>12. Unbroken(h)'
  <2>1. Unbroken(h)
    <3> SUFFICES ASSUME NEW g \in CanonicalHeights, NEW k \in h + 1..g
                 PROVE  k \in CanonicalHeights
      BY DEF Unbroken
    <3>1. k \in h - 1 + 1..g
      BY <1>1, CanonicalStands
    <3> QED
      BY <1>2, <3>1 DEF Unbroken
  <2> QED
    BY <1>1, <1>6, <2>1
<1>13. Unbroken(walk.next - 1)' /\ (walk'.phase = "logs" => Unbroken(walk.target)')
  <2>1. walk'.next - 1 = h /\ (walk'.phase = "logs" => walk'.target = h)
    BY <1>1
  <2> QED
    BY <1>12, <2>1 DEF Unbroken
<1>14. Started' => head' < walk'.next /\ walk'.next - 1 \in CanonicalHeights'
  BY <1>1, <1>4, <1>9, <1>10
<1> QED
  BY <1>1, <1>7, <1>8, <1>11, <1>13, <1>14 DEF ChainInv

LEMMA HeaderKeepsChain ==
    ASSUME ChainInv, StoreInv', ReadHeader
    PROVE  ChainInv'
<1>1. StoreInv
  BY DEF ChainInv
<1>2. PICK h, f : HeaderMove(h, f)
  BY <1>1, HeaderStep
<1>3. CASE Contradicts(h) /\ RollBackFrom(h - 1) /\ UNCHANGED chainVars
  BY <1>2, <1>3, ContradictionKeepsChain
<1>4. CASE Finish(FALSE) /\ UNCHANGED chainVars
  <2>1. /\ blocks' = blocks /\ head' = head /\ branch' = branch /\ walk'.phase = "idle"
    BY <1>2, <1>4 DEF HeaderMove, chainVars, netVars, coldVars, Finish, AtRest
  <2>2. branch' >= branch /\ SameChain
    BY <2>1, ChainTyped, SameBlocks
  <2> QED
    BY <2>1, <2>2, RestKeepsChain
<1>5. CASE Headed(h, f)
  BY <1>2, <1>5, HeadedKeepsChain
<1> QED
  BY <1>2, <1>3, <1>4, <1>5 DEF HeaderMove

LEMMA LogsKeepChain ==
    ASSUME ChainInv, StoreInv', ReadLogs
    PROVE  ChainInv'
<1>1. /\ blocks' = blocks /\ head' = head /\ branch' = branch
      /\ walk.phase = "logs" /\ walk'.phase = "checkpoint" /\ walk'.target = walk.target
  BY WalkTyped DEF ChainInv, ReadLogs, Goto, Walks, chainVars, netVars, coldVars
<1>2. branch' >= branch /\ SameChain
  BY <1>1, ChainTyped, SameBlocks
<1>3. InOrder' /\ OneBranch' /\ CanonicalHeights' = CanonicalHeights
  BY <1>2, ChainKept
<1> QED
  BY <1>1, <1>3 DEF ChainInv, Unbroken, Started

LEMMA CheckpointKeepsChain ==
    ASSUME ChainInv, StoreInv', MoveCheckpoint \/ PromoteDeep \/ PromoteFinalized
    PROVE  ChainInv'
<1>1. branch' = branch /\ branch' >= branch
  <2>1. branch' = branch
    BY DEF MoveCheckpoint, PromoteDeep, PromoteFinalized, netVars, coldVars
  <2> QED
    BY <2>1, ChainTyped
<1>2. walk'.phase \in {"promote", "finalize", "idle"}
  <2>1. Goto("promote") \/ Goto("finalize") \/ Finish(FALSE)
    BY DEF MoveCheckpoint, PromoteDeep, PromoteFinalized
  <2> QED
    BY <2>1, WalkTyped DEF ChainInv, Goto, Finish, AtRest, Walks
<1>3. SameChain /\ (head' = head \/ Unbroken(head'))
  <2>1. CASE MoveCheckpoint
    <3>1. blocks' = blocks /\ head' = walk.target /\ walk.phase = "checkpoint"
      BY <2>1 DEF MoveCheckpoint, SetCheckpoint
    <3>2. Unbroken(walk.target)
      BY <3>1 DEF ChainInv
    <3> QED
      BY <3>1, <3>2, SameBlocks
  <2>2. CASE PromoteDeep \/ PromoteFinalized
    <3>1. \E n : PromoteUpTo(n)
      BY <2>2 DEF PromoteDeep, PromoteFinalized
    <3> QED
      BY <3>1, PromoteKept DEF ChainInv, SameChain
  <2> QED
    BY <2>1, <2>2
<1> QED
  BY <1>1, <1>2, <1>3, RestKeepsChain

\* Down to the ancestor, then the blocks above it, then the checkpoint.
LEMMA RollbackKeepsChain ==
    ASSUME ChainInv, StoreInv', ScanDown \/ OrphanBranch \/ Rewind \/ TooDeep \/ HeightGone
    PROVE  ChainInv'
<1>1. branch' = branch /\ branch' >= branch
  <2>1. branch' = branch
    BY DEF ScanDown, OrphanBranch, Rewind, TooDeep, HeightGone, netVars, coldVars
  <2> QED
    BY <2>1, ChainTyped
<1>2. walk.next \in Nat
  BY WalkTyped DEF ChainInv
<1>3. CASE ScanDown
  <2> DEFINE h == walk.next
             e == StoredFork(h)
  <2>1. /\ blocks' = blocks /\ head' = head /\ walk.phase = "rollback"
        /\ h \in Heights /\ CanonicalAt(h) /\ e # Served(h)
        /\ walk' = [walk EXCEPT !.next = walk.next - 1, !.depth = walk.depth + 1]
    BY <1>3, WalkTyped DEF ChainInv, ScanDown, chainVars, AncestorFound, Serves, Heights
  <2>2. walk'.phase = "rollback" /\ walk'.next = h - 1
    BY <2>1, WalkTyped DEF ChainInv, Walks
  <2>3. InOrder' /\ OneBranch' /\ CanonicalHeights' = CanonicalHeights
    BY <1>1, <2>1, ChainKept, SameBlocks
  <2>4. Started' => Unbroken(head)'
    BY <2>1, <2>3 DEF ChainInv, Unbroken, Started
  <2>5. Unbroken(h) /\ h \in CanonicalHeights
    BY <2>1 DEF ChainInv, CanonicalHeights
  <2>6. Unbroken(h - 1)
    <3> SUFFICES ASSUME NEW g \in CanonicalHeights, NEW k \in h - 1 + 1..g
                 PROVE  k \in CanonicalHeights
      BY DEF Unbroken
    <3>1. k = h \/ k \in h + 1..g
      BY <1>2, CanonicalStands
    <3> QED
      BY <2>5, <3>1 DEF Unbroken
  <2>7. LeftFrom(h)
    <3>1. e \in Forks /\ Canonical(h, e)
      BY <2>5, CanonicalStands
    <3>2. h > ForkAt /\ e < branch
      BY <2>1, <3>1, ServedStands
    <3> QED
      BY <1>2, <2>1, <2>5, <3>1, <3>2, LeftAbove
  <2>8. Unbroken(walk.next)'
    BY <2>2, <2>3, <2>6 DEF Unbroken
  <2>9. LeftFrom(walk.next + 1)'
    <3>1. walk'.next + 1 = h
      BY <1>2, <2>2
    <3> QED
      BY <1>1, <2>1, <2>7, <3>1 DEF LeftFrom, Canonical
  <2> QED
    BY <2>2, <2>3, <2>4, <2>8, <2>9 DEF ChainInv
<1>4. CASE OrphanBranch
  <2>1. walk.phase = "rollback" /\ walk'.phase = "rewind" /\ walk'.next = walk.next
    BY <1>4, WalkTyped DEF ChainInv, OrphanBranch, Goto, Walks
  <2>2. CASE UNCHANGED chainVars
    <3>1. blocks' = blocks /\ head' = head
      BY <2>2 DEF chainVars
    <3>2. InOrder' /\ OneBranch' /\ CanonicalHeights' = CanonicalHeights
      BY <1>1, <3>1, ChainKept, SameBlocks
    <3> QED
      BY <2>1, <3>1, <3>2 DEF ChainInv, Unbroken, Started
  <2>3. CASE OrphanAbove(walk.next)
    <3>1. /\ head' = head
          /\ \A h \in Heights, f \in Forks :
                /\ Canonical(h, f)' <=> h <= walk.next /\ Canonical(h, f)
                /\ \/ blocks'[h][f] = blocks[h][f]
                   \/ h > walk.next /\ Canonical(h, f) /\ blocks'[h][f] = "orphaned"
      BY <1>2, <2>3, OrphanKept DEF ChainInv
    <3>2. \A h : h \in CanonicalHeights' <=> h \in CanonicalHeights /\ h <= walk.next
      BY <3>1 DEF CanonicalHeights, CanonicalAt
    <3>3. \A n \in Nat : Unbroken(n) => \A g \in CanonicalHeights' : n + 1..g \subseteq CanonicalHeights'
      <4> SUFFICES ASSUME NEW n \in Nat, Unbroken(n), NEW g \in CanonicalHeights', NEW k \in n + 1..g
                   PROVE  k \in CanonicalHeights'
        OBVIOUS
      <4>1. g \in CanonicalHeights /\ g <= walk.next /\ g \in Nat
        BY <3>2, CanonicalStands
      <4>2. k \in CanonicalHeights /\ k <= walk.next
        BY <1>2, <4>1 DEF Unbroken
      <4> QED
        BY <3>2, <4>2
    <3>4. Started' => Unbroken(head)'
      BY <3>1, <3>3, ChainTyped DEF ChainInv, Unbroken, Started
    <3>5. Unbroken(walk.next)'
      BY <1>2, <2>1, <3>3 DEF ChainInv, Unbroken
    <3>6. OneBranch'
      <4> SUFFICES ASSUME NEW g \in Heights, NEW h \in Heights, NEW e \in Forks, NEW f \in Forks,
                          h <= g, Canonical(g, f)', Canonical(h, e)',
                          h..g \subseteq CanonicalHeights'
                   PROVE  e = ForkOn(f, h)
        BY DEF OneBranch
      <4>1. Canonical(g, f) /\ Canonical(h, e) /\ h..g \subseteq CanonicalHeights
        BY <3>1, <3>2
      <4> QED
        BY <4>1 DEF ChainInv, OneBranch
    <3>7. InOrder'
      <4> SUFFICES ASSUME NEW h \in Heights, NEW f \in Forks
                   PROVE  /\ blocks'[h][f] # "absent" => f <= branch /\ (h <= ForkAt => f = 1)
                          /\ blocks'[h][f] = "orphaned" => h > ForkAt /\ f < branch
        BY <1>1 DEF InOrder
      <4>1. /\ blocks[h][f] # "absent" => f <= branch /\ (h <= ForkAt => f = 1)
            /\ blocks[h][f] = "orphaned" => h > ForkAt /\ f < branch
        BY DEF ChainInv, InOrder
      <4>2. h > walk.next /\ Canonical(h, f) => h > ForkAt /\ f < branch
        <5>1. h > walk.next => h >= walk.next + 1
          BY <1>2, ChainTyped
        <5> QED
          BY <2>1, <5>1 DEF ChainInv, LeftFrom
      <4>3. Canonical(h, f) => blocks[h][f] # "absent"
        BY DEF Canonical
      <4> QED
        BY <3>1, <4>1, <4>2, <4>3
    <3> QED
      BY <2>1, <3>4, <3>5, <3>6, <3>7 DEF ChainInv
  <2> QED
    BY <1>4, <2>2, <2>3 DEF OrphanBranch
<1>5. CASE Rewind
  <2>1. Unbroken(walk.next) /\ walk'.phase = "idle"
    BY <1>5 DEF ChainInv, Rewind, Finish, AtRest
  <2>2. blocks' = blocks /\ head' = walk.next
    BY <1>5 DEF Rewind, SetCheckpoint, chainVars
  <2>3. SameChain /\ Unbroken(head')
    BY <2>1, <2>2, SameBlocks
  <2> QED
    BY <1>1, <2>1, <2>3, RestKeepsChain
<1>6. CASE TooDeep \/ HeightGone
  <2>1. blocks' = blocks /\ head' = head
    BY <1>6 DEF TooDeep, HeightGone, chainVars
  <2>2. walk'.phase \in {"idle", "stopped"}
    <3>1. Finish(FALSE) \/ Goto("stopped")
      BY <1>6 DEF TooDeep, HeightGone
    <3> QED
      BY <3>1, WalkTyped DEF ChainInv, Finish, AtRest, Goto, Walks
  <2> QED
    BY <1>1, <2>1, <2>2, SameBlocks, RestKeepsChain
<1> QED
  BY <1>3, <1>4, <1>5, <1>6

LEMMA WorldKeepsChain ==
    ASSUME ChainInv, StoreInv', branch' >= branch,
           StepDies \/ Grows \/ \E b \in Forks, to \in Heights : Switch(b, to)
    PROVE  ChainInv'
<1>1. blocks' = blocks /\ head' = head /\ SameChain
  BY SameBlocks DEF StepDies, Grows, Switch, chainVars
<1>2. CASE StepDies
  <2>1. walk'.phase = "idle"
    BY <1>2 DEF StepDies, Finish, AtRest
  <2> QED
    BY <1>1, <2>1, RestKeepsChain
<1>3. CASE walk' = walk
  <2>1. InOrder' /\ OneBranch' /\ CanonicalHeights' = CanonicalHeights
    BY <1>1, ChainKept
  <2>2. walk.phase = "rollback" => LeftFrom(walk.next + 1)'
    <3> SUFFICES ASSUME walk.phase = "rollback", NEW h \in Heights, NEW f \in Forks,
                        h >= walk.next + 1, Canonical(h, f)
                 PROVE  h > ForkAt /\ f < branch'
      BY <1>1, <1>3 DEF LeftFrom, Canonical
    <3>1. h > ForkAt /\ f < branch
      BY DEF ChainInv, LeftFrom
    <3>2. branch \in Nat /\ branch' \in Nat /\ f \in Nat
      BY ChainTyped DEF StoreInv, WatcherTypeOK, Forks
    <3> QED
      BY <3>1, <3>2
  <2> QED
    BY <1>1, <1>3, <2>1, <2>2 DEF ChainInv, Unbroken, Started
<1> QED
  BY <1>2, <1>3 DEF Grows, Switch

\* A past that Linked admits was one before; the network has not turned back.
LEMMA SteadyWas ==
    ASSUME ChainInv, [WatcherNext]_vars, Steady'
    PROVE  branch' >= branch
<1>1. branch \in Nat
  BY ChainTyped
<1>2. CASE \E b \in Forks, to \in Heights : Switch(b, to)
  <2>1. PICK b \in Forks : branch' = b /\ returned' = (returned \/ b < branch)
    BY <1>2 DEF Switch
  <2>2. b \in Nat /\ ~(b < branch)
    BY <2>1, ChainTyped DEF Steady
  <2> QED
    BY <1>1, <2>1, <2>2
<1>3. CASE ~\E b \in Forks, to \in Heights : Switch(b, to)
  <2>1. branch' = branch
    BY <1>3 DEF WatcherNext, Step, StepBegin, VerifyTail, TailUnanswered, ReadHeader, ReadLogs,
                MoveCheckpoint, PromoteDeep, PromoteFinalized, ScanDown, OrphanBranch, Rewind,
                TooDeep, HeightGone, StepDies, Grows, netVars, vars
  <2> QED
    BY <1>1, <2>1
<1> QED
  BY <1>2, <1>3

LEMMA EveryStepKeepsChain ==
    ChainInv /\ [WatcherNext]_vars /\ Steady' => ChainInv'
<1> SUFFICES ASSUME ChainInv, [WatcherNext]_vars, Steady'
             PROVE  ChainInv'
  OBVIOUS
<1>1. StoreInv'
  BY EveryStepKeepsStore DEF ChainInv
<1>2. branch' >= branch /\ ~sunk'
  BY SteadyWas DEF Steady
<1>3. CASE Step
  BY <1>1, <1>2, <1>3, BeginKeepsChain, TailKeepsChain, HeaderKeepsChain, LogsKeepChain,
     CheckpointKeepsChain, RollbackKeepsChain DEF Step
<1>4. CASE StepDies \/ Grows \/ \E b \in Forks, to \in Heights : Switch(b, to)
  BY <1>1, <1>2, <1>4, WorldKeepsChain
<1>5. CASE UNCHANGED vars
  <2>1. blocks' = blocks /\ head' = head /\ walk' = walk /\ branch' = branch
    BY <1>5 DEF vars, chainVars, netVars
  <2>2. InOrder' /\ OneBranch' /\ CanonicalHeights' = CanonicalHeights
    BY <1>1, <1>2, <2>1, ChainKept, SameBlocks
  <2> QED
    BY <1>1, <2>1, <2>2 DEF ChainInv, Unbroken, Started, LeftFrom, Canonical
<1> QED
  BY <1>3, <1>4, <1>5 DEF WatcherNext

\* What Linked asks of the past only ever ceases to hold.
LEMMA SteadyStays == StoreInv /\ [WatcherNext]_vars /\ Steady' => Steady
<1> SUFFICES ASSUME StoreInv, [WatcherNext]_vars, Steady' PROVE Steady
  OBVIOUS
<1>0. returned \in BOOLEAN /\ sunk \in BOOLEAN /\ ~returned' /\ ~sunk'
  BY DEF StoreInv, WatcherTypeOK, Steady
<1>1. CASE \E b \in Forks, to \in Heights : Switch(b, to)
  <2>1. PICK b \in Forks : returned' = (returned \/ b < branch) /\ sunk' = sunk
    BY <1>1 DEF Switch, coldVars
  <2> QED
    BY <1>0, <2>1 DEF Steady
<1>2. CASE StepBegin
  <2>1. returned' = returned /\ sunk' = (sunk \/ (head = 0 /\ ~Unbroken(EffectiveCheckpoint)))
    BY <1>2 DEF StepBegin, netVars
  <2> QED
    BY <1>0, <2>1 DEF Steady
<1>3. CASE ~StepBegin /\ ~\E b \in Forks, to \in Heights : Switch(b, to)
  <2>1. returned' = returned /\ sunk' = sunk
    BY <1>3 DEF WatcherNext, Step, VerifyTail, TailUnanswered, ReadHeader, ReadLogs,
                MoveCheckpoint, PromoteDeep, PromoteFinalized, ScanDown, OrphanBranch, Rewind,
                TooDeep, HeightGone, StepDies, Grows, netVars, coldVars, vars
  <2> QED
    BY <1>0, <2>1 DEF Steady
<1> QED
  BY <1>1, <1>2, <1>3

LEMMA ChainAtStart == WatcherInit => ChainInv
<1> SUFFICES ASSUME WatcherInit PROVE ChainInv
  OBVIOUS
<1>1. /\ walk.phase = "idle" /\ \A h \in Heights, f \in Forks : blocks[h][f] = "absent"
  BY DEF WatcherInit, ChainInit, AtRest
<1>2. CanonicalHeights = {} /\ \A h \in Heights, f \in Forks : ~Canonical(h, f)
  BY <1>1 DEF CanonicalHeights, CanonicalAt, Canonical
<1> QED
  BY <1>1, <1>2, StoreAtStart DEF ChainInv, InOrder, OneBranch, Unbroken

\* traversal.py's invariant 1: what is stored is one verified chain, neighbours are
\* parent and child, whatever dies and wherever the network goes, as long as it does not
\* come back to a branch it has left and no walk without a checkpoint began beneath the
\* stored blocks.
THEOREM LinkedTheorem == WatcherSpec => []Linked
<1> DEFINE Inv == StoreInv /\ (Steady => ChainInv)
<1>1. WatcherInit => Inv
  BY StoreAtStart, ChainAtStart
<1>2. Inv /\ [WatcherNext]_vars => Inv'
  BY EveryStepKeepsStore, SteadyStays, EveryStepKeepsChain
<1>3. Inv => Linked
  <2> SUFFICES ASSUME ChainInv, NEW h \in Heights \ {1}, NEW f \in Forks, NEW g \in Forks,
                      Canonical(h, f), Canonical(h - 1, g)
               PROVE  g = ParentOf(h, f)
    BY DEF Linked, ChainIsVerified, Steady
  <2>1. h - 1 \in Heights /\ h - 1 <= h /\ h - 1..h = {h - 1, h}
    BY ChainAssumption DEF Heights
  <2>2. h - 1..h \subseteq CanonicalHeights
    BY <2>1, IsCanonical
  <2> QED
    BY <2>1, <2>2 DEF ChainInv, OneBranch, ParentOf
<1> QED
  BY <1>1, <1>2, <1>3, PTL DEF WatcherSpec
=============================================================================
