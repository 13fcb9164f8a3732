----------------------------- MODULE LogChunks -----------------------------
(***************************************************************************)
(* get_logs_chunked of watcher/rpc/pool.py: a range of blocks and a list   *)
(* of receive addresses, asked for piece by piece, where a provider may    *)
(* refuse any piece as too wide.                                           *)
(*                                                                         *)
(* A piece is a rectangle of blocks and positions in the list.  What is    *)
(* left to ask is a set: the order of the pieces decides nothing.          *)
(*                                                                         *)
(* Where a definition stands directly before another one of the same       *)
(* parameters it is a plausible slip in it, which a property must notice.  *)
(***************************************************************************)
EXTENDS Integers

CONSTANTS
    FirstBlock, LastBlock,  \* from_block, to_block
    Listed,                 \* how many receive addresses
    MaxSpan, MaxGroup       \* ChunkPolicy.max_block_span, max_addresses

ASSUME LogChunksAssumption ==
    /\ FirstBlock \in Nat /\ LastBlock \in Nat /\ Listed \in Nat
    /\ MaxSpan \in Nat \ {0} /\ MaxGroup \in Nat \ {0}

Cells == (FirstBlock..LastBlock) \X (1..Listed)

Pieces == [from: Nat, to: Nat, first: Nat, last: Nat]
Within(piece, cell) ==
    /\ piece.from <= cell[1] /\ cell[1] <= piece.to
    /\ piece.first <= cell[2] /\ cell[2] <= piece.last

VARIABLES
    todo,       \* pieces still to be asked for
    answered,   \* how often an answer has covered each block and address
    result      \* of the whole call

chunkVars == <<todo, answered, result>>

LogChunksTypeOK ==
    /\ todo \subseteq Pieces
    /\ answered \in [Cells -> Nat]
    /\ result \in {"asking", "returned", "raised"}

Earlier(x, y) == IF x < y THEN x ELSE y

\* chunk_ranges and chunk_sequence: from each start as far as the size allows.
EndsOneFurther(start, size, last) == Earlier(start + size, last)
Ends(start, size, last) == Earlier(start + size - 1, last)
StartsOf(first, last, size) == {n \in first..last : (n - first) % size = 0}

LogChunksInit ==
    /\ todo = {[from |-> f, to |-> Ends(f, MaxSpan, LastBlock),
                first |-> a, last |-> Ends(a, MaxGroup, Listed)] :
                    f \in StartsOf(FirstBlock, LastBlock, MaxSpan), a \in StartsOf(1, Listed, MaxGroup)}
    /\ answered = [cell \in Cells |-> 0]
    /\ result = "asking"

-----------------------------------------------------------------------------
\* A provider has answered for the piece.
Collect(piece) ==
    /\ answered' = [cell \in Cells |->
           IF Within(piece, cell) THEN answered[cell] + 1 ELSE answered[cell]]
    /\ todo' = todo \ {piece}
    /\ UNCHANGED result

\* _get_logs_adaptive on range_too_large: the blocks are halved first ...
SpanOf(piece) == piece.to - piece.from + 1
MiddleBlock(piece) == piece.from + SpanOf(piece) \div 2 - 1
HalveBlocks(piece) ==
    /\ SpanOf(piece) > 1
    /\ todo' = (todo \ {piece}) \union
           {[piece EXCEPT !.to = MiddleBlock(piece)], [piece EXCEPT !.from = MiddleBlock(piece) + 1]}
    /\ UNCHANGED <<answered, result>>

\* ... then the addresses of one block ...
GroupOf(piece) == piece.last - piece.first + 1
HalfGroup(piece) == piece.first + GroupOf(piece) \div 2 - 1
HalveAddresses(piece) ==
    /\ SpanOf(piece) = 1 /\ GroupOf(piece) > 1
    /\ todo' = (todo \ {piece}) \union
           {[piece EXCEPT !.last = HalfGroup(piece)], [piece EXCEPT !.first = HalfGroup(piece) + 1]}
    /\ UNCHANGED <<answered, result>>

\* ... and one address in one block is an error, as is any other failure of the
\* rotation: what was collected is dropped with it.
Raises ==
    /\ todo # {} /\ result' = "raised"
    /\ UNCHANGED <<todo, answered>>

Returns ==
    /\ todo = {} /\ result' = "returned"
    /\ UNCHANGED <<todo, answered>>

LogChunksNext ==
    /\ result = "asking"
    /\ \/ \E piece \in todo : Collect(piece) \/ HalveBlocks(piece) \/ HalveAddresses(piece)
       \/ Raises \/ Returns

LogChunksSpec == LogChunksInit /\ [][LogChunksNext]_chunkVars

-----------------------------------------------------------------------------
\* "The chunks partition the space": a call that returns has asked for every block
\* and every address once, however often it was refused.  A gap is a payment that
\* nobody ever sees.
LogsAreWhole == result = "returned" => \A cell \in Cells : answered[cell] = 1

\* What the argument rests on: a block and an address not answered yet are in one
\* piece that is still to be asked for.
PiecesPartition ==
    \A cell \in Cells :
        \/ answered[cell] = 1 /\ \A piece \in todo : ~Within(piece, cell)
        \/ /\ answered[cell] = 0
           /\ \E piece \in todo : Within(piece, cell)
           /\ \A p, q \in todo : Within(p, cell) /\ Within(q, cell) => p = q
=============================================================================
