----------------------------- MODULE BlockWalk -----------------------------
(***************************************************************************)
(* The KV blocks of one query tile, as each role walks them.  Nobody sends *)
(* anybody a block number: the load warp, the MMA warp, the softmax        *)
(* warpgroups and the correction warpgroup each compute the tile's range   *)
(* (block_info.py) and loop over it, softmax in up to four loops with      *)
(* bounds of their own, and what is masked where depends on the loop.      *)
(***************************************************************************)
EXTENDS Integers, Sequences, FiniteSets

CONSTANTS
    MBlock,    \* rows of a stage's query tile (m_block_size)
    NBlock,    \* keys of a KV block (n_block_size)
    Calls      \* the tiles considered; see CallsAssumption

Unbounded == -1     \* a window side that is None
Masks == {"none", "causal", "local"}

IsTile(c) ==
    /\ c.mask \in Masks
    /\ c.left \in Nat \cup {Unbounded} /\ c.right \in Nat \cup {Unbounded}
    /\ c.mask # "local" => c.left = Unbounded /\ c.right = Unbounded
    /\ c.seqlenQ \in Nat \ {0} /\ c.seqlenK \in Nat
    /\ c.group \in Nat \ {0}         \* query heads packed into the rows
    /\ c.m \in Nat /\ c.splits \in Nat \ {0}

ASSUME CallsAssumption ==
    /\ MBlock \in Nat \ {0} /\ NBlock \in Nat \ {0}
    /\ \A c \in Calls : IsTile(c)

VARIABLES
    call,        \* the tile
    split,       \* split of the range under way
    loaded,      \* blocks whose K and V were loaded, in order
    multiplied,  \* blocks the MMA warp has multiplied
    soft,        \* softmax: which loop, n_block_max, n_tile
    steps,       \* the softmax steps taken
    corrected,   \* scales the correction warps have taken
    past         \* the steps of earlier splits

vars == <<call, split, loaded, multiplied, soft, steps, corrected, past>>

Smaller(a, b) == IF a < b THEN a ELSE b
Larger(a, b)  == IF a > b THEN a ELSE b
CeilDiv(a, b) == (a + b - 1) \div b
Trips(n) == Larger(n, 0)          \* of a loop over cutlass.range(n)

-----------------------------------------------------------------------------
(* block_info.py.  A tile has two stages, or one where the range is split. *)

TileM(c) == (IF c.splits = 1 THEN 2 ELSE 1) * MBlock
RightBound(c) == c.mask = "causal" \/ (c.mask = "local" /\ c.right # Unbounded)
LeftBound(c)  == c.mask = "local" /\ c.left # Unbounded
Right(c) == IF c.mask = "causal" THEN 0 ELSE c.right

\* Queries of the tile: the first one, and the one behind the last.
RowMin(c) == (c.m * TileM(c)) \div c.group
RowMax(c) == CeilDiv((c.m + 1) * TileM(c), c.group)
Diagonal(c) == c.seqlenK - c.seqlenQ

\* get_n_block_min_max, before the range is split.
WholeMax(c) ==
    LET all == CeilDiv(c.seqlenK, NBlock)
    IN  IF RightBound(c)
        THEN Smaller(all, CeilDiv(RowMax(c) + Diagonal(c) + Right(c), NBlock)) ELSE all
WholeMinUnclamped(c) ==
    IF LeftBound(c) THEN (RowMin(c) + Diagonal(c) - c.left) \div NBlock ELSE 0
WholeMin(c) ==
    IF LeftBound(c) THEN Larger((RowMin(c) + Diagonal(c) - c.left) \div NBlock, 0) ELSE 0

PerSplitFloor(c) == Larger(WholeMax(c) - WholeMin(c), 0) \div c.splits
PerSplit(c) == CeilDiv(Larger(WholeMax(c) - WholeMin(c), 0), c.splits)

NBlockMin(c, s) == IF c.splits = 1 THEN WholeMin(c) ELSE WholeMin(c) + s * PerSplit(c)
NBlockMax(c, s) == IF c.splits = 1 THEN WholeMax(c)
                   ELSE Smaller(NBlockMin(c, s) + PerSplit(c), WholeMax(c))

\* Where the loop that carries the causal or the right-hand mask stops.
CausalLocalMin(c, s) ==
    Larger(NBlockMin(c, s),
           (RowMin(c) + Diagonal(c) + (IF RightBound(c) THEN Right(c) ELSE 0)) \div NBlock)

\* Where the loop without a mask stops.
BeforeLocalMin(c, s) ==
    IF LeftBound(c)
    THEN Larger(NBlockMin(c, s), CeilDiv(RowMax(c) + Diagonal(c) - c.left, NBlock))
    ELSE NBlockMin(c, s)

-----------------------------------------------------------------------------
(* The roles. *)

Lo == NBlockMin(call, split)
Hi == NBlockMax(call, split)

\* A split may have nothing to do; a whole range always has its first block.
HasWork == call.splits = 1 \/ Lo < Hi

SoftStart == [at |-> "first", hi |-> 0, i |-> 0]

Init ==
    /\ call \in Calls
    /\ split = 0 /\ loaded = <<>> /\ multiplied = 0 /\ steps = <<>> /\ corrected = 0
    /\ soft = SoftStart /\ past = <<>>

\* load: the last block, then the others downwards.
LoadTrips == 1 + Trips(Hi - 1 - Lo)
Load ==
    /\ HasWork /\ Len(loaded) < LoadTrips
    /\ loaded' = Append(loaded, Hi - 1 - Len(loaded))
    /\ UNCHANGED <<call, split, multiplied, soft, steps, corrected, past>>

\* mma: the prologue's block, then block_iter_count - 1 more.
MmaTripsShort == Trips(Hi - Lo - 1)
MmaTrips == 1 + Trips(Hi - Lo - 1)
Multiply ==
    /\ HasWork /\ multiplied < MmaTrips
    /\ multiplied < Len(loaded)
    /\ multiplied' = multiplied + 1
    /\ UNCHANGED <<call, split, loaded, soft, steps, corrected, past>>

\* softmax_step on block n; the first one masks what is behind the last key.
SeqlenMask(first) == first

Step(n, first) ==
    /\ multiplied > Len(steps)
    /\ steps' = Append(steps, [n |-> n, seqlen |-> SeqlenMask(first)])
    /\ UNCHANGED <<call, split, loaded, multiplied, corrected, past>>

SoftmaxFirst ==
    /\ soft.at = "first" /\ HasWork
    /\ Step(Hi - 1, TRUE)
    /\ soft' = [at |-> IF call.mask = "none" THEN "free" ELSE "masked", hi |-> Hi - 1, i |-> 0]

\* Where the loop softmax is in stops.
LoopMin == CASE soft.at = "masked" -> CausalLocalMin(call, split)
             [] soft.at = "free"   -> BeforeLocalMin(call, split)
             [] OTHER              -> Lo

InLoop == soft.at \in {"masked", "free", "left"}

SoftmaxLoop ==
    /\ InLoop /\ soft.i < Trips(soft.hi - LoopMin)
    /\ Step(soft.hi - 1 - soft.i, FALSE)
    /\ soft' = [soft EXCEPT !.i = @ + 1]

\* n_block_max for the next loop.
CarriedUnchanged(hi, lo) == hi
Carried(hi, lo) == Smaller(hi, lo)

\* The row sum is published behind the last loop.
SoftmaxNextLoop ==
    /\ InLoop /\ soft.i = Trips(soft.hi - LoopMin)
    /\ soft' = [at |-> CASE soft.at = "masked" -> "free"
                         [] soft.at = "free" /\ LeftBound(call) -> "left"
                         [] OTHER -> "sum",
                hi |-> Carried(soft.hi, LoopMin), i |-> 0]
    /\ UNCHANGED <<call, split, loaded, multiplied, steps, corrected, past>>

\* correction_loop: the first scale is ignored, total_block_count - 1 more are not.
CorrectTrips == 1 + Trips(Hi - Lo - 1)
Correct ==
    /\ HasWork /\ corrected < CorrectTrips
    /\ corrected < Len(steps)
    /\ corrected' = corrected + 1
    /\ UNCHANGED <<call, split, loaded, multiplied, soft, steps, past>>

RolesDone ==
    HasWork => /\ Len(loaded) = LoadTrips /\ multiplied = MmaTrips
               /\ soft.at = "sum" /\ corrected = CorrectTrips /\ corrected = Len(steps)

\* Every role is through with the split; another CTA takes the next one.
NextSplit ==
    /\ split < call.splits /\ RolesDone
    /\ split' = split + 1 /\ past' = past \o steps
    /\ loaded' = <<>> /\ multiplied' = 0 /\ steps' = <<>> /\ corrected' = 0
    /\ soft' = SoftStart
    /\ UNCHANGED call

Walk == /\ split < call.splits
        /\ Load \/ Multiply \/ SoftmaxFirst \/ SoftmaxLoop \/ SoftmaxNextLoop \/ Correct

Next == Walk \/ NextSplit

Spec == Init /\ [][Next]_vars /\ WF_vars(Next)

-----------------------------------------------------------------------------
(* The mask of a softmax step (apply_mask_sm100), and what it should be. *)

\* Column col of the keys is scored for query row in step x.
Scored(x, row, col) ==
    LET n      == Larger(x.n, 0)          \* a block before the first counts as the first
        c      == col - n * NBlock
        offset == Diagonal(call) - n * NBlock
        limit  == IF x.seqlen THEN Smaller(NBlock, call.seqlenK - n * NBlock) ELSE NBlock
    IN  /\ c >= 0 /\ c < limit
        /\ RightBound(call) => c < row + offset + 1 + Right(call)
        /\ LeftBound(call)  => c >= row + offset - call.left

\* Query row may look at key col.
Allowed(row, col) ==
    /\ col < call.seqlenK
    /\ RightBound(call) => col <= row + Diagonal(call) + Right(call)
    /\ LeftBound(call)  => col >= row + Diagonal(call) - call.left

Rows == {row \in RowMin(call)..(RowMax(call) - 1) : row < call.seqlenQ}
Cols == 0..(CeilDiv(call.seqlenK, NBlock) * NBlock + NBlock)

-----------------------------------------------------------------------------

\* The first block may be one in front of the sequence (of a tile without keys).
TypeOK ==
    /\ IsTile(call) /\ split \in 0..call.splits
    /\ loaded \in Seq(Int)
    /\ \A j \in DOMAIN loaded :
           loaded[j] < CeilDiv(call.seqlenK, NBlock) /\ (j > 1 => loaded[j] >= 0)
    /\ multiplied \in Nat /\ corrected \in Nat
    /\ soft \in [at : {"first", "masked", "free", "left", "sum"}, hi : Int, i : Nat]
    /\ steps \in Seq([n : Int, seqlen : BOOLEAN]) /\ past \in Seq([n : Int, seqlen : BOOLEAN])

\* The block number softmax masks and scores a step for is that of the K and V the
\* load warp brought for it, whatever loops the two came by, and when it publishes
\* the row sum it has been through every block (load, softmax_loop).
SameBlocks ==
    /\ \A j \in DOMAIN steps : j \in DOMAIN loaded /\ steps[j].n = loaded[j]
    /\ soft.at = "sum" => Len(steps) = LoadTrips

\* Over the steps of all splits, a query of the tile scores every key it may look
\* at in exactly one step, and no other key in any: ranges (get_n_block_min_max),
\* loops and masks (apply_mask_sm100) fit together.
EachKeyOnce ==
    split = call.splits =>
        \A row \in Rows, col \in Cols :
            Cardinality({j \in DOMAIN past : Scored(past[j], row, col)})
                = IF Allowed(row, col) THEN 1 ELSE 0

\* The roles' trip counts agree: none waits for a block another does not bring,
\* and none leaves one over (mma, softmax_loop and correction_loop after load).
EveryTileEnds == <>(split = call.splits)
=============================================================================
