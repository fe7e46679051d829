-------------------------- MODULE BlockWalkProofs --------------------------
(***************************************************************************)
(* BlockWalk for tiles of any size, under any mask and any split: softmax  *)
(* takes the blocks the load warp brings, in that order and all of them,   *)
(* and scores every key a query may look at in exactly one of its steps.   *)
(***************************************************************************)
EXTENDS BlockWalk, FiniteSetTheorems, TLAPS

LEMMA DivInt == ASSUME NEW a \in Int, NEW b \in Nat \ {0} PROVE a \div b \in Int
OBVIOUS

LEMMA CeilDivInt == ASSUME NEW a \in Int, NEW b \in Nat \ {0} PROVE CeilDiv(a, b) \in Int
BY DEF CeilDiv

LEMMA TripsNat == ASSUME NEW n \in Int PROVE Trips(n) >= 0
BY DEF Trips, Larger

\* What the walks need of a tile's block range and of the bounds of softmax's loops.
RangeOK(c, s) ==
    /\ NBlockMin(c, s) \in Nat /\ NBlockMax(c, s) \in Int
    /\ CeilDiv(c.seqlenK, NBlock) \in Int
    /\ NBlockMax(c, s) <= CeilDiv(c.seqlenK, NBlock)
    /\ CausalLocalMin(c, s) \in Int /\ CausalLocalMin(c, s) >= NBlockMin(c, s)
    /\ BeforeLocalMin(c, s) \in Int /\ BeforeLocalMin(c, s) >= NBlockMin(c, s)
    /\ ~LeftBound(c) => BeforeLocalMin(c, s) = NBlockMin(c, s)

\* Of a tile: its rows, the range of its blocks, and the share of a split.
WholeOK(c) ==
    /\ Diagonal(c) \in Int /\ Right(c) \in Int
    /\ RowMin(c) \in Int /\ RowMax(c) \in Int
    /\ CeilDiv(c.seqlenK, NBlock) \in Int
    /\ WholeMax(c) \in Int /\ WholeMax(c) <= CeilDiv(c.seqlenK, NBlock)
    /\ WholeMin(c) \in Nat /\ PerSplit(c) \in Nat

LEMMA WholeTypes == ASSUME NEW c, IsTile(c) PROVE WholeOK(c)
<1>1. /\ NBlock \in Nat \ {0} /\ MBlock \in Nat \ {0}
      /\ c.seqlenQ \in Int /\ c.seqlenK \in Int /\ c.m \in Int /\ c.group \in Nat \ {0}
      /\ c.splits \in Nat \ {0} /\ c.left \in Int /\ c.right \in Int
  BY CallsAssumption DEF IsTile, Unbounded
<1>2. Diagonal(c) \in Int /\ Right(c) \in Int
  BY <1>1 DEF Diagonal, Right
<1>3. RowMin(c) \in Int /\ RowMax(c) \in Int
  <2>1. TileM(c) \in Int
    BY <1>1 DEF TileM
  <2>2. c.m * TileM(c) \in Int /\ (c.m + 1) * TileM(c) \in Int
    BY <1>1, <2>1
  <2> QED
    BY <1>1, <2>2, DivInt, CeilDivInt DEF RowMin, RowMax
<1>4. CeilDiv(c.seqlenK, NBlock) \in Int
  BY <1>1, CeilDivInt
<1>5. WholeMax(c) \in Int /\ WholeMax(c) <= CeilDiv(c.seqlenK, NBlock)
  <2>1. CeilDiv(RowMax(c) + Diagonal(c) + Right(c), NBlock) \in Int
    BY <1>1, <1>2, <1>3, CeilDivInt
  <2> QED
    BY <1>4, <2>1 DEF WholeMax, Smaller
<1>6. WholeMin(c) \in Nat
  <2>1. (RowMin(c) + Diagonal(c) - c.left) \div NBlock \in Int
    BY <1>1, <1>2, <1>3, DivInt
  <2> QED
    BY <2>1 DEF WholeMin, Larger
<1>7. PerSplit(c) \in Nat
  <2>1. Larger(WholeMax(c) - WholeMin(c), 0) \in Nat
    BY <1>5, <1>6 DEF Larger
  <2> DEFINE w == Larger(WholeMax(c) - WholeMin(c), 0) + c.splits - 1
  <2>2. w \in Nat
    BY <1>1, <2>1
  <2> HIDE DEF w
  <2>3. w \div c.splits \in Nat
    BY <1>1, <2>2
  <2> QED
    BY <2>3 DEF w, PerSplit, CeilDiv
<1> QED
  BY <1>2, <1>3, <1>4, <1>5, <1>6, <1>7 DEF WholeOK

\* get_n_block_min_max, get_n_block_min_causal_local_mask and
\* get_n_block_min_before_local_mask return bounds in that order.
LEMMA Ranges == ASSUME NEW c, IsTile(c), NEW s \in Nat PROVE RangeOK(c, s)
<1>1. NBlock \in Nat \ {0} /\ c.left \in Int
  BY CallsAssumption DEF IsTile, Unbounded
<1>2. WholeOK(c)
  BY WholeTypes
<1> USE <1>2 DEF WholeOK
<1>3. NBlockMin(c, s) \in Nat
  <2>1. s * PerSplit(c) \in Nat
    OBVIOUS
  <2> QED
    BY <2>1 DEF NBlockMin
<1>4. NBlockMax(c, s) \in Int /\ NBlockMax(c, s) <= CeilDiv(c.seqlenK, NBlock)
  BY <1>3 DEF NBlockMax, Smaller
<1>5. CausalLocalMin(c, s) \in Int /\ CausalLocalMin(c, s) >= NBlockMin(c, s)
  <2>1. (RowMin(c) + Diagonal(c) + (IF RightBound(c) THEN Right(c) ELSE 0)) \div NBlock \in Int
    BY <1>1, DivInt
  <2> QED
    BY <1>3, <2>1 DEF CausalLocalMin, Larger
<1>6. BeforeLocalMin(c, s) \in Int /\ BeforeLocalMin(c, s) >= NBlockMin(c, s)
  <2>1. CeilDiv(RowMax(c) + Diagonal(c) - c.left, NBlock) \in Int
    BY <1>1, CeilDivInt
  <2> QED
    BY <1>3, <2>1 DEF BeforeLocalMin, Larger
<1>7. ~LeftBound(c) => BeforeLocalMin(c, s) = NBlockMin(c, s)
  BY DEF BeforeLocalMin
<1> QED
  BY <1>3, <1>4, <1>5, <1>6, <1>7 DEF RangeOK

-----------------------------------------------------------------------------

\* Types, without the bounds on block numbers.
Shape ==
    /\ IsTile(call) /\ split \in 0..call.splits
    /\ loaded \in Seq(Int) /\ multiplied \in Nat /\ corrected \in Nat
    /\ soft \in [at : {"first", "masked", "free", "left", "sum"}, hi : Int, i : Nat]
    /\ steps \in Seq([n : Int, seqlen : BOOLEAN]) /\ past \in Seq([n : Int, seqlen : BOOLEAN])

\* The load warp counts down from the last block, and no further than it should.
LoadsDown == /\ Len(loaded) <= LoadTrips
             /\ \A j \in DOMAIN loaded : loaded[j] = Hi - j

\* No role is ahead of the one it waits for.
Behind == Len(steps) <= multiplied /\ multiplied <= Len(loaded)

\* Softmax has taken the blocks from the last one down to its position, which
\* stays at or above the first, except in a range without blocks.
StepsDown ==
    /\ \A j \in DOMAIN steps : steps[j].n = Hi - j
    /\ soft.at = "first" => steps = <<>>
    /\ soft.at # "first" => /\ Len(steps) >= 1
                            /\ soft.hi - soft.i = Hi - Len(steps)
                            /\ soft.hi - soft.i >= Smaller(Lo, Hi - 1)
    /\ InLoop => soft.i <= Trips(soft.hi - LoopMin)
    /\ soft.at = "left" => LeftBound(call)
    /\ soft.at = "sum" => soft.i = 0 /\ soft.hi <= Lo

WalkInv == Shape /\ LoadsDown /\ Behind /\ StepsDown

Numbers == /\ Lo \in Nat /\ Hi \in Int /\ Hi <= CeilDiv(call.seqlenK, NBlock)
           /\ LoopMin \in Int /\ LoopMin >= Lo
           /\ LoadTrips \in Nat \ {0} /\ (Hi > Lo => LoadTrips = Hi - Lo)
           /\ (Hi <= Lo => LoadTrips = 1)
           /\ (soft.at = "free" /\ ~LeftBound(call) => LoopMin = Lo)
           /\ (soft.at = "left" => LoopMin = Lo)

LEMMA RangeHere == ASSUME Shape PROVE RangeOK(call, split)
<1>1. split \in Nat /\ IsTile(call)
  BY DEF Shape, IsTile
<1> QED
  BY <1>1, Ranges

LEMMA NumbersOK == ASSUME Shape PROVE Numbers
<1>1. RangeOK(call, split)
  BY RangeHere
<1>2. Lo \in Nat /\ Hi \in Int /\ Hi <= CeilDiv(call.seqlenK, NBlock)
  BY <1>1 DEF RangeOK, Lo, Hi
<1>3. /\ LoopMin \in Int /\ LoopMin >= Lo
      /\ (soft.at = "free" /\ ~LeftBound(call) => LoopMin = Lo)
      /\ (soft.at = "left" => LoopMin = Lo)
  BY <1>1, <1>2 DEF RangeOK, LoopMin, Lo
<1>4. LoadTrips \in Nat \ {0} /\ (Hi > Lo => LoadTrips = Hi - Lo) /\ (Hi <= Lo => LoadTrips = 1)
  BY <1>2 DEF LoadTrips, Trips, Larger
<1> QED
  BY <1>2, <1>3, <1>4 DEF Numbers

\* Nothing a range is computed from changes while the roles walk it.
LEMMA RangeStays ==
    ASSUME UNCHANGED <<call, split>>
    PROVE  Hi' = Hi /\ Lo' = Lo /\ LoadTrips' = LoadTrips
BY DEF Hi, Lo, LoadTrips

LEMMA LoopStays ==
    ASSUME UNCHANGED <<call, split>>, soft'.at = soft.at
    PROVE  LoopMin' = LoopMin /\ InLoop' = InLoop
BY DEF LoopMin, Lo, InLoop

LEMMA LoopBound == ASSUME Shape, UNCHANGED <<call, split>> PROVE LoopMin' \in Int
<1>1. RangeOK(call, split)
  BY RangeHere
<1> QED
  BY <1>1 DEF RangeOK, LoopMin, Lo

LEMMA InitWalk == Init => WalkInv
<1> SUFFICES ASSUME Init PROVE WalkInv
  OBVIOUS
<1>1. Shape
  BY CallsAssumption DEF Init, Shape, SoftStart, IsTile
<1>2. Numbers
  BY <1>1, NumbersOK
<1> QED
  BY <1>1, <1>2 DEF Init, WalkInv, LoadsDown, Behind, StepsDown, SoftStart, InLoop, Numbers

LEMMA LoadWalk == WalkInv /\ Load => WalkInv'
<1> SUFFICES ASSUME WalkInv, Load PROVE WalkInv'
  OBVIOUS
<1>1. Numbers
  BY NumbersOK DEF WalkInv
<1>2. Shape'
  BY <1>1 DEF WalkInv, Shape, Load, Numbers
<1>3. Hi' = Hi /\ Lo' = Lo /\ LoadTrips' = LoadTrips /\ LoopMin' = LoopMin /\ InLoop' = InLoop
  BY RangeStays, LoopStays DEF Load
<1>4. LoadsDown'
  <2>1. /\ loaded \in Seq(Int) /\ Len(loaded) \in Nat /\ Len(loaded) < LoadTrips
        /\ loaded' = Append(loaded, Hi - 1 - Len(loaded))
    BY DEF WalkInv, Shape, Load
  <2>2. Len(loaded') = Len(loaded) + 1
    BY <1>1, <2>1 DEF Numbers
  <2>3. ASSUME NEW j \in DOMAIN loaded' PROVE loaded'[j] = Hi - j
    BY <1>1, <2>1, <2>3 DEF WalkInv, LoadsDown, Numbers
  <2> QED
    BY <1>1, <1>3, <2>1, <2>2, <2>3 DEF LoadsDown, Numbers
<1>5. Behind'
  BY <1>1 DEF WalkInv, Shape, Behind, Load, Numbers
<1>6. StepsDown'
  BY <1>3 DEF WalkInv, StepsDown, Load
<1> QED
  BY <1>2, <1>4, <1>5, <1>6 DEF WalkInv

LEMMA MultiplyWalk == WalkInv /\ Multiply => WalkInv'
<1> SUFFICES ASSUME WalkInv, Multiply PROVE WalkInv'
  OBVIOUS
<1>1. Hi' = Hi /\ Lo' = Lo /\ LoadTrips' = LoadTrips /\ LoopMin' = LoopMin /\ InLoop' = InLoop
  BY RangeStays, LoopStays DEF Multiply
<1>2. Shape' /\ Behind'
  BY DEF WalkInv, Shape, Behind, Multiply
<1>3. LoadsDown' /\ StepsDown'
  BY <1>1 DEF WalkInv, LoadsDown, StepsDown, Multiply
<1> QED
  BY <1>2, <1>3 DEF WalkInv

\* A step taken on the block that comes next keeps the count-down.
LEMMA StepWalk ==
    ASSUME WalkInv, NEW n \in Int, NEW masked \in BOOLEAN, n = Hi - Len(steps) - 1,
           multiplied > Len(steps), steps' = Append(steps, [n |-> n, seqlen |-> masked])
    PROVE  /\ steps' \in Seq([n : Int, seqlen : BOOLEAN])
           /\ Len(steps') = Len(steps) + 1 /\ Len(steps') \in Nat
           /\ \A j \in DOMAIN steps' : steps'[j].n = Hi - j
           /\ Len(steps') <= multiplied
<1>1. Hi \in Int
  BY NumbersOK DEF WalkInv, Numbers
<1>2. /\ steps \in Seq([n : Int, seqlen : BOOLEAN])
      /\ [n |-> n, seqlen |-> masked] \in [n : Int, seqlen : BOOLEAN]
      /\ steps' = Append(steps, [n |-> n, seqlen |-> masked])
      /\ Len(steps) \in Nat /\ multiplied \in Nat /\ multiplied > Len(steps)
  BY DEF WalkInv, Shape
<1>3. Len(steps') = Len(steps) + 1 /\ steps' \in Seq([n : Int, seqlen : BOOLEAN])
  BY <1>2
<1>4. ASSUME NEW j \in DOMAIN steps' PROVE steps'[j].n = Hi - j
  <2>1. CASE j \in DOMAIN steps
    BY <1>2, <2>1 DEF WalkInv, StepsDown
  <2>2. CASE j = Len(steps) + 1
    BY <1>1, <1>2, <2>2
  <2> QED
    BY <1>2, <1>3, <1>4, <2>1, <2>2
<1> QED
  BY <1>2, <1>3, <1>4

LEMMA SoftmaxFirstWalk == WalkInv /\ SoftmaxFirst => WalkInv'
<1> SUFFICES ASSUME WalkInv, SoftmaxFirst PROVE WalkInv'
  OBVIOUS
<1>1. Numbers /\ Shape
  BY NumbersOK DEF WalkInv
<1>2. steps = <<>> /\ Len(steps) = 0
  BY DEF WalkInv, StepsDown, SoftmaxFirst
<1>3. Hi \in Int /\ Lo \in Nat
  BY <1>1 DEF Numbers
<1>4. /\ steps' \in Seq([n : Int, seqlen : BOOLEAN]) /\ Len(steps') = 1
      /\ \A j \in DOMAIN steps' : steps'[j].n = Hi - j
      /\ Len(steps') <= multiplied
  <2> DEFINE n == Hi - 1
  <2>1. n \in Int /\ n = Hi - Len(steps) - 1
    BY <1>2, <1>3
  <2>2. multiplied > Len(steps) /\ steps' = Append(steps, [n |-> n, seqlen |-> TRUE])
    BY DEF SoftmaxFirst, Step, SeqlenMask
  <2> HIDE DEF n
  <2>3. /\ steps' \in Seq([n : Int, seqlen : BOOLEAN]) /\ Len(steps') = Len(steps) + 1
        /\ \A j \in DOMAIN steps' : steps'[j].n = Hi - j
        /\ Len(steps') <= multiplied
    BY <2>1, <2>2, StepWalk
  <2> QED
    BY <1>2, <2>3
<1>5. Hi' = Hi /\ Lo' = Lo /\ LoadTrips' = LoadTrips
  BY RangeStays DEF SoftmaxFirst, Step
<1>6. /\ soft' \in [at : {"masked", "free"}, hi : Int, i : Nat]
      /\ soft'.hi = Hi - 1 /\ soft'.i = 0
  BY <1>3 DEF SoftmaxFirst
<1>7. Shape'
  BY <1>1, <1>4, <1>6 DEF Shape, SoftmaxFirst, Step
<1>8. LoadsDown' /\ Behind'
  BY <1>4, <1>5 DEF WalkInv, LoadsDown, Behind, SoftmaxFirst, Step
<1>9. StepsDown'
  <2>1. LoopMin' \in Int
    BY <1>1, LoopBound DEF SoftmaxFirst, Step
  <2>2. Trips(soft'.hi - LoopMin') >= 0
    <3>1. soft'.hi - LoopMin' \in Int
      BY <1>3, <1>6, <2>1
    <3> QED
      BY <3>1, TripsNat
  <2> QED
    BY <1>3, <1>4, <1>5, <1>6, <2>2 DEF StepsDown, Smaller
<1> QED
  BY <1>7, <1>8, <1>9 DEF WalkInv

LEMMA SoftmaxLoopWalk == WalkInv /\ SoftmaxLoop => WalkInv'
<1> SUFFICES ASSUME WalkInv, SoftmaxLoop PROVE WalkInv'
  OBVIOUS
<1>1. Numbers /\ Shape
  BY NumbersOK DEF WalkInv
<1>2. /\ Hi \in Int /\ Lo \in Nat /\ LoopMin \in Int /\ LoopMin >= Lo
      /\ Len(steps) \in Nat /\ soft.hi \in Int /\ soft.i \in Nat
  BY <1>1 DEF Numbers, Shape
<1>3. /\ soft.at # "first" /\ soft.at # "sum" /\ soft.i < soft.hi - LoopMin
      /\ soft.hi - soft.i = Hi - Len(steps)
  BY <1>2 DEF WalkInv, StepsDown, SoftmaxLoop, InLoop, Trips, Larger
<1>4. /\ steps' \in Seq([n : Int, seqlen : BOOLEAN]) /\ Len(steps') = Len(steps) + 1
      /\ \A j \in DOMAIN steps' : steps'[j].n = Hi - j
      /\ Len(steps') <= multiplied
  <2> DEFINE n == soft.hi - 1 - soft.i
  <2>1. n \in Int /\ n = Hi - Len(steps) - 1
    BY <1>2, <1>3
  <2>2. multiplied > Len(steps) /\ steps' = Append(steps, [n |-> n, seqlen |-> FALSE])
    BY DEF SoftmaxLoop, Step, SeqlenMask
  <2> HIDE DEF n
  <2> QED
    BY <2>1, <2>2, StepWalk
<1>5. /\ soft' \in [at : {"first", "masked", "free", "left", "sum"}, hi : Int, i : Nat]
      /\ soft'.at = soft.at /\ soft'.hi = soft.hi /\ soft'.i = soft.i + 1
  <2>1. /\ soft \in [at : {"first", "masked", "free", "left", "sum"}, hi : Int, i : Nat]
        /\ soft' = [soft EXCEPT !.i = soft.i + 1]
    BY <1>1 DEF Shape, SoftmaxLoop
  <2> QED
    BY <2>1
<1>6. Hi' = Hi /\ Lo' = Lo /\ LoadTrips' = LoadTrips /\ LoopMin' = LoopMin /\ InLoop' = InLoop
  BY <1>5, RangeStays, LoopStays DEF SoftmaxLoop, Step
<1>7. Shape'
  BY <1>1, <1>4, <1>5 DEF Shape, SoftmaxLoop, Step
<1>8. LoadsDown' /\ Behind'
  BY <1>4, <1>6 DEF WalkInv, LoadsDown, Behind, SoftmaxLoop, Step
<1>9. StepsDown'
  <2>1. soft'.hi - soft'.i = Hi - Len(steps') /\ soft'.hi - soft'.i >= Smaller(Lo, Hi - 1)
    <3>1. soft'.hi - soft'.i = soft.hi - soft.i - 1 /\ soft.hi - soft.i - 1 >= LoopMin
      BY <1>2, <1>3, <1>5
    <3>2. Smaller(Lo, Hi - 1) <= Lo
      BY <1>2 DEF Smaller
    <3>3. Smaller(Lo, Hi - 1) \in Int
      BY <1>2 DEF Smaller
    <3>4. soft.hi - soft.i - 1 = Hi - Len(steps')
      BY <1>2, <1>3, <1>4
    <3>5. soft.hi - soft.i - 1 >= Smaller(Lo, Hi - 1)
      BY <1>2, <3>1, <3>2, <3>3
    <3> QED
      BY <3>1, <3>4, <3>5
  <2>2. soft'.i <= Trips(soft'.hi - LoopMin)
    BY <1>2, <1>3, <1>5 DEF Trips, Larger
  <2>3. soft'.at = "left" => LeftBound(call')
    BY <1>5 DEF WalkInv, StepsDown, SoftmaxLoop, Step
  <2> QED
    BY <1>2, <1>3, <1>4, <1>5, <1>6, <2>1, <2>2, <2>3 DEF StepsDown
<1> QED
  BY <1>7, <1>8, <1>9 DEF WalkInv

LEMMA SoftmaxNextLoopWalk == WalkInv /\ SoftmaxNextLoop => WalkInv'
<1> SUFFICES ASSUME WalkInv, SoftmaxNextLoop PROVE WalkInv'
  OBVIOUS
<1>1. Numbers /\ Shape
  BY NumbersOK DEF WalkInv
<1>2. /\ Hi \in Int /\ Lo \in Nat /\ LoopMin \in Int /\ LoopMin >= Lo
      /\ Len(steps) \in Nat /\ soft.hi \in Int /\ soft.i \in Nat
      /\ soft.at \in {"masked", "free", "left"}
  BY <1>1 DEF Numbers, Shape, SoftmaxNextLoop, InLoop
<1>3. /\ soft'.at \in {"free", "left", "sum"} /\ soft'.i = 0 /\ soft'.hi \in Int
      /\ soft'.hi = Smaller(soft.hi, LoopMin)
      /\ soft' \in [at : {"first", "masked", "free", "left", "sum"}, hi : Int, i : Nat]
      /\ soft'.at = "left" => LeftBound(call)
  BY <1>2 DEF SoftmaxNextLoop, Carried, Smaller
<1>4. Hi' = Hi /\ Lo' = Lo /\ LoadTrips' = LoadTrips
  BY RangeStays DEF SoftmaxNextLoop
\* A loop that is through stands at its bound, one that never ran where it began.
<1>5. soft'.hi = soft.hi - soft.i
  BY <1>2, <1>3 DEF SoftmaxNextLoop, Trips, Larger, Smaller
<1>6. Shape'
  BY <1>1, <1>3 DEF Shape, SoftmaxNextLoop
<1>7. LoadsDown' /\ Behind'
  BY <1>4 DEF WalkInv, LoadsDown, Behind, SoftmaxNextLoop
<1>8. StepsDown'
  <2>1. /\ \A j \in DOMAIN steps : steps[j].n = Hi - j
        /\ Len(steps) >= 1 /\ soft.hi - soft.i = Hi - Len(steps)
        /\ soft.hi - soft.i >= Smaller(Lo, Hi - 1)
    BY <1>2 DEF WalkInv, StepsDown
  <2>2. soft'.i <= Trips(soft'.hi - LoopMin')
    <3>1. LoopMin' \in Int
      BY <1>1, LoopBound DEF SoftmaxNextLoop
    <3> QED
      BY <1>3, <3>1 DEF Trips, Larger
  <2>3. soft'.at = "sum" => soft'.hi <= Lo
    <3>1. soft'.at = "sum" => LoopMin = Lo
      BY <1>1, <1>2 DEF Numbers, SoftmaxNextLoop
    <3> QED
      BY <1>2, <1>3, <3>1 DEF Smaller
  <2>4. steps' = steps /\ call' = call /\ soft'.hi - soft'.i = soft.hi - soft.i
    BY <1>2, <1>3, <1>5 DEF SoftmaxNextLoop
  <2> QED
    BY <1>3, <1>4, <2>1, <2>2, <2>3, <2>4 DEF StepsDown
<1> QED
  BY <1>6, <1>7, <1>8 DEF WalkInv

LEMMA CorrectWalk == WalkInv /\ Correct => WalkInv'
<1> SUFFICES ASSUME WalkInv, Correct PROVE WalkInv'
  OBVIOUS
<1>1. Hi' = Hi /\ Lo' = Lo /\ LoadTrips' = LoadTrips /\ LoopMin' = LoopMin /\ InLoop' = InLoop
  BY RangeStays, LoopStays DEF Correct
<1>2. Shape' /\ Behind'
  BY DEF WalkInv, Shape, Behind, Correct
<1>3. LoadsDown' /\ StepsDown'
  BY <1>1 DEF WalkInv, LoadsDown, StepsDown, Correct
<1> QED
  BY <1>2, <1>3 DEF WalkInv

LEMMA NextSplitWalk == WalkInv /\ NextSplit => WalkInv'
<1> SUFFICES ASSUME WalkInv, NextSplit PROVE WalkInv'
  OBVIOUS
<1>1. Shape /\ call.splits \in Nat
  BY DEF WalkInv, Shape, IsTile
<1>2. Shape'
  BY <1>1 DEF Shape, NextSplit, SoftStart
<1>3. /\ loaded' = <<>> /\ steps' = <<>> /\ multiplied' = 0 /\ soft'.at = "first"
  BY DEF NextSplit, SoftStart
<1>4. LoadTrips' \in Nat
  <2>1. split' \in Nat /\ IsTile(call')
    BY <1>2 DEF Shape, IsTile
  <2>2. RangeOK(call', split')
    BY <2>1, Ranges
  <2> QED
    BY <2>2 DEF RangeOK, LoadTrips, Hi, Lo, Trips, Larger
<1> QED
  BY <1>2, <1>3, <1>4 DEF WalkInv, LoadsDown, Behind, StepsDown, InLoop

\* The walks are what WalkInv says for every tile, mask, window and split.
THEOREM WalkInvariant == Spec => []WalkInv
<1>1. Init => WalkInv
  BY InitWalk
<1>2. WalkInv /\ [Next]_vars => WalkInv'
  <2> SUFFICES ASSUME WalkInv, [Next]_vars PROVE WalkInv'
    OBVIOUS
  <2>1. CASE Load
    BY <2>1, LoadWalk
  <2>2. CASE Multiply
    BY <2>2, MultiplyWalk
  <2>3. CASE SoftmaxFirst
    BY <2>3, SoftmaxFirstWalk
  <2>4. CASE SoftmaxLoop
    BY <2>4, SoftmaxLoopWalk
  <2>5. CASE SoftmaxNextLoop
    BY <2>5, SoftmaxNextLoopWalk
  <2>6. CASE Correct
    BY <2>6, CorrectWalk
  <2>7. CASE NextSplit
    BY <2>7, NextSplitWalk
  <2>8. CASE UNCHANGED vars
    BY <2>8 DEF vars, WalkInv, Shape, LoadsDown, Behind, StepsDown, LoadTrips, Hi, Lo,
                InLoop, LoopMin
  <2> QED
    BY <2>1, <2>2, <2>3, <2>4, <2>5, <2>6, <2>7, <2>8 DEF Next, Walk
<1> QED
  BY <1>1, <1>2, PTL DEF Spec

\* No role is given a block number outside the sequence, but for the first one of a
\* tile without keys, which lies in front of it.
THEOREM WalkTypes == Spec => []TypeOK
<1>1. WalkInv => TypeOK
  <2> SUFFICES ASSUME WalkInv PROVE TypeOK
    OBVIOUS
  <2>1. Numbers /\ Shape
    BY NumbersOK DEF WalkInv
  <2>2. ASSUME NEW j \in DOMAIN loaded
        PROVE  loaded[j] < CeilDiv(call.seqlenK, NBlock) /\ (j > 1 => loaded[j] >= 0)
    <3>1. j \in Nat \ {0} /\ j <= LoadTrips /\ loaded[j] = Hi - j
      BY <2>1, <2>2 DEF WalkInv, LoadsDown, Shape, Numbers
    <3>2. CeilDiv(call.seqlenK, NBlock) \in Int
      <4>1. RangeOK(call, split)
        BY <2>1, RangeHere
      <4> QED
        BY <4>1 DEF RangeOK
    <3> QED
      BY <2>1, <3>1, <3>2 DEF Numbers
  <2> QED
    BY <2>1, <2>2 DEF Shape, TypeOK
<1> QED
  BY <1>1, WalkInvariant, PTL

\* Softmax publishes the row sum when it has taken all blocks.
LEMMA SumIsAll == ASSUME WalkInv, soft.at = "sum" PROVE Len(steps) = LoadTrips
<1>1. Numbers /\ Shape
  BY NumbersOK DEF WalkInv
<1>2. /\ Hi \in Int /\ Lo \in Nat /\ Len(steps) \in Nat /\ soft.hi \in Int
      /\ (Hi > Lo => LoadTrips = Hi - Lo) /\ (Hi <= Lo => LoadTrips = 1)
  BY <1>1 DEF Numbers, Shape
<1>3. /\ Len(steps) >= 1 /\ soft.hi = Hi - Len(steps)
      /\ soft.hi >= Smaller(Lo, Hi - 1) /\ soft.hi <= Lo
  BY <1>2 DEF WalkInv, StepsDown
<1> QED
  BY <1>2, <1>3 DEF Smaller

\* softmax_loop masks and scores exactly the blocks load brought, in their order,
\* although it walks them in loops of its own.
THEOREM StepsAreLoads == Spec => []SameBlocks
<1>1. WalkInv => SameBlocks
  <2> SUFFICES ASSUME WalkInv PROVE SameBlocks
    OBVIOUS
  <2>1. Numbers /\ Shape
    BY NumbersOK DEF WalkInv
  <2>2. ASSUME NEW j \in DOMAIN steps PROVE j \in DOMAIN loaded /\ steps[j].n = loaded[j]
    <3>1. j \in DOMAIN loaded
      BY <2>1, <2>2 DEF WalkInv, Behind, Shape
    <3> QED
      BY <2>2, <3>1 DEF WalkInv, LoadsDown, StepsDown
  <2>3. soft.at = "sum" => Len(steps) = LoadTrips
    BY SumIsAll
  <2> QED
    BY <2>2, <2>3 DEF SameBlocks
<1> QED
  BY <1>1, WalkInvariant, PTL

-----------------------------------------------------------------------------
(* What the splits leave behind, put together.                             *)

LEMMA InSeq == ASSUME NEW S, NEW s \in Seq(S), NEW j \in DOMAIN s PROVE s[j] \in S
OBVIOUS

LEMMA DivBounds ==
    ASSUME NEW a \in Int, NEW b \in Nat \ {0}
    PROVE  a \div b \in Int /\ (a \div b) * b <= a /\ a < (a \div b) * b + b
OBVIOUS

LEMMA DivUnique ==
    ASSUME NEW a \in Int, NEW b \in Nat \ {0}, NEW q \in Int, q * b <= a, a < q * b + b
    PROVE  a \div b = q
OBVIOUS

LEMMA DivAtLeast ==
    ASSUME NEW a \in Int, NEW c \in Int, NEW b \in Nat \ {0}, a <= c
    PROVE  a \div b <= c \div b
BY DivBounds

LEMMA CeilDivTimes ==
    ASSUME NEW a \in Int, NEW b \in Nat \ {0}
    PROVE  \E q \in Int : CeilDiv(a, b) = q /\ a <= q * b /\ (q - 1) * b < a
<1>1. a + b - 1 \in Int
  OBVIOUS
<1> DEFINE q == CeilDiv(a, b)
<1>2. q \in Int /\ a <= q * b /\ (q - 1) * b < a
  BY <1>1, DivBounds DEF CeilDiv
<1> QED
  BY <1>2

LEMMA BelowCeilDiv ==
    ASSUME NEW a \in Int, NEW c \in Int, NEW b \in Nat \ {0}, a < c
    PROVE  a \div b < CeilDiv(c, b)
BY DivBounds DEF CeilDiv

\* Only the first step of a range masks the keys behind the last one.
FirstMasks ==
    /\ steps # <<>> => HasWork
    /\ \A j \in DOMAIN steps : steps[j].seqlen <=> j = 1

\* The blocks of a split's range.
Span(s) == NBlockMin(call, s)..(NBlockMax(call, s) - 1)

\* A range without blocks is still given its first one, if it is not split.
Stepped(n, upto) == \/ \E s \in 0..(upto - 1) : n \in Span(s)
                    \/ call.splits = 1 /\ upto > 0 /\ n = NBlockMax(call, 0) - 1

\* A step without the mask is on a block that lies within the sequence.
KeepsInside(x) == x.seqlen \/ (x.n >= 0 /\ (x.n + 1) * NBlock <= call.seqlenK)

\* The splits before this one have taken their blocks, each of them once.
PastInv ==
    /\ \A j \in DOMAIN past : Stepped(past[j].n, split) /\ KeepsInside(past[j])
    /\ \A i, j \in DOMAIN past : past[i].n = past[j].n => i = j
    /\ \A s \in 0..(split - 1) : \A n \in Span(s) : \E j \in DOMAIN past : past[j].n = n

LEMMA InitPast == ASSUME Init PROVE FirstMasks /\ PastInv
<1>1. steps = <<>> /\ past = <<>> /\ split = 0
  BY DEF Init
<1>2. DOMAIN steps = {} /\ DOMAIN past = {} /\ 0..(split - 1) = {}
  BY <1>1
<1> QED
  BY <1>2 DEF FirstMasks, PastInv

LEMMA FirstMasksStep == ASSUME WalkInv, FirstMasks, [Next]_vars PROVE FirstMasks'
<1>1. Shape
  BY DEF WalkInv
<1>2. UNCHANGED <<call, split>> => HasWork' = HasWork
  BY DEF HasWork, Lo, Hi
<1>3. CASE SoftmaxFirst
  <2>1. /\ steps = <<>> /\ steps' = Append(steps, [n |-> Hi - 1, seqlen |-> TRUE])
        /\ HasWork /\ UNCHANGED <<call, split>>
    BY <1>3 DEF SoftmaxFirst, Step, SeqlenMask, WalkInv, StepsDown
  <2>2. DOMAIN steps' = {1} /\ steps'[1].seqlen = TRUE
    BY <2>1
  <2> QED
    BY <1>2, <2>1, <2>2 DEF FirstMasks
<1>4. CASE SoftmaxLoop
  <2> DEFINE x == [n |-> soft.hi - 1 - soft.i, seqlen |-> FALSE]
  <2>1. steps' = Append(steps, x) /\ Len(steps) >= 1 /\ UNCHANGED <<call, split>>
    BY <1>4 DEF SoftmaxLoop, Step, SeqlenMask, WalkInv, StepsDown, InLoop
  <2>2. /\ steps \in Seq([n : Int, seqlen : BOOLEAN]) /\ x.seqlen = FALSE
    BY <1>1 DEF Shape
  <2> HIDE DEF x
  <2>3. \A j \in DOMAIN steps' : (j \in DOMAIN steps /\ steps'[j] = steps[j])
                                    \/ (j = Len(steps) + 1 /\ steps'[j] = x)
    BY <2>1, <2>2
  <2>4. steps # <<>>
    BY <2>1
  <2> QED
    BY <1>2, <2>1, <2>2, <2>3, <2>4 DEF FirstMasks
<1>5. CASE NextSplit
  <2>1. steps' = <<>> /\ DOMAIN steps' = {}
    BY <1>5 DEF NextSplit
  <2> QED
    BY <2>1 DEF FirstMasks
<1>6. CASE UNCHANGED <<steps, call, split>>
  BY <1>2, <1>6 DEF FirstMasks
<1> QED
  BY <1>3, <1>4, <1>5, <1>6 DEF Next, Walk, Load, Multiply, SoftmaxNextLoop, Correct, vars

\* The blocks of the ranges of two splits are different ones.
LEMMA SpansApart ==
    ASSUME IsTile(call), NEW s \in Nat, NEW t \in Nat, s < t, call.splits # 1,
           NEW n \in Span(s), NEW m \in Span(t)
    PROVE  n < m
<1>1. RangeOK(call, s) /\ RangeOK(call, t)
  BY Ranges
<1>2. WholeMin(call) \in Int /\ PerSplit(call) \in Nat /\ WholeMax(call) \in Int
  BY WholeTypes DEF WholeOK
<1>3. n < WholeMin(call) + s * PerSplit(call) + PerSplit(call)
  <2>1. NBlockMax(call, s) <= NBlockMin(call, s) + PerSplit(call)
    BY <1>1, <1>2 DEF NBlockMax, Smaller, RangeOK
  <2> QED
    BY <1>1, <1>2, <2>1 DEF Span, NBlockMin, RangeOK
<1>4. (s + 1) * PerSplit(call) <= t * PerSplit(call)
  BY <1>2
<1>5. (s + 1) * PerSplit(call) = s * PerSplit(call) + PerSplit(call)
  BY <1>2
<1>6. m >= WholeMin(call) + t * PerSplit(call)
  BY DEF Span, NBlockMin
<1>7. s * PerSplit(call) \in Nat /\ t * PerSplit(call) \in Nat /\ n \in Int /\ m \in Int
  BY <1>1, <1>2 DEF Span, RangeOK
<1> QED
  BY <1>2, <1>3, <1>4, <1>5, <1>6, <1>7

\* All splits together have the range of the tile.
LEMMA SpansCover ==
    ASSUME IsTile(call), NEW n \in Int, WholeMin(call) <= n, n < WholeMax(call)
    PROVE  \E s \in 0..(call.splits - 1) : n \in Span(s)
<1>1. /\ call.splits \in Nat \ {0} /\ WholeMin(call) \in Nat /\ WholeMax(call) \in Int
      /\ PerSplit(call) \in Nat
  BY WholeTypes DEF WholeOK, IsTile
<1>2. CASE call.splits = 1
  BY <1>1, <1>2 DEF Span, NBlockMin, NBlockMax
<1>3. CASE call.splits # 1
  <2> DEFINE w == WholeMax(call) - WholeMin(call)
             p == PerSplit(call)
             a == n - WholeMin(call)
             s == a \div p
  <2>1. w \in Nat \ {0} /\ p \in Nat /\ p = CeilDiv(w, call.splits)
    BY <1>1 DEF PerSplit, Larger
  <2> HIDE DEF w, p
  <2>2. w <= p * call.splits
    <3>0. w \in Int /\ call.splits \in Nat \ {0}
      BY <1>1, <2>1
    <3>1. PICK q \in Int : CeilDiv(w, call.splits) = q /\ w <= q * call.splits
      BY <3>0, CeilDivTimes
    <3> QED
      BY <2>1, <3>1
  <2>3. p \in Nat \ {0}
    BY <1>1, <2>1, <2>2
  <2>4. a \in Nat /\ a < w
    BY <1>1 DEF w, a
  <2> HIDE DEF a
  <2>5. s \in Int /\ s * p <= a /\ a < s * p + p
    BY <2>3, <2>4, DivBounds
  <2> HIDE DEF s
  <2>6. s >= 0 /\ s < call.splits
    BY <1>1, <2>1, <2>2, <2>3, <2>5, <2>4
  <2>7. /\ NBlockMin(call, s) = WholeMin(call) + s * p
        /\ NBlockMax(call, s) = Smaller(WholeMin(call) + s * p + p, WholeMax(call))
    BY <1>3 DEF NBlockMin, NBlockMax, p
  <2>8. s * p \in Int
    BY <2>3, <2>5
  <2>9. n \in Span(s)
    BY <1>1, <2>3, <2>5, <2>7, <2>8 DEF Span, Smaller, a
  <2> QED
    BY <1>1, <2>5, <2>6, <2>9
<1> QED
  BY <1>2, <1>3

\* What a finished split leaves in steps.
LEMMA SplitSteps ==
    ASSUME WalkInv, FirstMasks, NextSplit
    PROVE  /\ \A j \in DOMAIN steps : /\ Stepped(steps[j].n, split + 1)
                                      /\ call.splits # 1 => steps[j].n \in Span(split)
                                      /\ KeepsInside(steps[j])
           /\ \A i, j \in DOMAIN steps : steps[i].n = steps[j].n => i = j
           /\ \A n \in Span(split) : \E j \in DOMAIN steps : steps[j].n = n
<1>1. Shape /\ Numbers /\ split \in Nat /\ split < call.splits /\ call.splits \in Nat
  BY NumbersOK DEF WalkInv, NextSplit, Shape, IsTile
<1>0. NBlock \in Nat \ {0} /\ call.seqlenK \in Int
  BY <1>1, CallsAssumption DEF Shape, IsTile
<1>2. /\ NBlock \in Nat \ {0} /\ call.seqlenK \in Nat /\ steps \in Seq([n : Int, seqlen : BOOLEAN])
  BY <1>1, CallsAssumption DEF Shape, IsTile
<1>3. \A j \in DOMAIN steps : steps[j].n = Hi - j /\ j \in 1..Len(steps)
  BY <1>2 DEF WalkInv, StepsDown
<1>4. HasWork => Len(steps) = LoadTrips
  BY <1>1, SumIsAll DEF WalkInv, NextSplit, RolesDone
<1>5. ~HasWork => DOMAIN steps = {} /\ Lo >= Hi
  BY <1>1, <1>2 DEF FirstMasks, HasWork, Numbers
<1>6. Lo <= Hi - 1 => HasWork /\ Len(steps) = Hi - Lo
  BY <1>1, <1>4 DEF HasWork, Numbers
<1>7. Span(split) = Lo..(Hi - 1)
  BY DEF Span, Lo, Hi
<1>8. \A n \in Span(split) : \E j \in DOMAIN steps : steps[j].n = n
  <2> TAKE n \in Span(split)
  <2>1. n \in Int /\ Lo <= n /\ n <= Hi - 1
    BY <1>1, <1>7 DEF Numbers
  <2>2. Hi - n \in DOMAIN steps
    BY <1>1, <1>2, <1>6, <2>1 DEF Numbers
  <2>3. steps[Hi - n].n = n
    BY <1>1, <1>3, <2>1, <2>2 DEF Numbers
  <2> QED
    BY <2>2, <2>3
<1>9. \A i, j \in DOMAIN steps : steps[i].n = steps[j].n => i = j
  BY <1>1, <1>3 DEF Numbers
<1>10. ASSUME NEW j \in DOMAIN steps
       PROVE  /\ Stepped(steps[j].n, split + 1) /\ KeepsInside(steps[j])
              /\ call.splits # 1 => steps[j].n \in Span(split)
  <2>1. steps[j].n = Hi - j /\ j \in Nat \ {0} /\ j <= LoadTrips /\ HasWork
    BY <1>3, <1>4, <1>5, <1>10
  <2>2. CASE Lo < Hi
    <3>1. Hi - j \in Lo..(Hi - 1)
      BY <1>1, <2>1, <2>2 DEF Numbers
    <3>2. Stepped(steps[j].n, split + 1)
      <4>1. split \in 0..(split + 1 - 1) /\ steps[j].n \in Span(split)
        BY <1>1, <1>7, <2>1, <3>1
      <4> QED
        BY <4>1 DEF Stepped
    <3>3. KeepsInside(steps[j])
      <4>1. CASE j = 1
        BY <1>10, <4>1 DEF FirstMasks, KeepsInside
      <4>2. CASE j # 1
        <5> DEFINE all == CeilDiv(call.seqlenK, NBlock) - 1
                   n == Hi - j
        <5>1. all \in Int /\ all * NBlock < call.seqlenK
          <6>2. PICK q \in Int : /\ CeilDiv(call.seqlenK, NBlock) = q
                                /\ (q - 1) * NBlock < call.seqlenK
            BY <1>0, CeilDivTimes
          <6> QED
            BY <6>2
        <5>2. n \in Nat /\ n + 1 <= all
          <6>1. Hi \in Int /\ Lo \in Nat /\ Hi <= CeilDiv(call.seqlenK, NBlock)
            BY <1>1 DEF Numbers
          <6>2. CeilDiv(call.seqlenK, NBlock) \in Int
            BY <1>0, CeilDivInt
          <6>3. j \in Nat /\ j >= 2 /\ Hi - j >= Lo
            BY <1>1, <2>1, <2>2, <4>2, <6>1 DEF Numbers
          <6> QED
            BY <6>1, <6>2, <6>3
        <5> HIDE DEF all, n
        <5>3. (n + 1) * NBlock <= all * NBlock
          BY <1>2, <5>1, <5>2
        <5>4. (n + 1) * NBlock \in Int /\ all * NBlock \in Int
          BY <1>2, <5>1, <5>2
        <5>5. (n + 1) * NBlock <= call.seqlenK
          BY <1>2, <5>1, <5>3, <5>4
        <5> QED
          BY <2>1, <5>2, <5>5 DEF KeepsInside, n
      <4> QED
        BY <4>1, <4>2
    <3> QED
      BY <1>7, <2>1, <3>1, <3>2, <3>3
  <2>3. CASE ~(Lo < Hi)
    <3>1. call.splits = 1 /\ split = 0 /\ j = 1
      BY <1>1, <2>1, <2>3 DEF HasWork, Numbers
    <3>2. Stepped(steps[j].n, split + 1)
      BY <2>1, <3>1 DEF Stepped, Hi
    <3>3. KeepsInside(steps[j])
      BY <1>10, <3>1 DEF FirstMasks, KeepsInside
    <3> QED
      BY <3>1, <3>2, <3>3
  <2> QED
    BY <2>2, <2>3
<1> QED
  BY <1>8, <1>9, <1>10

LEMMA PastStep == ASSUME WalkInv, FirstMasks, PastInv, [Next]_vars PROVE PastInv'
<1>1. CASE UNCHANGED <<call, split, past>>
  BY <1>1 DEF PastInv, Stepped, Span, KeepsInside
<1>2. CASE NextSplit
  <2>1. /\ past' = past \o steps /\ split' = split + 1 /\ call' = call /\ split \in Nat
        /\ IsTile(call) /\ split < call.splits /\ call.splits \in Nat
        /\ past \in Seq([n : Int, seqlen : BOOLEAN]) /\ steps \in Seq([n : Int, seqlen : BOOLEAN])
    BY <1>2 DEF NextSplit, WalkInv, Shape, IsTile
  <2>2. \A j \in DOMAIN past' :
            \/ j \in DOMAIN past /\ past'[j] = past[j]
            \/ j - Len(past) \in DOMAIN steps /\ past'[j] = steps[j - Len(past)]
               /\ j \in Int /\ j > Len(past)
    BY <2>1
  <2>3. /\ \A j \in DOMAIN past : j \in DOMAIN past' /\ past'[j] = past[j]
        /\ \A j \in DOMAIN steps : /\ j + Len(past) \in DOMAIN past'
                                   /\ past'[j + Len(past)] = steps[j]
    BY SMTT(30), <2>1
  <2>4. \A n, u : Span(n)' = Span(n) /\ Stepped(n, u)' = Stepped(n, u)
    BY <2>1 DEF Span, Stepped
  <2>5. \A j \in DOMAIN past' : Stepped(past'[j].n, split + 1) /\ KeepsInside(past'[j])
    <3>1. \A n : Stepped(n, split) => Stepped(n, split + 1)
      BY <2>1 DEF Stepped
    <3> QED
      BY <1>2, <2>2, <3>1, SplitSteps DEF PastInv
  <2>6. \A i \in DOMAIN past, j \in DOMAIN steps : past[i].n # steps[j].n
    <3> SUFFICES ASSUME NEW i \in DOMAIN past, NEW j \in DOMAIN steps
                 PROVE  past[i].n # steps[j].n
      OBVIOUS
    <3>1. Stepped(past[i].n, split)
      BY DEF PastInv
    <3>2. call.splits # 1
      BY <2>1, <3>1 DEF Stepped
    <3>3. PICK s \in 0..(split - 1) : past[i].n \in Span(s)
      BY <3>1, <3>2 DEF Stepped
    <3>4. steps[j].n \in Span(split)
      BY <1>2, <3>2, SplitSteps
    <3>5. past[i].n < steps[j].n
      BY SMTT(30), <2>1, <3>2, <3>3, <3>4, SpansApart
    <3>6. past[i].n \in Int /\ steps[j].n \in Int
      <4>1. past[i] \in [n : Int, seqlen : BOOLEAN] /\ steps[j] \in [n : Int, seqlen : BOOLEAN]
        BY <2>1, InSeq
      <4> QED
        BY <4>1
    <3> QED
      BY <3>5, <3>6
  <2>7. \A i, j \in DOMAIN past' : past'[i].n = past'[j].n => i = j
    <3> TAKE i, j \in DOMAIN past'
    <3> HAVE past'[i].n = past'[j].n
    <3>1. CASE i \in DOMAIN past /\ j \in DOMAIN past
      BY <2>3, <3>1 DEF PastInv
    <3>2. CASE i \notin DOMAIN past /\ j \notin DOMAIN past
      <4>1. i - Len(past) = j - Len(past) /\ i \in Int /\ j \in Int /\ Len(past) \in Int
        BY SMTT(30), <1>2, <2>1, <2>2, <3>2, SplitSteps
      <4> QED
        BY <4>1
    <3>3. CASE i \in DOMAIN past /\ j \notin DOMAIN past
      BY <2>2, <2>3, <2>6, <3>3
    <3>4. CASE i \notin DOMAIN past /\ j \in DOMAIN past
      BY <2>2, <2>3, <2>6, <3>4
    <3> QED
      BY <3>1, <3>2, <3>3, <3>4
  <2>8. \A s \in 0..split : \A n \in Span(s) : \E j \in DOMAIN past' : past'[j].n = n
    <3> TAKE s \in 0..split
    <3> TAKE n \in Span(s)
    <3>1. CASE s = split
      <4>1. PICK j \in DOMAIN steps : steps[j].n = n
        BY <1>2, <3>1, SplitSteps
      <4> QED
        BY <2>3, <4>1
    <3>2. CASE s # split
      <4>1. PICK j \in DOMAIN past : past[j].n = n
        BY <2>1, <3>2 DEF PastInv
      <4> QED
        BY <2>3, <4>1
    <3> QED
      BY <3>1, <3>2
  <2>9. \A x : KeepsInside(x)' = KeepsInside(x)
    BY <2>1 DEF KeepsInside
  <2>10. split' - 1 = split
    BY <2>1
  <2> QED
    BY <2>1, <2>4, <2>5, <2>7, <2>8, <2>9, <2>10 DEF PastInv, KeepsInside, Stepped, Span
<1> QED
  BY <1>1, <1>2 DEF Next, Walk, Load, Multiply, SoftmaxFirst, SoftmaxLoop, Step, SoftmaxNextLoop,
                    Correct, vars

\* apply_mask_sm100 lets a step score just the keys of its block that the query may
\* look at.
LEMMA ScoredExactly ==
    ASSUME IsTile(call), NEW x \in [n : Int, seqlen : BOOLEAN], KeepsInside(x),
           NEW row \in Int, NEW col \in Int
    PROVE  Scored(x, row, col) <=> Allowed(row, col) /\ col \div NBlock = Larger(x.n, 0)
<1> DEFINE n == Larger(x.n, 0)
<1>1. /\ NBlock \in Nat \ {0} /\ call.seqlenK \in Nat /\ n \in Nat
      /\ call.left \in Int /\ Diagonal(call) \in Int /\ Right(call) \in Int
  BY CallsAssumption, WholeTypes DEF IsTile, Larger, WholeOK, Unbounded
<1>2. ~x.seqlen => (n + 1) * NBlock <= call.seqlenK
  BY DEF KeepsInside, Larger
<1>3. (n + 1) * NBlock = n * NBlock + NBlock
  BY <1>1
<1> HIDE DEF n
<1>4. col \div NBlock = n <=> n * NBlock <= col /\ col < n * NBlock + NBlock
  BY <1>1, DivBounds, DivUnique
<1> USE DEF n
<1> DEFINE b == n * NBlock
<1>5. b \in Nat
  BY <1>1
<1>6. Scored(x, row, col) <=>
          /\ col - b >= 0
          /\ col - b < (IF x.seqlen THEN Smaller(NBlock, call.seqlenK - b) ELSE NBlock)
          /\ RightBound(call) => col - b < row + (Diagonal(call) - b) + 1 + Right(call)
          /\ LeftBound(call)  => col - b >= row + (Diagonal(call) - b) - call.left
  BY DEF Scored
<1> HIDE DEF b
<1>7. ~x.seqlen => b + NBlock <= call.seqlenK
  BY <1>2, <1>3 DEF b
<1>8. col \div NBlock = n <=> b <= col /\ col < b + NBlock
  BY <1>4 DEF b
<1> HIDE DEF n
<1>9. Scored(x, row, col) <=> Allowed(row, col) /\ col \div NBlock = n
  BY <1>1, <1>5, <1>6, <1>7, <1>8 DEF Allowed, Smaller
<1> QED
  BY <1>9 DEF n

\* get_n_block_min_max: the range has every key that a query of the tile may look at.
LEMMA RangeHasAllowed ==
    ASSUME IsTile(call), NEW row \in Rows, NEW col \in Nat, Allowed(row, col)
    PROVE  WholeMin(call) <= col \div NBlock /\ col \div NBlock < WholeMax(call)
<1>1. /\ NBlock \in Nat \ {0} /\ call.seqlenK \in Nat
      /\ call.left \in Int /\ Diagonal(call) \in Int /\ Right(call) \in Int
      /\ RowMin(call) \in Int /\ RowMax(call) \in Int /\ row \in Int
      /\ RowMin(call) <= row /\ row < RowMax(call)
  BY CallsAssumption, WholeTypes DEF IsTile, WholeOK, Unbounded, Rows
<1>2. col \div NBlock \in Int /\ col \div NBlock >= 0
  BY <1>1, DivBounds
<1>3. col \div NBlock < CeilDiv(call.seqlenK, NBlock)
  BY SMTT(30), <1>1, BelowCeilDiv DEF Allowed
<1>4. RightBound(call) =>
          col \div NBlock < CeilDiv(RowMax(call) + Diagonal(call) + Right(call), NBlock)
  <2> HAVE RightBound(call)
  <2> DEFINE end == RowMax(call) + Diagonal(call) + Right(call)
  <2>1. end \in Int /\ col < end
    BY <1>1 DEF Allowed
  <2> HIDE DEF end
  <2>2. col \div NBlock < CeilDiv(end, NBlock)
    BY <1>1, <2>1, BelowCeilDiv
  <2> QED
    BY <2>2 DEF end
<1>5. LeftBound(call) =>
          (RowMin(call) + Diagonal(call) - call.left) \div NBlock <= col \div NBlock
  <2> HAVE LeftBound(call)
  <2> DEFINE start == RowMin(call) + Diagonal(call) - call.left
  <2>1. start \in Int /\ col \in Int /\ start <= col
    BY <1>1 DEF Allowed
  <2> HIDE DEF start
  <2>2. start \div NBlock <= col \div NBlock
    BY <1>1, <2>1, DivAtLeast
  <2> QED
    BY <2>2 DEF start
<1>6. WholeMin(call) <= col \div NBlock
  BY <1>2, <1>5 DEF WholeMin, Larger
<1>7. col \div NBlock < WholeMax(call)
  BY <1>3, <1>4 DEF WholeMax, Smaller
<1> QED
  BY <1>6, <1>7

\* For every mask, window, head packing and number of splits: the ranges of
\* get_n_block_min_max, the loops of softmax and the masks of apply_mask_sm100
\* together score each pair of a query and a key it may look at once, and no other.
THEOREM KeysAreScoredOnce == Spec => []EachKeyOnce
<1>1. WalkInv /\ PastInv => EachKeyOnce
  <2> SUFFICES ASSUME WalkInv, PastInv, split = call.splits, NEW row \in Rows, NEW col \in Cols
               PROVE  Cardinality({j \in DOMAIN past : Scored(past[j], row, col)})
                          = IF Allowed(row, col) THEN 1 ELSE 0
    BY DEF EachKeyOnce
  <2>1. IsTile(call) /\ past \in Seq([n : Int, seqlen : BOOLEAN]) /\ call.splits \in Nat \ {0}
    BY DEF WalkInv, Shape, IsTile
  <2>2. row \in Int /\ col \in Nat
    <3>1. RowMin(call) \in Int /\ RowMax(call) \in Int /\ CeilDiv(call.seqlenK, NBlock) \in Int
      BY <2>1, WholeTypes DEF WholeOK
    <3> QED
      BY <3>1, CallsAssumption DEF Rows, Cols
  <2> DEFINE S == {j \in DOMAIN past : Scored(past[j], row, col)}
  <2>0. \A j \in DOMAIN past : past[j] \in [n : Int, seqlen : BOOLEAN] /\ past[j].n \in Int
    <3> SUFFICES ASSUME NEW j \in DOMAIN past
                 PROVE  past[j] \in [n : Int, seqlen : BOOLEAN] /\ past[j].n \in Int
      OBVIOUS
    <3>1. past[j] \in [n : Int, seqlen : BOOLEAN]
      BY <2>1, InSeq
    <3> QED
      BY <3>1
  <2>3. \A j \in DOMAIN past : j \in S <=> /\ Allowed(row, col)
                                           /\ col \div NBlock = Larger(past[j].n, 0)
    <3> SUFFICES ASSUME NEW j \in DOMAIN past
                 PROVE  Scored(past[j], row, col) <=> /\ Allowed(row, col)
                                                      /\ col \div NBlock = Larger(past[j].n, 0)
      OBVIOUS
    <3>1. past[j] \in [n : Int, seqlen : BOOLEAN] /\ KeepsInside(past[j])
      BY <2>0 DEF PastInv
    <3> QED
      BY <2>1, <2>2, <3>1, ScoredExactly
  <2>4. CASE ~Allowed(row, col)
    <3>1. S = {}
      BY <2>3, <2>4
    <3> QED
      BY <2>4, <3>1, FS_EmptySet
  <2>5. CASE Allowed(row, col)
    <3> DEFINE b == col \div NBlock
    <3>1. b \in Nat /\ WholeMin(call) <= b /\ b < WholeMax(call)
      <4>1. WholeMin(call) <= b /\ b < WholeMax(call) /\ WholeMin(call) \in Nat
        BY <2>1, <2>2, <2>5, RangeHasAllowed, WholeTypes DEF WholeOK
      <4>2. b \in Int
        BY <2>2, DivInt, CallsAssumption
      <4> QED
        BY <4>1, <4>2
    <3> HIDE DEF b
    <3>2. PICK s \in 0..(call.splits - 1) : b \in Span(s)
      BY <2>1, <3>1, SpansCover
    <3>3. PICK j \in DOMAIN past : past[j].n = b
      BY <3>2 DEF PastInv
    <3>4. j \in S
      BY <2>3, <2>5, <3>1, <3>3 DEF b, Larger
    <3>5. ASSUME NEW i \in S PROVE i = j
      <4>1. past[i].n \in Int /\ Stepped(past[i].n, split) /\ Larger(past[i].n, 0) = b
        BY <2>0, <2>3 DEF PastInv, b
      <4>2. \A t \in Nat : NBlockMin(call, t) \in Nat /\ NBlockMax(call, t) \in Int
        BY <2>1, Ranges DEF RangeOK
      <4>3. past[i].n >= 0
        <5> DEFINE m == past[i].n
        <5>0. m \in Int /\ Stepped(m, split)
          BY <4>1
        <5> HIDE DEF m
        <5>3. m >= 0 => past[i].n >= 0
          BY DEF m
        <5>1. CASE call.splits = 1
          <6>1. NBlockMax(call, 0) > b /\ split = 1
            BY <2>1, <3>1, <3>2, <4>2, <5>1 DEF Span
          <6>2. m = NBlockMax(call, 0) - 1 \/ m \in Span(0)
            BY <5>0, <6>1 DEF Stepped
          <6> QED
            BY <3>1, <4>2, <5>3, <6>1, <6>2 DEF Span
        <5>2. CASE call.splits # 1
          <6>1. PICK t \in 0..(split - 1) : m \in Span(t)
            BY <5>0, <5>2 DEF Stepped
          <6> QED
            BY <2>1, <4>2, <5>3, <6>1 DEF Span
        <5> QED
          BY <5>1, <5>2
      <4> QED
        BY <3>3, <4>1, <4>3 DEF Larger, PastInv
    <3>6. S = {j}
      BY <3>4, <3>5
    <3> QED
      BY <2>5, <3>6, FS_Singleton
  <2> QED
    BY <2>4, <2>5
<1>2. Init => FirstMasks /\ PastInv
  BY InitPast
<1>3. WalkInv /\ FirstMasks /\ PastInv /\ [Next]_vars => FirstMasks' /\ PastInv'
  BY FirstMasksStep, PastStep
<1> QED
  BY <1>1, <1>2, <1>3, WalkInvariant, PTL DEF Spec
=============================================================================
