------------------------------ MODULE PHandoff ------------------------------
(***************************************************************************)
(* One P tile on its way from a softmax warpgroup to the PV GEMM.  The     *)
(* warpgroup stores P's tensor-memory columns chunk by chunk and signals   *)
(* twice; the GEMM multiplies K-tile by K-tile, some after the first       *)
(* signal and the rest after the second.  Chunks and K-tiles have unlike   *)
(* widths, and both sides compute where to split with mbar_p_split, each   *)
(* from its own count.  The width of a chunk and the fraction can be set   *)
(* from the environment.                                                   *)
(***************************************************************************)
EXTENDS Integers, TLAPS

CONSTANTS
    Configs    \* [width : bits of P, rep : columns of a chunk, num, den : the fraction,
               \*  late : fp4_pv_quant_store_pipeline]

NBlock == 128          \* n_block_size: the default of the kernel and of interface.py
KTileColumns == 8      \* mma_inst_bits_k = 256: a K-tile is eight 32-bit columns

Columns(c) == (NBlock * c.width) \div 32
Chunks(c)  == Columns(c) \div c.rep
KTiles(c)  == Columns(c) \div KTileColumns

ASSUME ConfigsAssumption ==
    \A c \in Configs :
        /\ c.width \in {4, 8, 16} /\ c.late \in BOOLEAN
        /\ c.rep \in Nat \ {0} /\ c.num \in Nat /\ c.den \in Nat \ {0}
        /\ Chunks(c) * c.rep = Columns(c)

\* mbar_p_split: how many of k pieces are released by the first signal.
Clamp(k, n) == IF n > k - 1 THEN IF k > 1 THEN k - 1 ELSE 1
               ELSE IF n < 1 THEN 1 ELSE n
PSplit(c, k) == IF c.width > 8 THEN (k \div 4) * 3 ELSE Clamp(k, (k * c.num) \div c.den)

\* Chunks stored before the first signal.
FirstChunks(c) == IF c.late THEN Chunks(c) ELSE PSplit(c, Chunks(c))

\* K-tiles multiplied before the wait inside the GEMM: the first one always.
FirstKTiles(c) == LET n == PSplit(c, KTiles(c)) IN IF n < 1 THEN 1 ELSE n

VARIABLES
    config,    \* the build
    issued,    \* chunks whose store (tcgen05.st) has been issued
    landed,    \* chunks whose store is complete
    signals,   \* phases completed: P_full_O_rescaled, then P_full_2
    done       \* K-tiles multiplied

vars == <<config, issued, landed, signals, done>>

Chunk == 0..(Chunks(config) - 1)

Init == /\ config \in Configs
        /\ issued = 0 /\ landed = {} /\ signals = 0 /\ done = 0

StoreOneMore ==
    /\ issued <= (IF signals = 0 THEN FirstChunks(config) ELSE Chunks(config))
    /\ issued' = issued + 1
    /\ UNCHANGED <<config, landed, signals, done>>
StoreChunk ==
    /\ issued < (IF signals = 0 THEN FirstChunks(config) ELSE Chunks(config))
    /\ issued' = issued + 1
    /\ UNCHANGED <<config, landed, signals, done>>

Land(i) ==
    /\ i \in Chunk /\ i < issued /\ i \notin landed
    /\ landed' = landed \cup {i}
    /\ UNCHANGED <<config, issued, signals, done>>

\* fence_view_async_tmem_store: every store issued so far is complete.
NotFenced == TRUE
Fenced == landed = 0..(issued - 1)

Signal ==
    /\ signals < 2
    /\ issued = (IF signals = 0 THEN FirstChunks(config) ELSE Chunks(config))
    /\ Fenced
    /\ signals' = signals + 1
    /\ UNCHANGED <<config, issued, landed, done>>

\* Signals the GEMM has waited for by the time it multiplies K-tile k.
AwaitedTooMany(k) == IF k < FirstKTiles(config) THEN 1 ELSE 3
Awaited(k) == IF k < FirstKTiles(config) THEN 1 ELSE 2

MultiplyKTile ==
    /\ done < KTiles(config)
    /\ signals >= Awaited(done)
    /\ done' = done + 1
    /\ UNCHANGED <<config, issued, landed, signals>>

Next == StoreChunk \/ (\E i \in Chunk : Land(i)) \/ Signal \/ MultiplyKTile

Spec == Init /\ [][Next]_vars
        /\ WF_vars(StoreChunk) /\ WF_vars(\E i \in Chunk : Land(i))
        /\ WF_vars(Signal) /\ WF_vars(MultiplyKTile)

-----------------------------------------------------------------------------

\* Stores, signals and K-tiles stay within the tile (loop bounds of softmax_step).
TypeOK == /\ config \in Configs
          /\ issued \in 0..Chunks(config) /\ landed \subseteq 0..(issued - 1)
          /\ signals \in 0..2 /\ done \in 0..KTiles(config)

\* The chunks a K-tile's columns lie in.
ChunksOf(k) == {i \in Chunk : /\ i * config.rep < (k + 1) * KTileColumns
                              /\ k * KTileColumns < (i + 1) * config.rep}

\* A K-tile is multiplied only when every chunk it reads has been stored: the
\* signals of softmax_step cover what gemm_ptx_partial takes them to cover ("the
\* fraction of P store chunks (and matching PV MMA K-tiles)").
ReadsStoredP == [][done' > done => ChunksOf(done) \subseteq landed]_vars

\* The GEMM gets every K-tile in the end, whatever the split: neither its wait for
\* the first signal nor the one inside it (gemm_ptx_partial) is for ever.
AllMultiplied == <>(done = KTiles(config))

\* The safety contract of the two splits (debug/b300_fp4_pv_analysis.md): the
\* softmax side's fraction is at least the GEMM side's.
SafetyContract(c) == FirstChunks(c) * KTiles(c) >= FirstKTiles(c) * Chunks(c)

-----------------------------------------------------------------------------
(* For any set of builds: where the two splits keep the safety contract,   *)
(* no K-tile of P is multiplied before it is stored.                       *)

Sizes(c) == /\ Chunks(c) \in Nat \ {0} /\ KTiles(c) \in Nat \ {0} /\ c.rep \in Nat \ {0}
            /\ Chunks(c) * c.rep = KTiles(c) * KTileColumns
            /\ FirstChunks(c) \in 0..Chunks(c) /\ FirstKTiles(c) \in Nat \ {0}

\* Chunks and K-tiles cut the same columns, and mbar_p_split stays within bounds.
LEMMA SizesOK == \A c \in Configs : Sizes(c)
<1> SUFFICES ASSUME NEW c \in Configs PROVE Sizes(c)
  OBVIOUS
<1> DEFINE cols == Columns(c)
           n == Chunks(c)
<1>1. /\ c.width \in {4, 8, 16} /\ c.rep \in Nat \ {0} /\ c.num \in Nat
      /\ c.den \in Nat \ {0} /\ n * c.rep = cols
  BY ConfigsAssumption
<1>2. cols \in {16, 32, 64} /\ KTiles(c) \in {2, 4, 8} /\ KTiles(c) * 8 = cols
  BY <1>1 DEF Columns, KTiles, NBlock, KTileColumns
<1>3. n \in Int
  BY <1>1, <1>2 DEF Chunks
<1>4. n \in Nat \ {0}
  <2> HIDE DEF n, cols
  <2>1. CASE n <= 0
    <3>1. n * c.rep <= 0
      BY <1>1, <1>3, <2>1
    <3> QED
      BY <1>1, <1>2, <3>1
  <2> QED
    BY <1>3, <2>1
<1>5. PSplit(c, n) \in 0..n
  <2> HIDE DEF n
  <2>1. (n * c.num) \div c.den \in Int
    BY <1>1, <1>4
  <2>2. (n \div 4) * 3 \in 0..n
    BY <1>4
  <2> HIDE DEF Clamp
  <2>3. Clamp(n, (n * c.num) \div c.den) \in 0..n
    <3> DEFINE m == (n * c.num) \div c.den
    <3> HIDE DEF m
    <3>1. m \in Int
      BY <2>1 DEF m
    <3>2. Clamp(n, m) \in 0..n
      BY <1>4, <3>1 DEF Clamp
    <3> QED
      BY <3>2 DEF m
  <2> QED
    BY <2>2, <2>3 DEF PSplit
<1>6. FirstChunks(c) \in 0..n
  BY <1>4, <1>5 DEF FirstChunks
<1>7. FirstKTiles(c) \in Nat \ {0}
  <2>1. (KTiles(c) * c.num) \div c.den \in Int
    BY <1>1, <1>2
  <2>2. PSplit(c, KTiles(c)) \in Int
    BY <1>2, <2>1 DEF PSplit, Clamp
  <2> HIDE DEF PSplit
  <2> QED
    BY <2>2 DEF FirstKTiles
<1> QED
  BY <1>1, <1>2, <1>4, <1>6, <1>7 DEF Sizes, KTileColumns

\* Under the contract the columns released first cover the K-tiles multiplied first.
LEMMA ContractCovers ==
    ASSUME NEW c \in Configs, SafetyContract(c)
    PROVE  FirstKTiles(c) * KTileColumns <= FirstChunks(c) * c.rep
<1> DEFINE C == Chunks(c)  T == KTiles(c)  F == FirstChunks(c)  K == FirstKTiles(c)  r == c.rep
<1>1. /\ C \in Nat \ {0} /\ T \in Nat \ {0} /\ r \in Nat \ {0} /\ F \in Nat /\ K \in Nat
      /\ C * r = T * 8 /\ F * T >= K * C
  BY SizesOK DEF Sizes, SafetyContract, KTileColumns
<1> HIDE DEF C, T, F, K, r
<1>2. (F * T) * r >= (K * C) * r
  BY <1>1
<1>3. (K * C) * r = K * (T * 8)
  BY <1>1
<1>4. (F * r) * T >= (K * 8) * T
  BY <1>1, <1>2, <1>3
<1>5. F * r >= K * 8
  <2> DEFINE a == F * r  b == K * 8
  <2>1. a \in Nat /\ b \in Nat /\ a * T >= b * T
    BY <1>1, <1>4
  <2> HIDE DEF a, b
  <2>2. a >= b
    BY <1>1, <2>1
  <2> QED
    BY <2>2 DEF a, b
<1> QED
  BY <1>5 DEF F, K, r, KTileColumns

\* What the two signals of softmax_step say about P.
Released ==
    /\ signals >= 1 => 0..(FirstChunks(config) - 1) \subseteq landed
    /\ signals = 2 => Chunk \subseteq landed

\* Every step keeps the types and the meaning of the signals.
LEMMA StepReleased == TypeOK /\ Released /\ [Next]_vars => TypeOK' /\ Released'
<1> SUFFICES ASSUME TypeOK, Released, [Next]_vars PROVE TypeOK' /\ Released'
  OBVIOUS
<1>1. /\ Chunks(config) \in Nat \ {0} /\ KTiles(config) \in Nat \ {0}
      /\ FirstChunks(config) \in 0..Chunks(config)
  BY SizesOK DEF TypeOK, Sizes
<1> HIDE DEF Chunks, KTiles, FirstChunks
<1>2. CASE StoreChunk
  BY <1>1, <1>2 DEF StoreChunk, TypeOK, Released, Chunk
<1>3. ASSUME NEW i \in Chunk, Land(i) PROVE TypeOK' /\ Released'
  BY <1>1, <1>3 DEF Land, TypeOK, Released, Chunk
<1>4. CASE Signal
  BY <1>1, <1>4 DEF Signal, Fenced, TypeOK, Released, Chunk
<1>5. CASE MultiplyKTile
  BY <1>1, <1>5 DEF MultiplyKTile, TypeOK, Released, Chunk
<1>6. CASE UNCHANGED vars
  BY <1>6 DEF vars, TypeOK, Released, Chunk
<1> QED
  BY <1>2, <1>3, <1>4, <1>5, <1>6 DEF Next

\* TypeOK and the meaning of the signals hold of every state.
THEOREM HandoffInvariant == Spec => [](TypeOK /\ Released)
<1>1. Init => TypeOK /\ Released
  <2> SUFFICES ASSUME Init PROVE TypeOK /\ Released
    OBVIOUS
  <2>1. Chunks(config) \in Nat /\ KTiles(config) \in Nat
    BY SizesOK DEF Init, Sizes
  <2> QED
    BY <2>1 DEF Init, TypeOK, Released
<1> QED
  BY <1>1, StepReleased, PTL DEF Spec

\* The safety contract is enough: in a build that keeps it the PV GEMM multiplies
\* a K-tile only when softmax_step has stored every chunk of P the tile reads.
THEOREM ContractIsEnough == (\A c \in Configs : SafetyContract(c)) => (Spec => ReadsStoredP)
<1> SUFFICES ASSUME \A c \in Configs : SafetyContract(c) PROVE Spec => ReadsStoredP
  OBVIOUS
<1>1. TypeOK /\ Released /\ [Next]_vars => [done' > done => ChunksOf(done) \subseteq landed]_vars
  <2> SUFFICES ASSUME TypeOK, Released, Next, done' > done, NEW i \in ChunksOf(done)
               PROVE  i \in landed
    BY DEF vars, TypeOK
  <2>1. MultiplyKTile /\ done \in Nat
    BY DEF Next, StoreChunk, Land, Signal, TypeOK, vars
  <2>2. /\ i \in Chunk /\ i \in Nat /\ config.rep \in Nat \ {0}
        /\ i * config.rep < (done + 1) * KTileColumns
        /\ FirstKTiles(config) \in Nat /\ FirstChunks(config) \in Nat
    BY SizesOK DEF ChunksOf, Chunk, TypeOK, Sizes
  <2>3. CASE done < FirstKTiles(config)
    <3>1. FirstKTiles(config) * KTileColumns <= FirstChunks(config) * config.rep
      BY ContractCovers DEF TypeOK
    <3>2. (done + 1) * KTileColumns <= FirstKTiles(config) * KTileColumns
      BY <2>1, <2>2, <2>3 DEF KTileColumns
    <3>3. i * config.rep < FirstChunks(config) * config.rep
      BY <2>1, <2>2, <3>1, <3>2 DEF KTileColumns
    <3>4. i < FirstChunks(config)
      <4> DEFINE r == config.rep  f == FirstChunks(config)
      <4>1. i \in Nat /\ r \in Nat \ {0} /\ f \in Nat /\ i * r < f * r
        BY <2>2, <3>3
      <4> HIDE DEF r, f
      <4> QED
        BY <4>1 DEF f
    <3>5. signals >= 1
      BY <2>1, <2>3 DEF MultiplyKTile, Awaited
    <3> QED
      BY <2>2, <3>4, <3>5 DEF Released
  <2>4. CASE ~(done < FirstKTiles(config))
    <3>1. signals = 2
      BY <2>1, <2>4 DEF MultiplyKTile, Awaited, TypeOK
    <3> QED
      BY <2>2, <3>1 DEF Released
  <2> QED
    BY <2>3, <2>4
<1> QED
  BY <1>1, HandoffInvariant, PTL DEF Spec, ReadsStoredP
=============================================================================
