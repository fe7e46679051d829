----------------------------- MODULE MlaPrograms -----------------------------
(***************************************************************************)
(* The forward kernel for multi-head latent attention on SM100.  A pair of *)
(* CTAs takes its query tiles through the blocks of the keys: S is         *)
(* Q @ K.T plus Qv @ V.T, of which V has two halves (splits), and O is     *)
(* P @ V again in two halves, so that each half of V is loaded twice, as V *)
(* and transposed as Vt, through one ring.  In each CTA a load warp fills  *)
(* shared memory, or load threads gather the keys with cp.async and a      *)
(* relay warp passes their arrivals on to the tensor cores; a softmax warp *)
(* group turns S into P; the epilogue warps rescale O and write it out.    *)
(***************************************************************************)
EXTENDS WarpSteps

\* tma:    TMA loads K and V
\* gather: use_cpasync_load_KV, with a bitmask of the keys; an even number of blocks
\* lse:    the logarithm of the row sums is written out too
Launches ==
    {t \in [kernel : {"mla"}, build : {"tma", "gather"}, tiles : Nat \ {0}, blocks : Nat \ {0},
            reorder : BOOLEAN, lse : BOOLEAN] : t.build = "gather" => t.blocks % 2 = 0}

Cta == {0, 1}
Splits == {0, 1}
Gather(t) == t.build = "gather"

\* Blocks before block b of tile k.
Before(t, k, b) == (k - 1) * t.blocks + b

\* The ring of a half of V: V of a block comes before Vt of the block before it.
VUse(t, k, b) == (k - 1) * 2 * t.blocks + (IF b = 0 THEN 0 ELSE 2 * b - 1)
VtUse(t, k, b) ==
    (k - 1) * 2 * t.blocks + (IF b = t.blocks - 1 THEN 2 * t.blocks - 1 ELSE 2 * b + 2)

-----------------------------------------------------------------------------
(* Memory and barriers.                                                    *)

\* By name, for what there is two of: Q and Qv, V, Vt, O.
Qv(i) == IF i = 0 THEN "Qv0" ELSE "Qv1"
V(i)  == IF i = 0 THEN "V0" ELSE "V1"
Vt(i) == IF i = 0 THEN "Vt0" ELSE "Vt1"
O(i)  == IF i = 0 THEN "O0" ELSE "O1"
Or(i) == IF i = 0 THEN "Or0" ELSE "Or1"
SO(i) == IF i = 0 THEN "sO0" ELSE "sO1"

\* First column and width in tensor memory; Sq, Sv are what S is before all is added.
Columns(name, slot) ==
    CASE name \in {"Sq", "Sv", "S"} -> <<64 * slot, 64>>
      [] name \in {"O0", "Or0"} -> <<128, 128>>
      [] name \in {"O1", "Or1"} -> <<256, 128>>

\* sVt_i reuses sV_i, and sO is made over sV0 and sV1 (overlap_sO_sV) with an index for
\* each of their slots: a half of O goes to the slot that Vt of the last block had.
SoIndex(i) == 1 + 2 * i
Place(name, slot) ==
    CASE name \in {"V0", "Vt0"} -> slot [] name \in {"V1", "Vt1"} -> 2 + slot
      [] name = "sO0" -> SoIndex(0) [] name = "sO1" -> SoIndex(1)

Overlap(t, x, y) ==
    LET both == {x[1], y[1]}
    IN  \/ both \subseteq {"Sq", "Sv", "S", "O0", "Or0", "O1", "Or1"}
               /\ Meet(Columns(x[1], x[2]), Columns(y[1], y[2]))
        \/ both \subseteq {"V0", "Vt0", "V1", "Vt1", "sO0", "sO1"}
               /\ Place(x[1], x[2]) = Place(y[1], y[2])

\* Stages, and arrivals of a phase: those of both CTAs where the leader waits.
Pipes ==
    [Q  |-> Pipe("Q", 1, 2, 1), Qv0 |-> Pipe("Qv0", 1, 2, 1), Qv1 |-> Pipe("Qv1", 1, 2, 1),
     K  |-> Pipe("K", 1, 2, 1), V0 |-> Pipe("V0", 2, 2, 1), V1 |-> Pipe("V1", 2, 2, 1),
     S  |-> Pipe("S", 2, 1, 2), P |-> Pipe("P", 1, 2, 1),
     O0 |-> Pipe("O0", 1, 1, 2), O1 |-> Pipe("O1", 1, 1, 2),
     sm_stats |-> Pipe("sm_stats", 2, 1, 1), bitmask |-> Pipe("bitmask", 4, 1, 1),
     K_cpasync  |-> Pipe("K_cpasync", 1, 1, 1), V0_cpasync |-> Pipe("V0_cpasync", 2, 1, 1),
     V1_cpasync |-> Pipe("V1_cpasync", 2, 1, 1)]

Got(pipe, n, c)   == Take(Pipes[pipe], n, c)
Space(pipe, n, c) == Room(Pipes[pipe], n, c)
FullAt(pipe, n, c)  == Full(Pipes[pipe], n, c)
EmptyAt(pipe, n, c) == Empty(Pipes[pipe], n, c)
FullOf(pipe, n)  == {FullAt(pipe, n, c) : c \in Cta}
EmptyOf(pipe, n) == {EmptyAt(pipe, n, c) : c \in Cta}
Ended(pipe, n, c) == Drained(Pipes[pipe], n, c)
EndedAll(uses, c) == << Wait({Ended(pipe, uses[pipe], c) : pipe \in DOMAIN uses}) >>

SoEmpty(c) == Bar("sO_empty", 0, c, 1)
StatsFull(c) == Bar("sm_stats_barrier_full", 0, c, 2)
StatsEmpty(c) == Bar("sm_stats_barrier_empty", 0, c, 2)
BulkGroup(i, c) == Bar("bulk_group", i, c, 1)

-----------------------------------------------------------------------------
(* The load warp.                                                          *)

\* load_inner: what it is about is what the n-th use of the pipeline has to be.
LoadInner(t, c, pipe, name, n, value) ==
    Load(t.reorder, {Space(pipe, n, c)},
         Effect({Fill(value, <<name, Slot(Pipes[pipe], n), c>>)}, {FullAt(pipe, n, 0)}))

\* cpasync_gather_load_KV: the copies of the load threads arrive for the relay warp.
GatherInner(t, c, pipe, name, n, value) ==
    LET cpasync == CASE pipe = "K" -> "K_cpasync" [] pipe = "V0" -> "V0_cpasync"
                     [] pipe = "V1" -> "V1_cpasync"
    IN  Load(t.reorder, {Space(pipe, n, c)},
             Effect({Fill(value, <<name, Slot(Pipes[pipe], n), c>>)}, {FullAt(cpasync, n, c)}))

\* K and V of block b; then, but for the first block, Vt of the block before it.
LoadBlocks(t, c, k, Inner(_, _, _, _, _, _), Others(_)) ==
    LET OfBlock(b) == Of(k, b + 1)
        KV(b) ==
            << Inner(t, c, "K", "K", Before(t, k, b), OfBlock(b)),
               Inner(t, c, "V0", "V0", VUse(t, k, b), OfBlock(b)),
               Inner(t, c, "V1", "V1", VUse(t, k, b), OfBlock(b)) >> \o Others(b)
        Transposed(b) ==
            << Inner(t, c, "V0", "Vt0", VtUse(t, k, b), OfBlock(b)),
               Inner(t, c, "V1", "Vt1", VtUse(t, k, b), OfBlock(b)) >>
        Block(b) == KV(b) \o Transposed(b - 1)
    IN  KV(0) \o << Wait({For(SoEmpty(c), k - 1)}) >> \o Loop(1, t.blocks - 1, Block)
        \o Transposed(t.blocks - 1)

\* Q and Qv, which the tensor cores wait for, and are done with, together.
Operands == {"Q", "Qv0", "Qv1"}
LoadOperands(t, c, k) ==
    Load(t.reorder, {Space(x, k - 1, c) : x \in Operands},
         Effect({Fill(Of(k, 0), At(x, c)) : x \in Operands}, {FullAt(x, k - 1, 0) : x \in Operands}))

\* How often the pipelines of K and V are used.
Uses(t) == LET all == t.tiles * t.blocks IN [K |-> all, V0 |-> 2 * all, V1 |-> 2 * all]

LoadWarp(t, c) ==
    LET None(b) == <<>>
        Tile(k) == << LoadOperands(t, c, k) >>
                       \o When(~Gather(t), LoadBlocks(t, c, k, LoadInner, None))
    IN  Loop(1, t.tiles, Tile) \o EndedAll([x \in Operands |-> t.tiles], c)
        \o When(~Gather(t), EndedAll(Uses(t), c))

-----------------------------------------------------------------------------
(* The load threads that gather, and the relay warp.                       *)

LoadCpasync(t, c) ==
    LET all == t.tiles * t.blocks
        Tile(k) ==
            LET Bitmask(b) ==    \* compute_bitmask
                    LET n == Before(t, k, b)
                    IN  << Step({Space("bitmask", n, c)},
                                Effect({Fill(Of(k, b + 1),
                                             <<"sBitmask", Slot(Pipes.bitmask, n), c>>)},
                                       {FullAt("bitmask", n, c)})) >>
            IN  LoadBlocks(t, c, k, GatherInner, Bitmask)
    IN  Loop(1, t.tiles, Tile)
        \o EndedAll([K_cpasync |-> all, V0_cpasync |-> 2 * all, V1_cpasync |-> 2 * all,
                     bitmask |-> all], c)

\* relay_inner.
RelayInner(c, cpasync, pipe, n) == << Step({Got(cpasync, n, c)}, Signal({FullAt(pipe, n, 0)})) >>

Relay(t, c) ==
    LET Tile(k) ==
            LET K(b) == RelayInner(c, "K_cpasync", "K", Before(t, k, b))
                Halves(n) == RelayInner(c, "V0_cpasync", "V0", n) \o RelayInner(c, "V1_cpasync", "V1", n)
                first == 2 * Before(t, k, 0)
                Block(b) == K(b) \o Halves(first + 2 * b - 1) \o Halves(first + 2 * b)
            IN  K(0) \o Halves(first) \o Loop(1, t.blocks - 1, Block)
                \o Halves(first + 2 * t.blocks - 1)
    IN  Loop(1, t.tiles, Tile) \o EndedAll(Uses(t), c)

-----------------------------------------------------------------------------
(* The MMA warp of the leading CTA.                                        *)

Both(name, pipe, n) == {<<name, Slot(Pipes[pipe], n), c>> : c \in Cta}

\* S = Q @ K.T; S += Qv @ V.T, half after half.
MmaS(t, k, b, wait) ==
    LET u == Before(t, k, b)
        v == VUse(t, k, b)
        S(name, c) == <<name, Slot(Pipes.S, u), c>>
    IN  << Issue(wait \cup {Space("S", u, 0), Got("K", u, 0)},
               << Effect({Put({At("Q", c)} \cup Both("K", "K", u), S("Sq", c)) : c \in Cta},
                         EmptyOf("K", u)) >>),
           Issue({Got("V0", v, 0)},
               << Effect({Put({S("Sq", c), At("Qv0", c)} \cup Both("V0", "V0", v), S("Sv", c))
                             : c \in Cta}, EmptyOf("V0", v)) >>),
           Issue({Got("V1", v, 0)},
               << Effect({Put({S("Sv", c), At("Qv1", c)} \cup Both("V1", "V1", v), S("S", c))
                             : c \in Cta}, EmptyOf("V1", v) \cup FullOf("S", u)) >>) >>

\* Oi = P @ Vi, or += after the rescaling of what there is (zero_init only at first).
MmaPVt(t, k, b) ==
    LET u == Before(t, k, b)
        n == VtUse(t, k, b)
        Half(i) ==
            << Issue((IF i = 0 THEN {Got("P", u, 0)} ELSE {}) \cup {Space(O(i), u, 0), Got(V(i), n, 0)},
                   << Effect({Put({At("P", c)} \cup Both(Vt(i), V(i), n)
                                   \cup (IF b = 0 THEN {} ELSE {At(Or(i), c)}), At(O(i), c))
                                 : c \in Cta},
                             EmptyOf(V(i), n) \cup FullOf(O(i), u)
                                 \cup (IF i = 1 THEN EmptyOf("P", u) ELSE {})) >>) >>
    IN  Half(0) \o Half(1)

Mma(t) ==
    LET all == t.tiles * t.blocks
        Tile(k) ==
            LET operands == {Got(x, k - 1, 0) : x \in Operands}
                Block(b) == MmaS(t, k, b, {}) \o MmaPVt(t, k, b - 1)
            IN  MmaS(t, k, 0, operands) \o Loop(1, t.blocks - 1, Block)
                \o MmaPVt(t, k, t.blocks - 1)
                \o << Issue({}, << Signal(UNION {EmptyOf(x, 0) : x \in Operands}) >>) >>
    IN  Loop(1, t.tiles, Tile) \o EndedAll([S |-> all, O0 |-> all, O1 |-> all], 0)

-----------------------------------------------------------------------------
(* Softmax.                                                                *)

SoftmaxStep(t, c, k, b) ==
    LET u == Before(t, k, b)
        operands == {<<"S", Slot(Pipes.S, u), c>>}
        Bitmask ==
            << Step({Got("bitmask", u, c)},
                    Effect({Put({At("rS", c), <<"sBitmask", Slot(Pipes.bitmask, u), c>>}, At("rS", c))},
                           {EmptyAt("bitmask", u, c)})) >>
        RowMax == << Step({}, Effect({Put({At("rS", c)}, At("sRowMax", c))}, {})) >>
    IN  << Step({Got("S", u, c)},
                Effect({Put(operands, At("rS", c))}, {EmptyAt("S", u, 0)})) >>
        \o When(Gather(t), Bitmask) \o When(t.lse, RowMax)
        \o << Step({Space("sm_stats", u, c)},
                   Effect({Put({At("rS", c)}, <<"sScale", Slot(Pipes.sm_stats, u), c>>)},
                          {FullAt("sm_stats", u, c)})),
              Step({Space("P", u, c)},
                   Effect({Put({At("rS", c)}, At("P", c))}, {FullAt("P", u, 0)})) >>

\* Row sums and maxima go to the epilogue warps: sm_stats_barrier_full, and _empty.
Softmax(t, c) ==
    LET all == t.tiles * t.blocks
        totals == {"sRowSum"} \cup (IF t.lse THEN {"sRowMax"} ELSE {})
        Tile(k) ==
            LET Block(b) == SoftmaxStep(t, c, k, b)
            IN  Loop(0, t.blocks - 1, Block)
                \o << Step({}, Effect({Put({At("rS", c)}, At(x, c)) : x \in totals}, {StatsFull(c)})),
                      Step({}, Signal({StatsEmpty(c)})),
                      Wait({Done(StatsEmpty(c), k)}) >>
    IN  Loop(1, t.tiles, Tile) \o EndedAll([P |-> all, sm_stats |-> all], c)

-----------------------------------------------------------------------------
(* Correction and epilogue, one warp group.                                *)

Rescale(t, c, k, b) ==
    LET u == Before(t, k, b)
        stats == {<<"sScale", Slot(Pipes.sm_stats, u), c>>}
        Half(i) ==
            << Step({Got(O(i), u - 1, c)},
                    Effect({PutAfter(At(O(i), c), {At("scale", c)}, At(Or(i), c))},
                           {EmptyAt(O(i), u - 1, 0)})) >>
    IN  << Step({Got("sm_stats", u, c)},
                Effect({Put(stats, At("scale", c))}, {EmptyAt("sm_stats", u, c)})) >>
        \o Half(0) \o Half(1)

Out(k, c, i) == <<IF i = 0 THEN "gO0" ELSE "gO1", k, c>>
Lse(k, c) == <<"gLSE", k, c>>

\* The row sums are read, and given back before the row maxima are read for the LSE.
ReadStats(t, c, k) ==
    << Step({}, Signal({StatsFull(c)})),
       Step({Done(StatsFull(c), k)},
            Effect({Put({At("sRowSum", c)}, At("row_sum", c))}, {StatsEmpty(c)})) >>
    \o When(t.lse, << Step({}, Effect({Put({At("row_sum", c), At("sRowMax", c)}, Lse(k, c))}, {})) >>)

StoreHalf(t, c, k, i) ==
    StepAndCopy({Got(O(i), Before(t, k, t.blocks - 1), c)},
        Effect({Put({At(O(i), c), At("row_sum", c)}, At(SO(i), c))}, {}),
        Effect({Put({At(SO(i), c)}, Out(k, c, i))}, {BulkGroup(i, c)}))

\* What was stored is read: Vt may go to its place, and the next tile's P @ V to O.
Stored(c, k) ==
    Step({Done(BulkGroup(i, c), k) : i \in Splits},
         Signal({SoEmpty(c)} \cup {EmptyAt(O(i), 0, 0) : i \in Splits}))

Correction(t, c) ==
    LET Tile(k) ==
            LET n == Before(t, k, 0)
                Block(b) == Rescale(t, c, k, b)
            IN  << Step({Got("sm_stats", n, c)}, Signal({EmptyAt("sm_stats", n, c)})) >>
                \o Loop(1, t.blocks - 1, Block) \o ReadStats(t, c, k)
                \o << StoreHalf(t, c, k, 0), StoreHalf(t, c, k, 1), Stored(c, k) >>
    IN  Loop(1, t.tiles, Tile)

-----------------------------------------------------------------------------
Roles(t) ==
    {<<"mma", 0>>} \cup ({"load", "softmax", "correction"} \X Cta)
    \cup (IF Gather(t) THEN {"load_cpasync", "relay"} \X Cta ELSE {})

Program(t, r) ==
    CASE r[1] = "mma" -> Mma(t) [] r[1] = "load" -> LoadWarp(t, r[2])
      [] r[1] = "load_cpasync" -> LoadCpasync(t, r[2]) [] r[1] = "relay" -> Relay(t, r[2])
      [] r[1] = "softmax" -> Softmax(t, r[2]) [] r[1] = "correction" -> Correction(t, r[2])

Result(t) ==
    LET outputs == {Out(k, c, i) : k \in 1..t.tiles, c \in Cta, i \in Splits}
                       \cup (IF t.lse THEN {Lse(k, c) : k \in 1..t.tiles, c \in Cta} ELSE {})
    IN  [r \in outputs |-> Of(r[2], t.blocks)]
=============================================================================
