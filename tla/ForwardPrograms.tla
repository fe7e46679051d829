--------------------------- MODULE ForwardPrograms ---------------------------
(***************************************************************************)
(* The forward kernel for SM100 in 16 or 8 bits: one CTA, or a pair of     *)
(* them, takes its query tiles through the blocks of K and V.  In each CTA *)
(* a load warp fills shared memory, a softmax warp group for each half of  *)
(* the tile (a stage) turns S into P, four correction warps rescale O and  *)
(* write it out, an epilogue warp stores it; the MMA warp of the leading   *)
(* CTA drives the tensor cores of both.                                    *)
(***************************************************************************)
EXTENDS WarpSteps

\* plain:  head dimension 128, tiles one after the other (is_persistent)
\* uneven: head dimension 192 and 128 for V: uneven_kv_smem, overlap_sO_sQ
\* varlen: as plain, and the correction warps store O (use_correction_warps_for_epi)
\* single: as plain, with one stage
\* pair:   two CTAs (use_2cta_instrs), with one stage
Launches ==
    [kernel : {"forward"}, build : {"plain", "uneven", "varlen", "single", "pair"},
     tiles : Nat \ {0}, blocks : Nat \ {0}, reorder : BOOLEAN]

Cta(t) == IF t.build = "pair" THEN {0, 1} ELSE {0}
QStages(t) == IF t.build \in {"single", "pair"} THEN 1 ELSE 2
LastStage(t) == QStages(t) - 1
Uneven(t) == t.build = "uneven"

\* Blocks before block b of tile k, and uses of a pipeline that has a slot for each stage.
Before(t, k, b) == (k - 1) * t.blocks + b
Use(t, n, s) == n * QStages(t) + s

-----------------------------------------------------------------------------
(* Memory and barriers.                                                    *)

\* First column and width in tensor memory (m_block_size = n_block_size = 128), by stage.
\* P is in two parts, of which the second is signalled on its own (split_P_arrive); Or is
\* O rescaled for a block, Oh what the first part of P was added to.
Columns(name, s) ==
    CASE name = "S"  -> <<s * 128, 128>>
      [] name = "Pa" -> <<s * 128 + 64, 48>>
      [] name = "Pb" -> <<s * 128 + 64 + 48, 16>>
      [] name \in {"O", "Or", "Oh"} -> <<256 + s * 128, 128>>

\* First and number of 32 columns of 128 rows of K or V in a slot of the ring.
KvPlace(t, name, slot) ==
    IF Uneven(t)
    THEN IF name = "K" THEN <<5 * slot - (IF slot = 1 THEN 1 ELSE 0), 6>>
                       ELSE <<5 * slot + (IF slot = 1 THEN 1 ELSE 0), 4>>
    ELSE <<4 * slot, 4>>

\* sO is made over sQ (overlap_sO_sQ): in 32 columns of 128 rows.
QoPlace(name, s) == IF name = "Q" THEN <<6 * s, 6>> ELSE <<4 * s, 4>>

Overlap(t, x, y) ==
    LET both == {x[1], y[1]}
    IN  \/ both \subseteq {"S", "Pa", "Pb", "O", "Or", "Oh"}
               /\ Meet(Columns(x[1], x[2]), Columns(y[1], y[2]))
        \/ both \subseteq {"K", "V"} /\ Meet(KvPlace(t, x[1], x[2]), KvPlace(t, y[1], y[2]))
        \/ both \subseteq {"Q", "sO"} /\ Uneven(t) /\ Meet(QoPlace(x[1], x[2]), QoPlace(y[1], y[2]))

\* Stages, and arrivals of a phase: those of both CTAs where the leader waits.
KvStages(t) ==
    CASE t.build = "single" -> 5 [] t.build = "pair" -> 10 [] OTHER -> 3
Pipes(t) ==
    LET all == Cardinality(Cta(t))
    IN  [q  |-> Pipe("q", QStages(t), all, 1),
         kv |-> Pipe("kv", KvStages(t), all, 1),
         s_p_o |-> Pipe("s_p_o", QStages(t), 1, 2 * all),     \* softmax and correction
         p_lastsplit |-> Pipe("p_lastsplit", QStages(t), all, 1),
         o_acc    |-> Pipe("o_acc", QStages(t), 1, all),
         sm_stats |-> Pipe("sm_stats", QStages(t), 1, 1),
         o_epi    |-> Pipe("o_epi", QStages(t), 1, 1)]

FullOf(t, pipe, n)  == {Full(Pipes(t)[pipe], n, c) : c \in Cta(t)}
EmptyOf(t, pipe, n) == {Empty(Pipes(t)[pipe], n, c) : c \in Cta(t)}
Got(t, pipe, n, c)   == Take(Pipes(t)[pipe], n, c)
Space(t, pipe, n, c) == Room(Pipes(t)[pipe], n, c)

\* sm_stats_barrier: softmax arrives, correction arrives and waits.
StatsBar(s, c) == Bar("sm_stats_barrier", s, c, 2)
BulkGroup(s, c) == Bar("bulk_group", s, c, 1)

\* The ring of K and V: block u of K, then of V.
KUse(u) == 2 * u
VUse(u) == 2 * u + 1
KvSlot(t, n) == Slot(Pipes(t).kv, n)

-----------------------------------------------------------------------------
(* The load warp.                                                          *)

LoadQ(t, c, k, s) ==
    LET n == Use(t, k - 1, s)
    IN  Load(t.reorder, {Space(t, "q", n, c)},
             Effect({Fill(Of(k, 0), <<"Q", s, c>>)}, {Full(Pipes(t).q, n, 0)}))

\* K that goes to slot 0 is larger than the V that was there: slot 1 has to be empty too.
KvRoom(t, c, name, n) ==
    {Space(t, "kv", n, c)}
    \cup (IF Uneven(t) /\ name = "K" /\ KvSlot(t, n) = 0
          THEN {For(Empty(Pipes(t).kv, n + 1, c), n \div KvStages(t))} ELSE {})

LoadKV(t, c, k, b, name) ==
    LET u == Before(t, k, b)
        n == IF name = "K" THEN KUse(u) ELSE VUse(u)
    IN  Load(t.reorder, KvRoom(t, c, name, n),
             Effect({Fill(Of(k, b + 1), <<name, KvSlot(t, n), c>>)}, {Full(Pipes(t).kv, n, 0)}))

LoadTile(t, c, k) ==
    LET Block(b) == << LoadKV(t, c, k, b, "K"), LoadKV(t, c, k, b, "V") >>
    IN  << LoadKV(t, c, k, 0, "K"), LoadQ(t, c, k, 0) >>
        \o When(QStages(t) = 2, << LoadQ(t, c, k, 1) >>)
        \o << LoadKV(t, c, k, 0, "V") >> \o Loop(1, t.blocks - 1, Block)

LoadWarp(t, c) ==
    LET Tile(k) == LoadTile(t, c, k)
    IN  Loop(1, t.tiles, Tile)
        \o << Wait({Drained(Pipes(t).kv, 2 * t.tiles * t.blocks, c)}),
              Wait({Space(t, "q", Use(t, t.tiles, LastStage(t)), c)}) >>

-----------------------------------------------------------------------------
(* The MMA warp of the leading CTA.                                        *)

Both(t, name, slot) == {<<name, slot, c>> : c \in Cta(t)}

\* S = Q @ K.T; O += P @ V, in two parts.
MmaQK(t, u, s) ==
    {Put({<<"Q", s, c>>} \cup Both(t, "K", KvSlot(t, KUse(u))), <<"S", s, c>>) : c \in Cta(t)}
MmaPV(t, u, s, part, from, to) ==
    {Put({<<part, s, c>>} \cup Both(t, "V", KvSlot(t, VUse(u)))
            \cup {<<x, s, c>> : x \in from}, <<to, s, c>>) : c \in Cta(t)}

QK(t, u, s, free) == Effect(MmaQK(t, u, s), FullOf(t, "s_p_o", s) \cup free)

\* gemm_Pi: the part of P that is signalled with O, then the rest.  Its first block does
\* not accumulate.  done: what is signalled at the end.
PV(t, k, b, s, first, then) ==
    LET u == Before(t, k, b)
        next == Use(t, u, s)
    IN  << Issue(first \cup {Space(t, "s_p_o", next + QStages(t), 0)},
                 << Effect(MmaPV(t, u, s, "Pa", IF b = 0 THEN {} ELSE {"Or"}, "Oh"), {}) >>),
           Issue({Got(t, "p_lastsplit", next, 0)},
                 << Effect(MmaPV(t, u, s, "Pb", {"Oh"}, "O"), then) >>) >>

\* What the last of the stages of a block does.
If(condition, set) == IF condition THEN set ELSE {}

MmaBlock(t, k, b) ==
    LET u == Before(t, k, b)
        Stage(s) ==
            PV(t, k, b - 1, s, If(s = 0, {Got(t, "kv", VUse(u - 1), 0)}),
               If(s = LastStage(t), EmptyOf(t, "kv", VUse(u - 1))))
            \o << Issue(If(s = 0, {Got(t, "kv", KUse(u), 0)}),
                        << QK(t, u, s, If(s = LastStage(t), EmptyOf(t, "kv", KUse(u)))) >>) >>
    IN  Loop(0, LastStage(t), Stage)

MmaTile(t, k) ==
    LET u == Before(t, k, 0)
        end == Before(t, k, t.blocks - 1)
        FirstQK(s) ==
            << Issue({Got(t, "q", Use(t, k - 1, s), 0)} \cup If(s = 0, {Got(t, "kv", KUse(u), 0)}),
                     << QK(t, u, s, If(s = LastStage(t), EmptyOf(t, "kv", KUse(u)))) >>) >>
        Block(b) == MmaBlock(t, k, b)
        LastPV(s) ==
            PV(t, k, t.blocks - 1, s, If(s = 0, {Got(t, "kv", VUse(end), 0)}),
               FullOf(t, "o_acc", s) \cup If(s = LastStage(t), EmptyOf(t, "kv", VUse(end))))
    IN  Loop(0, LastStage(t), FirstQK) \o Loop(1, t.blocks - 1, Block)
        \o << Issue({}, << Signal(UNION {EmptyOf(t, "q", s) : s \in 0..LastStage(t)}) >>) >>
        \o Loop(0, LastStage(t), LastPV)

Mma(t) == LET Tile(k) == MmaTile(t, k) IN Loop(1, t.tiles, Tile)

-----------------------------------------------------------------------------
(* Softmax: a warp group for each stage.                                   *)

SoftmaxStep(t, c, s, k, b) ==
    LET n == Use(t, Before(t, k, b), s)
        From(names, to) == {Put({<<x, s, c>> : x \in names}, <<to, s, c>>)}
    IN  << Step({Got(t, "s_p_o", n, c)},
                Effect(From({"S"}, "rS") \cup If(b > 0, From({"S"}, "sScale")), {StatsBar(s, c)})),
           Step({}, Effect(From({"rS"}, "Pa"), {Empty(Pipes(t).s_p_o, s, 0)})),
           Step({}, Effect(From({"rS"}, "Pb"), {Full(Pipes(t).p_lastsplit, s, 0)})) >>

Softmax(t, c, s) ==
    LET Stats(n) == Space(t, "sm_stats", Use(t, n, s), c)
        PerTile == t.blocks + 1
        Tile(k) ==
            LET Block(b) == SoftmaxStep(t, c, s, k, b)
                              \o << Wait({Stats((k - 1) * PerTile + b + 1)}) >>
            IN  << Wait({Stats((k - 1) * PerTile)}) >> \o Loop(0, t.blocks - 1, Block)
                \o << Step({}, Effect({Put({<<"rS", s, c>>}, <<"sScale", s, c>>)},
                                      {StatsBar(s, c)})) >>
    IN  Loop(1, t.tiles, Tile) \o << Wait({Stats(t.tiles * PerTile)}) >>

-----------------------------------------------------------------------------
(* Correction and epilogue.                                                *)

\* Arrives at the barrier of the statistics, and goes on after the n-th phase of it.
SyncStats(c, s, n, effect) ==
    << Step({}, Signal({StatsBar(s, c)})), Step({Done(StatsBar(s, c), n + 1)}, effect) >>

FreeStats(t, c, s) == {Empty(Pipes(t).sm_stats, s, c)}
Rescaled(t, s) == {Empty(Pipes(t).s_p_o, s, 0)}

\* gO of a tile and a stage.
Out(t, c, k, s) == <<"gO", Use(t, k - 1, s), c>>

CorrectionEpilogue(t, c, k, s) ==
    LET n == Use(t, k - 1, s)
        own == t.build = "varlen"
        WriteTo(r) == Put({<<"O", s, c>>, <<"row_sum", s, c>>}, r)
    IN  << Step({Got(t, "o_acc", n, c)} \cup If(~own, {Space(t, "o_epi", n, c)}),
                Effect({WriteTo(<<"sO", s, c>>)} \cup If(own, {WriteTo(Out(t, c, k, s))}),
                       Rescaled(t, s) \cup If(~own, {Full(Pipes(t).o_epi, n, c)}))) >>

Correction(t, c) ==
    LET Tile(k) ==
            LET n == (k - 1) * (t.blocks + 1)
                Rescale(b) ==
                    LET Stage(s) ==
                          SyncStats(c, s, n + b,
                            Effect({PutAfter(<<"O", s, c>>, {<<"sScale", s, c>>}, <<"Or", s, c>>)},
                                   Rescaled(t, s) \cup FreeStats(t, c, LastStage(t) - s)))
                    IN  Loop(0, LastStage(t), Stage)
                End(s) ==
                    SyncStats(c, s, n + t.blocks,
                        Effect({Put({<<"sScale", s, c>>}, <<"row_sum", s, c>>)}, FreeStats(t, c, s)))
                    \o CorrectionEpilogue(t, c, k, s)
            IN  SyncStats(c, 0, n, Signal(FreeStats(t, c, 0)))
                \o When(QStages(t) = 2, SyncStats(c, 1, n, Nothing))
                \o Loop(1, t.blocks - 1, Rescale)
                \o When(QStages(t) = 2, << Step({}, Signal(FreeStats(t, c, 1))) >>)
                \o Loop(0, LastStage(t), End)
    IN  << Step({}, Signal(UNION {Rescaled(t, s) : s \in 0..LastStage(t)})) >>
        \o Loop(1, t.tiles, Tile)
        \o When(t.build # "varlen",
                << Wait({Space(t, "o_epi", Use(t, t.tiles, LastStage(t)), c)}) >>)

Epilogue(t, c) ==
    LET Tile(k) ==
            LET Store(s) ==
                    << StepAndCopy({Got(t, "o_epi", Use(t, k - 1, s), c)}, Nothing,
                           Effect({Put({<<"sO", s, c>>}, Out(t, c, k, s))}, {BulkGroup(s, c)})) >>
                Free(s) ==
                    << Step({Done(BulkGroup(i, c), k) : i \in 0..s},
                            Signal({Empty(Pipes(t).o_epi, s, c)})) >>
            IN  Loop(0, LastStage(t), Store) \o Loop(0, LastStage(t), Free)
    IN  Loop(1, t.tiles, Tile)

-----------------------------------------------------------------------------
Roles(t) ==
    {<<"mma", 0>>} \cup ({"load", "correction"} \X Cta(t))
    \cup (IF t.build = "varlen" THEN {} ELSE {"epilogue"} \X Cta(t))
    \cup {<<"softmax", c, s>> : c \in Cta(t), s \in 0..LastStage(t)}

Program(t, r) ==
    CASE r[1] = "mma" -> Mma(t) [] r[1] = "load" -> LoadWarp(t, r[2])
      [] r[1] = "softmax" -> Softmax(t, r[2], r[3])
      [] r[1] = "correction" -> Correction(t, r[2]) [] r[1] = "epilogue" -> Epilogue(t, r[2])

Result(t) ==
    [r \in {Out(t, c, k, s) : c \in Cta(t), k \in 1..t.tiles, s \in 0..LastStage(t)} |->
        Of(r[2] \div QStages(t) + 1, t.blocks)]
=============================================================================
