------------------------ MODULE HopperForwardPrograms ------------------------
(***************************************************************************)
(* The forward kernel of FlashAttention-3.  A CTA goes from one query tile *)
(* to the next: a load warp group fills shared memory and fetches tiles;   *)
(* one to three warp groups do the GEMMs and the softmax of their rows.    *)
(* New keys and values may be appended to the cache first.                 *)
(***************************************************************************)
EXTENDS WarpSteps

\* overlap:   IntraWGOverlap, P @ V of a block during the softmax of the next
\* before:    RescaleOBeforeGemm
\* turns:     UseSchedulerBarrier
\* transpose: Transpose_V, an FP8 V that the load warp group turns round
\* large:     LargeHeadDimV, the first warp group makes P for all of them
\* qv:        HasQv, S = Q @ K.T + Qv @ V.T
\* dynamic:   tiles come from a counter, not from the CTA's number
\* store:     O leaves by TMA, through shared memory, or straight from registers
\* append:    blocks of new keys that each tile puts in the cache
Launches ==
    {t \in [kernel : {"hopper"}, overlap : BOOLEAN, before : BOOLEAN, turns : BOOLEAN,
            transpose : BOOLEAN, large : BOOLEAN, qv : BOOLEAN, dynamic : BOOLEAN,
            store : {"tma", "shared", "direct"}, append : Nat, groups : 1..3,
            tiles : Nat \ {0}, blocks : Nat \ {0}, reorder : BOOLEAN] :
        /\ t.before => t.overlap
        /\ t.turns => ~t.large /\ IF t.overlap THEN t.groups >= 2 ELSE t.groups = 2
        /\ ~t.overlap /\ t.groups = 2 /\ ~t.large => t.turns
        /\ t.qv \/ t.large => ~t.overlap /\ ~t.transpose
        /\ t.large => t.groups > 1
        /\ t.append <= t.blocks}

Groups(t)   == 0..(t.groups - 1)
QkGroups(t) == IF t.large THEN {0} ELSE Groups(t)

\* A tile's blocks in all the tiles' blocks, which the pipelines count on through.
Use(t, k, b) == (k - 1) * t.blocks + b

-----------------------------------------------------------------------------
(* Memory and barriers.  What a warp group has for itself has its number   *)
(* for a slot.                                                             *)

Own(name, w)   == <<name, w, 0>>
Of2(name, k, w) == <<name, <<k, w>>, 0>>
InAll(t, name) == {Own(name, w) : w \in Groups(t)}

\* smem_o begins where smem_v does; O is in registers once, rescaled (Or) or not.
Overlap(t, x, y) ==
    \/ {x[1], y[1]} = {"sO", "V"}
    \/ {x[1], y[1]} = {"O", "Or"} /\ x[2] = y[2]

\* A V that has to be turned round has a pipeline of its own before.
Pipes(t) ==
    LET qk == Cardinality(QkGroups(t))
    IN  [k |-> Pipe("k", 2, 1, qk), v |-> Pipe("v", 2, 1, t.groups), vt |-> Pipe("vt", 2, 1, 1),
         kNew |-> Pipe("k_new", 2, 1, t.groups), vNew |-> Pipe("v_new", 2, 1, t.groups)]

Got(t, pipe, n)   == Take(Pipes(t)[pipe], n, 0)
Space(t, pipe, n) == Room(Pipes(t)[pipe], n, 0)
Give(t, pipe, n)  == Empty(Pipes(t)[pipe], n, 0)
Fed(t, pipe, n)   == Full(Pipes(t)[pipe], n, 0)
In(name, n)       == <<name, n % 2, 0>>

BarrierQ(name) == Bar(name, 0, 0, 1)
BarrierO(t)    == Bar("barrier_O", 0, 0, IF t.store = "tma" THEN 1 ELSE t.groups)
BulkGroup      == Bar("bulk_group", 0, 0, 1)
Gemms(w)       == Bar("wgmma", w, 0, 1)

\* Named barriers, by the warp groups that come there.
QueryEmpty(t) == Bar("QueryEmpty", 0, 0, Cardinality(QkGroups(t)) + 1)
Turn(w)       == Bar("WarpSchedulerWG", w, 0, 2)
PFull(t)      == Bar("PFull", 0, 0, t.groups)
PEmpty(t)     == Bar("PEmpty", 0, 0, t.groups)
Appended(t)   == Bar("AppendKV", 0, 0, t.groups + 1)
Epilogue(t)   == Bar("EpilogueBarrier", 0, 0, t.groups)
Stored(t)     == Bar("EpilogueBarrier", 1, 0, t.groups + 1)
TileFull(t)   == Bar("TileCountSmemFull", 0, 0, t.groups + 1)
TileEmpty(t)  == Bar("TileCountSmemEmpty", 0, 0, t.groups + 1)

\* sync: come, and stay until the n-th time that all have come.
Sync(b, n) == << Step({}, Signal({b})), Wait({Done(b, n)}) >>
Arrive(b)  == << Step({}, Signal({b})) >>

-----------------------------------------------------------------------------
(* The load warp group.                                                    *)

\* A block of the cache, which the warp groups may have appended.
FromCache(t, name, k, b, to) ==
    IF b < t.append THEN Put({<<"g" \o name, <<k, b, w>>, 0>> : w \in Groups(t)}, to)
    ELSE Fill(Of(k, b + 1), to)

LoadOf(t, pipe, name, smem, k, b) ==
    LET n == Use(t, k, b)
    IN  Load(t.reorder, {Space(t, pipe, n)},
             Effect({FromCache(t, name, k, b, In(smem, n))}, {Fed(t, pipe, n)}))
LoadK(t, k, b) == LoadOf(t, "k", "K", "K", k, b)
LoadV(t, k, b) == IF t.transpose THEN LoadOf(t, "vt", "V", "Vt", k, b) ELSE LoadOf(t, "v", "V", "V", k, b)

CopyVtToV(t, k, b) ==
    LET n == Use(t, k, b)
    IN  << Step({Got(t, "vt", n), Space(t, "v", n)},
                Effect({Put({In("Vt", n)}, In("V", n))}, {Fed(t, "v", n), Give(t, "vt", n)})) >>

LoadQ(t, name, k) ==
    Load(t.reorder, {},
         Effect({Fill(Of(k, 0), Own(name, w)) : w \in QkGroups(t)}, {BarrierQ("barrier_" \o name)}))

\* The new keys go the same way through shared memory, by pipelines of their own.
LoadNew(t, k, j) ==
    LET n == (k - 1) * t.append + j
        New(pipe, name) ==
            Load(t.reorder, {Space(t, pipe, n)},
                 Effect({Fill(Of(k, j + 1), In(name, n))}, {Fed(t, pipe, n)}))
    IN  << New("kNew", "K"), New("vNew", IF t.transpose THEN "Vt" ELSE "V") >>
LoadKVNew(t, k) ==
    LET Block(j) == LoadNew(t, k, j)
    IN  << Wait({For(BarrierO(t), k - 1)}) >> \o Loop(0, t.append - 1, Block) \o Sync(Appended(t), k)

\* With overlap V comes one block later than K, for it is needed one block later.
LoadMain(t, k) ==
    LET K(b) == << LoadK(t, k, b) >>
        V(b) == << LoadV(t, k, b) >>
        Copied(b) == When(t.transpose, CopyVtToV(t, k, b))
        late == t.overlap /\ ~t.transpose
        Block(b) == IF t.transpose THEN V(b) \o K(b) \o Copied(b - 1)
                    ELSE K(b) \o (IF late THEN V(b - 1) ELSE V(b))
        last == t.blocks - 1
    IN  When(t.transpose, V(0)) \o K(0) \o Sync(QueryEmpty(t), k)
        \o << LoadQ(t, "Q", k) >> \o When(t.qv, << LoadQ(t, "Qv", k) >>)
        \o << Wait({For(BarrierO(t), k - 1)}) >>
        \o When(~t.transpose /\ ~late, V(0)) \o Loop(1, last, Block)
        \o When(late, V(last)) \o Copied(last)

\* The producer's get_next_work: the next tile for all.
Announce(t, k) ==
    When(t.dynamic,
         Sync(TileEmpty(t), k)
         \o << Step({}, Effect({Fill(Of((k % t.tiles) + 1, 0), At("tile", 0))}, {TileFull(t)})) >>)

LoadTail(t) ==
    LET n == t.tiles * t.blocks
    IN  << Wait({For(BarrierO(t), t.tiles)}),
           Wait({Drained(Pipes(t)[p], n, 0) : p \in {"k", "v"} \cup (IF t.transpose THEN {"vt"} ELSE {})}) >>

LoadWarps(t) ==
    LET Tile(k) == When(t.append > 0, LoadKVNew(t, k)) \o LoadMain(t, k) \o Announce(t, k)
    IN  Loop(1, t.tiles, Tile) \o LoadTail(t)

-----------------------------------------------------------------------------
(* The pieces of a warp group's program.                                   *)

QK(t, w, k, b) ==
    Issue({}, << Effect({Put({Own("Q", w), In("K", Use(t, k, b))}, Own("S", w))}, {Gemms(w)}) >>)
QvV(t, w, k, b) ==
    Issue({Got(t, "v", Use(t, k, b))},
          << Effect({Put({Own("Qv", w), In("V", Use(t, k, b)), Own("S", w)}, Own("S", w))}, {Gemms(w)}) >>)
PV(t, w, k, b) ==
    LET before == IF b = 0 THEN {} ELSE {Own("Or", w)}
        P == IF t.large THEN Own("P", 0) ELSE Own("P", w)
    IN  Issue({}, << Effect({Put({P, In("V", Use(t, k, b))} \cup before, Own("O", w))}, {Gemms(w)}) >>)

WaitFor(t, pipe, k, b) == Wait({Got(t, pipe, Use(t, k, b))})
WaitGroup(w, n, effect) == Step({Done(Gemms(w), n)}, effect)
Release(t, pipe, k, b) == Signal({Give(t, pipe, Use(t, k, b))})

FromS(w, x)  == Step({}, Effect({Put({Own("S", w)}, Own(x, w))}, {}))
RescaleO(w, scale) == << Step({}, Effect({PutAfter(Own("O", w), {scale}, Own("Or", w))}, {})) >>

\* warp_scheduler_barrier_sync, the n-th of a tile: with appended keys the first warp
\* group has one more, by which it takes back its turn for the time.
SyncsOfTile(t) == IF t.overlap THEN t.blocks - 1 ELSE t.blocks + 1
CountOfSync(t, w, k, n) ==
    (k - 1) * SyncsOfTile(t) + n + (IF t.append > 0 /\ w = 0 THEN k ELSE 0)
MyTurn(t, w, k, n) == When(t.turns, Sync(Turn(w), CountOfSync(t, w, k, n)))
NextTurn(t, w)     == When(t.turns, Arrive(Turn((w + 1) % t.groups)))

-----------------------------------------------------------------------------
(* The new keys, out of shared memory into the cache.                      *)

StoreNew(t, w, k, j) ==
    LET n == (k - 1) * t.append + j
        Store(pipe, name, smem) ==
            Step({Got(t, pipe, n)},
                 Effect({Put({In(smem, n)}, <<"g" \o name, <<k, j, w>>, 0>>)}, {Give(t, pipe, n)}))
    IN  << Store("kNew", "K", "K"), Store("vNew", "V", IF t.transpose THEN "Vt" ELSE "V") >>
StoreKVNew(t, w, k) ==
    LET Block(j) == StoreNew(t, w, k, j)
        first == t.turns /\ w = 0
    IN  When(first, Sync(Turn(w), (k - 1) * SyncsOfTile(t) + k)) \o Loop(0, t.append - 1, Block)
        \o When(first, Arrive(Turn(w))) \o Arrive(Appended(t))

-----------------------------------------------------------------------------
(* mma with overlap.  GEMM 2b of a tile is Q @ K.T of block b, 2b + 1 is    *)
(* P @ V of the block before.                                              *)

FirstBlock(t, w, k) ==
    << WaitFor(t, "k", k, 0), QK(t, w, k, 0),
       WaitGroup(w, 2 * Use(t, k, 0) + 1, Release(t, "k", k, 0)), FromS(w, "scale"), FromS(w, "P") >>

\* Whoever has the turn goes by what the first warp group waited for.
OverlapStep(t, w, k, b) ==
    LET base == 2 * (k - 1) * t.blocks
        Waiting(pipe, n) == When(~t.turns \/ w = 0, << WaitFor(t, pipe, k, n) >>)
    IN  Waiting("k", b) \o MyTurn(t, w, k, b) \o << QK(t, w, k, b) >>
        \o When(t.before /\ b > 1, RescaleO(w, Own("scale", w)))
        \o Waiting("v", b - 1) \o << PV(t, w, k, b - 1) >> \o NextTurn(t, w)
        \o << WaitGroup(w, base + 2 * b, Release(t, "k", k, b)), FromS(w, "scale"),
              WaitGroup(w, base + 2 * b + 1, Release(t, "v", k, b - 1)), FromS(w, "P") >>
        \o When(~t.before, RescaleO(w, Own("scale", w)))

LastBlock(t, w, k) ==
    LET last == t.blocks - 1
    IN  When(t.before /\ last > 0, RescaleO(w, Own("scale", w)))
        \o << WaitFor(t, "v", k, last), PV(t, w, k, last),
              WaitGroup(w, 2 * k * t.blocks, Release(t, "v", k, last)) >>

MmaOverlap(t, w, k) ==
    LET Block(b) == OverlapStep(t, w, k, b)
    IN  FirstBlock(t, w, k) \o Loop(1, t.blocks - 1, Block) \o Arrive(QueryEmpty(t)) \o LastBlock(t, w, k)

-----------------------------------------------------------------------------
(* mma without overlap, and mma_pv of the warp groups that get P and its   *)
(* scales from the first one.                                              *)

\* The GEMMs of a block, and those issued when the n-th of block b is.
GemmsOfBlock(t) == IF t.qv THEN 3 ELSE 2
GemmCount(t, k, b, n) == Use(t, k, b) * GemmsOfBlock(t) + n

\* sScale has a stage for each of V: the last block's is for the scale after it.
StoreScale(t, k, b, from) ==
    << Step({}, Effect({Put({from}, In("sScale", Use(t, k, b)))}, {})) >>
WriteP(t, w, k, b) ==
    When(t.large, Sync(PEmpty(t), (k - 1) * (t.blocks + 1) + b + 1)) \o << FromS(w, "P") >>

Scores(t, w, k, b) ==
    << WaitFor(t, "k", k, b), QK(t, w, k, b) >>
    \o When(t.qv, (IF b = 0 THEN << Wait({For(BarrierQ("barrier_Qv"), k)}) >> ELSE <<>>)
                  \o << QvV(t, w, k, b) >>)
    \o NextTurn(t, w) \o << WaitGroup(w, GemmCount(t, k, b, 1), Release(t, "k", k, b)) >>
    \o When(t.qv, << WaitGroup(w, GemmCount(t, k, b, 2), Nothing) >>)

PlainStep(t, w, k, b) ==
    Scores(t, w, k, b) \o << FromS(w, "scale") >>
    \o When(t.large /\ b > 0, StoreScale(t, k, b - 1, Own("scale", w)))
    \o WriteP(t, w, k, b)
    \o When(b > 0, RescaleO(w, Own("scale", w)))
    \o When(t.large, Arrive(PFull(t))) \o When(~t.qv, << WaitFor(t, "v", k, b) >>)
    \o MyTurn(t, w, k, b + 2)
    \o << PV(t, w, k, b), WaitGroup(w, GemmCount(t, k, b, GemmsOfBlock(t)), Release(t, "v", k, b)) >>

MmaPlain(t, w, k) ==
    LET Block(b) == PlainStep(t, w, k, b)
        last == t.blocks - 1
    IN  MyTurn(t, w, k, 1) \o Loop(0, last, Block) \o NextTurn(t, w) \o Arrive(QueryEmpty(t))
        \o When(t.large, Sync(PEmpty(t), k * (t.blocks + 1))
                         \o StoreScale(t, k, last, Own("scale", w)) \o Arrive(PFull(t)))

MmaPv(t, w, k) ==
    LET Rescaled(b) ==
            Sync(PFull(t), (k - 1) * (t.blocks + 1) + b + 1)
            \o RescaleO(w, In("sScale", Use(t, k, b - 1)))
        Gemm(b) ==
            When(~t.qv, << WaitFor(t, "v", k, b) >>)
            \o << PV(t, w, k, b), WaitGroup(w, Use(t, k, b) + 1, Nothing) >> \o Arrive(PEmpty(t))
            \o << Step({}, Release(t, "v", k, b)) >>
        Block(b) == Rescaled(b) \o Gemm(b)
        last == t.blocks - 1
    IN  When(~t.qv, << WaitFor(t, "v", k, 0) >>) \o Sync(PFull(t), (k - 1) * (t.blocks + 1) + 1)
        \o Gemm(0) \o Loop(1, last, Block)
        \o Sync(PFull(t), k * (t.blocks + 1))
        \o << Step({}, Effect({Put({In("sScale", Use(t, k, last))}, Own("scale", w))}, {})) >>
        \o Arrive(PEmpty(t))

Mma(t, w, k) ==
    IF t.large /\ w > 0 THEN MmaPv(t, w, k)
    ELSE << Wait({For(BarrierQ("barrier_Q"), k)}) >>
         \o (IF t.overlap THEN MmaOverlap(t, w, k) ELSE MmaPlain(t, w, k))

-----------------------------------------------------------------------------
(* O leaves, for the tile that was fetched before.                         *)

\* get_next_work comes before the epilogue of the tile before.
FetchTile(t, w, k) ==
    When(t.dynamic,
         Sync(TileFull(t), k)
         \o << Step({}, Effect({Put({At("tile", 0)}, Of2("coord", (k % t.tiles) + 1, w))}, {TileEmpty(t)})) >>)

Coord(t, k, w) == IF t.dynamic /\ k > 1 THEN {Of2("coord", k, w)} ELSE {}

\* The end of O: it takes the last scale along.
Finished(t, k, w) == {Own("O", w), Own("scale", w)} \cup Coord(t, k, w)

Store(t, w, k) ==
    LET Out(x) == Of2("gO", k, x)
        ToShared(bars) == << Step({}, Effect({Put(Finished(t, k, w), Own("sO", w))}, bars)) >>
    IN  CASE t.store = "direct" ->
                 Sync(Epilogue(t), k) \o Arrive(BarrierO(t))
                 \o << Step({}, Effect({Put(Finished(t, k, w), Out(w))}, {})) >>
          [] t.store = "shared" ->
                 Sync(Epilogue(t), 2 * k - 1) \o ToShared({}) \o Sync(Epilogue(t), 2 * k)
                 \o << Step({}, Effect({Put(InAll(t, "sO"), Own("rO", w))}, {BarrierO(t)})),
                       Step({}, Effect({Put({Own("rO", w)} \cup Coord(t, k, w), Out(w))}, {})) >>
          [] t.store = "tma" ->
                 Sync(Epilogue(t), k) \o ToShared({Stored(t)})
                 \o When(w = t.groups - 1,
                         Sync(Stored(t), k)
                         \o << Copy({}, Effect({Put(InAll(t, "sO"), Out(x)) : x \in Groups(t)},
                                               {BulkGroup})),
                               Step({Done(BulkGroup, k)}, Signal({BarrierO(t)})) >>)

MmaInit(t, w) ==
    When(t.dynamic, Arrive(TileEmpty(t)))
    \o When(w \in QkGroups(t), Arrive(QueryEmpty(t)))
    \o When(t.large /\ w > 0, Arrive(PEmpty(t)))
    \o When(t.turns /\ w = 0, Arrive(Turn(w)))

MmaWarps(t, w) ==
    LET Tile(k) == When(t.append > 0, StoreKVNew(t, w, k)) \o Mma(t, w, k)
                   \o FetchTile(t, w, k) \o Store(t, w, k)
    IN  MmaInit(t, w) \o Loop(1, t.tiles, Tile)

-----------------------------------------------------------------------------
Roles(t) == {<<"load", 0>>} \cup {<<"mma", w>> : w \in Groups(t)}
Program(t, r) == IF r[1] = "load" THEN LoadWarps(t) ELSE MmaWarps(t, r[2])
Result(t) ==
    LET out == {Of2("gO", k, w) : k \in 1..t.tiles, w \in Groups(t)}
    IN  [r \in out |-> Of(r[2][1], t.blocks)]
=============================================================================
