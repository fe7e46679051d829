---------------------- MODULE HopperSm80ForwardPrograms ----------------------
(***************************************************************************)
(* The forward kernel of FlashAttention-3 for SM80.  A CTA may take one    *)
(* tile after the other, may first put new keys and values in the cache,   *)
(* and lets O leave through the place of V, and of K where O is larger.    *)
(***************************************************************************)
EXTENDS Sm80Steps

\* stages: of K and V
\* inRegs: Q is moved to registers, and shares its place with V (Share_QV_Smem)
\* over:   O is larger than V, and K is under the rest of it
\* append: blocks of new keys that each tile puts in the cache
Launches ==
    {t \in [kernel : {"hsm80"}, stages : {1, 2}, inRegs : BOOLEAN, over : BOOLEAN, append : Nat,
            blocks : Nat \ {0}, tiles : Nat \ {0}] : t.append <= t.blocks}

Overlap(t, x, y) ==
    LET both == {x[1], y[1]}
    IN  \/ both = {"sO", "V"}
        \/ t.over /\ both = {"sO", "K"}
        \/ t.inRegs /\ both \in {{"V", "Q"}, {"sO", "Q"}}

Cache(name, k, b, w) == <<"g" \o name, <<k, b, w>>, 0>>
Out(k, w) == <<"gO", <<k, w>>, 0>>

\* The work that one warp gets and hands to the others.
TileFull  == Bar("TileCountSmemFull", 0, 0, 2)
TileEmpty == Bar("TileCountSmemEmpty", 0, 0, 2)

-----------------------------------------------------------------------------
(* New keys go through shared memory into the cache.                       *)

FetchIf(there, move) == When(there, Fetch({move})) \o Commit

LoadNew(t, name, w, k, j) == FetchIf(j < t.append, CopyTo(j % t.stages, name, w, k, j))

Store(t, name, w, k, j) ==
    WaitGroup(2 * t.stages - 2) \o SyncThreads
    \o Do({Put(All(name, j % t.stages), Cache(name, k, j, w))})

StoreKVNew(t, w, k) ==
    LET Stage(s) == LoadNew(t, "K", w, k, s) \o When(s = 0, SyncThreads)
                    \o When(s < t.stages - 1, LoadNew(t, "V", w, k, s))
        Block(j) == Store(t, "K", w, k, j) \o LoadNew(t, "V", w, k, j + t.stages - 1)
                    \o Store(t, "V", w, k, j) \o LoadNew(t, "K", w, k, j + t.stages)
    IN  Loop(0, t.stages - 1, Stage) \o Loop(0, t.append - 1, Block) \o SyncThreads

-----------------------------------------------------------------------------
\* A block of the cache, in which other warps may have put it.
LoadBlock(t, name, w, k, b) ==
    LET to == Part(name, b % t.stages, w)
    IN  FetchIf(b < t.blocks,
                IF b < t.append THEN Put({Cache(name, k, b, v) : v \in Warps}, to)
                ELSE CopyTo(b % t.stages, name, w, k, b))

\* With new keys Q is rotated too, in place.
PreprocessQ(t, w) ==
    WaitGroup(IF t.inRegs THEN 1 ELSE 2 * t.stages - 1)
    \o When(t.append > 0, SyncThreads \o Do({Put(All("Q", 0), Part("Q", 0, w))}))
    \o When(t.inRegs, SyncThreads \o Do({Put(All("Q", 0), Own("rQ", w))}))

Prologue(t, w, k) ==
    LET Stage(s) == When(~t.inRegs \/ s > 0, LoadBlock(t, "K", w, k, s))
                    \o When(s < t.stages - 1, LoadBlock(t, "V", w, k, s))
    IN  When(t.inRegs, SyncThreads) \o Fetch({CopyOnce("Q", w, k)}) \o Commit
        \o When(t.inRegs, LoadBlock(t, "K", w, k, 0) \o PreprocessQ(t, w))
        \o SyncThreads \o Loop(0, t.stages - 1, Stage) \o When(~t.inRegs, PreprocessQ(t, w))

FwdStep(t, w, k, b) ==
    LET Sync == WaitGroup(2 * t.stages - 2) \o SyncThreads
        LoadKNext == LoadBlock(t, "K", w, k, b + t.stages)
        Q == IF t.inRegs THEN {Own("rQ", w)} ELSE All("Q", 0)
    IN  Sync \o LoadBlock(t, "V", w, k, b + t.stages - 1)
        \o Do({Put(Q \cup All("K", b % t.stages), Own("S", w))})
        \o When(t.stages = 1, Sync \o LoadKNext)
        \o Do({Put({Own("S", w)}, Own("P", w))}) \o When(t.stages > 1, Sync)
        \o Do({Accumulate(b, {Own("P", w)} \cup All("V", b % t.stages), Own("O", w))})
        \o When(t.stages > 1, LoadKNext)

Mma(t, w, k) == LET Block(b) == FwdStep(t, w, k, b) IN Prologue(t, w, k) \o Loop(0, t.blocks - 1, Block)

Epilogue(w, k) ==
    SyncThreads \o Do({Put({Own("O", w)}, Part("sO", 0, w))})
    \o SyncThreads \o Do({Put(All("sO", 0), Out(k, w))})

\* Warp 0 goes on with the next tile once the others have the tile before: the others
\* wait for it, it does not wait for them.
GetNextWork(w, k) ==
    IF w = 0 THEN Arrive(TileEmpty) \o Await(TileEmpty, k) \o Arrive(TileFull)
    ELSE Arrive(TileFull) \o Await(TileFull, k) \o Arrive(TileEmpty)

Program(t, r) ==
    LET w == r[2]
        Tile(k) == When(t.append > 0, StoreKVNew(t, w, k)) \o Mma(t, w, k) \o Epilogue(w, k)
                   \o When(t.tiles > 1, GetNextWork(w, k))
    IN  StepsOf(w, When(t.tiles > 1 /\ w > 0, Arrive(TileEmpty)) \o Loop(1, t.tiles, Tile))
Result(t) == [r \in {Out(k, w) : k \in 1..t.tiles, w \in Warps} |-> Of(r[2][1], t.blocks)]
=============================================================================
