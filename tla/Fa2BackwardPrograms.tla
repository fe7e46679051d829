------------------------- MODULE Fa2BackwardPrograms -------------------------
(***************************************************************************)
(* The backward kernel of FlashAttention-2: a CTA takes a tile of keys     *)
(* through the row blocks, and in a deterministic launch goes on with      *)
(* another tile in the same shared memory.                                 *)
(***************************************************************************)
EXTENDS Sm80Steps

\* double:        Q has two buffers
\* inRegs:        V is moved to registers, and dS and P take its place
\* deterministic: fewer CTAs than tiles, each adding to sums of dQ of its own
Launches ==
    {t \in [kernel : {"fa2bwd"}, double : BOOLEAN, inRegs : BOOLEAN, deterministic : BOOLEAN,
            blocks : Nat \ {0}, tiles : Nat \ {0}] : t.deterministic \/ t.tiles = 1}

\* dK and dV leave through what comes after dO, one behind the other.
Overlap(t, x, y) ==
    LET both == {x[1], y[1]}
    IN  \/ both \in {{"sdK", "K"}, {"sdV", "V"}}
        \/ t.inRegs /\ both \in {{"V", "dS"}, {"V", "P"}, {"sdV", "dS"}, {"sdV", "P"}}

QSlot(t, b) == IF t.double THEN b % 2 ELSE 0
LoadQ(t, w, k, b) == Fetch({CopyTo(QSlot(t, b), "Q", w, k, b)})
LoadDO(w, k, b)   == Fetch({CopyTo(0, "dO", w, k, b)})

-----------------------------------------------------------------------------
Prologue(t, w, k) ==
    LET LoadV == Fetch({CopyOnce("V", w, k)})
    IN  When(t.deterministic, SyncThreads)
        \o When(t.inRegs, LoadV \o Commit)
        \o LoadDO(w, k, 0) \o LoadQ(t, w, k, 0) \o Fetch({CopyOnce("K", w, k)})
        \o When(~t.inRegs, LoadV) \o Commit
        \o When(t.inRegs, WaitGroup(1) \o SyncThreads \o Do({Put(All("V", 0), Own("rV", w))}))

PAndDS(t, w, k, b) ==
    LET V == IF t.inRegs THEN {Own("rV", w)} ELSE All("V", 0)
    IN  WaitGroup(0) \o SyncThreads
        \o Do({Put(All("Q", QSlot(t, b)) \cup All("K", 0), Own("rP", w))})
        \o Do({Put({Own("rP", w)}, Part("P", 0, w))})
        \o Do({Put(V \cup All("dO", 0) \cup {Own("rP", w)}, Own("rdS", w))})
        \o When(t.double /\ b + 1 < t.blocks, LoadQ(t, w, k, b + 1) \o Commit)
        \o Do({Put({Own("rdS", w)}, Part("dS", 0, w))}) \o SyncThreads

Gdq(k, b, w) == <<"gdQ", <<k, b>>, w>>

\* dO makes room for the next one once dV is worked out by all, and Q, if it has
\* one buffer, once dK is.
Gradients(t, w, k, b) ==
    LET more == b + 1 < t.blocks
    IN  Do({Accumulate(b, All("P", 0) \cup All("dO", 0), Own("dV", w))}) \o SyncThreads
        \o When(more, LoadDO(w, k, b + 1) \o Commit)
        \o Do({Put(All("dS", 0) \cup All("K", 0), Gdq(k, b + 1, w))})
        \o Do({Accumulate(b, All("dS", 0) \cup All("Q", QSlot(t, b)), Own("dK", w))})
        \o When(~t.double /\ more, SyncThreads \o LoadQ(t, w, k, b + 1) \o Commit)

Out(name, k, w) == <<name, <<k, w>>, 0>>
Epilogue(w, k) ==
    SyncThreads
    \o Do({Put({Own("dK", w)}, Part("sdK", 0, w)), Put({Own("dV", w)}, Part("sdV", 0, w))})
    \o SyncThreads
    \o Do({Put(All("sdK", 0), Out("gdK", k, w)), Put(All("sdV", 0), Out("gdV", k, w))})

\* compute_dq_dk_dv_1colblock
ColBlock(t, w, k) ==
    LET Block(b) == PAndDS(t, w, k, b) \o Gradients(t, w, k, b)
    IN  Prologue(t, w, k) \o Loop(0, t.blocks - 1, Block) \o Epilogue(w, k)

Program(t, r) ==
    LET w == r[2]
        Tile(k) == ColBlock(t, w, k)
    IN  StepsOf(w, Loop(1, t.tiles, Tile))
Result(t) ==
    [r \in {Out(x, k, w) : x \in {"gdK", "gdV"}, k \in 1..t.tiles, w \in Warps} |-> Of(r[2][1], t.blocks)]
    @@ [r \in {Gdq(k, b, w) : k \in 1..t.tiles, b \in 1..t.blocks, w \in Warps} |-> Of(r[2][1], r[2][2])]
=============================================================================
