------------------------ MODULE Sm80BackwardPrograms ------------------------
(***************************************************************************)
(* The backward kernel for SM80: a CTA takes one tile of keys through the  *)
(* row blocks.  Q with its LSE and dO with its dPsum come in rings; P and  *)
(* dS are exchanged between warps through shared memory; dQ is added to    *)
(* global memory by every warp.                                            *)
(***************************************************************************)
EXTENDS Sm80Steps

\* Q, dO:  stages of Q and the LSE, of dO and dPsum
\* inRegs: V is moved to registers, and Q takes its place
\* rs:     P.T and dS.T are taken from registers for dV and dK (Mma_dKV_is_RS)
\* gqa:    dK and dV are added to sums over the heads of a group, from registers
Launches ==
    {t \in [kernel : {"sm80bwd"}, Q : {1, 2}, dO : {1, 2}, inRegs : BOOLEAN, rs : BOOLEAN,
            gqa : BOOLEAN, blocks : Nat \ {0}, tiles : {1}] : t.Q >= t.dO}

\* dK and dV leave through what K and V had.
Overlap(t, x, y) ==
    \/ {x[1], y[1]} \in {{"sdK", "K"}, {"sdV", "V"}}
    \/ t.inRegs /\ {x[1], y[1]} \in {{"V", "Q"}, {"sdV", "Q"}}

\* An input of row block b with its statistics, if there is such a block.
LoadRows(t, name, stat, stages, w, b) ==
    When(b < t.blocks, Fetch({CopyTo(b % stages, x, w, 1, b) : x \in {name, stat}})) \o Commit
LoadQ(t, w, b)  == LoadRows(t, "Q", "LSE", t.Q, w, b)
LoadDO(t, w, b) == LoadRows(t, "dO", "dPsum", t.dO, w, b)

Prologue(t, w) ==
    LET MoveV == WaitGroup(1) \o SyncThreads \o Do({Put(All("V", 0), Own("rV", w))}) \o SyncThreads
        Stage(s) == When(t.Q = 1 \/ s < t.Q - 1, LoadQ(t, w, s)) \o When(s < t.dO, LoadDO(t, w, s))
    IN  Fetch({CopyOnce("V", w, 1)}) \o When(t.inRegs, Commit)
        \o Fetch({CopyOnce("K", w, 1)}) \o Commit
        \o When(t.inRegs, MoveV) \o Loop(0, t.Q - 1, Stage)

\* Groups left in flight when Q, when dO of a block is needed.
LeftInFlight(stages) == IF stages > 1 THEN 1 ELSE 0

SAndP(t, w, b) ==
    WaitGroup(LeftInFlight(t.Q)) \o SyncThreads
    \o Do({Put(All("Q", b % t.Q) \cup All("K", 0) \cup All("LSE", b % t.Q), Own("rP", w))})

\* The next Q is copied meanwhile where it has a slot of its own.
DPAndDS(t, w, b) ==
    LET V == IF t.inRegs THEN {Own("rV", w)} ELSE All("V", 0)
        operands == V \cup All("dO", b % t.dO) \cup All("dPsum", b % t.dO)
    IN  WaitGroup(LeftInFlight(t.dO)) \o SyncThreads
        \o When(t.Q > 1, LoadQ(t, w, b + t.Q - 1))
        \o Do({Put(operands \cup {Own("rP", w)}, Own("rdS", w))})
        \o When(~t.rs, Do({Put({Own("rP", w)}, Part("P", 0, w))}) \o SyncThreads
                       \o Do({Put({Own("rdS", w)}, Part("dS", 0, w))}))

DV(t, w, b) ==
    LET P == IF t.rs THEN {Own("rP", w)} ELSE All("P", 0)
    IN  Do({Accumulate(b, P \cup All("dO", b % t.dO), Own("dV", w))})
DK(t, w, b) ==
    LET dS == IF t.rs THEN {Own("rdS", w)} ELSE All("dS", 0)
    IN  Do({Accumulate(b, dS \cup All("Q", b % t.Q), Own("dK", w))})

Gdq(b, w) == <<"gdQ", b, w>>
DQ(w, b) == Do({Put(All("dS", 0) \cup All("K", 0), Gdq(b + 1, w))})

\* dS is written by all, and dO no longer read, before the next dO is copied; with one
\* stage of Q, dK comes first and then the next Q.
ComputeOneMBlock(t, w, b) ==
    SAndP(t, w, b) \o DPAndDS(t, w, b) \o DV(t, w, b) \o SyncThreads
    \o (IF t.Q > 1 THEN LoadDO(t, w, b + t.dO) \o DQ(w, b) \o DK(t, w, b)
        ELSE LoadDO(t, w, b + t.dO) \o DK(t, w, b) \o SyncThreads
             \o LoadQ(t, w, b + 1) \o DQ(w, b))

Epilogue(t, w) ==
    IF t.gqa THEN Do({Put({Own("dK", w)}, Own("gdK", w)), Put({Own("dV", w)}, Own("gdV", w))})
    ELSE SyncThreads
         \o Do({Put({Own("dK", w)}, Part("sdK", 0, w)), Put({Own("dV", w)}, Part("sdV", 0, w))})
         \o SyncThreads
         \o Do({Put(All("sdK", 0), Own("gdK", w)), Put(All("sdV", 0), Own("gdV", w))})

Program(t, r) ==
    LET w == r[2]
        Block(b) == ComputeOneMBlock(t, w, b)
    IN  StepsOf(w, Prologue(t, w) \o Loop(0, t.blocks - 1, Block) \o Epilogue(t, w))
Result(t) ==
    [r \in {Own(x, w) : x \in {"gdK", "gdV"}, w \in Warps} |-> Of(1, t.blocks)]
    @@ [r \in {Gdq(b, w) : b \in 1..t.blocks, w \in Warps} |-> Of(1, r[2])]
=============================================================================
