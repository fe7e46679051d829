------------------------- MODULE Sm80ForwardPrograms -------------------------
(***************************************************************************)
(* The forward kernel for SM80: Q, then K and V of a block after the other *)
(* in a ring of stages, copies of later blocks started while a block is    *)
(* worked on.  An empty group stands for a block that there is not, so     *)
(* that waits can count groups.                                            *)
(***************************************************************************)
EXTENDS Sm80Steps

\* stages: of K and of V; inRegs: Q is moved to registers, and V takes its place
Launches ==
    {t \in [kernel : {"sm80"}, stages : {1, 2}, inRegs : BOOLEAN, blocks : Nat \ {0}, tiles : {1}] :
        TRUE}

\* V takes the place of Q, and what leaves the CTA does.
Overlap(t, x, y) ==
    \/ {x[1], y[1]} = {"sO", "Q"}
    \/ t.inRegs /\ {x[1], y[1]} \in {{"V", "Q"}, {"sO", "V"}}

LoadQ(w) == Fetch({CopyOnce("Q", w, 1)}) \o Commit

\* The walk goes down from the last block: b of it is block n_block_max - 1 - b.
LoadBlock(t, name, w, b) ==
    When(b < t.blocks, Fetch({CopyTo(b % t.stages, name, w, 1, b)})) \o Commit
LoadK(t, w, b) == LoadBlock(t, "K", w, b)
LoadV(t, w, b) == LoadBlock(t, "V", w, b)

PreprocessQ(t, w) ==
    WaitGroup(2 * t.stages - 1)
    \o When(t.inRegs, SyncThreads \o Do({Put(All("Q", 0), Own("rQ", w))}))

Prologue(t, w) ==
    LET Stage(s) == When(~t.inRegs \/ s > 0, LoadK(t, w, s)) \o When(s < t.stages - 1, LoadV(t, w, s))
    IN  LoadQ(w) \o When(t.inRegs, LoadK(t, w, 0) \o PreprocessQ(t, w) \o SyncThreads)
        \o Loop(0, t.stages - 1, Stage) \o When(~t.inRegs, PreprocessQ(t, w))

\* How many groups may be in flight when K, and when V, of a block are needed.
LeftInFlight(t) == 2 * t.stages - 2

ComputeOneNBlock(t, w, b) ==
    LET Sync == WaitGroup(LeftInFlight(t)) \o SyncThreads
        Q    == IF t.inRegs THEN {Own("rQ", w)} ELSE All("Q", 0)
        SyncV == Sync \o LoadK(t, w, b + t.stages)
    IN  Sync \o LoadV(t, w, b + t.stages - 1)
        \o Do({Put(Q \cup All("K", b % t.stages), Own("S", w))})
        \o When(t.stages = 1, SyncV)
        \o Do({Put({Own("S", w)}, Own("P", w))})
        \o When(t.stages > 1, SyncV)
        \o Do({Accumulate(b, {Own("P", w)} \cup All("V", b % t.stages), Own("O", w))})

\* O of a warp leaves through shared memory, in parts that other warps wrote too.
Epilogue(t, w) ==
    SyncThreads \o Do({Put({Own("O", w)}, Part("sO", 0, w))})
    \o SyncThreads \o Do({Put(All("sO", 0), Own("gO", w))})

Program(t, r) ==
    LET w == r[2]
        Block(b) == ComputeOneNBlock(t, w, b)
    IN  StepsOf(w, Prologue(t, w) \o Loop(0, t.blocks - 1, Block) \o Epilogue(t, w))
Result(t) == [r \in {Own("gO", w) : w \in Warps} |-> Of(1, t.blocks)]
=============================================================================
