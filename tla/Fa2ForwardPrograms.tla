------------------------- MODULE Fa2ForwardPrograms -------------------------
(***************************************************************************)
(* The forward kernels of FlashAttention-2: a CTA takes one tile of rows   *)
(* through the blocks of keys, with one buffer of K and one of V; and the  *)
(* one that takes a split of the blocks, and appends new keys and values   *)
(* to the cache before.                                                    *)
(***************************************************************************)
EXTENDS Sm80Steps

\* inRegs: Q is moved to registers
\* share:  Q and K have one place (Share_Q_K_smem)
\* split:  O leaves unrounded, as one of several splits, and is larger than Q
\* append: blocks of new keys
\* rotary: Q and the new keys are rotated
Launches ==
    {t \in [kernel : {"fa2fwd"}, inRegs : BOOLEAN, share : BOOLEAN, split : BOOLEAN, append : Nat,
            rotary : BOOLEAN, blocks : Nat \ {0}, tiles : {1}] :
        /\ t.append <= t.blocks
        /\ t.share => t.inRegs
        /\ t.split \/ t.append > 0 => ~t.inRegs
        /\ t.rotary => t.append > 0}

Overlap(t, x, y) ==
    LET both == {x[1], y[1]}
    IN  \/ both = {"sO", "Q"}
        \/ t.share /\ both \in {{"Q", "K"}, {"sO", "K"}, {"sO", "V"}}
        \/ t.split /\ both \in {{"sO", "K"}, {"sO", "V"}}

Cache(name, b, w) == <<"g" \o name, b, w>>

-----------------------------------------------------------------------------
\* New keys and values go to the cache by way of registers.
AppendKV(t, w) ==
    LET Block(b) == Do({Fill(Of(1, b + 1), Cache(x, b, w)) : x \in {"K", "V"}})
    IN  Loop(0, t.append - 1, Block) \o SyncThreads

\* The cache may hold a block that all warps have just put there.
LoadBlock(t, name, w, b) ==
    Fetch({IF b < t.append THEN Put({Cache(name, b, v) : v \in Warps}, Part(name, 0, w))
           ELSE CopyTo(0, name, w, 1, b)}) \o Commit

\* Q is rotated on its way to shared memory, which a copy cannot do.
LoadQ(t, w) ==
    IF t.rotary THEN Do({CopyOnce("Q", w, 1)}) ELSE Fetch({CopyOnce("Q", w, 1)})
MoveQ(w) == Do({Put(All("Q", 0), Own("rQ", w))})

Prologue(t, w) ==
    LoadQ(t, w) \o When(t.inRegs, Commit)
    \o When(t.share, WaitGroup(0) \o SyncThreads \o MoveQ(w) \o SyncThreads)
    \o LoadBlock(t, "K", w, 0)
    \o When(t.inRegs /\ ~t.share, WaitGroup(1) \o SyncThreads \o MoveQ(w))

\* V is copied while S is worked out, and the next K while O is.
BlockStep(t, w, b) ==
    LET Q == IF t.inRegs THEN {Own("rQ", w)} ELSE All("Q", 0)
    IN  WaitGroup(0) \o SyncThreads \o LoadBlock(t, "V", w, b)
        \o Do({Put(Q \cup All("K", 0), Own("P", w))})
        \o WaitGroup(0) \o SyncThreads
        \o When(b + 1 < t.blocks, LoadBlock(t, "K", w, b + 1))
        \o Do({Accumulate(b, {Own("P", w)} \cup All("V", 0), Own("O", w))})

\* sO has the place of Q, which all are done with; more than that needs a barrier.
Epilogue(t, w) ==
    When(t.share \/ t.split, SyncThreads)
    \o Do({Put({Own("O", w)}, Part("sO", 0, w))}) \o SyncThreads
    \o Do({Put(All("sO", 0), Own("gO", w))})

Program(t, r) ==
    LET w == r[2]
        Block(b) == BlockStep(t, w, b)
    IN  StepsOf(w, When(t.append > 0, AppendKV(t, w)) \o Prologue(t, w)
                   \o Loop(0, t.blocks - 1, Block) \o Epilogue(t, w))
Result(t) == [r \in {Own("gO", w) : w \in Warps} |-> Of(1, t.blocks)]
=============================================================================
