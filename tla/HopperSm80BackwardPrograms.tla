--------------------- MODULE HopperSm80BackwardPrograms ---------------------
(***************************************************************************)
(* The backward kernel of FlashAttention-3 for SM80.  It goes through the  *)
(* row blocks as the one of flash_bwd.py does, with copies issued from     *)
(* within the products, a fixed number of groups in the prologue, and dK   *)
(* and dV leaving through memory that all operands share.                  *)
(***************************************************************************)
EXTENDS Sm80Steps

\* Q, dO:  stages of Q and the LSE, of dO and dPsum
\* inRegs: V is moved to registers, and Q takes its place (V_in_regs)
\* gqa:    dK and dV are added to sums over the heads of a group, from registers
\* No build for SM80 takes P.T and dS.T from registers (Mma_dKV_is_RS).
Launches ==
    {t \in [kernel : {"hsm80bwd"}, Q : {1, 2}, dO : {1, 2}, inRegs : BOOLEAN, gqa : BOOLEAN,
            blocks : Nat \ {0}, tiles : {1}] : t.Q >= t.dO}

\* The epilogue's storage is in a union with that of the main loop.
Overlap(t, x, y) ==
    \/ \E gradient \in {"sdK", "sdV"}, operand \in {"Q", "LSE", "dO", "dPsum", "K", "V", "P", "dS"} :
           {x[1], y[1]} = {gradient, operand}
    \/ t.inRegs /\ {x[1], y[1]} = {"V", "Q"}

-----------------------------------------------------------------------------
Rows(t, name, stat, stages, w, b) ==
    When(b < t.blocks, Fetch({CopyTo(b % stages, x, w, 1, b) : x \in {name, stat}}))
LoadQ(t, w, b)  == Rows(t, "Q", "LSE", t.Q, w, b)
LoadDO(t, w, b) == Rows(t, "dO", "dPsum", t.dO, w, b)

\* A group is committed for each stage, whether there is something to copy or not.
Prologue(t, w) ==
    LET MoveV == WaitGroup(1) \o SyncThreads \o Do({Put(All("V", 0), Own("rV", w))}) \o SyncThreads
        Stage(s) == When(t.Q = 1 \/ s < t.Q - 1, LoadQ(t, w, s)) \o Commit
                    \o When(s < t.dO, LoadDO(t, w, s) \o Commit)
    IN  Fetch({CopyOnce("V", w, 1)}) \o When(t.inRegs, Commit)
        \o Fetch({CopyOnce("K", w, 1)}) \o Commit
        \o When(t.inRegs, MoveV) \o Loop(0, t.Q - 1, Stage)

LoadQNext(t, w, b)  == LoadQ(t, w, IF t.Q > 1 THEN b + t.Q - 1 ELSE b + 1) \o Commit
LoadDONext(t, w, b) == LoadDO(t, w, b + t.dO) \o Commit

\* The groups that may be left in flight: one where there are two stages.
WaitForStage(stages) == WaitGroup(IF stages > 1 THEN 1 ELSE 0) \o SyncThreads

Scores(t, w, b) ==
    LET V == IF t.inRegs THEN {Own("rV", w)} ELSE All("V", 0)
    IN  WaitForStage(t.Q)
        \o Do({Put(All("Q", b % t.Q) \cup All("K", 0) \cup All("LSE", b % t.Q), Own("rP", w))})
        \o WaitForStage(t.dO) \o When(t.Q > 1, LoadQNext(t, w, b))
        \o Do({Put(V \cup All("dO", b % t.dO) \cup All("dPsum", b % t.dO) \cup {Own("rP", w)},
                   Own("rdS", w))})
        \o Do({Put({Own("rP", w)}, Part("P", 0, w))}) \o SyncThreads
        \o Do({Put({Own("rdS", w)}, Part("dS", 0, w))})

Gdq(b, w) == <<"gdQ", b, w>>
MmaDV(t, w, b) == Do({Accumulate(b, All("P", 0) \cup All("dO", b % t.dO), Own("dV", w))})
MmaDK(t, w, b) == Do({Accumulate(b, All("dS", 0) \cup All("Q", b % t.Q), Own("dK", w))})
MmaDQ(w, b)    == Do({Put(All("dS", 0) \cup All("K", 0), Gdq(b + 1, w))})

\* With one stage dK comes first, so that Q may be copied for the next step.
BwdStep(t, w, b) ==
    Scores(t, w, b) \o MmaDV(t, w, b) \o SyncThreads
    \o (IF t.Q > 1 THEN LoadDONext(t, w, b) \o MmaDQ(w, b) \o MmaDK(t, w, b)
        ELSE LoadDONext(t, w, b) \o MmaDK(t, w, b) \o SyncThreads
             \o LoadQNext(t, w, b) \o MmaDQ(w, b))

Store(t, w) ==
    LET Leave(from, to) == Do({Put(from[x], to[x]) : x \in {"dK", "dV"}})
        regs == [x \in {"dK", "dV"} |-> {Own(x, w)}]
        sums == [x \in {"dK", "dV"} |-> Own("g" \o x, w)]
        smem == [x \in {"dK", "dV"} |-> Part("s" \o x, 0, w)]
    IN  SyncThreads
        \o IF t.gqa THEN Leave(regs, sums)
           ELSE Leave(regs, smem) \o SyncThreads
                \o Leave([x \in {"dK", "dV"} |-> All("s" \o x, 0)], sums)

Program(t, r) ==
    LET w == r[2]
        Block(b) == BwdStep(t, w, b)
    IN  StepsOf(w, Prologue(t, w) \o Loop(0, t.blocks - 1, Block) \o Store(t, w))
Result(t) ==
    [r \in {Own(x, w) : x \in {"gdK", "gdV"}, w \in Warps} |-> Of(1, t.blocks)]
    @@ [r \in {Gdq(b, w) : b \in 1..t.blocks, w \in Warps} |-> Of(1, r[2])]
=============================================================================
