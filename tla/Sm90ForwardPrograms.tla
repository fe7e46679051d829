------------------------- MODULE Sm90ForwardPrograms -------------------------
(***************************************************************************)
(* The forward kernel for SM90.  A CTA takes one query tile through the    *)
(* blocks of the keys: a load warp fills shared memory; each of one to     *)
(* three warp groups has its rows of the tile and starts its own GEMMs     *)
(* (WGMMA), which run behind its back until it waits for their group.      *)
(* The warp groups take turns at starting GEMMs.                           *)
(***************************************************************************)
EXTENDS WarpSteps

\* overlap: P @ V of a block runs during the softmax of the next (intra_wg_overlap)
\* before:  O is rescaled before P @ V, not after the softmax (rescale_O_before_gemm)
\* turns:   use_scheduler_barrier
\* tmaKV:   TMA brings K and V (use_tma_KV); else, from pages of another size, cp.async
\* tmaO:    TMA takes O from sO (use_tma_O = use_tma_Q); else it goes through registers
Launches ==
    {t \in [kernel : {"sm90"}, overlap : BOOLEAN, before : BOOLEAN, turns : BOOLEAN,
            tmaKV : BOOLEAN, tmaO : BOOLEAN, groups : 1..3, blocks : Nat \ {0}, tiles : {1}, reorder : BOOLEAN] :
        /\ t.before => t.overlap
        /\ t.turns => IF t.overlap THEN t.groups >= 2 ELSE t.groups = 2}

Groups(t) == 0..(t.groups - 1)

-----------------------------------------------------------------------------
(* Memory and barriers.  What a warp group has for itself has its number   *)
(* for a slot.                                                             *)

Own(name, w) == <<name, w, 0>>

\* sO is made over sQ: the rows of one warp group may be where others have Q.  A warp
\* group has the accumulator of O in registers once, rescaled (Or) or not.
Overlap(t, x, y) ==
    \/ {x[1], y[1]} = {"sO", "Q"}
    \/ {x[1], y[1]} = {"O", "Or"} /\ x[2] = y[2]

Pipes(t) ==
    [q |-> Pipe("q", 1, 1, t.groups), k |-> Pipe("k", 2, 1, t.groups),
     v |-> Pipe("v", 2, 1, t.groups)]

Got(t, pipe, n)   == Take(Pipes(t)[pipe], n, 0)
Space(t, pipe, n) == Room(Pipes(t)[pipe], n, 0)
Give(t, pipe, n)  == Empty(Pipes(t)[pipe], n, 0)
In(t, pipe, name, n) == <<name, Slot(Pipes(t)[pipe], n), 0>>

\* GEMMs of a warp group that are done; its turn; the two uses of NamedBarrierFwd.Epilogue.
Gemms(w)    == Bar("wgmma", w, 0, 1)
Turn(w)     == Bar("WarpSchedulerWG", w, 0, 2)
AllDone(t)  == Bar("Epilogue", 0, 0, t.groups)
Written(t)  == Bar("Epilogue", 1, 0, IF t.tmaO THEN t.groups + 1 ELSE t.groups)
BulkGroup   == Bar("bulk_group", 0, 0, 1)

-----------------------------------------------------------------------------
(* The load warp.                                                          *)

LoadKV(t, pipe, name, b) ==
    Load(t.reorder, {Space(t, pipe, b)},
         Effect({Fill(Of(1, b + 1), In(t, pipe, name, b))}, {Full(Pipes(t)[pipe], b, 0)}))

LoadQ(t) ==
    Load(t.reorder, {Space(t, "q", 0)},
         Effect({Fill(Of(1, 0), Own("Q", w)) : w \in Groups(t)}, {Full(Pipes(t).q, 0, 0)}))

\* With overlap V comes one block later than K, for it is needed one block later.
LoadWarp(t) ==
    LET K(b) == LoadKV(t, "k", "K", b)
        V(b) == LoadKV(t, "v", "V", b)
        late == t.overlap /\ t.tmaKV
        Block(b) == << K(b), IF late THEN V(b - 1) ELSE V(b) >>
    IN  << K(0), LoadQ(t) >> \o When(~late, << V(0) >>) \o Loop(1, t.blocks - 1, Block)
        \o When(late, << V(t.blocks - 1) >>) \o << Wait({Drained(Pipes(t).v, t.blocks, 0)}) >>

-----------------------------------------------------------------------------
(* The pieces of a warp group's program.                                   *)

\* warp_scheduler_barrier_sync for the n-th time, and _arrive for the next warp group.
Sync(t, w, n) == When(t.turns, << Step({}, Signal({Turn(w)})), Wait({Done(Turn(w), n)}) >>)
Arrive(t, w)  == When(t.turns, << Step({}, Signal({Turn((w + 1) % t.groups)})) >>)

\* S = Q @ K.T and O += P @ V of block b, from the time their operands are there.
QK(t, w, b) ==
    Issue({Got(t, "k", b)},
          << Effect({Put({Own("Q", w), In(t, "k", "K", b)}, Own("S", w))}, {Gemms(w)}) >>)
PV(t, w, b) ==
    LET before == IF b = 0 THEN {} ELSE {Own("Or", w)}
    IN  Issue({Got(t, "v", b)},
              << Effect({Put({Own("P", w), In(t, "v", "V", b)} \cup before, Own("O", w))}, {Gemms(w)}) >>)

\* wait_group: the first n GEMMs of the warp group are done.
WaitGroup(w, n, effect) == Step({Done(Gemms(w), n)}, effect)

\* What comes of S: the scale of what was before, and P.
OnlineSoftmax(w, to) == Effect({Put({Own("S", w)}, Own(x, w)) : x \in to}, {})
Scale(w) == Step({}, OnlineSoftmax(w, {"scale"}))
StoreP(w) == Step({}, OnlineSoftmax(w, {"P"}))
RescaleO(w) == Step({}, Effect({PutAfter(Own("O", w), {Own("scale", w)}, Own("Or", w))}, {}))

-----------------------------------------------------------------------------
(* The blocks of a tile, with and without overlap.                         *)

FirstHalfBlock(t, w) ==
    << QK(t, w, 0), WaitGroup(w, 1, Signal({Give(t, "k", 0)})),
       Scale(w), StoreP(w) >>

\* GEMM 2b is Q @ K.T of the block, 2b + 1 is P @ V of the block before.
OneBlockOverlap(t, w, b) ==
    << Wait({Got(t, "k", b)}) >> \o Sync(t, w, b)
    \o << QK(t, w, b) >>
    \o When(t.before /\ b > 1, << RescaleO(w) >>)
    \o << PV(t, w, b - 1) >>
    \o Arrive(t, w)
    \o << WaitGroup(w, 2 * b, Signal({Give(t, "k", b)})) >>
    \o When(~t.before, << Scale(w) >>)
    \o << WaitGroup(w, 2 * b + 1, Signal({Give(t, "v", b - 1)})) >>
    \o When(t.before, << Scale(w) >>)
    \o << StoreP(w) >> \o When(~t.before, << RescaleO(w) >>)

LastHalfBlock(t, w) ==
    LET last == t.blocks - 1
    IN  When(t.before /\ last > 0, << RescaleO(w) >>)
        \o << PV(t, w, last), WaitGroup(w, 2 * t.blocks, Signal({Give(t, "v", last)})) >>

\* A warp group keeps its turn from P @ V of a block to Q @ K.T of the next.
OneBlock(t, w, b) ==
    << QK(t, w, b) >> \o Arrive(t, w)
    \o << WaitGroup(w, 2 * b + 1, Signal({Give(t, "k", b)})), Scale(w), StoreP(w) >>
    \o When(b > 0, << RescaleO(w) >>)
    \o << Wait({Got(t, "v", b)}) >> \o Sync(t, w, b + 2)
    \o << PV(t, w, b), WaitGroup(w, 2 * b + 2, Signal({Give(t, "v", b)})) >>

MainLoop(t, w) ==
    LET GetQ  == << Wait({Got(t, "q", 0)}) >>
        GiveQ == << Step({}, Signal({Give(t, "q", 0)})) >>
        Overlapping(b) == OneBlockOverlap(t, w, b)
        Block(b) == OneBlock(t, w, b)
    IN  IF t.overlap
        THEN GetQ \o FirstHalfBlock(t, w) \o Loop(1, t.blocks - 1, Overlapping) \o GiveQ
             \o LastHalfBlock(t, w)
        ELSE GetQ \o Sync(t, w, 1) \o Loop(0, t.blocks - 1, Block) \o GiveQ \o Arrive(t, w)

-----------------------------------------------------------------------------
\* O goes through sO once no warp group needs what is there.
Out(w) == Own("gO", w)
Epilogue(t, w) ==
    LET all == {Own("sO", x) : x \in Groups(t)}
    IN  << Step({}, Signal({AllDone(t)})),
           Step({Done(AllDone(t), 1)}, Effect({Put({Own("O", w)}, Own("sO", w))}, {Written(t)})) >>
        \o IF ~t.tmaO
           THEN << Step({Done(Written(t), 1)}, Effect({Put(all, Out(w))}, {})) >>
           ELSE When(w = 0,
                << Step({}, Signal({Written(t)})),
                   Copy({Done(Written(t), 1)}, Effect({Put(all, Out(x)) : x \in Groups(t)}, {BulkGroup})),
                   Wait({Done(BulkGroup, 1)}) >>)

\* mma_init gives the first warp group its first turn.
Mma(t, w) ==
    When(t.turns /\ w = 0, << Step({}, Signal({Turn(w)})) >>) \o MainLoop(t, w) \o Epilogue(t, w)

Roles(t) == {<<"load", 0>>} \cup {<<"mma", w>> : w \in Groups(t)}
Program(t, r) == IF r[1] = "load" THEN LoadWarp(t) ELSE Mma(t, r[2])
Result(t) == [r \in {Out(w) : w \in Groups(t)} |-> Of(1, t.blocks)]
=============================================================================
