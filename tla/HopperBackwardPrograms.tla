----------------------- MODULE HopperBackwardPrograms -----------------------
(***************************************************************************)
(* FlashAttention-3's backward kernel in C++ for SM90.  A CTA takes one    *)
(* tile of keys through the row blocks.  Two warps of the first warp group *)
(* load, and add dQ to global memory; the others start their own GEMMs     *)
(* (WGMMA), exchange P and dS through shared memory, and with head         *)
(* dimension 256 add dQ to global memory themselves.                       *)
(***************************************************************************)
EXTENDS WarpSteps

\* dO, dS:  stages of dO and dPsum, of P and dS; Q and the LSE have two
\* rs:      P.T and dS.T are taken from registers for dV and dK (Mma_dKV_is_RS)
\* dQ:      it leaves by TMA, or by atomic additions, or by these in halves (Slice_dQKV_Mma)
\* leave:   dK and dV leave by TMA, by the threads, or are added to sums over heads
Launches ==
    {t \in [kernel : {"hopperbwd"}, dO : {1, 2}, dS : {1, 2}, rs : BOOLEAN,
            dQ : {"tma", "atomic", "sliced"}, leave : {"tma", "threads", "sums"},
            groups : {2, 3}, blocks : Nat \ {0}, tiles : {1}, reorder : BOOLEAN] :
        t.dQ = "sliced" => ~t.rs /\ t.groups = 2}

Groups(t) == 0..(t.groups - 1)
Halves(t) == IF t.dQ = "sliced" THEN {0, 1} ELSE {0}

-----------------------------------------------------------------------------
(* Memory and barriers.                                                    *)

One(name)        == <<name, 0, 0>>
Own(name, w)     == <<name, w, 0>>
Half(name, w, h) == <<name, 2 * w + h, 0>>
Gdq(t, b, w, h)  == <<"gdQ", (b * t.groups + w) * 2 + h, 0>>

\* The epilogue's tensors are in a union with those of the main loop.
Overlap(t, x, y) ==
    \E s \in {"sdK", "sdV", "sdKV"} : {x[1], y[1]} \in {{s, "K"}, {s, "V"}}

Pipes(t) == [Q |-> Pipe("Q", 2, 1, t.groups), dO |-> Pipe("dO", t.dO, 1, t.groups)]
In(t, pipe, name, b) == <<name, Slot(Pipes(t)[pipe], b), 0>>
Got(t, pipe, b)   == Take(Pipes(t)[pipe], b, 0)
Space(t, pipe, b) == Room(Pipes(t)[pipe], b, 0)
Give(t, pipe, b)  == Empty(Pipes(t)[pipe], b, 0)

Part(t, name, b, w) == <<name, (b % t.dS) * t.groups + w, 0>>
Parts(t, name, b)   == {Part(t, name, b, w) : w \in Groups(t)}

BarrierKV    == Bar("barrier_KV", 0, 0, 1)
Gemms(w)     == Bar("wgmma", w, 0, 1)
PdS(t)       == Bar("PdS", 0, 0, t.groups)
Epi(t)       == Bar("EpilogueBarrier", 0, 0, t.groups)
EpiStored(t) == Bar("EpilogueBarrier", 1, 0, t.groups + 1)
dQEmpty(w)   == Bar("dQEmptyWG", w, 0, 2)
dQFull(w)    == Bar("dQFullWG", w, 0, 2)
BulkGroup(w) == Bar("bulk_group", w, 0, 1)
Stored       == Bar("bulk_group", 3, 0, 1)

\* NamedBarrier::sync, for the n-th time.
Sync(b, n) == << Step({}, Signal({b})), Wait({Done(b, n)}) >>

-----------------------------------------------------------------------------
(* The load warp: the first block of Q, K and V, and then dO a block ahead *)
(* of Q.                                                                   *)

LoadWarp(t) ==
    LET Get(pipe, stat, b) ==
            Load(t.reorder, {Space(t, pipe, b)},
                 Effect({Fill(Of(1, b + 1), In(t, pipe, x, b)) : x \in {pipe, stat}},
                        {Full(Pipes(t)[pipe], b, 0)}))
        GetKV == Load(t.reorder, {}, Effect({Fill(Of(1, 0), One(x)) : x \in {"K", "V"}}, {BarrierKV}))
        Round(b) == << Get("dO", "dPsum", b), Get("Q", "LSE", b + 1) >>
    IN  << Get("Q", "LSE", 0), GetKV >> \o Loop(0, t.blocks - 2, Round)
        \o << Get("dO", "dPsum", t.blocks - 1),
              Wait({Drained(Pipes(t)[p], t.blocks, 0) : p \in {"Q", "dO"}}) >>

-----------------------------------------------------------------------------
(* A warp group.                                                           *)

Gemm(w, from, prior, to) ==
    Issue({}, << Effect({[Put(from, to) EXCEPT !.prior = prior]}, {Gemms(w)}) >>)

AddGemm(b, w, from, to) == Gemm(w, from, IF b = 0 THEN {} ELSE {to}, to)
Dv(t, w, b, h) ==
    AddGemm(b, w, {In(t, "dO", "dO", b)} \cup (IF t.rs THEN {Own("rP", w)} ELSE Parts(t, "P", b)),
            Half("dV", w, h))
Dk(t, w, b, h) ==
    AddGemm(b, w, {In(t, "Q", "Q", b)} \cup (IF t.rs THEN {Own("rdS", w)} ELSE Parts(t, "dS", b)),
            Half("dK", w, h))
Dq(t, w, b, h) == Gemm(w, Parts(t, "dS", b) \cup {One("K")}, {}, Half("dQ", w, h))

GemmsOf(t) == IF t.dQ = "sliced" THEN 8 ELSE 5
SyncsOf(t) == 1 + (IF ~t.rs \/ t.dS = 1 THEN 1 ELSE 0) + (IF ~t.rs /\ t.dS = 1 THEN 1 ELSE 0)

\* S and dP; P and dS are written over those of an earlier block when all are done with it.
PAndDs(t, w, b, g, s) ==
    LET store(name, r) == << Step({}, Effect({Put({Own(r, w)}, Part(t, name, b, w))}, {})) >>
    IN  << Wait({Got(t, "Q", b)}), Gemm(w, {In(t, "Q", "Q", b), One("K")}, {}, Own("S", w)),
           Step({}, Effect({Put({In(t, "Q", "LSE", b)}, Own("rLSE", w))}, {})),
           Wait({Got(t, "dO", b)}), Gemm(w, {In(t, "dO", "dO", b), One("V")}, {}, Own("dP", w)),
           Step({Done(Gemms(w), g + 1)},
                Effect({Put({Own("S", w), Own("rLSE", w)}, Own("rP", w))}, {})),
           Step({Done(Gemms(w), g + 2)},
                Effect({Put({Own("dP", w), Own("rP", w), In(t, "dO", "dPsum", b)}, Own("rdS", w))}, {})) >>
        \o When(~t.rs, When(t.dS = 1, Sync(PdS(t), s + 1)) \o store("P", "rP"))
        \o When(~t.rs \/ t.dS = 1, Sync(PdS(t), s + SyncsOf(t) - 1))
        \o store("dS", "rdS")

\* What a warp group adds to global memory itself.
AddDq(t, w, b, h) == << Step({}, Effect({Put({Half("dQ", w, h)}, Gdq(t, b + 1, w, h))}, {})) >>

HandOverDq(w, b) ==
    Sync(dQEmpty(w), b + 1)
    \o << Step({}, Effect({Put({Half("dQ", w, 0)}, Own("smem_dqacc", w))}, {dQFull(w)})) >>

BwdStep(t, w, b) ==
    LET g == b * GemmsOf(t)
        s == b * SyncsOf(t)
        Over(n) == << Wait({Done(Gemms(w), g + n)}) >>
        Release(pipe) == << Step({}, Signal({Give(t, pipe, b)})) >>
    IN  PAndDs(t, w, b, g, s) \o << Dv(t, w, b, 0) >> \o Sync(PdS(t), s + SyncsOf(t))
        \o (IF t.dQ = "sliced"
            THEN << Dq(t, w, b, 0), Dv(t, w, b, 1) >> \o Over(4) \o AddDq(t, w, b, 0)
                 \o << Dk(t, w, b, 0) >> \o Over(5) \o Release("dO")
                 \o << Dq(t, w, b, 1) >> \o Over(7) \o AddDq(t, w, b, 1) \o << Dk(t, w, b, 1) >>
            ELSE << Dq(t, w, b, 0) >> \o Over(3) \o Release("dO") \o << Dk(t, w, b, 0) >> \o Over(4)
                 \o (IF t.dQ = "tma" THEN HandOverDq(w, b) ELSE AddDq(t, w, b, 0)))
        \o Over(GemmsOf(t)) \o Release("Q")

\* The results go through shared memory, both at a time; as sums, one after the other.
Leaving(t, w, x, sx) == {Put({Half(x, w, h)}, Half(sx, w, h)) : h \in Halves(t)}
Left(t, w, sx, gx)   == {Put({Half(sx, w, h)}, Half(gx, w, h)) : h \in Halves(t)}

Store(t, w) ==
    LET all(sx, gx) == UNION {Left(t, v, sx, gx) : v \in Groups(t)}
        both == Leaving(t, w, "dV", "sdV") \cup Leaving(t, w, "dK", "sdK")
    IN  Sync(Epi(t), 1)
        \o (IF t.leave = "tma"
            THEN << Step({}, Effect(both, {EpiStored(t)})) >>
                 \o When(w = t.groups - 1,
                         << Step({}, Signal({EpiStored(t)})),
                            Copy({Done(EpiStored(t), 1)},
                                 Effect(all("sdV", "gdV") \cup all("sdK", "gdK"), {Stored})),
                            Wait({Done(Stored, 1)}) >>)
            ELSE << Step({}, Effect(both, {})) >> \o Sync(Epi(t), 2)
                 \o << Step({}, Effect(Left(t, w, "sdV", "gdV") \cup Left(t, w, "sdK", "gdK"), {})) >>)

StoreSums(t, w) ==
    LET Sum(n, x, gx) ==
            Sync(Epi(t), 2 * n - 1) \o << Step({}, Effect(Leaving(t, w, x, "sdKV"), {})) >>
            \o Sync(Epi(t), 2 * n)
            \o When(w = 0, << Copy({}, Effect(UNION {Left(t, v, "sdKV", gx) : v \in Groups(t)}, {Stored})),
                              Wait({Done(Stored, n)}) >>)
    IN  Sum(1, "dV", "gdV") \o Sum(2, "dK", "gdK")

Mma(t, w) ==
    LET Block(b) == BwdStep(t, w, b)
    IN  When(t.dQ = "tma", << Step({}, Signal({dQEmpty(w)})) >>) \o << Wait({Done(BarrierKV, 1)}) >>
        \o Loop(0, t.blocks - 1, Block)
        \o (IF t.leave = "sums" THEN StoreSums(t, w) ELSE Store(t, w))

-----------------------------------------------------------------------------
\* The warp that adds dQ to global memory, the part of every warp group.
StoreDq(t) ==
    LET Block(b) ==
            LET AddOne(w) ==
                    << Step({}, Signal({dQFull(w)})),
                       Copy({Done(dQFull(w), b + 1)},
                            Effect({Put({Own("smem_dqacc", w)}, Gdq(t, b + 1, w, 0))}, {BulkGroup(w)})) >>
                FreeOne(w) == << Step({Done(BulkGroup(w), b + 1)}, Signal({dQEmpty(w)})) >>
            IN  Loop(0, t.groups - 1, AddOne) \o Loop(0, t.groups - 1, FreeOne)
    IN  Loop(0, t.blocks - 1, Block)

Roles(t) ==
    {<<"load", 0>>} \cup {<<"mma", w>> : w \in Groups(t)}
    \cup (IF t.dQ = "tma" THEN {<<"store_dq", 0>>} ELSE {})
Program(t, r) ==
    CASE r[1] = "load" -> LoadWarp(t) [] r[1] = "store_dq" -> StoreDq(t)
      [] r[1] = "mma" -> Mma(t, r[2])
Result(t) ==
    [r \in {Half(x, w, h) : x \in {"gdK", "gdV"}, w \in Groups(t), h \in Halves(t)} |-> Of(1, t.blocks)]
    @@ [r \in {Gdq(t, b, w, h) : b \in 1..t.blocks, w \in Groups(t), h \in Halves(t)} |->
            Of(1, (r[2] \div 2) \div t.groups)]
=============================================================================
