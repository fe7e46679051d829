------------------------ MODULE Sm90BackwardPrograms ------------------------
(***************************************************************************)
(* The backward kernel for SM90.  A CTA takes one tile of keys through the *)
(* row blocks: a load warp fills shared memory, and another warp adds the  *)
(* dQ of a block to global memory.  Each warp group starts its own GEMMs   *)
(* (WGMMA) and waits for them; P and dS are exchanged through shared       *)
(* memory, for GEMMs take what all the warp groups have.                   *)
(***************************************************************************)
EXTENDS WarpSteps

\* dO, PdS: stages of dO and dPsum, of P and dS; Q and the LSE have two
\* rs:      P.T and dS.T are taken from registers for dV and dK (mma_dkv_is_rs)
\* single:  the first warp group makes all of dQ (dQ_single_wg)
\* gqa:     dK and dV are added to sums over the heads of a group
Launches ==
    {t \in [kernel : {"sm90bwd"}, dO : {1, 2}, PdS : {1, 2}, rs : BOOLEAN, single : BOOLEAN,
            gqa : BOOLEAN, blocks : Nat \ {0}, tiles : {1}, reorder : BOOLEAN] : TRUE}

Groups == {0, 1}

\* The warp groups that make dQ.
DqGroups(t) == IF t.single THEN {0} ELSE Groups

-----------------------------------------------------------------------------
(* Memory and barriers.                                                    *)

Own(name, w) == <<name, w, 0>>
One(name)    == <<name, 0, 0>>

\* dV and dK leave through what K and V had; as sums they overlap each other too.
Overlap(t, x, y) ==
    LET both == {x[1], y[1]}
        sums == {"sdKaccum", "sdVaccum"}
    IN  \/ both \in {{"sdV", "V"}, {"sdK", "K"}} \/ both = sums
        \/ \E s \in sums : both \in {{s, "V"}, {s, "K"}}

Pipes(t) == [Q |-> Pipe("Q", 2, 1, 2), dO |-> Pipe("dO", t.dO, 1, 2)]
In(t, pipe, name, b) == <<name, Slot(Pipes(t)[pipe], b), 0>>
Got(t, pipe, b)   == Take(Pipes(t)[pipe], b, 0)
Space(t, pipe, b) == Room(Pipes(t)[pipe], b, 0)
Give(t, pipe, b)  == Empty(Pipes(t)[pipe], b, 0)

\* P and dS of a block, in parts.
Part(t, name, b, w) == <<name, (b % t.PdS) * 2 + w, 0>>
Parts(t, name, b)   == {Part(t, name, b, w) : w \in Groups}

\* GEMMs of a warp group that are done; named barriers; bulk copies that are done.
Gemms(w)     == Bar("wgmma", w, 0, 1)
PdS          == Bar("PdS", 0, 0, 2)
Epi          == Bar("Epilogue", 0, 0, 2)
dQEmpty(w)   == Bar("dQEmptyWG", w, 0, 2)
dQFull(w)    == Bar("dQFullWG", w, 0, 2)
BulkGroup(w) == Bar("bulk_group", w, 0, 1)
Stored       == Bar("bulk_group", 2, 0, 1)

\* arrive_and_wait, for the n-th time.
Sync(b, n) == << Step({}, Signal({b})), Wait({Done(b, n)}) >>

-----------------------------------------------------------------------------
(* The load warp: K comes with the first block of Q, V with that of dO.     *)

LoadWarp(t) ==
    LET Get(pipe, b, stat, once) ==
            LET new == {Fill(Of(1, b + 1), In(t, pipe, x, b)) : x \in {pipe, stat}}
                       \cup (IF b = 0 THEN {Fill(Of(1, 0), One(once))} ELSE {})
            IN  Load(t.reorder, {Space(t, pipe, b)}, Effect(new, {Full(Pipes(t)[pipe], b, 0)}))
        Block(b) == << Get("Q", b, "LSE", "K"), Get("dO", b, "dPsum", "V") >>
    IN  Loop(0, t.blocks - 1, Block)

-----------------------------------------------------------------------------
(* A warp group.                                                           *)

Gemm(w, waits, from, prior, to) ==
    Issue(waits, << Effect({[Put(from, Own(to, w)) EXCEPT !.prior = prior]}, {Gemms(w)}) >>)

\* dV += P.T @ dO, dK += dS.T @ Q.
AddGemm(t, w, b, name, operand, to) ==
    LET mine == IF name = "P" THEN {Own("rP", w)} ELSE {Own("rdS", w)}
        prior == IF b = 0 THEN {} ELSE {Own(to, w)}
    IN  Gemm(w, {}, {operand} \cup (IF t.rs THEN mine ELSE Parts(t, name, b)), prior, to)

\* How many GEMMs a warp group starts for a block, how often they all sync on PdS.
GemmsOf(t, w) == IF w \in DqGroups(t) THEN 5 ELSE 4
SyncsOf(t) == 1 + (IF t.rs THEN 0 ELSE 1) + (IF t.PdS = 1 THEN 1 ELSE 0)

\* S and dP; P and dS are written over those of an earlier block when all are done with it.
PAndDs(t, w, b, g, s) ==
    LET store == << Step({}, Effect({Put({Own("rP", w)}, Part(t, "P", b, w))}, {})) >>
        early == ~t.rs /\ t.PdS = 1
    IN  << Gemm(w, {Got(t, "Q", b)}, {In(t, "Q", "Q", b), One("K")}, {}, "S"),
           Gemm(w, {Got(t, "dO", b)}, {In(t, "dO", "dO", b), One("V")}, {}, "dP"),
           Step({Done(Gemms(w), g + 1)},
                Effect({Put({Own("S", w), In(t, "Q", "LSE", b)}, Own("rP", w))}, {})) >>
        \o When(early, Sync(PdS, s + 1)) \o When(~t.rs, store)
        \o << Step({Done(Gemms(w), g + 2)},
                   Effect({Put({Own("dP", w), Own("rP", w), In(t, "dO", "dPsum", b)}, Own("rdS", w))}, {})) >>
        \o When(~t.rs \/ t.PdS = 1, Sync(PdS, s + SyncsOf(t) - 1))
        \o << Step({}, Effect({Put({Own("rdS", w)}, Part(t, "dS", b, w))}, {})) >>

\* dQ of the block goes to the warp that stores it once there is room.
HandOverDq(w, b, g) ==
    << Wait({Done(Gemms(w), g + 4)}) >> \o Sync(dQEmpty(w), b + 1)
    \o << Step({}, Effect({Put({Own("dQ", w)}, Own("sdQaccum", w))}, {dQFull(w)})) >>

OneBlock(t, w, b) ==
    LET g == b * GemmsOf(t, w)
        s == b * SyncsOf(t)
        Dq == Gemm(w, {}, Parts(t, "dS", b) \cup {One("K")}, {}, "dQ")
        Dk == AddGemm(t, w, b, "dS", In(t, "Q", "Q", b), "dK")
        GiveDO == Step({Done(Gemms(w), g + 3)}, Signal({Give(t, "dO", b)}))
        GiveQ  == Step({Done(Gemms(w), g + GemmsOf(t, w))}, Signal({Give(t, "Q", b)}))
    IN  PAndDs(t, w, b, g, s)
        \o << AddGemm(t, w, b, "P", In(t, "dO", "dO", b), "dV") >>
        \o Sync(PdS, s + SyncsOf(t))
        \o (IF w \in DqGroups(t) THEN << Dq, GiveDO, Dk >> \o HandOverDq(w, b, g)
                                 ELSE << Dk, GiveDO >>)
        \o << GiveQ >>

\* Two results go through shared memory, one after the other.  The first warp of the
\* first warp group copies them, and where they share a place waits before the second.
EpilogueDkv(t, w) ==
    LET Leave(n, x, sx, gx) ==
            Sync(Epi, 2 * n - 1)
            \o << Step({}, Effect({Put({Own(x, w)}, Own(sx, w))}, {})) >>
            \o Sync(Epi, 2 * n)
            \o When(w = 0, << Copy({}, Effect({Put({Own(sx, v)}, Own(gx, v)) : v \in Groups},
                                              {Stored})) >>)
        Copied(n) == When(w = 0, << Wait({Done(Stored, n)}) >>)
    IN  IF t.gqa
        THEN Leave(1, "dK", "sdKaccum", "gdK") \o Copied(1) \o Leave(2, "dV", "sdVaccum", "gdV")
             \o Copied(2)
        ELSE Leave(1, "dV", "sdV", "gdV") \o Leave(2, "dK", "sdK", "gdK") \o Copied(2)

Mma(t, w) ==
    LET Block(b) == OneBlock(t, w, b) IN Loop(0, t.blocks - 1, Block) \o EpilogueDkv(t, w)

-----------------------------------------------------------------------------
\* The warp that adds dQ to global memory: room first for all, then the sums of all.
Gdq(b, w) == <<"gdQ", b, w>>
DqaccumStore(t) ==
    LET last == IF t.single THEN 0 ELSE 1
        Block(b) ==
            LET EmptyOne(w) == << Step({Done(BulkGroup(w), b)}, Signal({dQEmpty(w)})) >>
                AddOne(w) ==
                    << Step({}, Signal({dQFull(w)})),
                       Copy({Done(dQFull(w), b + 1)},
                            Effect({Put({Own("sdQaccum", w)}, Gdq(b + 1, w))}, {BulkGroup(w)})) >>
            IN  Loop(0, last, EmptyOne) \o Loop(0, last, AddOne)
    IN  Loop(0, t.blocks - 1, Block) \o << Wait({Done(BulkGroup(w), t.blocks) : w \in 0..last}) >>

Roles(t) == {<<"load", 0>>, <<"store", 0>>} \cup {<<"mma", w>> : w \in Groups}
Program(t, r) ==
    CASE r[1] = "load" -> LoadWarp(t) [] r[1] = "store" -> DqaccumStore(t)
      [] r[1] = "mma" -> Mma(t, r[2])
Result(t) ==
    [r \in {Own(x, w) : x \in {"gdK", "gdV"}, w \in Groups} |-> Of(1, t.blocks)]
    @@ [r \in {Gdq(b, w) : b \in 1..t.blocks, w \in DqGroups(t)} |-> Of(1, r[2])]
=============================================================================
