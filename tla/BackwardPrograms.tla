--------------------------- MODULE BackwardPrograms ---------------------------
(***************************************************************************)
(* The backward kernel for SM100: one CTA, or a pair of them, goes through *)
(* the row blocks of one tile.  In each CTA a load warp fills shared       *)
(* memory, eight compute warps turn S into P and dP into dS, four reduce   *)
(* warps take dQ to global memory; the MMA warp of the leading CTA drives  *)
(* the tensor cores of both, and a relay warp tells it that the dS of its  *)
(* peer arrived.                                                           *)
(***************************************************************************)
EXTENDS WarpSteps

\* one:    a CTA on its own, head dimension 128
\* two128: a pair of CTAs (use_2cta_instrs), head dimension 128
\* two192: a pair of CTAs, head dimension 192, tile_hdimv 128
Launches ==
    [kernel : {"backward"}, build : {"one", "two128", "two192"},
     tiles : {1}, blocks : Nat \ {0}, reorder : BOOLEAN]

Pair(t) == t.build # "one"          \* use_2cta_instrs
Wide(t) == t.build = "two192"       \* tile_hdim = 192
Cta(t) == IF Pair(t) THEN {0, 1} ELSE {0}
Peer(c) == 1 - c

\* Row blocks go from 0 to the last.
LastRowPast(t) == t.blocks
LastRow(t) == t.blocks - 1

-----------------------------------------------------------------------------
(* Memory and barriers.                                                    *)

\* First column and width of what is in tensor memory (tile_m = tile_n = 128).
Columns(t) ==
    IF Wide(t)
    THEN [dV |-> <<0, 128>>, dK |-> <<128, 192>>, S |-> <<320, 128>>, P |-> <<320, 64>>,
          dP |-> <<512 - 128, 128>>, dS |-> <<512 - 128, 64>>, dQ |-> <<512 - 192 \div 2, 96>>]
    ELSE [S |-> <<0, 128>>, P |-> <<0, 64>>, dV |-> <<128, 128>>, dP |-> <<256, 128>>,
          dS |-> <<256, 64>>, dK |-> <<384, 128>>,
          dQ |-> IF Pair(t) THEN <<128 \div 2, 64>> ELSE <<256, 128>>]

\* Shared-memory tensors made over the storage of another.
Views(t) ==
    CASE t.build = "one"    -> {{"sdV", "dO"}, {"sdK", "Q"}}
      [] t.build = "two128" -> {{"sdV", "V"}, {"sdK", "K"}}
      [] t.build = "two192" -> {{"sdV", "V"}, {"sdK", "K"}, {"Q", "Qt"}, {"dO", "dOt"},
                                {"xchg", "dQaccum"}}

Overlap(t, x, y) ==
    LET both == {x[1], y[1]}
    IN  \/ both \in Views(t)
        \/ /\ x[1] # y[1] /\ both \subseteq DOMAIN Columns(t)
           /\ Meet(Columns(t)[x[1]], Columns(t)[y[1]])

\* A CTA on its own reads Q, K and dO through transposed views of one buffer.
Buffer(t, name) ==
    IF Pair(t) THEN name
    ELSE CASE name = "Qt" -> "Q" [] name = "Kt" -> "K" [] name = "dOt" -> "dO" [] OTHER -> name

\* Stages and arrivals of a phase: those of both CTAs where the leader waits.
Pipes(t) ==
    LET all   == Cardinality(Cta(t))
        two   == IF Pair(t) THEN 1 ELSE 2
    IN  [Q     |-> Pipe("Q", two, all, 1),     Qt  |-> Pipe("Qt", 1, all, 1),
         Kt    |-> Pipe("Kt", 1, all, 1),      dO  |-> Pipe("dO", 1, all, 1),
         LSE   |-> Pipe("LSE", two, 1, 1),     dS  |-> Pipe("dS", 1, all, 1),
         dPsum |-> Pipe("dPsum", 1, 1, 1),     dP  |-> Pipe("dP", 1, 1, all),
         S_P   |-> Pipe("S_P", 1, 1, all),     dQ  |-> Pipe("dQ", 1, 1, all),
         dKV   |-> Pipe("dKV", 2, 1, all)]

FullOf(t, pipe, n)  == {Full(Pipes(t)[pipe], n, c) : c \in Cta(t)}
EmptyOf(t, pipe, n) == {Empty(Pipes(t)[pipe], n, c) : c \in Cta(t)}

ClusterFull(c)   == Bar("dS_cluster_full", 0, c, 1)
ClusterLeader(t) == Bar("dS_cluster_leader", 0, 0, Cardinality(Cta(t)))
DQaccumEmpty(c)  == Bar("dQaccum_empty", 0, c, 1)
BulkGroup(c)     == Bar("bulk_group", 0, c, 1)       \* cp.async.bulk groups done

Got(t, pipe, n, c) == Take(Pipes(t)[pipe], n, c)
Space(t, pipe, n, c) == Room(Pipes(t)[pipe], n, c)
\* The MMA warp waits for room by a phase variable that it flips as it goes on.
Acc(t, pipe, flips) == For(Empty(Pipes(t)[pipe], 0, 0), flips)

-----------------------------------------------------------------------------
\* An operand whose parts are in both CTAs, and one that each CTA has for itself.
Both(t, name, stage) == {<<Buffer(t, name), stage, c>> : c \in Cta(t)}
QSlot(t, n) == Slot(Pipes(t).Q, n)

\* S.T = K @ Q.T, dP.T = V @ dO.T, dV += P.T @ dO, dK += dS.T @ Q, dQ = dS @ K.
MmaQK(t, n) == {Put({At("K", c)} \cup Both(t, "Q", QSlot(t, n)), At("S", c)) : c \in Cta(t)}
MmaDoV(t)   == {Put({At("V", c)} \cup Both(t, "dOt", 0), At("dP", c)) : c \in Cta(t)}
MmaPdO(t, first) ==
    {PutOrPlus(first, {At("P", c)} \cup Both(t, "dO", 0), At("dV", c)) : c \in Cta(t)}
MmaDsQ(t, n, first) ==
    {PutOrPlus(first, {At("dS", c)} \cup Both(t, "Qt", QSlot(t, n)), At("dK", c)) : c \in Cta(t)}
MmaDsK(t) ==
    {Put({At("sdS", c)} \cup (IF Pair(t) THEN {At("sdSpeer", c)} ELSE {})
            \cup Both(t, "Kt", 0), At("dQ", c)) : c \in Cta(t)}

-----------------------------------------------------------------------------
(* The MMA warp of the leading CTA.                                        *)

\* What a product signals when it is done: its result, or the operands it is done with.
QK(t, n, free)  == Effect(MmaQK(t, n), FullOf(t, "S_P", 0) \cup free)
DoV(t, free)    == Effect(MmaDoV(t), FullOf(t, "dP", 0) \cup free)
PdO(t, n, free) == Effect(MmaPdO(t, n = 0), free)
DsQ(t, n, free) == Effect(MmaDsQ(t, n, n = 0), free)
DsK(t, free)    == Effect(MmaDsK(t), FullOf(t, "dQ", 0) \cup EmptyOf(t, "dS", 0) \cup free)

MmaOne(t) ==
    LET last == LastRow(t)
        Have(pipe, n) == Got(t, pipe, n, 0)
        Free(pipe, n) == EmptyOf(t, pipe, n)
        Body(j) ==
            << Issue({Have("Q", j)}, <<QK(t, j, {})>>),
               Issue({Have("dS", j - 1)}, <<DsQ(t, j - 1, Free("Q", j - 1)), DsK(t, {})>>),
               Issue({Have("dO", j), Acc(t, "dQ", j)}, <<DoV(t, {})>>),
               Issue({Acc(t, "S_P", j + 1)}, <<PdO(t, j, Free("dO", j))>>) >>
    IN  << Issue({Have("Q", 0), Acc(t, "S_P", 0)}, <<QK(t, 0, {})>>),
           Issue({Have("dO", 0), Acc(t, "dP", 0), Acc(t, "dQ", 0)}, <<DoV(t, {})>>),
           Issue({Acc(t, "S_P", 1)}, <<PdO(t, 0, Free("dO", 0))>>) >>
        \o Loop(1, last, Body)
        \o << Issue({Space(t, "dKV", 0, 0)},
                    <<Signal(FullOf(t, "S_P", 0)), Signal(FullOf(t, "dKV", 0))>>),
              Issue({Space(t, "dKV", 1, 0), Have("dS", last)},
                    <<DsQ(t, last, FullOf(t, "dKV", 1)), DsK(t, Free("Q", last))>>) >>

MmaPair128(t) ==
    LET last == LastRow(t)
        Have(pipe, n) == Got(t, pipe, n, 0)
        Free(pipe, n) == EmptyOf(t, pipe, n)
        Leader(n) == For(ClusterLeader(t), n + 1)
        Body(j) ==
            << Issue({Have("Q", j), Acc(t, "dQ", j - 1)}, <<QK(t, j, Free("Q", j))>>),
               Issue({Have("Qt", j - 1), Acc(t, "dP", j)}, <<DsQ(t, j - 1, Free("Qt", j - 1))>>),
               Issue({Have("dO", j)}, <<DoV(t, {})>>),
               Issue({Have("dS", j - 1), Leader(j - 1)}, <<DsK(t, {})>>),
               Issue({Acc(t, "S_P", j + 1)}, <<PdO(t, j, Free("dO", j))>>) >>
    IN  << Issue({Have("Q", 0), Acc(t, "S_P", 0)}, <<QK(t, 0, Free("Q", 0))>>),
           Issue({Have("dO", 0), Acc(t, "dP", 0)}, <<DoV(t, {})>>),
           Issue({Acc(t, "S_P", 1)}, <<PdO(t, 0, Free("dO", 0))>>),
           Wait({Have("Kt", 0)}) >>
        \o Loop(1, last, Body)
        \o << Issue({Space(t, "dKV", 0, 0)},
                    <<Signal(FullOf(t, "S_P", 0)), Signal(FullOf(t, "dKV", 0))>>),
              Issue({Space(t, "dKV", 1, 0), Have("Qt", last), Acc(t, "dP", last + 1)},
                    <<DsQ(t, last, Free("Qt", last) \cup FullOf(t, "dKV", 1))>>),
              Issue({Have("dS", last), Leader(last), Acc(t, "dQ", last)},
                    <<DsK(t, Free("Kt", 0))>>) >>

\* Q and Qt take turns in one slot, dOt and dO in another.
MmaPair192(t) ==
    LET Have(pipe, n) == Got(t, pipe, n, 0)
        Free(pipe, n) == EmptyOf(t, pipe, n)
        Body(i) ==
            << Issue({Have("Q", 2 * i), Acc(t, "dQ", i)}, <<QK(t, i, Free("Q", 2 * i))>>),
               Issue({Have("dO", 2 * i), Acc(t, "S_P", i + 1)}, <<DoV(t, Free("dO", 2 * i))>>),
               Issue({Have("Q", 2 * i + 1), Acc(t, "dP", i + 1)},
                     <<DsQ(t, i, Free("Q", 2 * i + 1))>>),
               Issue({Have("dO", 2 * i + 1)}, <<PdO(t, i, Free("dO", 2 * i + 1))>>),
               Issue({Have("dS", i), For(ClusterLeader(t), i + 1)}, <<DsK(t, {})>>) >>
    IN  Loop(0, LastRow(t), Body)
        \o << Issue({Space(t, "dKV", 0, 0)}, <<Signal(FullOf(t, "dKV", 0))>>),
              Issue({Space(t, "dKV", 1, 0)}, <<Signal(FullOf(t, "dKV", 1))>>) >>

Mma(t) ==
    CASE t.build = "one" -> MmaOne(t) [] t.build = "two128" -> MmaPair128(t)
      [] t.build = "two192" -> MmaPair192(t)

-----------------------------------------------------------------------------
(* The load warp.                                                          *)

\* The CTA whose full barrier a load of this CTA completes.
Signals(pipe, c) == IF pipe \in {"LSE", "dPsum"} THEN c ELSE 0

\* The n-th fill of a stage: pairs of a buffer and the row block it gets.
Fetch(t, c, pipe, n, what) ==
    LET To(name) == <<name, IF name \in {"Q", "LSE"} THEN Slot(Pipes(t)[pipe], n) ELSE 0, c>>
    IN  Load(t.reorder, {Space(t, pipe, n, c)},
             Effect({Fill(Of(1, x[2]), To(x[1])) : x \in what},
                    {Full(Pipes(t)[pipe], n, Signals(pipe, c))}))

LoadTail(t, c, pipe, n) == Drained(Pipes(t)[pipe], n, c)

LoadNarrow(t, c) ==
    LET Get(pipe, n, what) == Fetch(t, c, pipe, n, what)
        dO(m) == {<<"dO", m>>} \cup (IF Pair(t) THEN {<<"dOt", m>>} ELSE {})
        Qt(n) == When(Pair(t) /\ n >= 0, << Get("Qt", n, {<<"Qt", n + 1>>}) >>)
        Body(i) ==
            Qt(i - 1)
            \o << Get("Q", i, {<<"Q", i + 1>>} \cup (IF i = 0 THEN {<<"K", 0>>} ELSE {})),
                  Get("LSE", i, {<<"LSE", i + 1>>}),
                  Get("dO", i, dO(i + 1) \cup (IF i = 0 THEN {<<"V", 0>>} ELSE {})),
                  Get("dPsum", i, {<<"dPsum", i + 1>>}) >>
            \o When(Pair(t) /\ i = 0, << Get("Kt", 0, {<<"Kt", 0>>}) >>)
    IN  Loop(0, LastRow(t), Body) \o Qt(LastRow(t))
        \o << Wait({LoadTail(t, c, pipe, t.blocks) :
                 pipe \in {"Q", "LSE", "dO", "dPsum"} \cup (IF Pair(t) THEN {"Qt"} ELSE {})}) >>

LoadWide(t, c) ==
    LET Get(pipe, n, what) == Fetch(t, c, pipe, n, what)
        With(name, i) == IF i = 0 THEN {<<name, 0>>} ELSE {}
        Q(i)   == Get("Q", 2 * i, {<<"Q", i + 1>>} \cup With("K", i))
        LSE(i) == Get("LSE", i, {<<"LSE", i + 1>>})
        dOt(i) == Get("dO", 2 * i, {<<"dOt", i + 1>>} \cup With("V", i))
        dPsum(i) == Get("dPsum", i, {<<"dPsum", i + 1>>})
        Body(i) ==
            (IF i = 0 THEN << Q(i), LSE(i), dOt(i), dPsum(i) >>
                      ELSE << LSE(i), Q(i), dPsum(i), dOt(i) >>)
            \o << Get("Q", 2 * i + 1, {<<"Qt", i + 1>>} \cup With("Kt", i)),
                  Get("dO", 2 * i + 1, {<<"dO", i + 1>>}) >>
    IN  Loop(0, LastRow(t), Body)
        \o << Wait({LoadTail(t, c, "Q", 2 * t.blocks), LoadTail(t, c, "dO", 2 * t.blocks),
                    LoadTail(t, c, "LSE", t.blocks), LoadTail(t, c, "dPsum", t.blocks)}) >>

Loads(t, c) == IF Wide(t) THEN LoadWide(t, c) ELSE LoadNarrow(t, c)

-----------------------------------------------------------------------------
(* The compute warps: P = exp(S - LSE), dS = P * (dP - dPsum).             *)

\* Where a consumer of the tensor cores says that it is done, and where dS is ready.
Release(t, pipe) == Empty(Pipes(t)[pipe], 0, 0)
SReady(t) == Full(Pipes(t).dS, 0, 0)

\* What is signalled once S is in registers: in the wide build dP may overwrite it;
\* in the other pair dQ of the block before may, for which dS waited.
SReadFreed(t, i) == {Release(t, "S_P")}
SRead(t, i) ==
    IF Wide(t) THEN {Release(t, "S_P")} ELSE IF Pair(t) /\ i > 0 THEN {SReady(t)} ELSE {}
PWrittenSilent(t) == {}
PWritten(t) == IF Wide(t) THEN {} ELSE {Release(t, "S_P")}
DSWritten(t) == IF Pair(t) /\ ~Wide(t) THEN {} ELSE {SReady(t)}

\* cpasync_bulk_s2cluster: half of dS goes to the peer.
Exchange(t, c) == Effect({Put({At("xchg", c)}, At("sdSpeer", Peer(c)))}, {ClusterFull(Peer(c))})

ComputeBlock(t, c, i) ==
    LET LSE == <<"LSE", Slot(Pipes(t).LSE, i), c>>
        PdP == {At("rS", c), At("rdP", c), At("dPsum", c)}
        ToAll(names) == {Put(PdP, At(x, c)) : x \in names}
        dPsumFree == {Empty(Pipes(t).dPsum, i, c)}
    IN  << Step({Got(t, "LSE", i, c), Got(t, "S_P", i, c)},
                Effect({Put({At("S", c)}, At("rS", c))}, SRead(t, i))),
           Step({}, Effect({Put({At("rS", c), LSE}, At("P", c))},
                           {Empty(Pipes(t).LSE, i, c)} \cup PWritten(t))),
           Step({Got(t, "dPsum", i, c), Got(t, "dP", i, c)},
                Effect({Put({At("dP", c)}, At("rdP", c))}, {})) >>
        \o IF Pair(t)
           THEN << Step({Space(t, "dS", i, c)},
                        Effect(ToAll({"dS", "sdS", "rdS"}), {Release(t, "dP")})),
                   StepAndCopy(IF Wide(t) THEN {For(DQaccumEmpty(c), i)} ELSE {},
                        Effect({Put({At("rdS", c)}, At("xchg", c))}, dPsumFree \cup DSWritten(t)),
                        Exchange(t, c)) >>
           ELSE << Step({Space(t, "dS", i, c)},
                        Effect(ToAll({"dS", "sdS"}), dPsumFree \cup DSWritten(t))) >>

\* epilogue_dKV and epilogue_dK_or_dV_tma: out through a view of a load buffer.
Epilogue(t, c, n, x, sx, gx) ==
    Step({Got(t, "dKV", n, c)},
         Effect({Put({At(x, c)}, At(y, c)) : y \in {sx, gx}}, {Empty(Pipes(t).dKV, n, 0)}))

Compute(t, c) ==
    LET Body(i) == ComputeBlock(t, c, i)
    IN  Loop(0, LastRow(t), Body)
        \o When(Pair(t) /\ ~Wide(t), << Step({}, Signal({SReady(t)})) >>)
        \o << Epilogue(t, c, 0, "dV", "sdV", "gdV"), Epilogue(t, c, 1, "dK", "sdK", "gdK") >>

-----------------------------------------------------------------------------
(* The reduce warps and the relay warp.                                    *)

\* Rows of dQ are added to global memory, through a buffer that holds xchg as well in
\* the wide build; the others have it for themselves, and their step stands for all
\* the chunks that go through it.
Reduce(t, c) ==
    LET Body(i) ==
            IF Wide(t)
            THEN << Step({Got(t, "dQ", i, c)},
                         Effect({Put({At("dQ", c)}, At("rdQ", c))}, {Release(t, "dQ")})),
                    StepAndCopy({}, Effect({Put({At("rdQ", c)}, At("dQaccum", c))}, {}),
                         Effect({Plus({At("dQaccum", c)}, At("gdQ", c))}, {BulkGroup(c)})),
                    Step({Done(BulkGroup(c), i + 1)}, Signal({DQaccumEmpty(c)})) >>
            ELSE << Step({Got(t, "dQ", i, c)},
                         Effect({Plus({At("dQ", c)}, At("gdQ", c))}, {Release(t, "dQ")})) >>
    IN  Loop(0, LastRow(t), Body)

Relay(t, c) ==
    LET Body(i) == << Step({For(ClusterFull(c), i + 1)}, Signal({ClusterLeader(t)})) >>
    IN  Loop(0, LastRow(t), Body)

-----------------------------------------------------------------------------
Roles(t) ==
    {<<"mma", 0>>} \cup ({"load", "compute", "reduce"} \X Cta(t))
    \cup (IF Pair(t) THEN {"relay"} \X Cta(t) ELSE {})

Program(t, r) ==
    CASE r[1] = "mma" -> Mma(t) [] r[1] = "load" -> Loads(t, r[2])
      [] r[1] = "compute" -> Compute(t, r[2]) [] r[1] = "reduce" -> Reduce(t, r[2])
      [] r[1] = "relay" -> Relay(t, r[2])

Result(t) == [r \in {At(g, c) : g \in {"gdQ", "gdV", "gdK"}, c \in Cta(t)} |-> Of(1, t.blocks)]
=============================================================================
