---------------------------- MODULE DkdvPrograms ----------------------------
(***************************************************************************)
(* The kernel for dK and dV at head dimension 256: a pair of CTAs takes    *)
(* tiles of keys through the row blocks.  In each CTA a load warp fills    *)
(* shared memory and eight compute warps turn S into P and dP into dS and  *)
(* take dV and dK out; the MMA warp of the leading CTA drives the tensor   *)
(* cores of both.                                                          *)
(***************************************************************************)
EXTENDS WarpSteps

\* tile: a grid of tiles, each with its own CTAs
\* clc:  CTAs take one tile after the other (use_clc_scheduler)
\* varlen: dK and dV are stored from registers, not through shared memory
Launches ==
    {t \in [kernel : {"dkdv"}, build : {"tile", "clc"}, varlen : BOOLEAN,
            tiles : Nat \ {0}, blocks : Nat \ {0}, reorder : BOOLEAN] :
        t.build = "tile" => t.tiles = 1}

Cta == {0, 1}

\* Row blocks before block b of tile k.
Before(t, k, b) == (k - 1) * t.blocks + b

-----------------------------------------------------------------------------
(* Memory and barriers.                                                    *)

\* First column and width in tensor memory: cta_tiler = (128, 64, 256), in a pair.
Columns == [dK |-> <<0, 128>>, dV |-> <<256 \div 2, 128>>,
            S  |-> <<256, 64>>, dP |-> <<256 + 128 \div 2, 64>>]

\* dV leaves through sdOT, dK through sP and sdST.
Overlap(t, x, y) ==
    LET both == {x[1], y[1]}
    IN  \/ both \in {{"sdV", "dOT"}, {"sdK", "sP"}, {"sdK", "sdST"}}
        \/ x[1] # y[1] /\ both \subseteq DOMAIN Columns /\ Meet(Columns[x[1]], Columns[y[1]])

\* One stage each, but two for dK and dV; arrivals of both CTAs where the leader waits.
Shared == {"K", "V", "Q", "QT", "dO", "dOT", "P", "dS"}
Pipes ==
    [p \in Shared |-> Pipe(p, 1, 2, 1)] @@ [p \in {"S", "dP"} |-> Pipe(p, 1, 1, 2)]
    @@ [p \in {"LSE", "sum_OdO"} |-> Pipe(p, 1, 1, 1)] @@ [dKdV |-> Pipe("dKdV", 2, 1, 2)]

FullOf(pipe, n)  == {Full(Pipes[pipe], n, c) : c \in Cta}
EmptyOf(pipe, n) == {Empty(Pipes[pipe], n, c) : c \in Cta}
Got(pipe, n, c)   == Take(Pipes[pipe], n, c)
Space(pipe, n, c) == Room(Pipes[pipe], n, c)
AtTail(pipe, n, c)  == Drained(Pipes[pipe], n, c)

\* cp_async_bulk_wait_group of the leading compute warp.
BulkGroup(c) == Bar("bulk_group", 0, c, 1)

-----------------------------------------------------------------------------
(* The load warp.                                                          *)

\* The n-th fill of a buffer, with a value; the statistics are loaded by cp.async.
Get(t, c, pipe, n, value) ==
    LET leader == IF pipe \in Shared THEN 0 ELSE c
    IN  Load(t.reorder, {Space(pipe, n, c)},
             Effect({Fill(value, At(pipe, c))}, {Full(Pipes[pipe], n, leader)}))

LoadTile(t, c, k) ==
    LET Row(pipe, b) == Get(t, c, pipe, Before(t, k, b), Of(k, b + 1))
        Key(pipe)    == Get(t, c, pipe, k - 1, Of(k, 0))
        Block(b) == << Row("Q", b), Row("LSE", b), Row("dO", b), Row("sum_OdO", b),
                       Row("dOT", b), Row("QT", b) >>
    IN  << Key("K"), Row("Q", 0), Row("LSE", 0), Key("V"), Row("dO", 0), Row("sum_OdO", 0),
           Row("dOT", 0), Row("QT", 0) >> \o Loop(1, t.blocks - 1, Block)

LoadWarp(t, c) ==
    LET Tile(k) == LoadTile(t, c, k)
        last == t.tiles * t.blocks
    IN  Loop(1, t.tiles, Tile)
        \o << Wait({AtTail(p, t.tiles, c) : p \in {"K", "V"}}
                   \cup {AtTail(p, last, c) : p \in {"Q", "LSE", "dO", "dOT", "sum_OdO", "QT"}}) >>

-----------------------------------------------------------------------------
(* The MMA warp of the leading CTA.                                        *)

Both(name) == {At(name, c) : c \in Cta}

\* S.T = K @ Q.T, dP.T = V @ dO.T, dV += P.T @ dO, dK += dS.T @ Q, and what is signalled.
KQ(n)  == Effect({Put({At("K", c)} \cup Both("Q"), At("S", c)) : c \in Cta},
                 EmptyOf("Q", n) \cup FullOf("S", n))
VdO(n) == Effect({Put({At("V", c)} \cup Both("dO"), At("dP", c)) : c \in Cta},
                 EmptyOf("dO", n) \cup FullOf("dP", n))
PdO(n, first) ==
    Effect({PutOrPlus(first, {At("sP", c)} \cup Both("dOT"), At("dV", c)) : c \in Cta},
           EmptyOf("dOT", n) \cup EmptyOf("P", n))
DsQ(n, first, done) ==
    Effect({PutOrPlus(first, {At("sdST", c)} \cup Both("QT"), At("dK", c)) : c \in Cta},
           EmptyOf("QT", n) \cup EmptyOf("dS", n) \cup done)

MmaTile(t, k) ==
    LET u(b) == Before(t, k, b)
        Have(pipe, n) == Got(pipe, n, 0)
        Free(pipe, n) == Space(pipe, n, 0)
        last == t.blocks - 1
        Out(i) == 2 * (k - 1) + i
        Block(b) ==
            << Issue({Have("Q", u(b)), Free("S", u(b))}, <<KQ(u(b))>>),
               Issue({Have("QT", u(b - 1)), Have("dS", u(b - 1))}, <<DsQ(u(b - 1), b = 1, {})>>),
               Issue({Free("dP", u(b)), Have("dO", u(b))}, <<VdO(u(b))>>),
               Issue({Have("P", u(b)), Have("dOT", u(b))}, <<PdO(u(b), FALSE)>>) >>
    IN  << Issue({Free("S", u(0)), Have("K", k - 1), Have("Q", u(0))}, <<KQ(u(0))>>),
           Issue({Have("dO", u(0)), Have("V", k - 1), Free("dP", u(0))}, <<VdO(u(0))>>),
           Issue({Have("P", u(0)), Have("dOT", u(0))}, <<PdO(u(0), TRUE)>>) >>
        \o Loop(1, last, Block)
        \o << Issue({Free("dKdV", Out(0))},
                    <<Signal(FullOf("dKdV", Out(0)) \cup EmptyOf("K", k - 1)
                             \cup EmptyOf("V", k - 1))>>),
              Issue({Free("dKdV", Out(1)), Have("dS", u(last)), Have("QT", u(last))},
                    <<DsQ(u(last), last = 0, FullOf("dKdV", Out(1)))>>) >>

Mma(t) ==
    LET Tile(k) == MmaTile(t, k)
    IN  Loop(1, t.tiles, Tile)
        \o << Wait({AtTail(p, t.tiles * t.blocks, 0) : p \in {"S", "dP"}}
                   \cup {AtTail("dKdV", 2 * t.tiles, 0)}) >>

-----------------------------------------------------------------------------
(* The compute warps.                                                      *)

ComputeBlock(t, c, n) ==
    << Step({Got("S", n, c), Space("P", n, c), Got("LSE", n, c)},
            Effect({Put({At("S", c), At("LSE", c)}, At(x, c)) : x \in {"rP", "sP"}},
                   {Full(Pipes.P, n, 0), Empty(Pipes.S, n, 0), Empty(Pipes.LSE, n, c)})),
       Step({Got("sum_OdO", n, c), Got("dP", n, c), Space("dS", n, c)},
            Effect({Put({At("dP", c), At("rP", c), At("sum_OdO", c)}, At("rdS", c))},
                   {Empty(Pipes.dP, n, 0)})),
       Step({}, Effect({Put({At("rdS", c)}, At("sdST", c))},
                       {Full(Pipes.dS, n, 0), Empty(Pipes.sum_OdO, n, c)})) >>

\* A result goes from tensor memory to a buffer of shared memory, which a bulk copy reads.
Epilogue(t, c, k, i, x, sx, gx) ==
    LET n == 2 * (k - 1) + i
        Free == {Empty(Pipes.dKdV, n, 0)}
        out == <<gx, k, c>>
    IN  IF t.varlen THEN << Step({Got("dKdV", n, c)}, Effect({Put({At(x, c)}, out)}, Free)) >>
        ELSE << StepAndCopy({Got("dKdV", n, c)}, Effect({Put({At(x, c)}, At(sx, c))}, {}),
                            Effect({Put({At(sx, c)}, out)}, {BulkGroup(c)})),
                Step({Done(BulkGroup(c), n + 1)}, Signal(Free)) >>

Compute(t, c) ==
    LET Tile(k) ==
            LET Block(b) == ComputeBlock(t, c, Before(t, k, b))
            IN  Loop(0, t.blocks - 1, Block)
                \o Epilogue(t, c, k, 0, "dV", "sdV", "gdV")
                \o Epilogue(t, c, k, 1, "dK", "sdK", "gdK")
    IN  Loop(1, t.tiles, Tile)
        \o << Wait({AtTail(p, t.tiles * t.blocks, c) : p \in {"P", "dS"}}) >>

-----------------------------------------------------------------------------
Roles(t) == {<<"mma", 0>>} \cup ({"load", "compute"} \X Cta)

Program(t, r) ==
    CASE r[1] = "mma" -> Mma(t) [] r[1] = "load" -> LoadWarp(t, r[2])
      [] r[1] = "compute" -> Compute(t, r[2])

Result(t) == [r \in {"gdV", "gdK"} \X (1..t.tiles) \X Cta |-> Of(r[2], t.blocks)]
=============================================================================
