----------------------------- MODULE DqPrograms -----------------------------
(***************************************************************************)
(* The kernel for dQ at head dimension 256: a pair of CTAs takes its       *)
(* tiles of queries through the blocks of K and V.  In each CTA a load     *)
(* warp fills shared memory, four compute warps turn S and dP into dS and  *)
(* four epilogue warps take dQ out; the MMA warp of the leading CTA drives *)
(* the tensor cores of both.                                               *)
(***************************************************************************)
EXTENDS WarpSteps

\* tile: a grid of tiles, each with its own CTAs
\* clc:  CTAs take one tile after the other (use_clc_scheduler)
\* varlen: dQ is stored from registers, not through shared memory
Launches ==
    {t \in [kernel : {"dq"}, build : {"tile", "clc"}, varlen : BOOLEAN,
            tiles : Nat \ {0}, blocks : Nat \ {0}, reorder : BOOLEAN] :
        t.build = "tile" => t.tiles = 1}

Cta == {0, 1}

\* Blocks of K before block b of tile k.
Before(t, k, b) == (k - 1) * t.blocks + b

-----------------------------------------------------------------------------
(* Memory and barriers.                                                    *)

\* First column and width in tensor memory: dS takes the place of dP.
Columns == [S |-> <<0, 128>>, dP |-> <<128, 128>>, dS |-> <<128, 64>>, dQ |-> <<256, 256>>]

\* dQ leaves through sdO.
Overlap(t, x, y) ==
    LET both == {x[1], y[1]}
    IN  \/ both = {"sdQ", "dO"}
        \/ x[1] # y[1] /\ both \subseteq DOMAIN Columns /\ Meet(Columns[x[1]], Columns[y[1]])

\* One stage each (split_head is off); arrivals of both CTAs where the leader waits.
Shared == {"q", "k", "v", "do", "kt", "ds"}
Pipes ==
    [p \in Shared |-> Pipe(p, 1, 2, 1)] @@ [p \in {"s", "dp", "dq"} |-> Pipe(p, 1, 1, 2)]
    @@ [p \in {"lse", "sum_odo"} |-> Pipe(p, 1, 1, 1)]

FullOf(pipe, n)  == {Full(Pipes[pipe], n, c) : c \in Cta}
EmptyOf(pipe, n) == {Empty(Pipes[pipe], n, c) : c \in Cta}
Got(pipe, n, c)   == Take(Pipes[pipe], n, c)
Space(pipe, n, c) == Room(Pipes[pipe], n, c)
Gone(pipe, n, c)  == Drained(Pipes[pipe], n, c)

\* cp_async_bulk_wait_group of the leading epilogue warp.
BulkGroup(c) == Bar("bulk_group", 0, c, 1)

-----------------------------------------------------------------------------
(* The load warp.                                                          *)

Get(t, c, pipe, n, value, name) ==
    LET leader == IF pipe \in Shared THEN 0 ELSE c
    IN  Load(t.reorder, {Space(pipe, n, c)},
             Effect({Fill(value, At(name, c))}, {Full(Pipes[pipe], n, leader)}))

LoadTile(t, c, k) ==
    LET Row(pipe, name) == Get(t, c, pipe, k - 1, Of(k, 0), name)
        Key(pipe, name, b) == Get(t, c, pipe, Before(t, k, b), Of(k, b + 1), name)
        Block(b) == << Key("k", "K", b), Key("v", "V", b), Key("kt", "KT", b) >>
    IN  << Row("lse", "LSE"), Row("sum_odo", "sum_OdO"), Row("q", "Q"), Row("do", "dO") >>
        \o Loop(0, t.blocks - 1, Block)

LoadWarp(t, c) ==
    LET Tile(k) == LoadTile(t, c, k)
    IN  Loop(1, t.tiles, Tile)
        \o << Wait({Gone(p, t.tiles * t.blocks, c) : p \in {"k", "v", "kt"}}
                   \cup {Gone(p, t.tiles, c) : p \in {"q", "do", "lse", "sum_odo"}}) >>

-----------------------------------------------------------------------------
(* The MMA warp of the leading CTA.                                        *)

Both(name) == {At(name, c) : c \in Cta}

\* S = Q @ K.T, dP = dO @ V.T, dQ += dS @ K, and what is signalled when they are done.
QK(n, free)  == Effect({Put({At("Q", c)} \cup Both("K"), At("S", c)) : c \in Cta},
                       EmptyOf("k", n) \cup FullOf("s", n) \cup free)
DoV(n, free) == Effect({Put({At("dO", c)} \cup Both("V"), At("dP", c)) : c \in Cta},
                       EmptyOf("v", n) \cup FullOf("dp", n) \cup free)
DsK(n, first, done) ==
    Effect({PutOrPlus(first, {At("dS", c)} \cup Both("KT"), At("dQ", c)) : c \in Cta},
           EmptyOf("kt", n) \cup EmptyOf("ds", n) \cup done)

\* Q and dO are there from the first block on, and are given back with the last.
MmaTile(t, k) ==
    LET u(b) == Before(t, k, b)
        last == t.blocks - 1
        Have(pipe, n) == Got(pipe, n, 0)
        Free(pipe, n) == Space(pipe, n, 0)
        Back(b, pipe) == IF b = last THEN EmptyOf(pipe, k - 1) ELSE {}
        MmaS(b, have)  == Issue({Free("s", u(b)), Have("k", u(b))} \cup have,
                                <<QK(u(b), Back(b, "q"))>>)
        MmaDp(b, have) == Issue({Free("dp", u(b)), Have("v", u(b))} \cup have,
                                <<DoV(u(b), Back(b, "do"))>>)
        MmaDq(b, done) == Issue({Have("ds", u(b)), Have("kt", u(b))}, <<DsK(u(b), b = 0, done)>>)
        Block(b) == << MmaS(b, {}), MmaDq(b - 1, {}), MmaDp(b, {}) >>
    IN  << MmaS(0, {Free("dq", k - 1), Have("q", k - 1)}), MmaDp(0, {Have("do", k - 1)}) >>
        \o Loop(1, last, Block) \o << MmaDq(last, FullOf("dq", k - 1)) >>

Mma(t) ==
    LET Tile(k) == MmaTile(t, k)
    IN  Loop(1, t.tiles, Tile)
        \o << Wait({Gone(p, t.tiles * t.blocks, 0) : p \in {"s", "dp"}}
                   \cup {Gone("dq", t.tiles, 0)}) >>

-----------------------------------------------------------------------------
(* The compute warps and the epilogue warps.                               *)

ComputeStep(c, n, have, free) ==
    << Step({Got("s", n, c)} \cup have,
            Effect({Put({At("S", c), At("LSE", c)}, At("rP", c))}, {Empty(Pipes.s, n, 0)})),
       Step({Got("dp", n, c)},
            Effect({Put({At("dP", c), At("rP", c), At("sum_OdO", c)}, At("rdS", c))},
                   {Empty(Pipes.dp, n, 0)})),
       Step({Space("ds", n, c)},
            Effect({Put({At("rdS", c)}, At("dS", c))}, {Full(Pipes.ds, n, 0)} \cup free)) >>

Compute(t, c) ==
    LET Tile(k) ==
            LET last == t.blocks - 1
                Block(b) ==
                    ComputeStep(c, Before(t, k, b),
                        IF b = 0 THEN {Got(p, k - 1, c) : p \in {"lse", "sum_odo"}} ELSE {},
                        IF b = last THEN {Empty(Pipes[p], k - 1, c) : p \in {"lse", "sum_odo"}}
                                    ELSE {})
            IN  Loop(0, last, Block)
    IN  Loop(1, t.tiles, Tile) \o << Wait({Gone("ds", t.tiles * t.blocks, c)}) >>

\* Its columns go through shared memory a part at a time; one step stands for them all.
Epilogue(t, c) ==
    LET Tile(k) ==
            LET Free == {Empty(Pipes.dq, k - 1, 0)}
                out == <<"gdQ", k, c>>
            IN  IF t.varlen
                THEN << Step({Got("dq", k - 1, c)}, Effect({Put({At("dQ", c)}, out)}, Free)) >>
                ELSE << StepAndCopy({Got("dq", k - 1, c)},
                            Effect({Put({At("dQ", c)}, At("sdQ", c))}, {}),
                            Effect({Put({At("sdQ", c)}, out)}, {BulkGroup(c)})),
                        Step({Done(BulkGroup(c), k)}, Signal(Free)) >>
    IN  Loop(1, t.tiles, Tile)

-----------------------------------------------------------------------------
Roles(t) == {<<"mma", 0>>} \cup ({"load", "compute", "epilogue"} \X Cta)

Program(t, r) ==
    CASE r[1] = "mma" -> Mma(t) [] r[1] = "load" -> LoadWarp(t, r[2])
      [] r[1] = "compute" -> Compute(t, r[2]) [] r[1] = "epilogue" -> Epilogue(t, r[2])

Result(t) == [r \in {"gdQ"} \X (1..t.tiles) \X Cta |-> Of(r[2], t.blocks)]
=============================================================================
