---------------------------- MODULE MCWarpKernels ----------------------------
(***************************************************************************)
(* Launches of the kernels: for each kernel its builds, with the fewest    *)
(* blocks and tiles with which every loop goes round again and every slot  *)
(* is used twice.  Where reorder is TRUE, copies land in any order; the    *)
(* launches that have it FALSE are the larger ones.                        *)
(***************************************************************************)
EXTENDS WarpKernels

Tile(kernel, tiles, blocks) == [kernel |-> kernel, tiles |-> tiles, blocks |-> blocks]

-----------------------------------------------------------------------------
(* CuTe DSL, SM100.                                                        *)

\* A tile of one row block has no main loop; with three, the loop goes round
\* twice and the two slots of Q are filled again.
BackwardTile(build, blocks, reorder) ==
    Tile("backward", 1, blocks) @@ [build |-> build, reorder |-> reorder]
BackwardLaunches ==
    <<BackwardTile("one", 1, TRUE), BackwardTile("one", 2, TRUE),
      BackwardTile("one", 3, FALSE),
      BackwardTile("two128", 2, FALSE),
      BackwardTile("two192", 1, FALSE), BackwardTile("two192", 3, FALSE)>>

ForwardTile(build, tiles, blocks, reorder) ==
    Tile("forward", tiles, blocks) @@ [build |-> build, reorder |-> reorder]
ForwardLaunches ==
    <<ForwardTile("plain", 1, 2, TRUE), ForwardTile("plain", 2, 1, FALSE),
      ForwardTile("uneven", 1, 4, FALSE), ForwardTile("varlen", 2, 1, FALSE),
      ForwardTile("single", 2, 2, TRUE), ForwardTile("pair", 1, 2, FALSE)>>

MlaTile(build, tiles, blocks, lse) ==
    Tile("mla", tiles, blocks) @@ [build |-> build, reorder |-> FALSE, lse |-> lse]
MlaLaunches ==
    <<MlaTile("tma", 1, 2, TRUE), MlaTile("gather", 1, 2, FALSE)>>

\* Two tiles of one CTA, with the log-sum-exp stored.
MlaLseLaunches == <<MlaTile("tma", 2, 1, TRUE)>>

Hd256Tile(kernel, build, varlen, tiles, blocks) ==
    Tile(kernel, tiles, blocks) @@ [build |-> build, varlen |-> varlen, reorder |-> FALSE]
Hd256Launches ==
    <<Hd256Tile("dkdv", "tile", FALSE, 1, 2), Hd256Tile("dkdv", "clc", TRUE, 2, 1),
      Hd256Tile("dq", "tile", FALSE, 1, 2), Hd256Tile("dq", "clc", TRUE, 2, 2),
      Tile("wide", 1, 2) @@ [reorder |-> FALSE]>>

-----------------------------------------------------------------------------
(* CuTe DSL, SM90.                                                         *)

Sm90Forward(overlap, before, turns, tmaKV, tmaO, groups, blocks, reorder) ==
    Tile("sm90", 1, blocks)
    @@ [overlap |-> overlap, before |-> before, turns |-> turns, tmaKV |-> tmaKV,
        tmaO |-> tmaO, groups |-> groups, reorder |-> reorder]
Sm90Backward1(dO, PdS, rs, single, gqa, blocks) ==
    Tile("sm90bwd", 1, blocks)
    @@ [dO |-> dO, PdS |-> PdS, rs |-> rs, single |-> single, gqa |-> gqa,
        reorder |-> FALSE]
Sm90Launches ==
    <<Sm90Forward(TRUE, FALSE, TRUE, TRUE, TRUE, 2, 3, FALSE),
      Sm90Forward(TRUE, FALSE, TRUE, TRUE, TRUE, 3, 2, FALSE),
      Sm90Forward(TRUE, FALSE, TRUE, TRUE, FALSE, 2, 2, FALSE),
      Sm90Forward(TRUE, TRUE, TRUE, FALSE, TRUE, 2, 3, FALSE),
      Sm90Forward(FALSE, FALSE, TRUE, FALSE, FALSE, 2, 3, FALSE),
      Sm90Forward(FALSE, FALSE, FALSE, TRUE, TRUE, 1, 3, TRUE),
      Sm90Backward1(2, 2, TRUE, FALSE, FALSE, 2),
      Sm90Backward1(1, 1, FALSE, FALSE, TRUE, 2),
      Sm90Backward1(2, 2, FALSE, TRUE, FALSE, 3),
      Sm90Backward1(1, 2, TRUE, FALSE, TRUE, 2),
      Sm90Backward1(2, 1, TRUE, TRUE, TRUE, 2)>>

-----------------------------------------------------------------------------
(* FlashAttention-3.                                                       *)

HopperTile ==
    Tile("hopper", 2, 2)
    @@ [overlap |-> FALSE, before |-> FALSE, turns |-> FALSE, transpose |-> FALSE,
        large |-> FALSE, qv |-> FALSE, dynamic |-> FALSE, store |-> "tma",
        append |-> 0, groups |-> 2, reorder |-> FALSE]
HopperLaunches ==
    <<[HopperTile EXCEPT !.overlap = TRUE, !.turns = TRUE],
      [HopperTile EXCEPT !.turns = TRUE, !.store = "shared"],
      [HopperTile EXCEPT !.large = TRUE, !.qv = TRUE, !.store = "direct"],
      [HopperTile EXCEPT !.large = TRUE, !.store = "shared", !.append = 1],
      [HopperTile EXCEPT !.overlap = TRUE, !.before = TRUE, !.transpose = TRUE,
                         !.tiles = 1, !.blocks = 3],
      [HopperTile EXCEPT !.turns = TRUE, !.append = 2, !.dynamic = TRUE,
                         !.store = "shared"],
      [HopperTile EXCEPT !.overlap = TRUE, !.dynamic = TRUE, !.groups = 1, !.tiles = 3,
                         !.reorder = TRUE],
      [HopperTile EXCEPT !.overlap = TRUE, !.turns = TRUE, !.transpose = TRUE,
                         !.append = 1, !.reorder = TRUE],
      [HopperTile EXCEPT !.overlap = TRUE, !.turns = TRUE, !.groups = 3, !.tiles = 1]>>

HopperBackward1(dO, dS, rs, dQ, leave) ==
    Tile("hopperbwd", 1, 2)
    @@ [dO |-> dO, dS |-> dS, rs |-> rs, dQ |-> dQ, leave |-> leave, groups |-> 2,
        reorder |-> FALSE]
HopperBackwardLaunches ==
    <<HopperBackward1(2, 2, TRUE, "tma", "tma"), HopperBackward1(1, 1, FALSE, "tma", "threads"),
      HopperBackward1(2, 1, TRUE, "tma", "sums"), HopperBackward1(2, 2, FALSE, "atomic", "tma"),
      HopperBackward1(1, 1, FALSE, "sliced", "tma")>>

-----------------------------------------------------------------------------
(* Kernels without warp specialization: SM80 in the three generations.     *)

Sm80Tile(stages, inRegs) ==
    Tile("sm80", 1, 3) @@ [stages |-> stages, inRegs |-> inRegs]
Sm80BackwardTile(Q, dO, inRegs, gqa) ==
    Tile("sm80bwd", 1, 3)
    @@ [Q |-> Q, dO |-> dO, inRegs |-> inRegs, rs |-> FALSE, gqa |-> gqa]
HopperSm80Tile(stages, inRegs, over, append, tiles, blocks) ==
    Tile("hsm80", tiles, blocks)
    @@ [stages |-> stages, inRegs |-> inRegs, over |-> over, append |-> append]
HopperSm80BackwardTile(Q, dO, inRegs, gqa, blocks) ==
    Tile("hsm80bwd", 1, blocks)
    @@ [Q |-> Q, dO |-> dO, inRegs |-> inRegs, gqa |-> gqa]
Fa2Tile(inRegs, share, split, append, rotary, blocks) ==
    Tile("fa2fwd", 1, blocks)
    @@ [inRegs |-> inRegs, share |-> share, split |-> split, append |-> append,
        rotary |-> rotary]
Fa2BackwardTile(double, inRegs, deterministic, blocks, tiles) ==
    Tile("fa2bwd", tiles, blocks)
    @@ [double |-> double, inRegs |-> inRegs, deterministic |-> deterministic]

Sm80Launches ==
    <<Sm80Tile(1, FALSE), Sm80Tile(1, TRUE), Sm80Tile(2, FALSE),
      Sm80BackwardTile(1, 1, FALSE, FALSE), Sm80BackwardTile(2, 1, TRUE, FALSE),
      Sm80BackwardTile(2, 2, FALSE, TRUE),
      HopperSm80Tile(1, FALSE, TRUE, 0, 2, 2), HopperSm80Tile(2, TRUE, TRUE, 0, 2, 3),
      HopperSm80Tile(2, FALSE, TRUE, 2, 1, 2), HopperSm80Tile(1, FALSE, FALSE, 2, 2, 2),
      HopperSm80BackwardTile(1, 1, FALSE, FALSE, 3),
      HopperSm80BackwardTile(2, 2, TRUE, FALSE, 3),
      HopperSm80BackwardTile(2, 2, FALSE, TRUE, 3),
      Fa2Tile(FALSE, FALSE, FALSE, 0, FALSE, 3), Fa2Tile(TRUE, TRUE, FALSE, 0, FALSE, 3),
      Fa2Tile(FALSE, FALSE, TRUE, 1, TRUE, 3), Fa2Tile(FALSE, FALSE, TRUE, 2, FALSE, 2),
      Fa2BackwardTile(TRUE, TRUE, TRUE, 2, 2), Fa2BackwardTile(TRUE, FALSE, FALSE, 3, 1),
      Fa2BackwardTile(FALSE, TRUE, TRUE, 2, 2)>>

SmallLaunches ==
    Sm80Launches \o Sm90Launches \o HopperLaunches \o HopperBackwardLaunches
    \o Hd256Launches \o ForwardLaunches \o MlaLaunches \o BackwardLaunches

\* Worked out once, and nothing to look into when actions are counted.
KernelTable == LET table == KernelsConsidered IN table
=============================================================================
