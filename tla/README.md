# Verification of the attention kernels

This directory models the kernels of this repository. In most detail it has the
forward kernel with block-scaled operands
(`flash_attn/cute/flash_fwd_sm100_fp4.py`, NVFP4/MXFP8 Q, K, P, V on SM100 and
SM103), the part of the repository that is its own work and the part that is
hardest to test: one thread block (CTA) is six roles and two asynchronous
engines that share buffers and are kept apart by single-bit barrier parities
only. Beside it stand the kernels it comes from and shares the repository with
(FlashAttention-4, -3 and -2, forward and backward), the order in which the
deterministic backward adds, the Triton kernels, and the compilation cache. The
models are TLA+ modules, checked with TLC on small instances; the theorems are
proved with TLAPS for every value of the constants.

## 1. The system

### Parts of the modelled kernel

| part | code (`flash_fwd_sm100_fp4.py`) | state it keeps | operations |
|---|---|---|---|
| load warp | `load`, `load_Q`, `load_KV` (2084-2351, 4782-4859) | position and phase in the KV ring, phase of Q | wait for a free buffer, arm its full barrier, start a bulk copy |
| bulk-copy engine (TMA) | external | copies under way | land, complete the barrier's bytes |
| MMA warp | `mma` (2355-2909) | block in hand, stage, consumer and release positions, phases | wait for operands, copy scale factors (`tcgen05.cp`), issue QK and PV GEMMs, commit |
| tensor core | external (`tcgen05`) | operations issued and not complete | start, finish, arrive on the committed barriers |
| softmax warpgroups 0 and 1 | `softmax_loop`, `softmax_step` (2912-3257, 3784-4142) | phases of S and of the correction hand-over, row max and sum | load S, publish the rescale factor, store P's scales and P in two parts, publish the row sum |
| correction warpgroup | `correction_loop`, `correction_rescale`, `correction_epilogue` (4145-4628) | phases of its five barriers | rescale O between two PVs, normalize and store O, take the row sum |
| epilogue warp | `epilogue_s2g` (4676-4780) | phase | bulk-store the output buffers, free them |
| P handoff | `mbar_p_split` (1189-1215), `gemm_ptx_partial*` (`blackwell_helpers.py`) | chunks stored, K-tiles multiplied | split a P tile over two signals |
| layouts | `_setup_attributes`, `_resolve_decouple_sp`, 1684-1812 | none | which columns of tensor memory overlap |

The roles share shared memory (Q, K/V ring, scale factors, output buffers),
tensor memory (S, P, O, scale factors) and mbarriers; they exchange nothing
else. Every tile of the CTA goes through all of them, and a role may run ahead
into the next tile as far as the barriers let it.

What is hard about it: every interleaving of the roles is possible; copies and
MMAs complete long after they were issued; buffers overlap on purpose (P inside
S, the scale factors of one stage inside the S of the other, output over Q); a
wait sees a parity, so that a role that is two phases late or early is let
through; some orders are not enforced by a wait but follow from another one
("S of the next block is there, hence PV of this one is over"); and the schedule
exists in two forms (baseline and decoupled) times several operand formats.

### The rest of the repository

| component | where | state it keeps | what is hard | modelled in |
|---|---|---|---|---|
| FA4 forward, MLA forward, backward on SM100 | `cute/flash_fwd_sm100.py`, `flash_fwd_mla_sm100.py`, `flash_bwd_sm100.py` | as above; 2-CTA clusters | overlapping tensor memory, one barrier for two facts, arrivals of both CTAs, tails | `ForwardPrograms`, `MlaPrograms`, `BackwardPrograms` |
| head dimension 256 on two CTAs | `cute/sm100_hd256_2cta_fmha_*.py` | the same | outputs staged over operands | `WideForwardPrograms`, `DkdvPrograms`, `DqPrograms` |
| SM90 kernels | `cute/flash_fwd_sm90.py`, `flash_bwd_sm90.py` | TMA pipelines, warp-group turns | turns, O over Q | `Sm90ForwardPrograms`, `Sm90BackwardPrograms` |
| FlashAttention-3 | `hopper/` | the same, `barrier_O`, appended keys | `smem_o` over K and V across tiles, dK/dV over K/V | `HopperForwardPrograms`, `HopperBackwardPrograms`, `HopperSm80*Programs` |
| SM80 kernels of the three generations | `cute/flash_fwd.py`, `flash_bwd.py`, `hopper/*sm80*`, `csrc/flash_attn/src` | cp.async groups in flight | groups counted, one `__syncthreads` too few | `Sm80*Programs`, `HopperSm80*Programs`, `Fa2*Programs` |
| deterministic backward | `cute/flash_bwd_sm100.py`, `flash_bwd_sm90.py`, `barrier.py`, `tile_scheduler.py` | a counter per row block in global memory | waits across CTAs that may not be resident | `BackwardOrder` |
| Triton kernels for AMD | `flash_attn/flash_attn_triton_amd/` | global memory, atomic additions | block arithmetic at the diagonal and at the ends, splits, appending | `TritonPrograms`, `TritonWalk` |
| compilation cache | `cute/cache_utils.py` | a directory of object and lock files, a dictionary per process | processes, deadlines, crashes, clears | `JitCache` |
| pipeline and barrier helpers | `cute/pipeline.py`, `barrier.py`, `named_barrier.py` | index and phase | one parity bit | `WarpSteps`, `Mbarrier` |
| block ranges, masks | `cute/block_info.py`, `mask.py` | none | ranges, loops and masks that must fit | `BlockWalk`, `BackwardOrder` |
| tile schedulers | `cute/tile_scheduler.py` | counter, CLC responses | order against dependencies | the backward's order in `BackwardOrder` |
| entry points | `cute/interface.py` | none | dispatch | no |
| paged and gathered KV, block sparsity, sequence offsets | `cute/paged_kv.py`, `topk_gather_kv.py`, `block_sparsity.py`, `block_sparse_utils.py`, `seqlen_info.py` | none | address arithmetic; walks of block lists | when gathered copies are waited for: `MlaPrograms` |
| softmax, packing, copies, combine, pre- and postprocessing | `cute/softmax.py`, `pack_gqa.py`, `copy_utils.py`, `flash_fwd_combine.py`, `flash_bwd_p*process.py` | none | numerics, layouts | no |
| extensions, Python package, training, tests | `csrc/layer_norm`, `csrc/fused_dense_lib`, `flash_attn/` outside `cute/`, `training/` | none | none of ours | no |

What makes each correct: a kernel writes its output from all blocks of its tile,
each once, whatever its warps' and engines' speed, and ends; the deterministic
backward adds in one order that does not depend on timing, and ends; the Triton
programs together use every allowed pair of a query and a key once; the cache
never hands out part of an object, and everybody who asks gets the kernel.

## 2. The modules

| module | models | is used by |
|---|---|---|
| `Mbarrier` | the mbarrier: one parity bit seen, arrivals counted | `Fp4Forward`, `WarpKernels` |
| `AttentionTiles` | abstract: what a CTA promises about its tiles | refined by `Fp4Forward` |
| `KvRing` | the ring of K/V slots, alone | refined by `Fp4Forward` |
| `Fp4Forward` | one CTA: six roles, two engines, all buffers and barriers | `MCFp4Forward`, `MCFp4Builds` |
| `PHandoff` | one P tile between softmax and PV, chunk by chunk | `MCPHandoff` |
| `BlockWalk` | the KV blocks of a query tile as each role walks them, and their masks | `MCBlockWalk` |
| `OrderedSums` | abstract: accumulators that get their parts in one fixed order | refined by `BackwardOrder` |
| `BackwardOrder` | the deterministic backward: CTAs, turns, residency | `MCBackwardOrder` |
| `JitCache` | processes that share the compilation cache | `MCJitCache` |
| `WarpSteps` | the words warp programs are written in | the `*Programs` modules |
| `WarpKernels` | the machine that runs a launch of any of sixteen kernels | `MCWarpKernels` |
| `ForwardPrograms`, `MlaPrograms`, `BackwardPrograms`, `WideForwardPrograms`, `DkdvPrograms`, `DqPrograms` | CuTe kernels of SM100 | `WarpKernels` |
| `Sm90ForwardPrograms`, `Sm90BackwardPrograms`, `HopperForwardPrograms`, `HopperBackwardPrograms` | kernels of SM90, CuTe and FA3 | `WarpKernels` |
| `Sm80Steps`; `Sm80*Programs`, `HopperSm80*Programs`, `Fa2*Programs` | kernels without warp specialization: CuTe, FA3, FA2 | `WarpKernels` |
| `TritonPrograms`, `TritonWalk` | what each Triton program adds up and stores; all programs of a call | `MCTritonWalk` |
| `PhaseProofs`, `HandOverProofs`, `OutputProofs`, `KvRingProofs`, `PHandoff`, `BlockWalkProofs`, `BackwardOrderProofs`, `JitCacheProofs` | the theorems | |

`MC*` modules only name the values the `.cfg` files give to the constants. An
operator defined just above another with a longer name of the same stem
(`SfvSlotShared` above `SfvSlot`) is a wrong variant kept to show that a
property notices it; no specification uses it.

### Mbarrier

A barrier is a record of `done` (completed phases), `left` (arrivals missing in
the current one) and `seen` (waits passed). The program sees `done % 2` only:
`Passes(b, parity)` is `mbarrier_wait(bar, parity)`, which returns when the
current phase no longer has that parity. `done` and `seen` are history: they
let `NoPhaseLost` say that a parity was taken for the phase it stands for.
Arrival counts are in actors, not threads: `P_full_O` has two (a softmax
warpgroup and the correction warps), `dealloc` three.

### Fp4Forward

State: `bar` (the barriers by name), `mem` (what each shared- or tensor-memory
buffer holds: a tag naming the tile and the block its content was made from, or
`Garbage`), `tma` (bulk loads under way), `tc` (tensor-core operations in issue
order), a record per role (`ld`, `mm`, `sm[0..1]`, `co`, `ep`) with its program
point, block, stage and phase bits named as in the source, and `out`.

- **Roles.** A warpgroup is one actor: its threads differ in the row they own
  and nothing else. An action runs from a wait to the next wait, or to the next
  arrival that publishes a write. A wait, the reads behind it and an arrival
  may share an action because the wait's condition cannot be undone in between
  (`NoPhaseLost` is what makes that so: no barrier moves on by a whole phase
  past a role that still has to see it). A write to memory spans two actions,
  and its target holds `Garbage` in between, so a reader that comes too early
  sees it.
- **Loads** (`LoadQ`, `LoadKV`): the order Q0, K, Q1, V, then K and V per block
  is `NextLoad`. `StartLoad` puts a copy in `tma`; `TmaLand` completes any of
  them, in any order.
- **Tensor core.** An operation is issued with the scale copies in front of it
  and the commits behind it. It begins and ends in issue order, any time later;
  `TcFinish` checks that every operand holds what it should and else leaves
  `Garbage`, so any mistake in ordering ends up in `out`. A PV is issued in two
  parts (`open` until `P_full_2` has been waited for inside the GEMM).
- **Layouts.** `BaselineColumn` and `DecoupledColumn` give each region the
  columns of tensor memory it occupies, in units that overlap exactly when the
  kernel's do; `Put` destroys whatever overlaps the region stored to.
- **Builds.** Constants choose the schedule (`Decoupled`, `SharedSfk`), the
  operand formats (`QuantQK`, `QuantPV`), the output path (`CorrStoresO`,
  `OverlapSOSQ`) and the number of ring slots.
- **Tiles.** `Blocks[t]` is the number of blocks of the CTA's `t`-th tile,
  `max(1, n_block_max - n_block_min)`; how that range comes about is in
  `BlockWalk`.

`AttentionTiles` has no roles: each query tile is folded block by block, tile
after tile, and stored once. `ImplementsAttention` reads the accumulator's
progress off the tags (`FoldedBlocks`). `UsesRing` maps the CTA's barriers and
tags to the four positions of `KvRing`; what is proved of the ring for any
number of slots then applies to the CTA's use of it.

Build flags not covered: `s0_s1_barrier` (a constant `False` in the source), the
`sfqk_tmem_slot` experiments, the non-TMA epilogue of pack-GQA, block-sparse
lists, and split-KV with its single stage.

### KvRing

Four positions chase one another round the slots: where the load warp loads,
where the MMA warp waits, the next slot it releases, the next slot the tensor
core gives back. Each is the source's `PipelineState` (index and phase bit) plus
the lap, which is history. A load has `Parts` (operand and scale factors) which
land separately; the last one completes the phase.

### PHandoff

A build is a P width, the columns of a store chunk, the split fraction and the
late-store flag. `mbar_p_split` is `PSplit`; it is evaluated once on chunks
(softmax) and once on K-tiles (`gemm_ptx_partial*`). Chunks are issued in order
and land in any order; `Fenced` is `fence_view_async_tmem_store`.

### BlockWalk

A tile (`call`) has lengths, mask, window, packed head count, tile index and
number of splits. The range operators are those of `block_info.py`; `Load`,
`Multiply`, `SoftmaxFirst`/`SoftmaxLoop`/`SoftmaxNextLoop` and `Correct` are the
loops of the four roles, each with bounds of its own. `Scored` is the column
test of `apply_mask_sm100` with the mask arguments of the loop that took the
step; `Allowed` is the definition of the mask. `NextSplit` goes on to the next
split of the range; the splits of one range are in truth different CTAs, which
share nothing, so walking them one after the other loses nothing. `\div` rounds
down where the machine may truncate: both are at most zero where they differ,
and the source clamps them at zero or at `n_block_min` before use.

### OrderedSums, BackwardOrder

A CTA (or a pair) has a block of keys, its tile, and adds to dQ for each row
block of its range, and its dK and dV to those of its group of heads. `sem` are
the semaphores in global memory that `barrier.py` spins on. `work` is what a CTA
derives from the index of its tile (`WorkTile`: scheduler, row range or sparse
list, lock values), `order` the order in which each accumulator is to get its
parts, which the kernel does not know. `Launch` starts tiles in the scheduler's
order while fewer than the device holds (`resident`, part of the call) are there. The reduce warps add a part when it
is their turn (`AddPart`), wait until a staging buffer is free and perhaps pass
the turn of the row block before on (`SettlePart`, `delay_semaphore_release`),
pass on a row block's own turn (`EndRow`) or the last one (`EndRows`), and hand on
turns of rows their window leaves out, which they never took (`SkipRow`). The
epilogue stores dK and dV in turn (`StoreGradient`, `EndGradient`); a block of keys no
row looks at sends zeros in its turn on SM90 and takes none on SM100
(`SendsGradient`). A bulk add
reads its staging buffer and lands any time later (`Land`); if the buffer has been
taken again by then it adds `Garbage`. `OrderedSums` has only the sums, part by
part in an order fixed by the call; `ImplementsOrderedSums` is what
"deterministic" means.

### JitCache

Names in a directory stand for files, so that a process may hold a lock on a
lock file that another has unlinked. A lookup is a poll for a shared lock, a look,
a load; a store is the dictionary, the exclusive lock, a look, an export that
creates the file first and fills it later. `TimeOut` may happen after any poll
that failed, `Crash` and `ExportFails` at any point of an export, `Clear` at any
time; each but the first is bounded by a constant.

### WarpSteps, WarpKernels and the programs

In these kernels every warp (or warp group) runs a program that does not depend
on the data. A `*Programs` module writes each role's program down for a launch
(build, tiles, blocks): a sequence of steps, each with the barriers it waits for,
its accesses to memory, its arrivals, the MMAs it issues and the copy it starts.
A programs module's `Launches` says which combinations of build options the kernel accepts. A
pipeline's `n`-th use of a slot waits with parity `n \div stages`, as
`PipelineState` does; some kernels keep a phase bit of their own, and then the
program says which turn that bit stands for (`Acc` in `BackwardPrograms`).

`WarpKernels` runs the programs: a role goes on when all its step waits for has
come (`Go`), each issuer's MMAs are executed in order some time later
(`TensorCore`), copies land in any order (`Land`; with `reorder` FALSE a
launch's TMA loads land as they are issued). Memory holds tags: tile and block;
what was made of things that do not belong together, or lies where another
tensor was written, is `Garbage`. Overlaps are the kernels' own column offsets
and buffer unions. `Kernel` works a launch out into numbers; the
constant `Kernels` is the result for every launch considered
(`KernelsAssumption`), so that TLC works each out once. `Compiled` of
`TritonWalk` is the same for the programs of its calls.

A warp group is one role; the warps of one differ in their rows only and meet at
named barriers, which are barriers of the programs where they order anything
across roles. In the SM80 kernels two warps stand for all; `Sm80Steps` has
`cp.async` groups, which are waited for by count, and `__syncthreads`.
Several stores of chunks of a tile are one step.

### TritonPrograms, TritonWalk

A program of a Triton kernel is sequential; `TritonPrograms` gives its steps as
sets of (head, row, key) it adds up, stores, adds atomically, appends or
reduces, with the block ranges, masks and splits of the source. `TritonWalk`
launches the kernels of a call one after the other, the programs of each in any
order. Registers and memory are bags of pairs, so that a pair used twice shows.

## 3. The runs

Every property is listed with the hazard it stands for in `PROJECT.json`.

| run | instance | shows |
|---|---|---|
| `fp4_builds` | five builds of the CTA: baseline (NVFP4/MXFP8 QK, 3 slots, tiles of 3 and 2 blocks), varlen (all quantized, correction warps store O, 2 and 1), overlap (output over Q, one tile of 2), untimed (decoupled, 2 slots, 1 and 2), timed (decoupled, a shared K-scale slot, `PvBeforeNextP`, 2 and 1) | output exact; no copy of scale factors behind a reader on the decoupled schedule |
| `fp4_promise` | baseline, 2 slots, tiles of 1 and 2 blocks | types; no phase lost; P, O and output buffers handed over; no load meets a reader; the CTA uses the ring as `KvRing` says and implements `AttentionTiles`, liveness included |
| `kv_ring` | 3 slots, 2 parts, 4 laps | the ring's invariant, held items, exact parities, no overrun, everything consumed |
| `p_handoff` | all shipped builds and the swept ones | no K-tile multiplied before its chunks are stored; all are multiplied |
| `block_walk` | blocks of 2x2, up to 6 queries and 7 keys, every mask, windows -, 0, 1, 2, heads packed by 2, up to 3 splits | same blocks in every role; every allowed key scored in exactly one step; trip counts agree |
| `det_backward` | 136 calls: all lengths up to 4 rows and 5 keys under no, causal and window masks, longer ones for pairs, the wide build, SM90, sparse lists, groups and L2 sections, a row with 4 blocks of keys, an SM90 group with a block of keys no row looks at; each with 1 and with 3 CTAs resident | every part added once, by one CTA at a time, none lost, in the order `OrderedSums` fixes; the launch ends |
| `jit_cache` | 3 processes, 1 key, one crash, one failed export, one clear | nobody loads what is being written; one compilation each; whole objects stay so; everyone is served |
| `warp_kernels` | 64 launches of sixteen kernels, 1 to 3 tiles of 1 to 4 blocks | output exact; parities mean the phase waited for; nobody stuck |
| `triton_walk` | 132 calls, lengths around the blocks of 2 and 4, causal and not, two heads, packed sequences, up to 3 splits | every allowed pair once |
| `p_reuse` (violation) | decoupled, one tile of 3 blocks | see Findings |
| `p_handoff_wide` (violation) | BF16 PV with 32-column chunks | see Findings |
| `mla_lse` (violation) | MLA forward, two tiles of one block, LSE stored | see Findings |

**Bounds.** The pipeline's steady state is a block between the first and the last
one, so a tile of three blocks reaches every branch of every
loop; a second tile crosses the tile boundary, where phases carry over and where
an odd number of blocks leaves them different from an even number (hence 3 then
2, 2 then 1, 1 then 2). Two slots are the fewest with which the kernel can run,
and make the ring full all the time; three leave slack and make laps and blocks
go out of step. Four laps of the ring bring each parity round twice.
`block_walk` takes blocks of two rows and columns so that a diagonal can lie at
every position in a block, sequences of up to four blocks, and
differences of lengths of both signs; a tile without any key, a window that
misses the sequence and splits with no block are among its tiles.
`det_backward` makes every call on two devices. One holds a single CTA: the next is
launched when it has ended, so that a CTA which waits for a turn of any later tile
stops the kernel; that is where the launch order (`spt`) must fit the turns. The
other holds three, which bind in the calls with four tiles or more (a causal row of
four blocks of keys, heads of a group, L2 sections) and leave the others all their
interleavings. In `warp_kernels` each
launch has the fewest blocks with which every loop goes round again and every
slot is filled twice, and a second tile where a CTA may have one; a parity that
is wrong shows at the second use of a slot. The largest launches are smaller, to
keep the run short: the MLA forward has one tile (two are in `mla_lse`), the
forward for head dimension 256 and the backward of a pair at head dimension 128
two blocks. `triton_walk` takes lengths below,
at and above a block, a step and a slice of the diagonal.

**Launches left out of `warp_kernels`**, because the code does not make them: the
CuTe SM80 forward with Q in registers and two stages (`flash_fwd.py:956` waits
for three groups, which is one too many; `interface.py:831` passes FALSE), and
the SM80 backward with the RS form of dK, which never stores dS. FA3's SM80
forward with appended keys, more than one tile per CTA and O over K fails
`OutputExact` (`mainloop_fwd_sm80.hpp:814`, a hazard in `PROJECT.json`) and is
left out as well. Out of `triton_walk` is a decode call whose last split ends
inside a block while bounds are not checked (`fwd_decode.py:740`), which scores a
key behind the sequence; out of `det_backward` a deterministic causal pair with
ragged rows in spt order (`flash_bwd_sm100.py:3531`), which stops.

**Fairness.** Weak, per role and per engine, in `Fp4Forward`. Warps of a resident CTA are
scheduled independently by the hardware and a role blocked in `mbarrier_wait`
polls, so a wait whose condition stays true is passed; copies and MMAs that were
issued complete. `BlockWalk` needs only that something moves. `BackwardOrder`:
weak for the resident CTAs and the launch of the next one taken together (some CTA
that can move does), and for the bulk adds under way, which land. `JitCache`: weak for each process's lookup, store and
clear; nothing is assumed of deadlines. `WarpKernels` and `TritonWalk` state
none: every step of theirs is one towards the end of a finite program, so that
`NobodyStuck` says what termination would.

**Deadlock** is checked in the runs of the CTA but for the untimed build (`MayStop`
in `MCFp4Builds`) and `p_reuse`: without a timing assumption a decoupled CTA
really may stop (`P_full_2` can be a phase ahead of the MMA warp), and in
`warp_kernels`. `KvRing`, `PHandoff`, `BlockWalk`, `BackwardOrder` and
`TritonWalk` end, and callers of the cache may stop calling; their liveness or
their result at the end stands in for the check.

**PvBeforeNextP.** On the decoupled schedule no barrier orders PV(k) before
softmax's store of P(k+1); what orders them on the machine is the exp2 work of a
whole block in between. The timed build assumes exactly that, and
nothing else about speed.

### Findings

- `p_reuse`: on the decoupled schedule softmax may store P(k+1) over P(k) while
  PV(k) reads it; the notes (`debug/b300_fp4_pv_analysis.md:666-671`) ask for
  correctness from pipelined pairs and commits only.
- `p_handoff_wide`: with `FA4_BF16_PV_TMEM_STORE_REP=32` (16 behaves alike when
  set for FP8) softmax signals before the chunks the GEMM takes as covered are
  stored, against the safety contract of the same notes (300-302).

- `mla_lse`: in the MLA forward the epilogue arrives on `sm_stats_barrier_empty`
  (`flash_fwd_mla_sm100.py:2763`) before it reads the row maximum the LSE needs
  (2782); softmax may have put the next tile's there (2551).

A comment that calls a V-scale placement "safe by construction" (1690-1692)
rests on the tensor core ordering a copy behind the MMAs before it; another
comment of the file (523-526) says that pair is not ordered.
`NoCopyBehindReader` therefore is asked of the decoupled schedule only, where
the placement makes it true; on the baseline the model executes operations in
issue order and the question stays with the hardware.

## 4. The proofs

All proofs hold for every value of the constants that satisfies the named
assumptions.

**Fp4Forward** (`ConfigAssumption`: at least one ring slot, at least one tile with
at least one block each, and the combinations of flags the kernel accepts).
`CtaTypes` rests on `Types`, which is `TypeOK` with the sets the position of each
role ranges over and the full record of an operation in flight.

`LoadsAreSafe` proves `LoadsIntoFreeBuffer`, and `RingPhasesKept` the part of
`NoPhaseLost` about Q and the ring, both for every build. `OperandInv` reads off the
positions of the load warp and the MMA warp how many waits each has passed on
`q_*` and `kv_*` and how many arrivals have been made there (`LdInv`, `MmInv`). The
MMA warp holds at most two items of the ring, the next one and V of its block
(`HoldsNext`, `HoldsV`); which ones, and when, differs between the two schedules, and
both come down to one account (`MmStep`): what a step waits for it takes, what it
commits a release of it gives back, and its index moves on only past an item it has
taken. Added up per buffer, with the loads on their way (`Landing`) and the commits
not yet carried out (`Committed`), at most one hand is on each (`OneHand`,
`OneHandQ`): the slack that makes a parity unambiguous (`ParityTells`). `Covered` is
the tensor core's half: a buffer an issued operation reads is in the MMA warp's hand
still, or its release is carried by that operation or one behind it.

`HandOverProofs` does the same for everything the roles hand each other: S, P, O,
the scales, the output buffers. No property of one barrier is inductive by itself,
since what keeps one role from running ahead is often a wait on some other barrier,
two roles further on. `HandInv` therefore counts everything on one scale, blocks since
the CTA began: `Start[t]` is the number of blocks of the tiles before `t`, so that a
role's tile, block and program point say how many S it has loaded, P stored, O
rescaled, scales given (`SLoaded`, `PStored`, `ORescaled`, `ScalesOut`, ...). `Waited`
and `Given` are, per barrier, the waits passed and the arrivals made or committed by
these positions; `Counted` says that the barrier has counted just those, less the
commits the tensor core still carries (`Committed`), `Places` that each phase bit is
the parity of its count, and `PvBehind` that a PV is begun behind P and the rescale
both, which the barrier of count two does not say by itself: two arrivals may be two
of the same warps. From it follow the windows (`Windows`): chains of waits once round
the roles (`SLoadedBound`: S is loaded one ahead of the rescales at most;
`ORescaledBound`: a rescale is one ahead of the PVs; `OCommitsBound`; `AheadIs`), and
a parity can mean only one phase (`TurnsTell`), which makes `HandInv` inductive, role
by role (`SoftmaxStep`, `CorrectionStep`, `EpilogueStep`, `MmGo`) and commit by commit
(`SFullNotTwice`, `OFullNotTwice`). `PhasesKept` is `NoPhaseLost`, under `Decoupled =>
PvBeforeNextP`; `PhasesKeptApart` needs no such assumption and leaves out `P_full_2`,
which really can be overtaken. `OutputBufferHandOver` is `OutputBufferOwned`.

`FlightInv` adds what the tensor core has in its queue. A PV in flight is the last
begun of its stage (`PvFlies`), and nobody has heard of it (`PvUnheard`): its O_full is
still out on the decoupled schedule and behind the last block of a tile, and on the
baseline, where the other PVs commit nothing, the QK of the next block, whose S_full
stands for it, is behind it in the queue or not issued (`QkFollows`). So the correction
warps cannot have got to a rescale or to the output of that block (`CorrectionHasO`:
`CorrectionOwnsO`, every build), nor softmax to the next P (`PStaysStable`:
`POperandStable`, under `Decoupled => PvBeforeNextP`; `p_reuse` shows that it is
needed). On the decoupled schedule there is one QK in flight and one PV of a stage
(`OneOfAKind`), which with the layout gives `NoCopyBehindReader` (`CopiesBehindNone`).

`OutputProofs` is about contents. `CInv` is `FlightInv` with `Contents`, which says for
every buffer which block, scale or tile it holds, given where the roles are and as long
as somebody is still to read it: the ring and Q (`KvHolds`, `QHolds`), S, P, the scales
and O of a stage (`SHolds`, `PHolds`, `SfHolds`, `OHolds`), the output buffers
(`OutHolds`) and what an operation in flight has been given (`TcHolds`). Blocks are
numbered as in `HandInv` (`IsBlock`, `IsItem`, `IsScale`), so that the position of the
load warp at an item of the ring, or of the MMA warp at a block, is an equation
(`LdPlaced`, `MmPlaced`). One lemma per action (`...Contents`) shows that it writes what
its position says and nothing somebody else's clause is about, the overlaps of the
layout included; a product that ends has then been made of its own operands
(`EndOperands`). `ContentsInvariant` is the result, and `OutputsAreExact` follows: what
is stored for a tile is all its blocks, each once and rescaled in between. Both assume
`Decoupled => PvBeforeNextP`, like the hand-over of P that they rest on. They hold for
every build; the runs check them build by build.

`TilesAreComputed` is the safety half of `ImplementsAttention`, under the same
assumption: `Spec` implies `Init` and `[][Next]` of `AttentionTiles` under the mapping
of the run. That mapping reads the number of folded blocks off O's tag or off whoever
is at work on O (`FoldedBlocks`). `OFolded` counts them from the roles' positions: the
PVs begun, all but one in flight. `FoldInv` adds to `CInv` that O's tag is the last
block so counted, or somebody is at work on O (`OTagged`); then the mapping is that
count cut to the tile, and every step is a `Fold`, a `Store` of a complete tile, or a
stutter.

**KvRing** (`RingAssumption`: at least one slot, at least one part). A parity says
nothing by itself, so none of the properties is inductive. `RingInv` adds, per
slot, how often each of the four roles has been past it (`InOrder`: each at most
one behind the one before, the load warp at most one ahead of the tensor core),
that the barriers count exactly those passes (`BarriersCount`), that a phase bit
is the parity of the lap (`PhaseIsParity`) and what a slot holds
(`SlotContent`). Then a parity that matches can only be that of the phase meant
(`ParityTells`), which gives each step. From it: `RingTypes`, `HeldItemCorrect`,
`ParityIsExact`, `NeverOverruns`.

**PHandoff** (`ConfigsAssumption`: chunks cut the columns evenly). The invariant is
the types and `Released`: after a signal the chunks of its part have landed.
`ContractIsEnough` takes the notes' safety contract as its hypothesis and
concludes that no K-tile is multiplied early: the contract, an inequality
between two fractions, is carried over to columns in `ContractCovers`. That the
shipped builds keep the contract is what the run shows.

**BlockWalk** (`CallsAssumption`: sizes positive, windows non-negative). `WalkInv`
says the load warp counts down from the last block, no role is ahead of the one
it waits for, and softmax's position `n_block_max - n_tile` is the last block
less the steps taken, in whichever loop it is, and does not pass the first
block. The lemma `Ranges` gives the order of the bounds for any mask, window and
split. From it: `WalkTypes` (block numbers lie in the sequence) and
`StepsAreLoads` (softmax takes exactly the blocks loaded, in order, and all).

`KeysAreScoredOnce` is `EachKeyOnce`: every key a query of the tile may look at is
scored in exactly one step, and no other key. Only the first step of a range masks what lies behind
the last key (`FirstMasks`), so a step without that mask must be on a block that lies within
the sequence (`KeepsInside`); then the masks left in it score exactly the keys of its
block that are allowed (`ScoredExactly`). Which steps there have been is carried
across the splits by `PastInv`: each block of an earlier split's range has one step,
and a step is on a block of a range or, without splits, the first block of an empty one
(`Stepped`). The ranges of the splits are disjoint and together the tile's (`SpansApart`,
`SpansCover`), and the tile's has every allowed key (`RangeHasAllowed`, the rounding in
`get_n_block_min_max`).

**BackwardOrder** (`CallsAssumption`: tile sizes, lengths and counts positive, heads a
multiple of the group, finite block lists with no block in both, at most two staging
buffers, which is what a deterministic kernel has, and for a window in ascending
order the first block of keys not before every row's window; without the last the
code would index a row block below none). `TilesPartition` is
arithmetic of the scheduler: every tile number decomposes into section, block and
head in just one way, the last section included, which may be narrower.
`TurnsKeepOneWriter` is not inductive, and a semaphore's value alone does not say who
may write. `Inv` adds which row blocks a CTA has the turn of (`Held`: from its first
add to a row block until it passes the turn on, so up to two of them where the
release is delayed), that their semaphores stand at the CTA's lock value
(`TurnsKept`), that adds under way belong to a turn that is held (`RowAdds`), and the
same for dK and dV (`OutputAdds`, `OutputTurns`). Two CTAs have different lock values
for a row block (`LockTells`: blocks upwards, downwards, or ranks in the sparse lists),
so only one can hold the turn (`OneHolder`). Where a window makes tiles pass on turns
they never waited for, that is not enough, since such a release could hit a turn
someone else has: there the semaphore is at most the number of tiles that passed
their turn, and a tile passes its own only behind all before it (`Counted`).
`NothingLost` needs a second invariant on top, `Gains`: what a CTA is past it has
added, or the add is under way (`RowsGiven`, `OutputsGiven`), and no staging buffer is
taken while its add still has to read it (`Fresh`). At the end nothing is under way,
and each pair of blocks with a visible pair of a query and a key has a visit
(`SeenIsVisited`, from `block_info.py`'s divisions or the sparse lists).

`AddsInOrder` is the safety half of `ImplementsOrderedSums`: `Spec` implies `Init` and
`[][Next]` of `OrderedSums`. The step that matters is `Land`: what arrives must be what
comes next in the order (`ArrivesNext`), that is, all that come before have arrived
and it has not. The first needs what a semaphore's value means: a turn at a row block
is only ever given by a tile that adds to it or leaves it out (`GaveTurn`), no more are
counted than were given (`TurnsGiven`), and at most `lock` tiles come before the one
that waits for `lock` (`AheadCount`); if none but they can have given one, equality
means that all of them have (`TurnComes`), which is `InLine`. A turn passed on is one
whose adds were made (`TurnAdded`, `RowsGiven`), and none of them can be on its way
still next to this one (`AddsDiffer`). The heads of a group go the same way
(`OutputLines`). The second is `SentOnce`: what a CTA has still to add is not in the
sum and not on its way, for which a tile must visit no row block twice (`VisitsDiffer`).
`Ordered` is the conjunction of all these and is inductive. `SumsComplete` draws the
conclusion users rely on: whenever the kernel is over, every accumulator equals its
order, whatever the run.

**JitCache** (`BoundsAssumption`: the bounds on crashes, failures and clears are
natural numbers). The invariant is the types, that every file referred to was created
(`Created`), and the locks (`LocksInv`): who is between getting a lock and giving it
back has exactly one, in its own mode, a lock held exclusively has one holder, an
exporter got its lock exclusively and a compiler asked for a shared one. None of it
relates locks to objects: `FileLock` locks a file and not a name, and after a clear a
name may stand for another file. So `Undisturbed` says, for as long as nobody cleared,
that names and files correspond one to one, that each holder's lock is its own
kernel's, and that an exporter's object does not exist before it opens it. `NoTornRead`
and `StaysWhole` follow. `CompiledOnce` needs no lock: what a process compiled is in
its dictionary, and what it looks up to compile is not (`Once`), whatever is cleared.

**Only model-checked:** that the CTA uses the ring as `KvRing` says (`UsesRing`); that
the steps of `ImplementsAttention` and `ImplementsOrderedSums` go on (their fairness);
that every shipped build keeps the contract of the P handoff; the warp programs and the
Triton programs, whose texts are sequences of steps computed by the launch, so that what
they do is a matter of recursion over data; every liveness property (liveness under
fairness is outside what the proof system handles).

## 5. Not modelled

Numerics (online softmax, quantization, rescale threshold: a rescale that is
skipped counts as done), addresses and layouts beyond overlap, the proxy fence
between shared-memory stores and asynchronous copies (an arrival is taken to
publish all earlier writes, so no property here would notice a missing fence), profiling, register allocation. An S tile
is read at once: `S_full` to `sfqk` is one action, since the warpgroup waits for
its loads before it arrives. Nothing asserts that at least two ring slots fit, and no module has the arithmetic
that says how many do; with one the MMA warp waits for K of the next block before it
gives V back, and `fp4_promise` deadlocks. `KvRing` alone does not show that: it lets a
slot be released as soon as it is used.

In the warp programs: tiles without any block, block sparsity, split-KV, paged
loads that TMA cannot make (but the MLA gather and SM90's cp.async loads), where
CLC gets its next tile from, the skew between the warps of a group, and the MLA
branch without `overlap_sO_sV`, which is constant TRUE (549). FA2's backward is
the launch over key blocks only (`seqk_parallel`). In `BackwardOrder`: sequences
of different lengths in one call. In the Triton programs: the delta kernel, LSE, dropout,
alibi, FP8 scales; a program is taken to see its own stores. `bwd_prefill.py` is
imported and never called. In the cache: the fingerprint and the hash.

Entry points, schedulers' arithmetic, combine and pre-/postprocessing,
`seqlen_info.py`, page tables and the list walks of block sparsity are sequential
address arithmetic of one thread and are left to tests.

## 6. Plan

1. (done) the CTA, the ring, the P handoff, the block walk.
2. (done) the deterministic backward, the cache, the other kernels' warp programs,
   the Triton programs.
3. (done) Proofs: the ring, the handoff, the block walk, the
   operands of the CTA, the cache and the deterministic backward, safety of each.
4. (done) Proofs: all phases, P, O and scale factors of the CTA.
5. (done) Proofs: the order of the backward's sums, step by step a refinement.
6. (done) Proofs: what the buffers of the CTA hold, for `OutputExact`, and from it the
   refinement of `AttentionTiles`, step by step.
7. Proofs: the refinement of the ring (`UsesRing`); the shipped builds' contract for
   every block width.
8. Split-KV in `Fp4Forward` and the combine kernel over it; block-sparse walks
   beside `BlockWalk`; the varlen and CLC schedulers.
