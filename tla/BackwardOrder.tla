--------------------------- MODULE BackwardOrder ---------------------------
(***************************************************************************)
(* The deterministic backward pass.  A CTA (or a pair of them) has one     *)
(* block of keys and adds what it finds for every block of query rows to   *)
(* dQ in global memory, and its own dK and dV to those of the other heads  *)
(* of its group.  Floating-point addition does not commute with rounding,  *)
(* so the kernel makes the CTAs add in a fixed order: a counter per        *)
(* accumulator says whose turn it is, and everybody spins until it is his. *)
(* CTAs stay resident while they spin, so the order must go along with the *)
(* order they are launched in.                                             *)
(***************************************************************************)
EXTENDS Integers, Sequences, FiniteSets, SequencesExt

CONSTANTS
    TileM,      \* rows of a query block (tile_m)
    TileN,      \* keys of a CTA's block (tile_n)
    Calls       \* the calls considered; see CallsAssumption

Unbounded == -1      \* a window side that is None

IsCall(c) ==
    /\ c.arch \in {"sm90", "sm100"}
    /\ c.cluster \in {1, 2}          \* CTAs of a pair (cta_group_size)
    /\ c.mask \in {"none", "causal", "local"}
    /\ c.left \in Nat \cup {Unbounded} /\ c.right \in Nat \cup {Unbounded}
    /\ c.mask # "local" => c.left = Unbounded /\ c.right = Unbounded
    /\ {c.seqlenQ, c.seqlenK} \subseteq Nat \ {0}
    /\ {c.spt, c.wide, c.sparse} \subseteq BOOLEAN
    /\ {c.stages, c.staging, c.subtile} \subseteq Nat \ {0}
    /\ {c.hbs, c.group, c.swizzle} \subseteq Nat \ {0} /\ c.hbs % c.group = 0
    /\ c.resident \in Nat \ {0}     \* CTA pairs the device holds at a time
    /\ c.partial \cup c.full \subseteq Nat \X Nat \X Nat /\ c.partial \cap c.full = {}
    /\ IsFiniteSet(c.partial \cup c.full)
    /\ c.arch = "sm90" => c.cluster = 1 /\ ~c.wide /\ ~c.sparse
    /\ c.staging <= 2                \* sdQaccum_stage of a deterministic kernel
    \* Or the first block of keys lies before every row's window, and the turns it
    \* leaves to others would start from a row block below none (dQacc_reduce).
    /\ c.mask = "local" /\ ~c.spt /\ c.left # Unbounded =>
          c.seqlenK - c.seqlenQ < TileN * c.cluster + c.left + TileM

ASSUME CallsAssumption ==
    /\ {TileM, TileN} \subseteq Nat \ {0}
    /\ \A c \in Calls : IsCall(c)

VARIABLES
    call,       \* the call
    work,       \* by tile: what its CTA computes of it before it starts
    order,      \* by accumulator: its contributions in the order the promise
                \* names (the kernel knows nothing of it)
    launched,   \* tiles launched, in the order of their index
    cta,        \* by tile: the reduce warps and the epilogue of its CTA
    sem,        \* the semaphores of dQ, dK and dV
    bulk,       \* bulk reduce-adds on their way to global memory
    added       \* by accumulator: who has been added, in order

vars == <<call, work, order, launched, cta, sem, bulk, added>>

Smaller(a, b) == IF a < b THEN a ELSE b
Larger(a, b)  == IF a > b THEN a ELSE b
CeilDiv(a, b) == (a + b - 1) \div b

-----------------------------------------------------------------------------
(* block_info.py, for the backward pass.  Blocks of keys are counted in    *)
(* CTA pairs.                                                              *)

PairN(c) == TileN * c.cluster
RowBlocks(c) == CeilDiv(c.seqlenQ, TileM)
Diagonal(c) == c.seqlenK - c.seqlenQ
RightBound(c) == c.mask = "causal" \/ (c.mask = "local" /\ c.right # Unbounded)
LeftBound(c)  == c.mask = "local" /\ c.left # Unbounded
Right(c) == IF c.mask = "causal" THEN 0 ELSE c.right

\* get_m_block_min_max
MBlockMin(c, n) ==
    IF RightBound(c) THEN Larger(0, (n * PairN(c) - Diagonal(c) - Right(c)) \div TileM) ELSE 0
MBlockMaxDown(c, n) ==
    IF LeftBound(c)
    THEN Smaller(RowBlocks(c), ((n + 1) * PairN(c) - Diagonal(c) + c.left) \div TileM)
    ELSE RowBlocks(c)
MBlockMax(c, n) ==
    IF LeftBound(c)
    THEN Smaller(RowBlocks(c), CeilDiv((n + 1) * PairN(c) - Diagonal(c) + c.left, TileM))
    ELSE RowBlocks(c)

\* get_n_block_max_for_m_block, and its argument n_block_global_max, which the
\* kernel counts in single CTAs.
GlobalMax(c) == CeilDiv(c.seqlenK, TileN)
NBlockMaxFor(c, m) ==
    IF RightBound(c)
    THEN Smaller(GlobalMax(c), CeilDiv((m + 1) * TileM + Diagonal(c) + Right(c), PairN(c)))
    ELSE GlobalMax(c)

\* A set of numbers in ascending order: the i-th has i - 1 below it.
Ascending(s) ==
    [i \in 1..Cardinality(s) |-> CHOOSE x \in s : Cardinality({y \in s : y < x}) = i - 1]

\* get_block_sparse_iteration_info_bwd: partial blocks, then full ones.
SparseList(c, hb, n) ==
    Ascending({x[3] : x \in {y \in c.partial : y[1] = hb /\ y[2] = n}})
    \o Ascending({x[3] : x \in {y \in c.full : y[1] = hb /\ y[2] = n}})

\* The query blocks a tile goes through (get_m_block_from_iter_bwd, or the range).
Visits(c, hb, n) ==
    IF c.sparse
    THEN LET list == SparseList(c, hb, n)
         IN  [i \in 1..(Len(list) * c.subtile) |->
                 list[(i - 1) \div c.subtile + 1] * c.subtile + ((i - 1) % c.subtile)]
    ELSE [i \in 1..Larger(MBlockMax(c, n) - MBlockMin(c, n), 0) |-> MBlockMin(c, n) + i - 1]

ProcessTile(c, hb, n) ==
    IF c.sparse THEN Visits(c, hb, n) # <<>>
    ELSE c.mask # "local" \/ MBlockMin(c, n) < MBlockMax(c, n)

\* SM90 sends zeros for a block of keys without rows, in its turn; SM100 stores
\* them without one.
SendsGradient(c, hb, n) == ProcessTile(c, hb, n) \/ c.arch = "sm90"

\* m_block_oob_upper: a sparse row block may reach past the sequence.
OutOfRows(c, n, m) == c.sparse /\ m >= MBlockMax(c, n)

\* compute_dq_write_order: the rank of a block among those of its row.
WriteOrder(c, hb, n, row) ==
    LET contributors == {x[2] : x \in {y \in c.partial \cup c.full : y[1] = hb /\ y[3] = row}}
    IN  Cardinality({k \in contributors : IF c.spt THEN k > n ELSE k < n})

\* _dq_semaphore_lock_value
LockValue(c, hb, n, m) ==
    IF c.sparse THEN WriteOrder(c, hb, n, m \div c.subtile)
    ELSE IF c.spt THEN NBlockMaxFor(c, m) - 1 - n
    ELSE n

DelayRelease(c) == c.arch = "sm100" /\ ~c.wide /\ ~c.sparse

-----------------------------------------------------------------------------
(* SingleTileLPTBwdScheduler.  A tile is a block of keys of a head of a    *)
(* batch; heads and batches are counted together (bidhb).                  *)

NumBlock(c) == CeilDiv(CeilDiv(c.seqlenK, TileN), c.cluster)
Tiles(c) == 0..(NumBlock(c) * c.hbs - 1)

Section(c, t) == t \div (c.swizzle * NumBlock(c))
L2Mod(c, t) == t % (c.swizzle * NumBlock(c))
SectionWidthFull(c, t) == c.swizzle
SectionWidth(c, t) ==
    IF Section(c, t) < c.hbs \div c.swizzle THEN c.swizzle ELSE Larger(c.hbs % c.swizzle, 1)

HeadBatch(c, t) == Section(c, t) * c.swizzle + (L2Mod(c, t) % SectionWidth(c, t))
NBlockOfUpwards(c, t) == L2Mod(c, t) \div SectionWidth(c, t)
NBlockOf(c, t) ==
    LET block == L2Mod(c, t) \div SectionWidth(c, t)
    IN  IF c.spt THEN NumBlock(c) - 1 - block ELSE block

\* Everything a CTA derives from the index of its tile.
WorkTile(c, t) ==
    LET n == NBlockOf(c, t)   hb == HeadBatch(c, t)   visits == Visits(c, hb, n)
    IN  [n |-> n, hb |-> hb,
         rows |-> [i \in DOMAIN visits |->
             [m |-> visits[i], lock |-> LockValue(c, hb, n, visits[i]),
              oob |-> OutOfRows(c, n, visits[i])]],
         works |-> ProcessTile(c, hb, n), sends |-> SendsGradient(c, hb, n),
         mMin |-> MBlockMin(c, n), mMax |-> MBlockMax(c, n)]

-----------------------------------------------------------------------------
(* The promised order: blocks of keys upwards, or downwards where the      *)
(* scheduler starts from the last one, and heads upwards.                  *)

Contributors(c, hb, m) ==
    {n \in 0..(NumBlock(c) - 1) : m \in Range(Visits(c, hb, n)) /\ ~OutOfRows(c, n, m)}
GroupHeads(c, g, n) == {hb \in 0..(c.hbs - 1) : hb \div c.group = g /\ SendsGradient(c, hb, n)}
TheOrder(c, x) ==
    IF x[1] # "Q" THEN Ascending(GroupHeads(c, x[2], x[3]))
    ELSE IF c.spt THEN Reverse(Ascending(Contributors(c, x[2], x[3])))
    ELSE Ascending(Contributors(c, x[2], x[3]))

-----------------------------------------------------------------------------
(* The CTAs. *)

Hb(t) == work[t].hb
N(t)  == work[t].n
Rows(t) == work[t].rows
Row(t) == work[t].rows[cta[t].i]

QSem(hb, m)  == <<"Q", hb, m>>
KvSem(o, hb, n) == <<o, hb \div call.group, n>>
QCell(hb, m, stage) == <<"Q", hb, m, stage>>
KvCell(o, hb, n) == <<o, hb \div call.group, n, 0>>

\* Without groups dK and dV are stored, not added up, and need no turns.
Outputs(c) == IF c.group = 1 THEN {} ELSE {"K", "V"}

Semaphores(c) ==
    ({"Q"} \X (0..(c.hbs - 1)) \X (0..(RowBlocks(c) - 1)))
    \cup (Outputs(c) \X (0..((c.hbs \div c.group) - 1)) \X (0..(NumBlock(c) - 1)))
Cells(c) ==
    ({"Q"} \X (0..(c.hbs - 1)) \X (0..(RowBlocks(c) - 1)) \X (0..(c.stages - 1)))
    \cup (Outputs(c) \X (0..((c.hbs \div c.group) - 1)) \X (0..(NumBlock(c) - 1)) \X {0})

Garbage == -1

Idle == [at |-> "idle", i |-> 1, stage |-> 0, copied |-> 0, skipped |-> 0,
         out |-> 1, ep |-> "wait"]

\* SM100 stores dV first, SM90 dK.
OutputOrder(c) == IF c.arch = "sm100" THEN <<"V", "K">> ELSE <<"K", "V">>

Init ==
    /\ call \in Calls
    /\ work = [t \in Tiles(call) |-> WorkTile(call, t)]
    /\ order = [x \in Cells(call) |-> TheOrder(call, x)]
    /\ launched = 0
    /\ cta = [t \in Tiles(call) |-> Idle]
    /\ sem = [s \in Semaphores(call) |-> 0]
    /\ bulk = {}
    /\ added = [x \in Cells(call) |-> <<>>]

Gone(t) == cta[t].at = "done" /\ cta[t].ep = "done"
Running == {t \in DOMAIN cta : cta[t].at # "idle" /\ ~Gone(t)}

At(t, where) == cta[t].at = where
Goto(t, where) == cta' = [cta EXCEPT ![t].at = where]

ArriveInc(s) == sem' = [sem EXCEPT ![s] = @ + 1]

\* cp_async_bulk_wait_group(k): all but the last k adds are in global memory.
WaitGroupRead(t, k) == TRUE
WaitGroup(t, k) == \A b \in bulk : b.tile = t /\ b.cell[1] = "Q" => b.seq > cta[t].copied - k

\* TMEM to registers to the next staging buffer, ahead of the turn.
Copied(t) == cta[t].copied + 1

Launch(t) ==
    /\ t = launched /\ Cardinality(Running) < call.resident
    /\ launched' = launched + 1
    /\ cta' = [cta EXCEPT ![t].at = IF Rows(t) # <<>> THEN "add" ELSE "end",
                          ![t].copied = IF Rows(t) # <<>> THEN Copied(t) ELSE 0,
                          ![t].ep = IF work[t].sends /\ call.group > 1 THEN "wait" ELSE "done"]
    /\ UNCHANGED <<call, work, order, sem, bulk, added>>

\* wait_eq in front of the first part of a row block.
HasTurnEarly(t) == cta[t].stage = 0 => sem[QSem(Hb(t), Row(t).m)] <= Row(t).lock
HasTurn(t) == cta[t].stage = 0 => sem[QSem(Hb(t), Row(t).m)] = Row(t).lock

AddPart(t) ==
    /\ At(t, "add") /\ ~Row(t).oob
    /\ HasTurn(t)
    /\ bulk' = bulk \cup {[tile |-> t, cell |-> QCell(Hb(t), Row(t).m, cta[t].stage),
                           seq |-> cta[t].copied]}
    /\ Goto(t, "settle")
    /\ UNCHANGED <<call, work, order, launched, sem, added>>

SkipPart(t) ==
    /\ At(t, "add") /\ Row(t).oob
    /\ Goto(t, "settle")
    /\ UNCHANGED <<call, work, order, launched, sem, bulk, added>>

\* Where the loops over parts and rows go on; the next part is copied at once.
NextRow(t) ==
    IF cta[t].i = Len(Rows(t)) THEN Goto(t, "end")
    ELSE cta' = [cta EXCEPT ![t].at = "add", ![t].stage = 0, ![t].i = @ + 1,
                            ![t].copied = Copied(t)]
NextPartPast(t) ==
    IF cta[t].stage < call.stages
    THEN cta' = [cta EXCEPT ![t].at = "add", ![t].stage = @ + 1, ![t].copied = Copied(t)]
    ELSE IF DelayRelease(call) THEN NextRow(t)
    ELSE Goto(t, "row")
NextPart(t) ==
    IF cta[t].stage + 1 < call.stages
    THEN cta' = [cta EXCEPT ![t].at = "add", ![t].stage = @ + 1, ![t].copied = Copied(t)]
    ELSE IF DelayRelease(call) THEN NextRow(t)
    ELSE Goto(t, "row")

\* Waiting for a staging buffer, the warps have also waited for the whole of the
\* row block before this one, whose turn they may now pass on.
PassesOn(t) == cta[t].stage = 0 /\ DelayRelease(call) /\ Row(t).m > work[t].mMin
SettlePart(t) ==
    /\ At(t, "settle")
    /\ WaitGroup(t, IF Row(t).oob THEN 0 ELSE call.staging - 1)
    /\ IF PassesOn(t) THEN ArriveInc(QSem(Hb(t), Row(t).m - 1)) ELSE UNCHANGED sem
    /\ NextPart(t)
    /\ UNCHANGED <<call, work, order, launched, bulk, added>>

\* Without the delay: the row block's own adds are waited for.
EndRow(t) ==
    /\ At(t, "row") /\ WaitGroup(t, 0)
    /\ IF Row(t).oob THEN UNCHANGED sem ELSE ArriveInc(QSem(Hb(t), Row(t).m))
    /\ NextRow(t)
    /\ UNCHANGED <<call, work, order, launched, bulk, added>>

\* Rows that this tile's window leaves to later tiles: their turn counts it too.
SkippedRows(t) ==
    IF ~call.spt /\ ~call.sparse /\ LeftBound(call)
    THEN work[t].mMax..(RowBlocks(call) - 1) ELSE {}

EndRows(t) ==
    /\ At(t, "end")
    /\ work[t].works => WaitGroup(t, 0)
    /\ IF work[t].works /\ DelayRelease(call)
       THEN ArriveInc(QSem(Hb(t), work[t].mMax - 1)) ELSE UNCHANGED sem
    /\ Goto(t, IF SkippedRows(t) = {} THEN "done" ELSE "skip")
    /\ UNCHANGED <<call, work, order, launched, bulk, added>>

SkipRow(t) ==
    /\ At(t, "skip")
    /\ ArriveInc(QSem(Hb(t), work[t].mMax + cta[t].skipped))
    /\ cta' = [cta EXCEPT ![t].skipped = @ + 1,
            ![t].at = IF work[t].mMax + cta[t].skipped + 1 = RowBlocks(call) THEN "done" ELSE "skip"]
    /\ UNCHANGED <<call, work, order, launched, bulk, added>>

-----------------------------------------------------------------------------
(* The epilogue (epilogue_dK_or_dV_tma), by other warps of the same CTA    *)
(* once the last MMA of a row block but dQ's is over: the reduce warps     *)
(* have then taken every dQ but the last out of tensor memory.             *)

Output(t) == OutputOrder(call)[cta[t].out]

StoreGradient(t) ==
    /\ ~At(t, "idle") /\ cta[t].ep = "wait"
    /\ cta[t].i >= Len(Rows(t))      \* i is 1 where there is no row
    /\ sem[KvSem(Output(t), Hb(t), N(t))] = Hb(t) % call.group
    /\ bulk' = bulk \cup {[tile |-> t, cell |-> KvCell(Output(t), Hb(t), N(t)), seq |-> 0]}
    /\ cta' = [cta EXCEPT ![t].ep = "sent"]
    /\ UNCHANGED <<call, work, order, launched, sem, added>>

EndGradient(t) ==
    /\ cta[t].ep = "sent"
    /\ \A b \in bulk : b.tile = t => b.cell[1] = "Q"
    /\ ArriveInc(KvSem(Output(t), Hb(t), N(t)))
    /\ cta' = [cta EXCEPT ![t].ep = IF cta[t].out = 2 THEN "done" ELSE "wait",
                          ![t].out = Smaller(@ + 1, 2)]
    /\ UNCHANGED <<call, work, order, launched, bulk, added>>

\* An add reads its staging buffer and reaches global memory.
Land(b) ==
    /\ bulk' = bulk \ {b}
    /\ added' = [added EXCEPT ![b.cell] = Append(@,
                    IF b.cell[1] # "Q" THEN Hb(b.tile)
                    ELSE IF cta[b.tile].copied < b.seq + call.staging THEN N(b.tile)
                    ELSE Garbage)]
    /\ UNCHANGED <<call, work, order, launched, cta, sem>>

-----------------------------------------------------------------------------
Step(t) ==
    \/ AddPart(t) \/ SkipPart(t) \/ SettlePart(t) \/ EndRow(t)
    \/ EndRows(t) \/ SkipRow(t)
EpilogueStep(t) == StoreGradient(t) \/ EndGradient(t)

Done == bulk = {} /\ \A t \in DOMAIN cta : Gone(t)

Next ==
    \/ \E t \in DOMAIN cta : Launch(t) \/ Step(t) \/ EpilogueStep(t)
    \/ \E b \in bulk : Land(b)

\* Every step is one towards the end, so it is enough that some step is taken
\* and that the copies under way complete.
Fairness ==
    /\ WF_vars(\E t \in DOMAIN cta : Launch(t) \/ Step(t) \/ EpilogueStep(t))
    /\ WF_vars(\E b \in bulk : Land(b))
Spec == Init /\ [][Next]_vars /\ Fairness

-----------------------------------------------------------------------------
(* Properties. *)

\* The shapes of the variables; a CTA's loop counters stay in its loops.
IsCta(t) ==
    /\ cta[t].at \in {"idle", "add", "settle", "row", "end", "skip", "done"}
    /\ cta[t].i \in 1..Larger(1, Len(Rows(t))) /\ cta[t].stage \in 0..(call.stages - 1)
    /\ {cta[t].copied, cta[t].skipped} \subseteq Nat
    /\ cta[t].out \in {1, 2} /\ cta[t].ep \in {"wait", "sent", "done"}
TypeOK ==
    /\ call \in Calls
    /\ DOMAIN cta = Tiles(call) /\ DOMAIN added = Cells(call)
    /\ launched \in 0..Cardinality(Tiles(call))
    /\ sem \in [Semaphores(call) -> Nat]
    /\ \A t \in DOMAIN cta : IsCta(t)
    /\ \A b \in bulk : b.tile \in DOMAIN cta /\ b.cell \in Cells(call)

\* Two CTAs never have additions to the same accumulator under way together,
\* whose order the memory system would choose: a turn is passed on only when
\* the adds made in it are in global memory (wait_group without read, and at
\* most two staging buffers where the release is delayed by a row block).
OneWriter == \A a, b \in bulk : a.cell = b.cell => a.tile = b.tile

\* The scheduler hands every block of every head of every batch to exactly one
\* CTA, the heads left over by the last L2 section included.
EveryTileOnce ==
    \A n \in 0..(NumBlock(call) - 1), hb \in 0..(call.hbs - 1) :
        Cardinality({t \in Tiles(call) : N(t) = n /\ Hb(t) = hb}) = 1

Promise == INSTANCE OrderedSums WITH order <- order, sums <- added

\* Every accumulator takes its contributions once each and in its order,
\* whatever the CTAs' speeds and however their adds travel (dQacc_reduce and
\* epilogue_dK_or_dV_tma), and gets all of them.
ImplementsOrderedSums == Promise!Spec

\* Query row i may look at key j.
Sees(i, j) ==
    /\ RightBound(call) => j <= i + Diagonal(call) + Right(call)
    /\ LeftBound(call) => j >= i + Diagonal(call) - call.left
SparseSees(hb, n, m) == <<hb, n, m \div call.subtile>> \in call.partial \cup call.full
BlockSees(hb, n, m) ==
    /\ call.sparse => SparseSees(hb, n, m)
    /\ \E i \in (m * TileM)..(Smaller((m + 1) * TileM, call.seqlenQ) - 1),
          j \in (n * PairN(call))..(Smaller((n + 1) * PairN(call), call.seqlenK) - 1) :
           Sees(i, j)

\* When the kernel is over, no pair of blocks with a query that sees a key is
\* missing from dQ, nor from dK and dV.
NoGradientLost ==
    Done => \A n \in 0..(NumBlock(call) - 1), hb \in 0..(call.hbs - 1),
               m \in 0..(RowBlocks(call) - 1) :
        BlockSees(hb, n, m) =>
            /\ \A stage \in 0..(call.stages - 1) : n \in Range(added[QCell(hb, m, stage)])
            /\ \A o \in Outputs(call) : hb \in Range(added[KvCell(o, hb, n)])

\* The kernel ends: nobody spins for a turn that never comes, however few CTAs
\* are resident.
KernelEnds == <>Done
=============================================================================
