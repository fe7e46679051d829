----------------------------- MODULE Fp4Forward -----------------------------
(***************************************************************************)
(* One CTA of the block-scaled forward kernel (flash_fwd_sm100_fp4.py):    *)
(* the load warp, the MMA warp, two softmax warpgroups, the correction     *)
(* warpgroup and the epilogue warp, each running its own loop over the     *)
(* tiles of the CTA, with two engines that work behind their backs: the    *)
(* bulk-copy engine and the tensor core.                                   *)
(*                                                                         *)
(* A warpgroup is one actor.  An action runs from a wait of an actor to    *)
(* its next wait or arrival that publishes a write; a write spans the two  *)
(* actions around it, and its target holds Garbage in between.  Payloads   *)
(* are tags: which tile and KV block a buffer's content was made from.     *)
(***************************************************************************)
EXTENDS Mbarrier, Sequences, FiniteSetsExt

CONSTANTS
    Blocks,         \* Blocks[t]: KV blocks of the CTA's t-th tile
    KvStages,       \* kv_stage, slots of the ring K and V share
    Decoupled,      \* decouple_sp: one S region, QK(k+1) issued before PV(k)
    SharedSfk,      \* decouple_shared_sfk: one TMEM slot for the K scales
    QuantQK,        \* quant_qk: Q and K carry scale factors
    QuantPV,        \* quant_pv: P and V carry scale factors
    CorrStoresO,    \* use_correction_warps_for_epi: no epilogue warp
    OverlapSOSQ,    \* overlap_sO_sQ: the output buffers lie over Q's
    PvBeforeNextP   \* assume PV(k) is over before softmax starts to store P(k+1)

ASSUME ConfigAssumption ==
    /\ Blocks \in Seq(Nat \ {0}) /\ Blocks # <<>>
    /\ KvStages \in Nat \ {0}
    /\ {Decoupled, SharedSfk, QuantQK, QuantPV, CorrStoresO, OverlapSOSQ,
        PvBeforeNextP} \subseteq BOOLEAN
    /\ (QuantPV \/ Decoupled) => QuantQK
    /\ OverlapSOSQ => ~Decoupled /\ Len(Blocks) = 1     \* not persistent

Stage == 0..1
Slot  == 0..(KvStages - 1)
Tile  == DOMAIN Blocks

VARIABLES
    bar,    \* the barriers, by name
    mem,    \* what each shared- or tensor-memory buffer holds
    tma,    \* bulk loads under way
    tc,     \* tensor-core operations issued and not complete, in issue order
    ld, mm, sm, co, ep,   \* the roles' own state (sm: one per softmax warpgroup)
    out     \* what reached global memory, by tile and stage

vars == <<bar, mem, tma, tc, ld, mm, sm, co, ep, out>>

-----------------------------------------------------------------------------
(* Barriers.  Counts are in arriving actors, not threads. *)

StagedBarrier == {"q_full", "q_empty", "S_full", "P_full_O", "P_full_2", "O_full",
                  "corr_full", "corr_empty", "sfqk", "epi_full", "epi_empty"}
Barrier == (StagedBarrier \X Stage) \cup ({"kv_full", "kv_empty"} \X Slot)
           \cup {<<"dealloc", 0>>}

CountNoCorrection(b) == IF b[1] = "dealloc" THEN 3 ELSE 1
Count(b) == CASE b[1] = "P_full_O" -> 2     \* softmax and correction
              [] b[1] = "dealloc"  -> 3     \* both softmax warpgroups and correction
              [] OTHER             -> 1

\* An actor passes a wait on w and then makes the given arrivals.
WaitThenArrive(w, parity, arrivals) ==
    /\ Passes(bar[w], parity)
    /\ bar' = [b \in Barrier |-> LET p == IF b = w THEN Pass(bar[b]) ELSE bar[b]
                                 IN  IF b \in arrivals THEN ArriveAt(p, Count(b)) ELSE p]
Arrive(arrivals) ==
    bar' = [b \in Barrier |-> IF b \in arrivals THEN ArriveAt(bar[b], Count(b)) ELSE bar[b]]

-----------------------------------------------------------------------------
(* Memory. *)

Region == ({"Q", "S", "Plo", "Phi", "SFQ", "SFK", "SFP", "SFV", "O", "sSFP", "sScale", "sO"}
           \X Stage) \cup ({"KV"} \X Slot)

\* Tensor-memory columns of a region, in units chosen so that two regions
\* overlap here exactly when they overlap in the kernel's layout.
\* Baseline: P_i lies in the upper half of S_i, its scale factors in the lower;
\* the scale factors of QK_i lie in the S of the other stage.
BaselineColumn(r) ==
    LET own(cols)   == {6 * r[2] + c : c \in cols}
        other(cols) == {6 * (1 - r[2]) + c : c \in cols}
    IN  CASE r[1] = "S"   -> own(0..5)
          [] r[1] = "SFP" -> own({0})
          [] r[1] = "SFV" -> own({1})
          [] r[1] = "Plo" -> own({4})
          [] r[1] = "Phi" -> own({5})
          [] r[1] = "SFQ" -> other({0, 1})
          [] r[1] = "SFK" -> other({2, 3})
          [] r[1] = "O"   -> {12 + r[2]}
          [] OTHER        -> {}

\* Decoupled: both stages share one S, and everything else has a place of its own.
DecoupledColumn(r) ==
    LET apart(c) == {1 + 2 * c + r[2]}
    IN  CASE r[1] = "S"   -> {0}
          [] r[1] = "Plo" -> apart(0)
          [] r[1] = "Phi" -> apart(1)
          [] r[1] = "SFQ" -> apart(2)
          [] r[1] = "SFK" -> apart(3)
          [] r[1] = "SFP" -> apart(4)
          [] r[1] = "SFV" -> apart(5)
          [] r[1] = "O"   -> apart(6)
          [] OTHER        -> {}

Column(r) == IF Decoupled THEN DecoupledColumn(r) ELSE BaselineColumn(r)

\* Both output buffers may reach over both Q buffers: Q is the narrower type.
Clash(r, q) == \/ r = q
               \/ Column(r) \cap Column(q) # {}
               \/ OverlapSOSQ /\ {r[1], q[1]} = {"sO", "Q"}
ClashesOf == [r \in Region |-> {q \in Region : Clash(r, q)} \ {r}]

Garbage == <<>>
QTag(t) == <<t, 0>>
KTag(t, k) == <<t, k, 0>>
VTag(t, k) == <<t, k, 1>>
STag(t, k) == <<t, k>>                \* also P and its scale factors
Folded(t, k) == <<t, k, 2>>           \* O after blocks 1..k
Rescaled(t, k) == <<t, k, 3>>         \* ... and the rescale of block k + 1
ScaleTag(t, k) == <<t, k>>            \* acc_scale of block k; the row sum is k = n + 1

\* A store into r also destroys what overlaps it.
Put(m, r, tag) == [q \in Region |-> IF q = r THEN tag
                                    ELSE IF q \in ClashesOf[r] THEN Garbage ELSE m[q]]

KeepIf(ok, tag) == IF ok THEN tag ELSE Garbage

-----------------------------------------------------------------------------
(* The tensor core.  An operation is issued with the scale-factor copies   *)
(* (tcgen05.cp) that precede it and the commits that follow it.  It starts *)
(* and ends in issue order, anywhere after it was issued; its operands are *)
(* read up to the end and its result is undefined from its start.          *)

\* The K scales' slot of a stage: shared, or one per stage.
SfkSlot(i) == IF Decoupled /\ SharedSfk THEN 0 ELSE i

\* The V scales' slot.
SfvSlotShared(i) == 0
SfvSlot(i) == i

Target(op) == <<IF op.kind = "QK" THEN "S" ELSE "O", op.st>>

Operands(op) ==
    IF op.kind = "QK"
    THEN {<<"Q", op.st>>, <<"KV", op.slot>>}
         \cup (IF QuantQK THEN {<<"SFQ", op.st>>, <<"SFK", SfkSlot(op.st)>>} ELSE {})
    ELSE {<<"Plo", op.st>>, <<"Phi", op.st>>, <<"KV", op.slot>>}
         \cup (IF QuantPV THEN {<<"SFP", op.st>>, <<"SFV", SfvSlot(op.st)>>} ELSE {})

\* The shared-memory buffer a scale-factor slot is copied from.
CopySource(op, r) == CASE r[1] = "SFQ" -> <<"Q", op.st>>
                       [] r[1] = "SFP" -> <<"sSFP", op.st>>
                       [] OTHER        -> <<"KV", op.slot>>

Copied(m, op) == [q \in Region |->
    IF q \in op.copies THEN m[CopySource(op, q)]
    ELSE IF \E r \in op.copies : q \in ClashesOf[r] THEN Garbage ELSE m[q]]

\* What operand r must hold for the operation to compute what it should.
Needed(op, r) == CASE r[1] \in {"Q", "SFQ"} -> QTag(op.t)
                   [] r[1] = "SFK"          -> KTag(op.t, op.k)
                   [] r[1] = "SFV"          -> VTag(op.t, op.k)
                   [] r[1] = "KV"           -> IF op.kind = "QK" THEN KTag(op.t, op.k)
                                                                 ELSE VTag(op.t, op.k)
                   [] OTHER                 -> STag(op.t, op.k)

\* QK overwrites S; PV replaces O at the first block and adds to it after.
Accumulates(op) == op.kind = "PV" /\ op.k > 1

TcStart ==
    /\ tc # <<>> /\ ~Head(tc).begun
    /\ LET op == Head(tc)
       IN  /\ tc' = [tc EXCEPT ![1].begun = TRUE,
                               ![1].ok = Accumulates(op) => mem[Target(op)] = Rescaled(op.t, op.k - 1)]
           /\ mem' = Put(Copied(mem, op), Target(op), Garbage)
    /\ UNCHANGED <<bar, tma, ld, mm, sm, co, ep, out>>

TcFinish ==
    /\ tc # <<>> /\ Head(tc).begun /\ ~Head(tc).open
    /\ LET op == Head(tc)
           ok == op.ok /\ \A r \in Operands(op) : mem[r] = Needed(op, r)
       IN  /\ mem' = Put(mem, Target(op),
                         KeepIf(ok, IF op.kind = "QK" THEN STag(op.t, op.k) ELSE Folded(op.t, op.k)))
           /\ Arrive(op.signals)
           /\ tc' = Tail(tc)
    /\ UNCHANGED <<tma, ld, mm, sm, co, ep, out>>

-----------------------------------------------------------------------------
(* Positions in the KV ring and the bulk-copy engine. *)

AdvanceOneTooFar(s) == [s EXCEPT !.idx = (@ + 1) % (KvStages + 1)]
AdvanceKeepsPhase(s) == [s EXCEPT !.idx = (@ + 1) % KvStages]
Advance(s) == [s EXCEPT !.idx = (@ + 1) % KvStages,
                        !.ph  = IF s.idx = KvStages - 1 THEN 1 - @ ELSE @]

\* Arm the full barrier and start the load; the buffer is being written from here.
StartLoad(r, tag, full) ==
    /\ tma' = tma \cup {[dst |-> r, tag |-> tag, full |-> full]}
    /\ mem' = Put(mem, r, Garbage)

TmaLand ==
    \E x \in tma :
        /\ tma' = tma \ {x}
        /\ mem' = Put(mem, x.dst, x.tag)
        /\ Arrive({x.full})
        /\ UNCHANGED <<tc, ld, mm, sm, co, ep, out>>

-----------------------------------------------------------------------------
(* Load warp: Q0, K, Q1, V of a tile, then K and V of each further block. *)

LoadQ ==
    /\ ld.at \in {"q0", "q1"}
    /\ LET i == IF ld.at = "q0" THEN 0 ELSE 1
       IN  /\ WaitThenArrive(<<"q_empty", i>>, ld.qPh, {})
           /\ StartLoad(<<"Q", i>>, QTag(ld.t), <<"q_full", i>>)
           /\ ld' = IF i = 0 THEN [ld EXCEPT !.at = "k"]
                             ELSE [ld EXCEPT !.at = "v", !.qPh = 1 - @]
    /\ UNCHANGED <<tc, mm, sm, co, ep, out>>

\* The order in which load() walks a tile, once K or V of block ld.k is under way.
NextLoad(next) ==
    CASE ld.at = "k" -> [next EXCEPT !.at = IF ld.k = 1 THEN "q1" ELSE "v"]
      [] ld.at = "v" /\ ld.k < Blocks[ld.t] -> [next EXCEPT !.at = "k", !.k = @ + 1]
      [] OTHER -> [next EXCEPT !.at = IF ld.t + 1 \in Tile THEN "q0" ELSE "end",
                               !.t = @ + 1, !.k = 1]

LoadKV ==
    /\ ld.at \in {"k", "v"}
    /\ WaitThenArrive(<<"kv_empty", ld.idx>>, ld.ph, {})
    /\ StartLoad(<<"KV", ld.idx>>,
                 IF ld.at = "k" THEN KTag(ld.t, ld.k) ELSE VTag(ld.t, ld.k),
                 <<"kv_full", ld.idx>>)
    /\ ld' = NextLoad(Advance(ld))
    /\ UNCHANGED <<tc, mm, sm, co, ep, out>>

-----------------------------------------------------------------------------
(* MMA warp.  mm.k blocks of the tile have been multiplied by Q, so 0 is   *)
(* the prologue; mm.st is the stage being served, mm.v the slot of the V   *)
(* in hand.                                                                *)

N == Blocks[mm.t]
Prologue  == mm.k = 0
LastBlock == mm.k = N

Issue(kind, k, slot, copies, open, signals) ==
    tc' = Append(tc, [kind |-> kind, st |-> mm.st, t |-> mm.t, k |-> k, slot |-> slot,
                      copies |-> copies, open |-> open, signals |-> signals,
                      begun |-> FALSE, ok |-> TRUE])

MmaWaitQ ==
    /\ mm.at = "q"
    /\ WaitThenArrive(<<"q_full", mm.st>>, mm.qPh, {})
    /\ mm' = [mm EXCEPT !.at = IF mm.st = 0 THEN "k" ELSE "qk"]
    /\ UNCHANGED <<mem, tma, tc, ld, sm, co, ep, out>>

MmaWaitK ==
    /\ mm.at = "k"
    /\ WaitThenArrive(<<"kv_full", mm.idx>>, mm.ph, {})
    /\ mm' = [mm EXCEPT !.at = "qk"]
    /\ UNCHANGED <<mem, tma, tc, ld, sm, co, ep, out>>

\* Commits.  Each is carried by the last operation issued before it, and
\* arrives when that one and all before it are done.
SFullCommitBoth == {<<"S_full", i>> : i \in Stage}
SFullCommit == {<<"S_full", mm.st>>}

\* Not after a baseline PV inside the loop: there S_full of the next block stands for it.
OFullCommitAlways == {<<"O_full", mm.st>>}
OFullCommit == IF LastBlock \/ Decoupled THEN {<<"O_full", mm.st>>} ELSE {}

\* V is read by the PVs of both stages.
VReleaseEarly == IF mm.st = 0 THEN {<<"kv_empty", mm.v>>} ELSE {}
VReleaseTwice == {<<"kv_empty", mm.v>>}
VRelease == IF mm.st = 1 THEN {<<"kv_empty", mm.v>>} ELSE {}

\* Behind the loop, after the last QK of the tile (and the PV the schedule pairs with it).
QRelease == {<<"q_empty", i>> : i \in Stage}

\* Scale factors copied for a QK: both on the baseline and in the prologue;
\* on the decoupled layout Q's stay in place for the tile.
QKCopiesOnce ==
    IF QuantQK /\ Prologue THEN {<<"SFQ", mm.st>>, <<"SFK", SfkSlot(mm.st)>>} ELSE {}
QKCopies ==
    {r \in {<<"SFQ", mm.st>>, <<"SFK", SfkSlot(mm.st)>>} :
        QuantQK /\ (Prologue \/ ~Decoupled \/ (r[1] = "SFK" /\ (mm.st = 0 \/ ~SharedSfk)))}

PVCopies == IF QuantPV THEN {<<"SFP", mm.st>>, <<"SFV", SfvSlot(mm.st)>>} ELSE {}

MmaIssueQK ==
    LET endsStep == mm.st = 1 /\ (Prologue \/ ~Decoupled)   \* K has no further reader
        signals  == SFullCommit
                    \cup (IF endsStep THEN {<<"kv_empty", mm.idx>>} ELSE {})
                    \cup (IF endsStep /\ mm.k + 1 = N THEN QRelease ELSE {})
        next     == [Advance(mm) EXCEPT !.at = "v", !.k = @ + 1, !.st = 0,
                                        !.fPh = IF QuantQK THEN 1 - @ ELSE @]
    IN  /\ mm.at = "qk"
        /\ IF QuantQK THEN WaitThenArrive(<<"sfqk", mm.st>>, mm.fPh, {}) ELSE UNCHANGED bar
        /\ Issue("QK", mm.k + 1, mm.idx, QKCopies, FALSE, signals)
        /\ mm' = CASE Prologue /\ mm.st = 0    -> [mm EXCEPT !.at = "q", !.st = 1]
                   [] Prologue /\ mm.st = 1    -> [next EXCEPT !.qPh = 1 - @]
                   [] ~Prologue /\ Decoupled   -> [mm EXCEPT !.at = "p"]
                   [] ~Prologue /\ ~Decoupled /\ mm.st = 0 -> [mm EXCEPT !.at = "p", !.st = 1]
                   [] OTHER                    -> [next EXCEPT !.pPh = 1 - @]
        /\ UNCHANGED <<mem, tma, ld, sm, co, ep, out>>

\* V of the block; on the decoupled schedule K of the next one is then taken too.
MmaWaitV ==
    /\ mm.at = "v"
    /\ WaitThenArrive(<<"kv_full", mm.idx>>, mm.ph, {})
    /\ mm' = IF Decoupled /\ ~LastBlock THEN [Advance(mm) EXCEPT !.v = mm.idx, !.at = "k"]
                                        ELSE [mm EXCEPT !.v = mm.idx, !.at = "p"]
    /\ UNCHANGED <<mem, tma, tc, ld, sm, co, ep, out>>

\* First part of P is there and O is rescaled: copy the scales, issue the
\* K-tiles of the first part.
MmaIssuePV ==
    /\ mm.at = "p"
    /\ WaitThenArrive(<<"P_full_O", mm.st>>, mm.pPh, {})
    /\ Issue("PV", mm.k, mm.v, PVCopies, TRUE, {})
    /\ mm' = [mm EXCEPT !.at = "p2"]
    /\ UNCHANGED <<mem, tma, ld, sm, co, ep, out>>

\* The wait inside the PV GEMM, then its remaining K-tiles and the commits.
MmaIssuePV2 ==
    LET endsStep == mm.st = 1 /\ (LastBlock \/ Decoupled)
        signals  == OFullCommit \cup VRelease
                    \cup (IF endsStep /\ ~LastBlock THEN {<<"kv_empty", mm.idx>>} ELSE {})
                    \cup (IF endsStep /\ mm.k + 1 = N THEN QRelease ELSE {})
        next     == [Advance(mm) EXCEPT !.st = 0, !.pPh = 1 - @]
    IN  /\ mm.at = "p2"
        /\ WaitThenArrive(<<"P_full_2", mm.st>>, mm.pPh, {})
        /\ tc' = [tc EXCEPT ![Len(tc)].open = FALSE, ![Len(tc)].signals = signals]
        /\ mm' = CASE LastBlock /\ mm.st = 0 -> [mm EXCEPT !.at = "p", !.st = 1]
                   [] LastBlock /\ mm.st = 1 ->
                        [next EXCEPT !.at = IF mm.t + 1 \in Tile THEN "q" ELSE "dealloc",
                                     !.t = @ + 1, !.k = 0]
                   [] ~LastBlock /\ Decoupled /\ mm.st = 0 -> [mm EXCEPT !.at = "qk", !.st = 1]
                   [] ~LastBlock /\ Decoupled /\ mm.st = 1 ->
                        [next EXCEPT !.at = "v", !.k = @ + 1, !.fPh = 1 - @]
                   [] ~LastBlock /\ ~Decoupled /\ mm.st = 0 -> [Advance(mm) EXCEPT !.at = "k"]
                   [] OTHER -> [mm EXCEPT !.at = "qk"]
        /\ UNCHANGED <<mem, tma, ld, sm, co, ep, out>>

\* Tensor memory goes back once no warpgroup will touch it.
MmaDealloc ==
    /\ mm.at = "dealloc"
    /\ WaitThenArrive(<<"dealloc", 0>>, 0, {})
    /\ mem' = [r \in Region |-> IF Column(r) = {} THEN mem[r] ELSE Garbage]
    /\ mm' = [mm EXCEPT !.at = "end"]
    /\ UNCHANGED <<tma, tc, ld, sm, co, ep, out>>

-----------------------------------------------------------------------------
(* Softmax warpgroup i serves stage i. *)

\* softmax1 lets the first QK0 copy its scale factors.
SoftmaxStart(i) ==
    /\ sm[i].at = "start"
    /\ Arrive({<<"sfqk", 0>>})
    /\ sm' = [sm EXCEPT ![i].at = "tile"]
    /\ UNCHANGED <<mem, tma, tc, ld, mm, co, ep, out>>

SoftmaxTile(i) ==
    /\ sm[i].at = "tile"
    /\ WaitThenArrive(<<"corr_empty", i>>, sm[i].cPh, {})
    /\ sm' = [sm EXCEPT ![i].at = "s", ![i].cPh = 1 - @]
    /\ UNCHANGED <<mem, tma, tc, ld, mm, co, ep, out>>

\* Load S, let the other stage's QK copy or write over it, start the scale's store.
SoftmaxLoadS(i) ==
    /\ sm[i].at = "s"
    /\ WaitThenArrive(<<"S_full", i>>, sm[i].sPh, {<<"sfqk", 1 - i>>})
    /\ sm' = [sm EXCEPT ![i].at = "scale",
                        ![i].ok = mem[<<"S", i>>] = STag(sm[i].t, sm[i].k)]
    /\ mem' = IF sm[i].k > 1 THEN Put(mem, <<"sScale", i>>, Garbage) ELSE mem
    /\ UNCHANGED <<tma, tc, ld, mm, co, ep, out>>

\* Every PV_i before the step softmax i is in is over.  The kernel does not
\* wait for this on the decoupled schedule; PvBeforeNextP assumes it.
PreviousPvOver(i) == bar[<<"O_full", i>>].done + 1 >= bar[<<"S_full", i>>].seen

\* acc_scale is out; start storing P's scale factors and its first part.
SoftmaxScale(i) ==
    LET s == sm[i]
        m == IF s.k > 1 THEN Put(mem, <<"sScale", i>>, KeepIf(s.ok, ScaleTag(s.t, s.k))) ELSE mem
        p == Put(m, <<"Plo", i>>, Garbage)
    IN  /\ s.at = "scale"
        /\ PvBeforeNextP => PreviousPvOver(i)
        /\ Arrive({<<"corr_full", i>>})
        /\ mem' = IF QuantPV THEN Put(p, <<"sSFP", i>>, Garbage) ELSE p
        /\ sm' = [sm EXCEPT ![i].at = "plo"]
        /\ UNCHANGED <<tma, tc, ld, mm, co, ep, out>>

SoftmaxStoreP(i) ==
    LET s   == sm[i]
        tag == KeepIf(s.ok, STag(s.t, s.k))
        p   == Put(Put(mem, <<"Plo", i>>, tag), <<"Phi", i>>, Garbage)
    IN  /\ s.at = "plo"
        /\ Arrive({<<"P_full_O", i>>})
        /\ mem' = IF QuantPV THEN Put(p, <<"sSFP", i>>, tag) ELSE p
        /\ sm' = [sm EXCEPT ![i].at = "phi"]
        /\ UNCHANGED <<tma, tc, ld, mm, co, ep, out>>

SoftmaxStoreP2(i) ==
    LET s == sm[i]
    IN  /\ s.at = "phi"
        /\ Arrive({<<"P_full_2", i>>})
        /\ mem' = Put(mem, <<"Phi", i>>, KeepIf(s.ok, STag(s.t, s.k)))
        /\ sm' = [sm EXCEPT ![i].at = "corr"]
        /\ UNCHANGED <<tma, tc, ld, mm, co, ep, out>>

\* End of a step; after the last one the row sum's store starts.
SoftmaxWaitCorr(i) ==
    LET s    == sm[i]
        next == [s EXCEPT !.sPh = 1 - @, !.cPh = 1 - @]
    IN  /\ s.at = "corr"
        /\ WaitThenArrive(<<"corr_empty", i>>, s.cPh, {})
        /\ IF s.k < Blocks[s.t]
           THEN /\ sm' = [sm EXCEPT ![i] = [next EXCEPT !.at = "s", !.k = @ + 1]]
                /\ UNCHANGED mem
           ELSE /\ sm' = [sm EXCEPT ![i] = [next EXCEPT !.at = "sum"]]
                /\ mem' = Put(mem, <<"sScale", i>>, Garbage)
        /\ UNCHANGED <<tma, tc, ld, mm, co, ep, out>>

\* The row sum is out; the last tile done, the warpgroup gives up tensor memory.
SoftmaxSum(i) ==
    LET s    == sm[i]
        more == s.t + 1 \in Tile
    IN  /\ s.at = "sum"
        /\ Arrive({<<"corr_full", i>>} \cup (IF more THEN {} ELSE {<<"dealloc", 0>>}))
        /\ mem' = Put(mem, <<"sScale", i>>, KeepIf(s.ok, ScaleTag(s.t, Blocks[s.t] + 1)))
        /\ sm' = [sm EXCEPT ![i] = [s EXCEPT !.at = IF more THEN "tile" ELSE "end",
                                             !.t = @ + 1, !.k = 1]]
        /\ UNCHANGED <<tma, tc, ld, mm, co, ep, out>>

-----------------------------------------------------------------------------
(* Correction warpgroup: rescales O between two PVs of a stage, and at the *)
(* end of a tile normalizes O into shared memory.                          *)

CorrStart ==
    /\ co.at = "start"
    /\ Arrive({<<"P_full_O", i>> : i \in Stage})
    /\ co' = [co EXCEPT !.at = "first"]
    /\ UNCHANGED <<mem, tma, tc, ld, mm, sm, ep, out>>

\* The first scale of each stage needs no rescale.
CorrFirst ==
    /\ co.at = "first"
    /\ IF co.st = 0
       THEN /\ WaitThenArrive(<<"corr_full", 0>>, co.cPh, {<<"corr_empty", 0>>})
            /\ co' = [co EXCEPT !.st = 1]
       ELSE LET more == Blocks[co.t] > 1
            IN  /\ WaitThenArrive(<<"corr_full", 1>>, co.cPh,
                                  IF more THEN {} ELSE {<<"corr_empty", 1>>})
                /\ co' = [co EXCEPT !.at = IF more THEN "scale" ELSE "sum",
                                    !.st = 0, !.k = 2, !.cPh = 1 - @]
    /\ UNCHANGED <<mem, tma, tc, ld, mm, sm, ep, out>>

WaitsForPv == Decoupled     \* on the baseline S_full of the next block stands for it

\* O is multiplied by the scale from here on, or left alone if no row needs it;
\* it counts as rescaled at the end in both cases.
BeginRescale(c) ==
    LET o == <<"O", c.st>>
        ok == c.ok /\ mem[o] = Folded(c.t, c.k - 1)
    IN  \E touches \in BOOLEAN :
            /\ mem' = IF touches THEN [mem EXCEPT ![o] = Garbage] ELSE mem
            /\ co' = [c EXCEPT !.at = "rescale", !.ok = ok]

CorrScale ==
    /\ co.at = "scale"
    /\ WaitThenArrive(<<"corr_full", co.st>>, co.cPh, {})
    /\ LET c == [co EXCEPT !.ok = mem[<<"sScale", co.st>>] = ScaleTag(co.t, co.k)]
       IN  IF WaitsForPv THEN co' = [c EXCEPT !.at = "acc"] /\ UNCHANGED mem
                         ELSE BeginRescale(c)

\* Decoupled only: PV of the previous block must be over before O is rescaled.
CorrWaitO ==
    /\ co.at = "acc"
    /\ WaitThenArrive(<<"O_full", co.st>>, co.oPh, {})
    /\ BeginRescale(co)

CorrToRescale == (CorrScale \/ CorrWaitO) /\ UNCHANGED <<tma, tc, ld, mm, sm, ep, out>>

CorrRescaled ==
    LET last == co.st = 1 /\ co.k = Blocks[co.t]
        next == [co EXCEPT !.cPh = 1 - @, !.oPh = IF Decoupled THEN 1 - @ ELSE @,
                           !.at = IF last THEN "sum" ELSE "scale", !.st = 0, !.k = @ + 1]
    IN  /\ co.at = "rescale"
        /\ mem' = [mem EXCEPT ![<<"O", co.st>>] = KeepIf(co.ok, Rescaled(co.t, co.k - 1))]
        /\ Arrive({<<"P_full_O", co.st>>, <<"corr_empty", 1 - co.st>>}
                  \cup (IF last THEN {<<"corr_empty", 1>>} ELSE {}))
        /\ co' = IF co.st = 0 THEN [co EXCEPT !.at = "scale", !.st = 1] ELSE next
        /\ UNCHANGED <<tma, tc, ld, mm, sm, ep, out>>

\* The row sum is read, then O is waited for, then a free buffer for the output.
CorrSum ==
    /\ co.at = "sum"
    /\ WaitThenArrive(<<"corr_full", co.st>>, co.cPh, {<<"corr_empty", co.st>>})
    /\ co' = [co EXCEPT !.at = "o",
                        !.ok = mem[<<"sScale", co.st>>] = ScaleTag(co.t, Blocks[co.t] + 1)]
    /\ UNCHANGED <<mem, tma, tc, ld, mm, sm, ep, out>>

CorrWaitLastO ==
    /\ co.at = "o"
    /\ WaitThenArrive(<<"O_full", co.st>>, co.oPh, {})
    /\ IF CorrStoresO
       THEN co' = [co EXCEPT !.at = "write"] /\ mem' = Put(mem, <<"sO", co.st>>, Garbage)
       ELSE co' = [co EXCEPT !.at = "buffer"] /\ UNCHANGED mem
    /\ UNCHANGED <<tma, tc, ld, mm, sm, ep, out>>

CorrWaitBuffer ==
    /\ co.at = "buffer"
    /\ WaitThenArrive(<<"epi_empty", co.st>>, co.ePh, {})
    /\ mem' = Put(mem, <<"sO", co.st>>, Garbage)
    /\ co' = [co EXCEPT !.at = "write"]
    /\ UNCHANGED <<tma, tc, ld, mm, sm, ep, out>>

CorrWriteO ==
    LET n    == Blocks[co.t]
        res  == KeepIf(co.ok /\ mem[<<"O", co.st>>] = Folded(co.t, n), Folded(co.t, n))
        more == co.t + 1 \in Tile
    IN  /\ co.at = "write"
        /\ mem' = Put(mem, <<"sO", co.st>>, res)
        /\ Arrive({<<"P_full_O", co.st>>}
                  \cup (IF CorrStoresO THEN {} ELSE {<<"epi_full", co.st>>})
                  \cup (IF co.st = 1 /\ ~more THEN {<<"dealloc", 0>>} ELSE {}))
        /\ out' = IF CorrStoresO THEN [out EXCEPT ![<<co.t, co.st>>] = Append(@, res)] ELSE out
        /\ co' = IF co.st = 0 THEN [co EXCEPT !.at = "sum", !.st = 1]
                 ELSE [co EXCEPT !.at = IF more THEN "first" ELSE "end", !.t = @ + 1, !.st = 0,
                                 !.oPh = 1 - @, !.cPh = 1 - @, !.ePh = 1 - @]
        /\ UNCHANGED <<tma, tc, ld, mm, sm, ep>>

-----------------------------------------------------------------------------
(* Epilogue warp: one bulk store per stage, then both buffers are freed in *)
(* the order the stores were committed.                                    *)

EpiStore ==
    /\ ep.at = "store"
    /\ WaitThenArrive(<<"epi_full", ep.st>>, ep.ph, {})
    /\ ep' = IF ep.st = 0 THEN [ep EXCEPT !.st = 1] ELSE [ep EXCEPT !.at = "free", !.st = 0]
    /\ UNCHANGED <<mem, tma, tc, ld, mm, sm, co, out>>

\* A buffer is free once its own store has read it.
FreesEarly == IF ep.st = 0 THEN {<<"epi_empty", i>> : i \in Stage} ELSE {}
Frees == {<<"epi_empty", ep.st>>}

EpiFree ==
    /\ ep.at = "free"
    /\ Arrive(Frees)
    /\ out' = [out EXCEPT ![<<ep.t, ep.st>>] = Append(@, mem[<<"sO", ep.st>>])]
    /\ ep' = IF ep.st = 0 THEN [ep EXCEPT !.st = 1]
             ELSE [ep EXCEPT !.at = IF ep.t + 1 \in Tile THEN "store" ELSE "end",
                             !.t = @ + 1, !.st = 0, !.ph = 1 - @]
    /\ UNCHANGED <<mem, tma, tc, ld, mm, sm, co>>

-----------------------------------------------------------------------------

Init ==
    /\ bar = [b \in Barrier |-> NewBarrier(Count(b))]
    /\ mem = [r \in Region |-> Garbage]
    /\ tma = {} /\ tc = <<>>
    /\ ld = [at |-> "q0", t |-> 1, k |-> 1, qPh |-> 1, idx |-> 0, ph |-> 1]
    /\ mm = [at |-> "q", t |-> 1, k |-> 0, st |-> 0, v |-> 0,
             qPh |-> 0, pPh |-> 0, fPh |-> 0, idx |-> 0, ph |-> 0]
    /\ sm = [i \in Stage |-> [at |-> IF i = 1 /\ QuantQK THEN "start" ELSE "tile",
                              t |-> 1, k |-> 1, sPh |-> 0, cPh |-> 1, ok |-> TRUE]]
    /\ co = [at |-> "start", t |-> 1, k |-> 2, st |-> 0, cPh |-> 0, oPh |-> 0, ePh |-> 1,
             ok |-> TRUE]
    /\ ep = [at |-> IF CorrStoresO THEN "end" ELSE "store", t |-> 1, st |-> 0, ph |-> 0]
    /\ out = [x \in Tile \X Stage |-> <<>>]

Load == LoadQ \/ LoadKV
Mma  == \/ MmaWaitQ \/ MmaWaitK \/ MmaIssueQK \/ MmaWaitV \/ MmaIssuePV \/ MmaIssuePV2
        \/ MmaDealloc
TensorCore == TcStart \/ TcFinish
Softmax(i) == \/ SoftmaxStart(i) \/ SoftmaxTile(i) \/ SoftmaxLoadS(i) \/ SoftmaxScale(i)
              \/ SoftmaxStoreP(i) \/ SoftmaxStoreP2(i) \/ SoftmaxWaitCorr(i) \/ SoftmaxSum(i)
Correction == \/ CorrStart \/ CorrFirst \/ CorrToRescale \/ CorrRescaled
              \/ CorrSum \/ CorrWaitLastO \/ CorrWaitBuffer \/ CorrWriteO
Epilogue == EpiStore \/ EpiFree

Finished == /\ {ld.at, mm.at, co.at, ep.at} \cup {sm[i].at : i \in Stage} = {"end"}
            /\ tma = {} /\ tc = <<>>
Halt == Finished /\ UNCHANGED vars

Next == \/ Load \/ TmaLand \/ Mma \/ TensorCore \/ (\E i \in Stage : Softmax(i))
        \/ Correction \/ Epilogue \/ Halt

\* Warps of a resident CTA are scheduled and both engines make progress.
Fairness == /\ WF_vars(Load) /\ WF_vars(TmaLand) /\ WF_vars(Mma) /\ WF_vars(TensorCore)
            /\ (\A i \in Stage : WF_vars(Softmax(i))) /\ WF_vars(Correction) /\ WF_vars(Epilogue)

Spec == Init /\ [][Next]_vars /\ Fairness

-----------------------------------------------------------------------------
(* Properties. *)

\* Every barrier, buffer, operation and phase bit is of its kind; a ring index
\* (PipelineState.index) stays inside the ring.
TypeOK ==
    /\ bar \in [Barrier -> [done : Nat, left : 1..3, seen : Nat]]
    /\ DOMAIN mem = Region
    /\ \A x \in tma : x.dst \in Region /\ x.full \in Barrier
    /\ \A j \in DOMAIN tc : /\ tc[j].kind \in {"QK", "PV"} /\ tc[j].st \in Stage
                            /\ tc[j].slot \in Slot /\ tc[j].signals \subseteq Barrier
    /\ ld.idx \in Slot /\ mm.idx \in Slot /\ mm.v \in Slot /\ mm.st \in Stage
    /\ {ld.ph, ld.qPh, mm.ph, mm.qPh, mm.pPh, mm.fPh, co.cPh, co.oPh, co.ePh, ep.ph} \subseteq 0..1
    /\ \A i \in Stage : sm[i].sPh \in 0..1 /\ sm[i].cPh \in 0..1

\* Barriers whose first wait names parity 1 (their buffer starts out free).
StartsFree == {"q_empty", "kv_empty", "corr_empty", "epi_empty"}
Unwaited == (IF QuantQK THEN {} ELSE {"sfqk"}) \cup (IF CorrStoresO THEN {"epi_full", "epi_empty"} ELSE {})

\* One parity bit is enough: a waiter is never a whole phase behind, so that the
\* parity it waits for is that of the phase it means (mbarrier_wait everywhere).
NoPhaseLost ==
    \A b \in Barrier : b[1] \notin Unwaited =>
        bar[b].done - bar[b].seen \in (IF b[1] \in StartsFree THEN {-1, 0} ELSE {0, 1})

\* What reaches global memory for a tile and stage is one store of O made from
\* every KV block of the tile once, in order, rescaled between any two.
OutputExact ==
    \A x \in Tile \X Stage : out[x] \in {<<>>, <<Folded(x[1], Blocks[x[1]])>>}

\* No thread stores to an operand of a PV that is still to be read: P_i and its
\* scale factors stay as they are until PV_i is over.
POperandStable ==
    \A i \in Stage, j \in DOMAIN tc :
        ~(/\ tc[j].kind = "PV" /\ tc[j].st = i
          /\ \/ sm[i].at = "plo"
             \/ sm[i].at = "phi" /\ ~tc[j].open)

\* While the correction warps rescale or read O, no operation on it is in flight.
CorrectionOwnsO ==
    co.at \in {"rescale", "write"} =>
        \A j \in DOMAIN tc : Target(tc[j]) # <<"O", co.st>>

\* A scale-factor copy is never issued behind an operation that still reads or
\* writes its slot: the tensor core orders copies before later mma only.
NoCopyBehindReader ==
    \A j \in DOMAIN tc : \A i \in 1..(j - 1), r \in tc[j].copies :
        \A q \in Operands(tc[i]) \cup {Target(tc[i])} : ~Clash(r, q)

\* A bulk load never lands in a buffer that an issued operation still reads.
LoadsIntoFreeBuffer ==
    \A x \in tma, j \in DOMAIN tc : x.dst \notin Operands(tc[j])

\* A bulk store issued for output buffer i has not read all of it.
Storing(i) == \/ ep.at = "store" /\ i < ep.st
              \/ ep.at = "free" /\ i >= ep.st

\* The correction warps write an output buffer only while no bulk store issued
\* for it is still to read it (correction_loop's wait on corr_epi_empty).
OutputBufferOwned == co.at = "write" => ~Storing(co.st)

-----------------------------------------------------------------------------
(* What the kernel promises, and how its state stands for it. *)

\* Blocks in O for a tile and stage: readable from O's tag, from the operation
\* or warps at work on it, and all of them once the result has been taken.
FoldedBlocks(x) ==
    LET t == x[1]
        i == x[2]
        o == mem[<<"O", i>>]
        taken     == co.t > t \/ (co.t = t /\ co.st > i /\ co.at \in {"sum", "o", "buffer", "write"})
        rescaling == co.at = "rescale" /\ co.t = t /\ co.st = i /\ co.ok
        adding    == tc # <<>> /\ Head(tc).begun /\ Head(tc).ok /\ Head(tc).t = t
                     /\ Target(Head(tc)) = <<"O", i>>
    IN  IF taken THEN Blocks[t]
        ELSE IF o # Garbage THEN (IF o[1] = t THEN o[2] ELSE 0)
        ELSE IF rescaling THEN co.k - 1
        ELSE IF adding THEN Head(tc).k - 1 ELSE 0

Promise == INSTANCE AttentionTiles WITH
    folded <- [x \in Tile \X Stage |-> FoldedBlocks(x)],
    stored <- [x \in Tile \X Stage |-> Len(out[x])]

\* The kernel computes tile after tile as promised, and finishes all of them.
ImplementsAttention == Promise!Spec

-----------------------------------------------------------------------------
(* The ring of K and V by itself: every pass of a slot has left its mark in  *)
(* the history of the slot's barriers, and the tags say which item is where. *)

RingState(n, phase) == [index |-> n % KvStages, lap |-> n \div KvStages,
                        phase |-> (phase + n \div KvStages) % 2]

Loaded   == MapThenSumSet(LAMBDA i : bar[<<"kv_empty", i>>].seen, Slot)
Taken    == MapThenSumSet(LAMBDA i : bar[<<"kv_full", i>>].seen, Slot)
Returned == MapThenSumSet(LAMBDA i : bar[<<"kv_empty", i>>].done, Slot)
ToReturn == {j \in DOMAIN tc : \E i \in Slot : <<"kv_empty", i>> \in tc[j].signals}

\* The place of an item in the load order: K and V of a block, block by block.
ItemNumber(tag) == 2 * (MapThenSumSet(LAMBDA t : Blocks[t], 1..(tag[1] - 1)) + tag[2] - 1) + tag[3]
ItemLap(tag) == IF tag = Garbage THEN -1 ELSE ItemNumber(tag) \div KvStages

Ring == INSTANCE KvRing WITH
    Stages  <- KvStages,
    Parts   <- {"operand"},
    Laps    <- ItemNumber(<<Len(Blocks) + 1, 1, 0>>),
    prod    <- RingState(Loaded, 1),
    wait    <- RingState(Taken, 0),
    rel     <- RingState(Returned + Cardinality(ToReturn), 0),
    drn     <- RingState(Returned, 0),
    full    <- [i \in Slot |-> bar[<<"kv_full", i>>].done],
    empty   <- [i \in Slot |-> bar[<<"kv_empty", i>>].done],
    pending <- [i \in Slot |-> IF \E x \in tma : x.dst = <<"KV", i>> THEN {"operand"} ELSE {}],
    buf     <- [i \in Slot |-> [p \in {"operand"} |-> ItemLap(mem[<<"KV", i>>])]]

\* The load warp and the MMA warp use the ring as KvRing says: one slot after
\* the other, each wait and release in its turn (load, load_KV, mma).
UsesRing == Ring!SafeSpec
=============================================================================
