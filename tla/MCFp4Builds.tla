---------------------------- MODULE MCFp4Builds ----------------------------
(***************************************************************************)
(* Five builds of the block-scaled forward CTA in one run: a state belongs *)
(* to one of them, and every property says which builds it is about.       *)
(***************************************************************************)
EXTENDS Naturals

VARIABLES
    build,                                          \* which of the five
    bar, mem, tma, tc, ld, mm, sm, co, ep, out      \* as in Fp4Forward

\* P inside S, quantized Q and K, TMA epilogue; a tile of three KV blocks and
\* one of two, three ring slots.
Baseline == INSTANCE Fp4Forward WITH
    Blocks <- <<3, 2>>, KvStages <- 3, Decoupled <- FALSE, SharedSfk <- FALSE,
    QuantQK <- TRUE, QuantPV <- FALSE, CorrStoresO <- FALSE, OverlapSOSQ <- FALSE,
    PvBeforeNextP <- FALSE

\* Everything quantized, and the correction warps store O themselves.
Varlen == INSTANCE Fp4Forward WITH
    Blocks <- <<2, 1>>, KvStages <- 3, Decoupled <- FALSE, SharedSfk <- FALSE,
    QuantQK <- TRUE, QuantPV <- TRUE, CorrStoresO <- TRUE, OverlapSOSQ <- FALSE,
    PvBeforeNextP <- FALSE

\* Nothing quantized, the output buffers over Q's; such a CTA has one tile.
Overlap == INSTANCE Fp4Forward WITH
    Blocks <- <<2>>, KvStages <- 3, Decoupled <- FALSE, SharedSfk <- FALSE,
    QuantQK <- FALSE, QuantPV <- FALSE, CorrStoresO <- FALSE, OverlapSOSQ <- TRUE,
    PvBeforeNextP <- FALSE

\* The decoupled schedule with no assumption about speed.
Untimed == INSTANCE Fp4Forward WITH
    Blocks <- <<1, 2>>, KvStages <- 2, Decoupled <- TRUE, SharedSfk <- FALSE,
    QuantQK <- TRUE, QuantPV <- TRUE, CorrStoresO <- FALSE, OverlapSOSQ <- FALSE,
    PvBeforeNextP <- FALSE

\* The same with one slot for the K scales, when a PV is over before softmax has
\* the next P ready to store.
Timed == INSTANCE Fp4Forward WITH
    Blocks <- <<2, 1>>, KvStages <- 3, Decoupled <- TRUE, SharedSfk <- TRUE,
    QuantQK <- TRUE, QuantPV <- TRUE, CorrStoresO <- FALSE, OverlapSOSQ <- FALSE,
    PvBeforeNextP <- TRUE

ASSUME BuildsAssumption ==
    /\ Baseline!ConfigAssumption /\ Varlen!ConfigAssumption /\ Overlap!ConfigAssumption
    /\ Untimed!ConfigAssumption /\ Timed!ConfigAssumption

Init == \/ build = "baseline" /\ Baseline!Init
        \/ build = "varlen" /\ Varlen!Init
        \/ build = "overlap" /\ Overlap!Init
        \/ build = "untimed" /\ Untimed!Init
        \/ build = "timed" /\ Timed!Init

\* Without the assumption about speed a CTA may stop before its end: softmax can
\* overtake a phase of P_full_2.
MayStop == build = "untimed" /\ UNCHANGED <<bar, mem, tma, tc, ld, mm, sm, co, ep, out>>

Next ==
    /\ UNCHANGED build
    /\ \/ build = "baseline" /\ Baseline!Next
       \/ build = "varlen" /\ Varlen!Next
       \/ build = "overlap" /\ Overlap!Next
       \/ build = "untimed" /\ Untimed!Next
       \/ build = "timed" /\ Timed!Next
       \/ MayStop

Spec == Init /\ [][Next]_<<build, bar, mem, tma, tc, ld, mm, sm, co, ep, out>>

-----------------------------------------------------------------------------
(* The properties of Fp4Forward, build by build. *)

\* Every output is one store of O made from all blocks of its tile, in order.
OutputExact ==
    CASE build = "baseline" -> Baseline!OutputExact
      [] build = "varlen"   -> Varlen!OutputExact
      [] build = "overlap"  -> Overlap!OutputExact
      [] build = "timed"    -> Timed!OutputExact
      [] OTHER -> TRUE

\* On the decoupled schedule no scale-factor copy is issued behind an operation
\* that still reads or writes its slot.
NoCopyBehindReader ==
    CASE build = "untimed" -> Untimed!NoCopyBehindReader
      [] build = "timed"   -> Timed!NoCopyBehindReader
      [] OTHER -> TRUE
=============================================================================
