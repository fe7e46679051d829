----------------------------- MODULE PhaseProofs -----------------------------
(***************************************************************************)
(* The types and the barriers of Fp4Forward, for any tiles, ring slots and *)
(* build.  Every barrier, buffer, operation and phase bit stays of its     *)
(* kind.  Where each role is in its loop says how many arrivals it has     *)
(* made and how many waits it has passed; the blocks of the tiles before   *)
(* the one it is in put all roles on one scale.  Q and the ring of K and V *)
(* come first: around each of their loops there is room for one item only, *)
(* so that no phase is completed twice before its waiter has seen it.      *)
(***************************************************************************)
EXTENDS Fp4Forward, TLAPS, WellFoundedInduction

Bit == 0..1
BarRecord == [done : Nat, left : 1..3, seen : Nat]
Op == [kind : {"QK", "PV"}, st : Stage, t : Int, k : Int, slot : Slot,
       copies : SUBSET Region, open : BOOLEAN, signals : SUBSET Barrier,
       begun : BOOLEAN, ok : BOOLEAN]

\* Kinds of the variables.
BarType == bar \in [Barrier -> BarRecord]
MemType == DOMAIN mem = Region
TmaType == \A x \in tma : x.dst \in Region /\ x.full \in Barrier
TcType  == tc \in Seq(Op)
LdType  == ld \in [at : {"q0", "k", "q1", "v", "end"}, t : Int, k : Int, qPh : Bit,
                   idx : Slot, ph : Bit]
MmRecord == [at : {"q", "k", "qk", "v", "p", "p2", "dealloc", "end"}, t : Int, k : Int,
             st : Stage, v : Slot, qPh : Bit, pPh : Bit, fPh : Bit, idx : Slot, ph : Bit]
MmType  == mm \in MmRecord
SmRecord == [at : {"start", "tile", "s", "scale", "plo", "phi", "corr", "sum", "end"},
             t : Int, k : Int, sPh : Bit, cPh : Bit, ok : BOOLEAN]
SmType  == sm \in [Stage -> SmRecord]
CoRecord == [at : {"start", "first", "scale", "acc", "rescale", "sum", "o", "buffer", "write", "end"},
             t : Int, k : Int, st : Stage, cPh : Bit, oPh : Bit, ePh : Bit, ok : BOOLEAN]
CoType  == co \in CoRecord
EpType  == ep \in [at : {"store", "free", "end"}, t : Int, st : Stage, ph : Bit]

Types == BarType /\ MemType /\ TmaType /\ TcType /\ LdType /\ MmType /\ SmType /\ CoType /\ EpType

LEMMA TypesOK == ASSUME Types PROVE TypeOK
<1>1. BarType /\ MemType /\ TmaType
  BY DEF Types
<1>2. ASSUME NEW j \in DOMAIN tc
      PROVE  /\ tc[j].kind \in {"QK", "PV"} /\ tc[j].st \in Stage
             /\ tc[j].slot \in Slot /\ tc[j].signals \subseteq Barrier
  <2>1. tc[j] \in Op
    BY <1>2 DEF Types, TcType
  <2> QED
    BY <2>1 DEF Op
<1>3. ld.idx \in Slot /\ ld.ph \in Bit /\ ld.qPh \in Bit
  BY DEF Types, LdType
<1>4. /\ mm.idx \in Slot /\ mm.v \in Slot /\ mm.st \in Stage
      /\ mm.ph \in Bit /\ mm.qPh \in Bit /\ mm.pPh \in Bit /\ mm.fPh \in Bit
  BY DEF Types, MmType, MmRecord
<1>5. co.cPh \in Bit /\ co.oPh \in Bit /\ co.ePh \in Bit /\ ep.ph \in Bit
  BY DEF Types, CoType, CoRecord, EpType
<1>6. \A i \in Stage : sm[i].sPh \in Bit /\ sm[i].cPh \in Bit
  BY DEF Types, SmType, SmRecord
<1> QED
  BY <1>1, <1>2, <1>3, <1>4, <1>5, <1>6 DEF TypeOK, BarType, MemType, TmaType, Bit, BarRecord

-----------------------------------------------------------------------------
(* Barriers and memory. *)

LEMMA CountOK == \A b : Count(b) \in 1..3
BY DEF Count

LEMMA ArriveRecord == ASSUME NEW r \in BarRecord, NEW c \in 1..3 PROVE ArriveAt(r, c) \in BarRecord
<1>1. CASE r.left = 1
  <2>1. ArriveAt(r, c) = [r EXCEPT !.done = r.done + 1, !.left = c]
    BY <1>1 DEF ArriveAt
  <2>2. r.done + 1 \in Nat
    BY DEF BarRecord
  <2> QED
    BY <2>1, <2>2 DEF BarRecord
<1>2. CASE r.left # 1
  <2>1. ArriveAt(r, c) = [r EXCEPT !.left = r.left - 1]
    BY <1>2 DEF ArriveAt
  <2>2. r.left - 1 \in 1..3
    BY <1>2 DEF BarRecord
  <2> QED
    BY <2>1, <2>2 DEF BarRecord
<1> QED
  BY <1>1, <1>2

LEMMA PassRecord == ASSUME NEW r \in BarRecord PROVE Pass(r) \in BarRecord
BY DEF BarRecord, Pass

LEMMA ArriveType == ASSUME BarType, NEW a, Arrive(a) PROVE BarType'
BY CountOK, ArriveRecord DEF Arrive, BarType

LEMMA WaitType == ASSUME BarType, NEW w, NEW parity, NEW a, WaitThenArrive(w, parity, a) PROVE BarType'
<1>1. \A b \in Barrier : (IF b = w THEN Pass(bar[b]) ELSE bar[b]) \in BarRecord
  BY PassRecord DEF BarType
<1> QED
  BY <1>1, CountOK, ArriveRecord DEF WaitThenArrive, BarType

LEMMA PutDomain == \A m, r, tag : DOMAIN Put(m, r, tag) = Region
BY DEF Put

LEMMA CopiedDomain == \A m, op : DOMAIN Copied(m, op) = Region
BY DEF Copied

LEMMA StageSlot == /\ 0 \in Stage /\ 1 \in Stage /\ \A i \in Stage : 1 - i \in Stage
                   /\ 0 \in Slot /\ \A i \in Bit : 1 - i \in Bit
BY ConfigAssumption DEF Stage, Slot, Bit

LEMMA BarrierNames ==
    /\ \A n \in StagedBarrier, i \in Stage : <<n, i>> \in Barrier
    /\ \A n \in {"kv_full", "kv_empty"}, i \in Slot : <<n, i>> \in Barrier
    /\ <<"dealloc", 0>> \in Barrier
BY DEF Barrier

LEMMA RegionNames ==
    /\ \A n \in {"Q", "S", "Plo", "Phi", "SFQ", "SFK", "SFP", "SFV", "O", "sSFP", "sScale", "sO"},
          i \in Stage : <<n, i>> \in Region
    /\ \A i \in Slot : <<"KV", i>> \in Region
BY DEF Region

-----------------------------------------------------------------------------
(* The engines. *)

LEMMA TcStartTypes == Types /\ TcStart => Types'
<1> SUFFICES ASSUME Types, TcStart PROVE Types'
  OBVIOUS
<1>1. MemType'
  BY PutDomain DEF TcStart, MemType
<1>2. TcType'
  <2> DEFINE x == Accumulates(Head(tc)) => mem[Target(Head(tc))] = Rescaled(Head(tc).t, Head(tc).k - 1)
             op == [tc[1] EXCEPT !.begun = TRUE, !.ok = x]
  <2>1. x \in BOOLEAN
    OBVIOUS
  <2>2. tc \in Seq(Op) /\ tc # <<>> /\ tc[1] \in Op /\ 1 \in DOMAIN tc
    BY DEF Types, TcType, TcStart
  <2>3. tc' = [tc EXCEPT ![1] = op]
    <3>1. tc' = [tc EXCEPT ![1].begun = TRUE, ![1].ok = x]
      BY DEF TcStart
    <3> HIDE DEF x
    <3> QED
      BY <2>2, <3>1
  <2> HIDE DEF x
  <2>4. op \in Op
    BY <2>1, <2>2 DEF Op
  <2> HIDE DEF op
  <2> QED
    BY <2>2, <2>3, <2>4 DEF TcType
<1> QED
  BY <1>1, <1>2 DEF Types, TcStart, BarType, TmaType, LdType, MmType, SmType, CoType, EpType

LEMMA TcFinishTypes == Types /\ TcFinish => Types'
<1> SUFFICES ASSUME Types, TcFinish PROVE Types'
  OBVIOUS
<1>1. BarType'
  BY ArriveType DEF Types, TcFinish
<1>2. MemType'
  BY PutDomain DEF TcFinish, MemType
<1>3. TcType'
  BY DEF Types, TcType, TcFinish
<1> QED
  BY <1>1, <1>2, <1>3 DEF Types, TcFinish, TmaType, LdType, MmType, SmType, CoType, EpType

LEMMA TmaLandTypes == Types /\ TmaLand => Types'
<1> SUFFICES ASSUME Types, TmaLand PROVE Types'
  OBVIOUS
<1>1. BarType'
  BY ArriveType DEF Types, TmaLand
<1>2. MemType' /\ TmaType'
  BY PutDomain DEF Types, TmaLand, MemType, TmaType
<1> QED
  BY <1>1, <1>2 DEF Types, TmaLand, TcType, LdType, MmType, SmType, CoType, EpType

-----------------------------------------------------------------------------
(* The load warp. *)

LEMMA AdvanceSlot ==
    ASSUME NEW s \in Slot
    PROVE  (s + 1) % KvStages \in Slot
BY ConfigAssumption DEF Slot

LEMMA LoadQTypes == Types /\ LoadQ => Types'
<1> SUFFICES ASSUME Types, LoadQ PROVE Types'
  OBVIOUS
<1>1. PICK i \in Stage : /\ WaitThenArrive(<<"q_empty", i>>, ld.qPh, {})
                         /\ StartLoad(<<"Q", i>>, QTag(ld.t), <<"q_full", i>>)
                         /\ ld' = IF i = 0 THEN [ld EXCEPT !.at = "k"]
                                           ELSE [ld EXCEPT !.at = "v", !.qPh = 1 - @]
  BY StageSlot DEF LoadQ
<1>2. BarType'
  BY <1>1, WaitType DEF Types
<1>3. MemType' /\ TmaType'
  <2>1. <<"Q", i>> \in Region /\ <<"q_full", i>> \in Barrier
    BY RegionNames, BarrierNames DEF StagedBarrier
  <2> QED
    BY <1>1, <2>1, PutDomain DEF Types, MemType, TmaType, StartLoad
<1>4. LdType'
  BY <1>1, StageSlot DEF Types, LdType
<1> QED
  BY <1>2, <1>3, <1>4 DEF Types, LoadQ, TcType, MmType, SmType, CoType, EpType

LEMMA LoadKVTypes == Types /\ LoadKV => Types'
<1> SUFFICES ASSUME Types, LoadKV PROVE Types'
  OBVIOUS
<1>1. BarType'
  BY WaitType DEF Types, LoadKV
<1>2. MemType' /\ TmaType'
  <2>1. <<"KV", ld.idx>> \in Region /\ <<"kv_full", ld.idx>> \in Barrier
    BY RegionNames, BarrierNames DEF Types, LdType
  <2> QED
    BY <2>1, PutDomain DEF Types, LoadKV, MemType, TmaType, StartLoad
<1>3. LdType'
  <2> DEFINE s == Advance(ld)
  <2>1. ld \in [at : {"q0", "k", "q1", "v", "end"}, t : Int, k : Int, qPh : Bit,
                idx : Slot, ph : Bit]
    BY DEF Types, LdType
  <2>2. s \in [at : {"q0", "k", "q1", "v", "end"}, t : Int, k : Int, qPh : Bit,
               idx : Slot, ph : Bit]
    BY <2>1, StageSlot, AdvanceSlot DEF Advance
  <2>3. ld' = NextLoad(s)
    BY DEF LoadKV
  <2> HIDE DEF s
  <2>4. CASE ld.at = "k"
    BY <2>2, <2>3, <2>4 DEF NextLoad, LdType
  <2>5. CASE ld.at # "k" /\ ld.at = "v" /\ ld.k < Blocks[ld.t]
    <3>1. ld' = [s EXCEPT !.at = "k", !.k = s.k + 1]
      BY <2>3, <2>5 DEF NextLoad
    <3>2. s.k + 1 \in Int
      BY <2>2
    <3> QED
      BY <2>2, <3>1, <3>2 DEF LdType
  <2>6. CASE ld.at # "k" /\ ~(ld.at = "v" /\ ld.k < Blocks[ld.t])
    <3>1. PICK p \in {"q0", "k", "q1", "v", "end"} :
              ld' = [s EXCEPT !.at = p, !.t = s.t + 1, !.k = 1]
      BY <2>3, <2>6 DEF NextLoad
    <3>2. s.t + 1 \in Int /\ 1 \in Int
      BY <2>2
    <3> QED
      BY <2>2, <3>1, <3>2 DEF LdType
  <2> QED
    BY <2>4, <2>5, <2>6
<1> QED
  BY <1>1, <1>2, <1>3 DEF Types, LoadKV, TcType, MmType, SmType, CoType, EpType

-----------------------------------------------------------------------------
(* The MMA warp. *)

LEMMA MmAdvance == ASSUME NEW r \in MmRecord PROVE Advance(r) \in MmRecord
BY StageSlot, AdvanceSlot DEF Advance, MmRecord

LEMMA MmaWaitTypes == Types /\ (MmaWaitQ \/ MmaWaitK \/ MmaWaitV) => Types'
<1> SUFFICES ASSUME Types, MmaWaitQ \/ MmaWaitK \/ MmaWaitV PROVE Types'
  OBVIOUS
<1>1. BarType'
  BY WaitType DEF Types, MmaWaitQ, MmaWaitK, MmaWaitV
<1>2. MmType'
  <2>1. mm \in MmRecord
    BY DEF Types, MmType
  <2>2. CASE MmaWaitQ \/ MmaWaitK
    BY <2>1, <2>2 DEF MmaWaitQ, MmaWaitK, MmRecord, MmType
  <2>3. CASE MmaWaitV
    <3> DEFINE s == Advance(mm)
    <3>1. s \in MmRecord /\ mm.idx \in Slot
      BY <2>1, MmAdvance DEF MmRecord
    <3>2. mm' = IF Decoupled /\ ~LastBlock THEN [s EXCEPT !.v = mm.idx, !.at = "k"]
                                           ELSE [mm EXCEPT !.v = mm.idx, !.at = "p"]
      BY <2>3 DEF MmaWaitV
    <3> HIDE DEF s
    <3> QED
      BY <2>1, <3>1, <3>2 DEF MmRecord, MmType
  <2> QED
    BY <2>2, <2>3
<1>3. UNCHANGED <<mem, tma, tc, ld, sm, co, ep>>
  BY DEF MmaWaitQ, MmaWaitK, MmaWaitV
<1> QED
  BY <1>1, <1>2, <1>3 DEF Types, MemType, TmaType, TcType, LdType, SmType, CoType, EpType

LEMMA CopiesOK == ASSUME MmType PROVE QKCopies \subseteq Region /\ PVCopies \subseteq Region
<1>1. mm.st \in Stage /\ SfkSlot(mm.st) \in Stage /\ SfvSlot(mm.st) \in Stage
  BY StageSlot DEF MmType, MmRecord, SfkSlot, SfvSlot
<1>2. /\ <<"SFQ", mm.st>> \in Region /\ <<"SFK", SfkSlot(mm.st)>> \in Region
      /\ <<"SFP", mm.st>> \in Region /\ <<"SFV", SfvSlot(mm.st)>> \in Region
  BY <1>1, RegionNames
<1> QED
  BY <1>2 DEF QKCopies, PVCopies

LEMMA SignalsOK ==
    ASSUME MmType
    PROVE  /\ SFullCommit \subseteq Barrier /\ OFullCommit \subseteq Barrier
           /\ VRelease \subseteq Barrier /\ QRelease \subseteq Barrier
           /\ <<"kv_empty", mm.idx>> \in Barrier
<1>1. mm.st \in Stage /\ mm.idx \in Slot /\ mm.v \in Slot
  BY DEF MmType, MmRecord
<1>2. /\ <<"S_full", mm.st>> \in Barrier /\ <<"O_full", mm.st>> \in Barrier
      /\ <<"kv_empty", mm.v>> \in Barrier /\ <<"kv_empty", mm.idx>> \in Barrier
      /\ \A i \in Stage : <<"q_empty", i>> \in Barrier
  BY <1>1, BarrierNames DEF StagedBarrier
<1> QED
  BY <1>2 DEF SFullCommit, OFullCommit, VRelease, QRelease

LEMMA IssueType ==
    ASSUME MmType, TcType, NEW kind \in {"QK", "PV"}, NEW k \in Int, NEW slot \in Slot,
           NEW copies \in SUBSET Region, NEW open \in BOOLEAN, NEW signals \in SUBSET Barrier,
           Issue(kind, k, slot, copies, open, signals)
    PROVE  TcType'
<1> DEFINE op == [kind |-> kind, st |-> mm.st, t |-> mm.t, k |-> k, slot |-> slot,
                  copies |-> copies, open |-> open, signals |-> signals,
                  begun |-> FALSE, ok |-> TRUE]
<1>1. op \in Op
  BY DEF Op, MmType, MmRecord
<1>2. tc' = Append(tc, op) /\ tc \in Seq(Op)
  BY DEF Issue, TcType
<1> HIDE DEF op
<1> QED
  BY <1>1, <1>2 DEF TcType

LEMMA MmaIssueQKTypes == Types /\ MmaIssueQK => Types'
<1> SUFFICES ASSUME Types, MmaIssueQK PROVE Types'
  OBVIOUS
<1>1. mm \in MmRecord /\ mm.k \in Int /\ mm.idx \in Slot
  BY DEF Types, MmType, MmRecord
<1>2. BarType'
  <2>1. CASE QuantQK
    BY <2>1, WaitType DEF Types, MmaIssueQK
  <2>2. CASE ~QuantQK
    BY <2>2 DEF Types, MmaIssueQK, BarType
  <2> QED
    BY <2>1, <2>2
<1>3. TcType'
  <2>1. PICK signals \in SUBSET Barrier :
            Issue("QK", mm.k + 1, mm.idx, QKCopies, FALSE, signals)
    BY SignalsOK DEF Types, MmaIssueQK
  <2>2. mm.k + 1 \in Int /\ QKCopies \in SUBSET Region /\ FALSE \in BOOLEAN
    BY <1>1, CopiesOK DEF Types
  <2> QED
    BY <1>1, <2>1, <2>2, IssueType DEF Types
<1>4. MmType'
  <2> DEFINE s == Advance(mm)
             f == IF QuantQK THEN 1 - s.fPh ELSE s.fPh
             next == [s EXCEPT !.at = "v", !.k = s.k + 1, !.st = 0, !.fPh = f]
  <2>1. s \in MmRecord
    BY <1>1, MmAdvance
  <2>2. next \in MmRecord
    <3> HIDE DEF s
    <3>1. s.k + 1 \in Int /\ f \in Bit /\ 0 \in Stage
      BY <2>1, StageSlot DEF MmRecord
    <3> HIDE DEF f
    <3> QED
      BY <2>1, <3>1 DEF MmRecord
  <2>3. \/ mm' = [mm EXCEPT !.at = "q", !.st = 1]
        \/ mm' = [next EXCEPT !.qPh = 1 - next.qPh]
        \/ mm' = [mm EXCEPT !.at = "p"]
        \/ mm' = [mm EXCEPT !.at = "p", !.st = 1]
        \/ mm' = [next EXCEPT !.pPh = 1 - next.pPh]
    BY DEF MmaIssueQK
  <2> HIDE DEF next
  <2>4. 1 \in Stage /\ 1 - next.qPh \in Bit /\ 1 - next.pPh \in Bit
    BY <2>2, StageSlot DEF MmRecord
  <2> QED
    BY ZenonT(40), <1>1, <2>2, <2>3, <2>4 DEF MmRecord, MmType
<1> QED
  BY <1>2, <1>3, <1>4
     DEF Types, MmaIssueQK, MemType, TmaType, LdType, SmType, CoType, EpType

LEMMA MmaIssuePVTypes == Types /\ MmaIssuePV => Types'
<1> SUFFICES ASSUME Types, MmaIssuePV PROVE Types'
  OBVIOUS
<1>1. mm \in MmRecord /\ mm.k \in Int /\ mm.v \in Slot
  BY DEF Types, MmType, MmRecord
<1>2. BarType'
  BY WaitType DEF Types, MmaIssuePV
<1>3. TcType'
  <2>1. Issue("PV", mm.k, mm.v, PVCopies, TRUE, {}) /\ PVCopies \in SUBSET Region
    BY CopiesOK DEF Types, MmaIssuePV
  <2>2. TRUE \in BOOLEAN /\ {} \in SUBSET Barrier
    OBVIOUS
  <2> QED
    BY <1>1, <2>1, <2>2, IssueType DEF Types
<1>4. MmType'
  BY <1>1 DEF MmaIssuePV, MmRecord, MmType
<1> QED
  BY <1>2, <1>3, <1>4
     DEF Types, MmaIssuePV, MemType, TmaType, LdType, SmType, CoType, EpType

LEMMA MmaIssuePV2Types == Types /\ MmaIssuePV2 => Types'
<1> SUFFICES ASSUME Types, MmaIssuePV2 PROVE Types'
  OBVIOUS
<1>1. mm \in MmRecord
  BY DEF Types, MmType
<1>2. BarType'
  BY WaitType DEF Types, MmaIssuePV2
<1>3. TcType'
  <2> DEFINE n == Len(tc)
  <2>1. PICK signals \in SUBSET Barrier :
            tc' = [tc EXCEPT ![n].open = FALSE, ![n].signals = signals]
    BY SignalsOK DEF Types, MmaIssuePV2
  <2> DEFINE op == [tc[n] EXCEPT !.open = FALSE, !.signals = signals]
  <2>2. tc \in Seq(Op)
    BY DEF Types, TcType
  <2>3. CASE n \in DOMAIN tc
    <3>1. tc[n] \in Op
      BY <2>2, <2>3
    <3>2. op \in Op
      BY <3>1 DEF Op
    <3>3. tc' = [tc EXCEPT ![n] = op]
      BY <2>1, <2>2, <2>3
    <3> HIDE DEF op
    <3> QED
      BY <2>2, <2>3, <3>2, <3>3 DEF TcType
  <2>4. CASE n \notin DOMAIN tc
    <3>1. tc' = tc
      BY <2>1, <2>2, <2>4
    <3> QED
      BY <2>2, <3>1 DEF TcType
  <2> QED
    BY <2>3, <2>4
<1>4. MmType'
  <2> DEFINE s == Advance(mm)
             next == [s EXCEPT !.st = 0, !.pPh = 1 - s.pPh]
  <2>1. s \in MmRecord
    BY <1>1, MmAdvance
  <2>2. next \in MmRecord
    <3> HIDE DEF s
    <3>1. 0 \in Stage /\ 1 - s.pPh \in Bit
      BY <2>1, StageSlot DEF MmRecord
    <3> QED
      BY <2>1, <3>1 DEF MmRecord
  <2>3. \/ mm' = [mm EXCEPT !.at = "p", !.st = 1]
        \/ mm' = [mm EXCEPT !.at = "qk", !.st = 1]
        \/ mm' = [next EXCEPT !.at = IF mm.t + 1 \in Tile THEN "q" ELSE "dealloc",
                              !.t = next.t + 1, !.k = 0]
        \/ mm' = [next EXCEPT !.at = "v", !.k = next.k + 1, !.fPh = 1 - next.fPh]
        \/ mm' = [s EXCEPT !.at = "k"]
        \/ mm' = [mm EXCEPT !.at = "qk"]
    BY DEF MmaIssuePV2
  <2> HIDE DEF next, s
  <2>4. 1 \in Stage /\ 0 \in Int /\ 1 - next.fPh \in Bit /\ next.t + 1 \in Int /\ next.k + 1 \in Int
    BY <2>2, StageSlot DEF MmRecord
  <2> QED
    BY ZenonT(40), <1>1, <2>1, <2>2, <2>3, <2>4 DEF MmRecord, MmType
<1> QED
  BY <1>2, <1>3, <1>4
     DEF Types, MmaIssuePV2, MemType, TmaType, LdType, SmType, CoType, EpType

LEMMA MmaDeallocTypes == Types /\ MmaDealloc => Types'
<1> SUFFICES ASSUME Types, MmaDealloc PROVE Types'
  OBVIOUS
<1>1. BarType'
  BY WaitType DEF Types, MmaDealloc
<1>2. MemType' /\ MmType'
  BY DEF Types, MmaDealloc, MemType, MmType, MmRecord
<1> QED
  BY <1>1, <1>2 DEF Types, MmaDealloc, TmaType, TcType, LdType, SmType, CoType, EpType

-----------------------------------------------------------------------------
(* The softmax warpgroups. *)

LEMMA SoftmaxUpdate ==
    ASSUME SmType, NEW i \in Stage, NEW r \in SmRecord, sm' = [sm EXCEPT ![i] = r]
    PROVE  SmType'
BY DEF SmType

\* The steps that move a warpgroup on and store nothing.
LEMMA SoftmaxWaitTypes ==
    ASSUME NEW i \in Stage
    PROVE  Types /\ (SoftmaxStart(i) \/ SoftmaxTile(i)) => Types'
<1> SUFFICES ASSUME Types, SoftmaxStart(i) \/ SoftmaxTile(i) PROVE Types'
  OBVIOUS
<1>1. BarType'
  BY ArriveType, WaitType DEF Types, SoftmaxStart, SoftmaxTile
<1>2. SmType'
  <2>1. sm[i] \in SmRecord /\ 1 - sm[i].cPh \in Bit
    BY StageSlot DEF Types, SmType, SmRecord
  <2>2. \/ sm' = [sm EXCEPT ![i] = [sm[i] EXCEPT !.at = "tile"]]
        \/ sm' = [sm EXCEPT ![i] = [sm[i] EXCEPT !.at = "s", !.cPh = 1 - sm[i].cPh]]
    BY DEF SoftmaxStart, SoftmaxTile
  <2>3. /\ [sm[i] EXCEPT !.at = "tile"] \in SmRecord
        /\ [sm[i] EXCEPT !.at = "s", !.cPh = 1 - sm[i].cPh] \in SmRecord
    BY <2>1 DEF SmRecord
  <2> QED
    BY <2>2, <2>3, SoftmaxUpdate DEF Types
<1> QED
  BY <1>1, <1>2
     DEF Types, SoftmaxStart, SoftmaxTile, MemType, TmaType, TcType, LdType, MmType, CoType, EpType

LEMMA SoftmaxLoadSTypes == ASSUME NEW i \in Stage PROVE Types /\ SoftmaxLoadS(i) => Types'
<1> SUFFICES ASSUME Types, SoftmaxLoadS(i) PROVE Types'
  OBVIOUS
<1>1. BarType'
  BY WaitType DEF Types, SoftmaxLoadS
<1>2. MemType'
  BY PutDomain DEF Types, MemType, SoftmaxLoadS
<1>3. SmType'
  <2> DEFINE ok == mem[<<"S", i>>] = STag(sm[i].t, sm[i].k)
  <2>1. ok \in BOOLEAN /\ sm[i] \in SmRecord
    BY DEF Types, SmType
  <2>2. sm' = [sm EXCEPT ![i] = [sm[i] EXCEPT !.at = "scale", !.ok = ok]]
    BY DEF SoftmaxLoadS
  <2> HIDE DEF ok
  <2>3. [sm[i] EXCEPT !.at = "scale", !.ok = ok] \in SmRecord
    BY <2>1 DEF SmRecord
  <2> QED
    BY <2>2, <2>3, SoftmaxUpdate DEF Types
<1> QED
  BY <1>1, <1>2, <1>3
     DEF Types, SoftmaxLoadS, TmaType, TcType, LdType, MmType, CoType, EpType

\* The steps that publish a store.
LEMMA SoftmaxStoreTypes ==
    ASSUME NEW i \in Stage
    PROVE  Types /\ (SoftmaxScale(i) \/ SoftmaxStoreP(i) \/ SoftmaxStoreP2(i)) => Types'
<1> SUFFICES ASSUME Types, SoftmaxScale(i) \/ SoftmaxStoreP(i) \/ SoftmaxStoreP2(i) PROVE Types'
  OBVIOUS
<1>1. BarType'
  BY ArriveType DEF Types, SoftmaxScale, SoftmaxStoreP, SoftmaxStoreP2
<1>2. MemType'
  BY PutDomain DEF MemType, SoftmaxScale, SoftmaxStoreP, SoftmaxStoreP2
<1>3. SmType'
  <2>1. PICK p \in {"plo", "phi", "corr"} : sm' = [sm EXCEPT ![i] = [sm[i] EXCEPT !.at = p]]
    BY DEF SoftmaxScale, SoftmaxStoreP, SoftmaxStoreP2
  <2>2. [sm[i] EXCEPT !.at = p] \in SmRecord
    BY DEF Types, SmType, SmRecord
  <2> QED
    BY <2>1, <2>2, SoftmaxUpdate DEF Types
<1>4. UNCHANGED <<tma, tc, ld, mm, co, ep>>
  BY DEF SoftmaxScale, SoftmaxStoreP, SoftmaxStoreP2
<1> QED
  BY <1>1, <1>2, <1>3, <1>4 DEF Types, TmaType, TcType, LdType, MmType, CoType, EpType

LEMMA SoftmaxWaitCorrTypes == ASSUME NEW i \in Stage PROVE Types /\ SoftmaxWaitCorr(i) => Types'
<1> SUFFICES ASSUME Types, SoftmaxWaitCorr(i) PROVE Types'
  OBVIOUS
<1>1. BarType'
  BY WaitType DEF Types, SoftmaxWaitCorr
<1>2. MemType'
  BY PutDomain DEF Types, MemType, SoftmaxWaitCorr
<1>3. SmType'
  <2> DEFINE next == [sm[i] EXCEPT !.sPh = 1 - sm[i].sPh, !.cPh = 1 - sm[i].cPh]
  <2>1. next \in SmRecord
    <3>1. sm[i] \in SmRecord /\ 1 - sm[i].sPh \in Bit /\ 1 - sm[i].cPh \in Bit
      BY StageSlot DEF Types, SmType, SmRecord
    <3> QED
      BY <3>1 DEF SmRecord
  <2>2. \/ sm' = [sm EXCEPT ![i] = [next EXCEPT !.at = "s", !.k = next.k + 1]]
        \/ sm' = [sm EXCEPT ![i] = [next EXCEPT !.at = "sum"]]
    BY DEF SoftmaxWaitCorr
  <2> HIDE DEF next
  <2>3. next.k + 1 \in Int
    BY <2>1 DEF SmRecord
  <2>4. /\ [next EXCEPT !.at = "s", !.k = next.k + 1] \in SmRecord
        /\ [next EXCEPT !.at = "sum"] \in SmRecord
    BY <2>1, <2>3 DEF SmRecord
  <2> QED
    BY <2>2, <2>4, SoftmaxUpdate DEF Types
<1> QED
  BY <1>1, <1>2, <1>3
     DEF Types, SoftmaxWaitCorr, TmaType, TcType, LdType, MmType, CoType, EpType

LEMMA SoftmaxSumTypes == ASSUME NEW i \in Stage PROVE Types /\ SoftmaxSum(i) => Types'
<1> SUFFICES ASSUME Types, SoftmaxSum(i) PROVE Types'
  OBVIOUS
<1>1. BarType'
  BY ArriveType DEF Types, SoftmaxSum
<1>2. MemType'
  BY PutDomain DEF MemType, SoftmaxSum
<1>3. SmType'
  <2>1. PICK p \in {"tile", "end"} :
            sm' = [sm EXCEPT ![i] = [sm[i] EXCEPT !.at = p, !.t = sm[i].t + 1, !.k = 1]]
    BY DEF SoftmaxSum
  <2>2. sm[i] \in SmRecord /\ sm[i].t + 1 \in Int /\ 1 \in Int
    BY DEF Types, SmType, SmRecord
  <2>3. [sm[i] EXCEPT !.at = p, !.t = sm[i].t + 1, !.k = 1] \in SmRecord
    BY <2>2 DEF SmRecord
  <2> QED
    BY <2>1, <2>3, SoftmaxUpdate DEF Types
<1> QED
  BY <1>1, <1>2, <1>3 DEF Types, SoftmaxSum, TmaType, TcType, LdType, MmType, CoType, EpType

-----------------------------------------------------------------------------
(* The correction warpgroup. *)

LEMMA CoFlips ==
    ASSUME NEW c \in CoRecord
    PROVE  /\ 1 - c.cPh \in Bit /\ 1 - c.oPh \in Bit /\ 1 - c.ePh \in Bit
           /\ c.k + 1 \in Int /\ c.t + 1 \in Int /\ 2 \in Int
BY StageSlot DEF CoRecord

LEMMA CorrFirstTypes == Types /\ (CorrStart \/ CorrFirst) => Types'
<1> SUFFICES ASSUME Types, CorrStart \/ CorrFirst PROVE Types'
  OBVIOUS
<1>1. BarType'
  BY ArriveType, WaitType DEF Types, CorrStart, CorrFirst
<1>2. CoType'
  <2>1. co \in CoRecord
    BY DEF Types, CoType
  <2>2. \/ co' = [co EXCEPT !.at = "first"]
        \/ co' = [co EXCEPT !.st = 1]
        \/ co' = [co EXCEPT !.at = "scale", !.st = 0, !.k = 2, !.cPh = 1 - co.cPh]
        \/ co' = [co EXCEPT !.at = "sum", !.st = 0, !.k = 2, !.cPh = 1 - co.cPh]
    BY DEF CorrStart, CorrFirst
  <2> QED
    BY ZenonT(40), <2>1, <2>2, CoFlips, StageSlot DEF CoRecord, CoType
<1>3. UNCHANGED <<mem, tma, tc, ld, mm, sm, ep>>
  BY DEF CorrStart, CorrFirst
<1> QED
  BY <1>1, <1>2, <1>3 DEF Types, MemType, TmaType, TcType, LdType, MmType, SmType, EpType

LEMMA BeginRescaleTypes ==
    ASSUME MemType, NEW c \in CoRecord, BeginRescale(c)
    PROVE  MemType' /\ CoType'
<1>1. MemType'
  BY DEF BeginRescale, MemType
<1>2. CoType'
  <2> DEFINE ok == c.ok /\ mem[<<"O", c.st>>] = Folded(c.t, c.k - 1)
  <2>1. co' = [c EXCEPT !.at = "rescale", !.ok = ok] /\ ok \in BOOLEAN
    BY DEF BeginRescale
  <2> HIDE DEF ok
  <2> QED
    BY <2>1 DEF CoRecord, CoType
<1> QED
  BY <1>1, <1>2

LEMMA CorrScaleTypes == Types /\ CorrToRescale => Types'
<1> SUFFICES ASSUME Types, CorrToRescale PROVE Types'
  OBVIOUS
<1>1. BarType'
  BY WaitType DEF Types, CorrToRescale, CorrScale, CorrWaitO
<1>2. co \in CoRecord /\ MemType
  BY DEF Types, CoType
<1>3. MemType' /\ CoType'
  <2>1. CASE CorrScale
    <3> DEFINE ok == mem[<<"sScale", co.st>>] = ScaleTag(co.t, co.k)
               c  == [co EXCEPT !.ok = ok]
    <3>1. ok \in BOOLEAN
      OBVIOUS
    <3>2. \/ co' = [c EXCEPT !.at = "acc"] /\ UNCHANGED mem
          \/ BeginRescale(c)
      BY <2>1 DEF CorrScale
    <3> HIDE DEF ok
    <3>3. c \in CoRecord
      BY <1>2, <3>1 DEF CoRecord
    <3> HIDE DEF c
    <3>4. CASE co' = [c EXCEPT !.at = "acc"] /\ UNCHANGED mem
      BY <1>2, <3>3, <3>4 DEF CoRecord, CoType, MemType
    <3> QED
      BY <1>2, <3>2, <3>3, <3>4, BeginRescaleTypes
  <2>2. CASE CorrWaitO
    BY <1>2, <2>2, BeginRescaleTypes DEF CorrWaitO
  <2> QED
    BY <2>1, <2>2 DEF CorrToRescale
<1>4. UNCHANGED <<tma, tc, ld, mm, sm, ep>>
  BY DEF CorrToRescale
<1> QED
  BY <1>1, <1>3, <1>4 DEF Types, TmaType, TcType, LdType, MmType, SmType, EpType

LEMMA CorrRescaledTypes == Types /\ CorrRescaled => Types'
<1> SUFFICES ASSUME Types, CorrRescaled PROVE Types'
  OBVIOUS
<1>1. BarType'
  BY ArriveType DEF Types, CorrRescaled
<1>2. MemType'
  BY DEF Types, MemType, CorrRescaled
<1>3. CoType'
  <2> DEFINE oPh == IF Decoupled THEN 1 - co.oPh ELSE co.oPh
  <2>1. co \in CoRecord /\ oPh \in Bit
    BY CoFlips DEF Types, CoType, CoRecord
  <2>2. \/ co' = [co EXCEPT !.at = "scale", !.st = 1]
        \/ \E p \in {"sum", "scale"} :
              co' = [co EXCEPT !.cPh = 1 - co.cPh, !.oPh = oPh, !.at = p, !.st = 0, !.k = co.k + 1]
    BY DEF CorrRescaled
  <2> HIDE DEF oPh
  <2> QED
    BY ZenonT(40), <2>1, <2>2, CoFlips, StageSlot DEF CoRecord, CoType
<1> QED
  BY <1>1, <1>2, <1>3 DEF Types, CorrRescaled, TmaType, TcType, LdType, MmType, SmType, EpType

LEMMA CorrSumTypes == Types /\ (CorrSum \/ CorrWaitLastO \/ CorrWaitBuffer) => Types'
<1> SUFFICES ASSUME Types, CorrSum \/ CorrWaitLastO \/ CorrWaitBuffer PROVE Types'
  OBVIOUS
<1>1. BarType'
  BY WaitType DEF Types, CorrSum, CorrWaitLastO, CorrWaitBuffer
<1>2. MemType'
  BY PutDomain DEF Types, MemType, CorrSum, CorrWaitLastO, CorrWaitBuffer
<1>3. CoType'
  <2> DEFINE ok == mem[<<"sScale", co.st>>] = ScaleTag(co.t, Blocks[co.t] + 1)
  <2>1. co \in CoRecord /\ ok \in BOOLEAN
    BY DEF Types, CoType
  <2>2. \/ co' = [co EXCEPT !.at = "o", !.ok = ok]
        \/ co' = [co EXCEPT !.at = "write"]
        \/ co' = [co EXCEPT !.at = "buffer"]
    BY DEF CorrSum, CorrWaitLastO, CorrWaitBuffer
  <2> HIDE DEF ok
  <2> QED
    BY <2>1, <2>2 DEF CoRecord, CoType
<1>4. UNCHANGED <<tma, tc, ld, mm, sm, ep>>
  BY DEF CorrSum, CorrWaitLastO, CorrWaitBuffer
<1> QED
  BY <1>1, <1>2, <1>3, <1>4 DEF Types, TmaType, TcType, LdType, MmType, SmType, EpType

LEMMA CorrWriteOTypes == Types /\ CorrWriteO => Types'
<1> SUFFICES ASSUME Types, CorrWriteO PROVE Types'
  OBVIOUS
<1>1. BarType'
  BY ArriveType DEF Types, CorrWriteO
<1>2. MemType'
  BY PutDomain DEF MemType, CorrWriteO
<1>3. CoType'
  <2>1. co \in CoRecord
    BY DEF Types, CoType
  <2>2. \/ co' = [co EXCEPT !.at = "sum", !.st = 1]
        \/ \E p \in {"first", "end"} :
              co' = [co EXCEPT !.at = p, !.t = co.t + 1, !.st = 0, !.oPh = 1 - co.oPh,
                               !.cPh = 1 - co.cPh, !.ePh = 1 - co.ePh]
    BY DEF CorrWriteO
  <2> QED
    BY ZenonT(40), <2>1, <2>2, CoFlips, StageSlot DEF CoRecord, CoType
<1> QED
  BY <1>1, <1>2, <1>3 DEF Types, CorrWriteO, TmaType, TcType, LdType, MmType, SmType, EpType

-----------------------------------------------------------------------------
(* The epilogue warp. *)

LEMMA EpilogueTypes == Types /\ Epilogue => Types'
<1> SUFFICES ASSUME Types, Epilogue PROVE Types'
  OBVIOUS
<1>1. BarType'
  BY ArriveType, WaitType DEF Types, Epilogue, EpiStore, EpiFree
<1>2. EpType'
  <2>1. ep \in [at : {"store", "free", "end"}, t : Int, st : Stage, ph : Bit]
    BY DEF Types, EpType
  <2>2. ep.t + 1 \in Int /\ 1 - ep.ph \in Bit
    BY <2>1, StageSlot
  <2>3. \/ ep' = [ep EXCEPT !.st = 1]
        \/ ep' = [ep EXCEPT !.at = "free", !.st = 0]
        \/ \E p \in {"store", "end"} :
              ep' = [ep EXCEPT !.at = p, !.t = ep.t + 1, !.st = 0, !.ph = 1 - ep.ph]
    BY DEF Epilogue, EpiStore, EpiFree
  <2> QED
    BY <2>1, <2>2, <2>3, StageSlot DEF EpType
<1>3. UNCHANGED <<mem, tma, tc, ld, mm, sm, co>>
  BY DEF Epilogue, EpiStore, EpiFree
<1> QED
  BY <1>1, <1>2, <1>3 DEF Types, MemType, TmaType, TcType, LdType, MmType, SmType, CoType

-----------------------------------------------------------------------------

LEMMA InitTypes == Init => Types
<1> SUFFICES ASSUME Init PROVE Types
  OBVIOUS
<1>1. BarType
  BY CountOK DEF Init, BarType, BarRecord, NewBarrier
<1>2. MemType /\ TmaType /\ TcType
  BY DEF Init, MemType, TmaType, TcType
<1>3. /\ 0 \in Int /\ 1 \in Int /\ 2 \in Int /\ 0 \in Bit /\ 1 \in Bit
      /\ TRUE \in BOOLEAN
  BY DEF Bit
<1>4. LdType
  BY <1>3, StageSlot DEF Init, LdType
<1>5. MmType
  BY <1>3, StageSlot DEF Init, MmType, MmRecord
<1>6. SmType
  BY <1>3, StageSlot DEF Init, SmType, SmRecord
<1>7. CoType
  BY <1>3, StageSlot DEF Init, CoType, CoRecord
<1>8. EpType
  BY <1>3, StageSlot DEF Init, EpType
<1> QED
  BY <1>1, <1>2, <1>4, <1>5, <1>6, <1>7, <1>8 DEF Types

LEMMA NextTypes == Types /\ [Next]_vars => Types'
<1> SUFFICES ASSUME Types, [Next]_vars PROVE Types'
  OBVIOUS
<1>1. CASE Load
  BY <1>1, LoadQTypes, LoadKVTypes DEF Load
<1>2. CASE TmaLand
  BY <1>2, TmaLandTypes
<1>3. CASE Mma
  BY <1>3, MmaWaitTypes, MmaIssueQKTypes, MmaIssuePVTypes, MmaIssuePV2Types, MmaDeallocTypes
     DEF Mma
<1>4. CASE TensorCore
  BY <1>4, TcStartTypes, TcFinishTypes DEF TensorCore
<1>5. ASSUME NEW i \in Stage, Softmax(i) PROVE Types'
  BY <1>5, SoftmaxWaitTypes, SoftmaxLoadSTypes, SoftmaxStoreTypes, SoftmaxWaitCorrTypes,
     SoftmaxSumTypes DEF Softmax
<1>6. CASE Correction
  BY <1>6, CorrFirstTypes, CorrScaleTypes, CorrRescaledTypes, CorrSumTypes, CorrWriteOTypes
     DEF Correction
<1>7. CASE Epilogue
  BY <1>7, EpilogueTypes
<1>8. CASE UNCHANGED vars
  BY <1>8 DEF vars, Types, BarType, MemType, TmaType, TcType, LdType, MmType, SmType, CoType, EpType
<1> QED
  BY <1>1, <1>2, <1>3, <1>4, <1>5, <1>6, <1>7, <1>8 DEF Next, Halt

\* In every build, whatever the roles' order, each barrier record, buffer name,
\* tensor-core operation, ring index and phase bit stays of its kind: no role
\* waits on, writes to or commits to anything the kernel does not allocate.
THEOREM CtaTypes == Spec => []TypeOK
<1>1. Init => Types
  BY InitTypes
<1>2. Types /\ [Next]_vars => Types'
  BY NextTypes
<1>3. Types => TypeOK
  BY TypesOK
<1> QED
  BY <1>1, <1>2, <1>3, PTL DEF Spec

-----------------------------------------------------------------------------
(* Arrivals, and the phases they complete. *)

If1(p) == IF p THEN 1 ELSE 0

Arrivals(b) == Count(b) * bar[b].done + Count(b) - bar[b].left
Arr(n, i)   == Arrivals(<<n, i>>)
Done(n, i)  == bar[<<n, i>>].done
Seen(n, i)  == bar[<<n, i>>].seen

\* Arrivals still to come from a bulk load, and from an operation that was issued.
Landing(b)   == \E x \in tma : x.full = b
Committed(b) == \E j \in DOMAIN tc : b \in tc[j].signals

BarOK == \A b \in Barrier : bar[b].left \in 1..Count(b)

-----------------------------------------------------------------------------
(* What an action does to the barriers: the waits it passes, the arrivals  *)
(* it makes.                                                               *)

Moves(waits, arrivals) ==
    \A b \in Barrier :
        /\ bar'[b] \in BarRecord /\ bar'[b].left \in 1..Count(b)
        /\ bar'[b].seen = bar[b].seen + If1(b \in waits)
        /\ Arrivals(b)' = Arrivals(b) + If1(b \in arrivals)
        /\ bar[b].done <= bar'[b].done

LEMMA OneArrival ==
    ASSUME NEW c \in 1..3, NEW r \in BarRecord, r.left \in 1..c
    PROVE  LET n == ArriveAt(r, c)
           IN  /\ n \in BarRecord /\ n.left \in 1..c /\ n.seen = r.seen /\ r.done <= n.done
               /\ c * n.done + c - n.left = c * r.done + c - r.left + 1
<1>1. CASE r.left = 1
  <2>1. ArriveAt(r, c) = [r EXCEPT !.done = r.done + 1, !.left = c]
    BY <1>1 DEF ArriveAt
  <2>2. c * (r.done + 1) = c * r.done + c
    <3>1. PICK d \in Nat : d = r.done
      BY DEF BarRecord
    <3>2. c * (d + 1) = c * d + c
      OBVIOUS
    <3> QED
      BY <3>1, <3>2
  <2>3. r.done \in Nat /\ r.done + 1 \in Nat /\ c * r.done \in Nat
    BY DEF BarRecord
  <2> DEFINE n == ArriveAt(r, c)
  <2>4. n \in BarRecord /\ n.left = c /\ n.seen = r.seen /\ n.done = r.done + 1
    BY <2>1, <2>3 DEF BarRecord
  <2> HIDE DEF n
  <2>5. c * n.done + c - n.left = c * r.done + c - r.left + 1
    BY <1>1, <2>2, <2>3, <2>4
  <2>6. n \in BarRecord /\ n.left \in 1..c /\ n.seen = r.seen /\ r.done <= n.done
    BY <2>3, <2>4
  <2> QED
    BY <2>5, <2>6 DEF n
<1>2. CASE r.left # 1
  <2>1. ArriveAt(r, c) = [r EXCEPT !.left = r.left - 1]
    BY <1>2 DEF ArriveAt
  <2>2. r.left - 1 \in 1..3 /\ r.left - 1 \in 1..c /\ r.done \in Nat /\ c * r.done \in Nat
    BY <1>2 DEF BarRecord
  <2> QED
    BY <1>2, <2>1, <2>2 DEF BarRecord
<1> QED
  BY <1>1, <1>2

LEMMA ArriveMoves == ASSUME BarType, BarOK, NEW a, Arrive(a) PROVE Moves({}, a)
<1> SUFFICES ASSUME NEW b \in Barrier
             PROVE  /\ bar'[b] \in BarRecord /\ bar'[b].left \in 1..Count(b)
                    /\ bar'[b].seen = bar[b].seen
                    /\ Arrivals(b)' = Arrivals(b) + If1(b \in a)
                    /\ bar[b].done <= bar'[b].done
  BY DEF Moves, If1, BarType, BarRecord
<1>1. bar[b] \in BarRecord /\ bar[b].left \in 1..Count(b) /\ Count(b) \in 1..3
  BY CountOK DEF BarType, BarOK
<1>2. bar'[b] = IF b \in a THEN ArriveAt(bar[b], Count(b)) ELSE bar[b]
  BY DEF Arrive
<1>3. Count(b) * bar[b].done \in Int /\ bar[b].left \in Int /\ Count(b) \in Int
  BY <1>1 DEF BarRecord
<1> QED
  BY <1>1, <1>2, <1>3, OneArrival DEF Arrivals, If1, BarRecord

LEMMA WaitMoves ==
    ASSUME BarType, BarOK, NEW w, NEW parity, NEW a, WaitThenArrive(w, parity, a)
    PROVE  Moves({w}, a)
<1> SUFFICES ASSUME NEW b \in Barrier
             PROVE  /\ bar'[b] \in BarRecord /\ bar'[b].left \in 1..Count(b)
                    /\ bar'[b].seen = bar[b].seen + If1(b = w)
                    /\ Arrivals(b)' = Arrivals(b) + If1(b \in a)
                    /\ bar[b].done <= bar'[b].done
  BY DEF Moves, If1
<1> DEFINE r == IF b = w THEN Pass(bar[b]) ELSE bar[b]
<1>1. bar[b] \in BarRecord /\ bar[b].left \in 1..Count(b) /\ Count(b) \in 1..3
  BY CountOK DEF BarType, BarOK
<1>2. bar'[b] = IF b \in a THEN ArriveAt(r, Count(b)) ELSE r
  BY DEF WaitThenArrive
<1>3. Count(b) * bar[b].done \in Int /\ bar[b].left \in Int /\ Count(b) \in Int
  BY <1>1 DEF BarRecord
<1>4. r \in BarRecord /\ r.left = bar[b].left /\ r.done = bar[b].done
      /\ r.seen = bar[b].seen + If1(b = w)
  BY <1>1, PassRecord DEF Pass, BarRecord, If1
<1> HIDE DEF r
<1> QED
  BY <1>1, <1>2, <1>3, <1>4, OneArrival DEF Arrivals, If1, BarRecord

LEMMA StillMoves == ASSUME BarType, BarOK, UNCHANGED bar PROVE Moves({}, {})
<1> SUFFICES ASSUME NEW b \in Barrier
             PROVE  /\ bar'[b] \in BarRecord /\ bar'[b].left \in 1..Count(b)
                    /\ bar'[b].seen = bar[b].seen + 0
                    /\ Arrivals(b)' = Arrivals(b) + 0
                    /\ bar[b].done <= bar'[b].done
  BY DEF Moves, If1
<1>1. bar[b] \in BarRecord /\ bar[b].left \in 1..Count(b) /\ Count(b) \in 1..3
  BY CountOK DEF BarType, BarOK
<1>2. Count(b) * bar[b].done \in Int
  BY <1>1 DEF BarRecord
<1> QED
  BY <1>1, <1>2 DEF Arrivals, BarRecord

\* A barrier of one arrival per phase has completed as many phases.
LEMMA OneEach ==
    ASSUME BarType, BarOK, NEW b \in Barrier, Count(b) = 1
    PROVE  Arrivals(b) = bar[b].done /\ bar[b].done \in Nat /\ bar[b].seen \in Nat
BY DEF BarType, BarRecord, BarOK, Arrivals

LEMMA BarNumbers ==
    ASSUME BarType, BarOK, NEW b \in Barrier
    PROVE  bar[b].done \in Nat /\ bar[b].seen \in Nat /\ Arrivals(b) \in Int
<1>1. bar[b] \in BarRecord /\ bar[b].left \in 1..Count(b) /\ Count(b) \in 1..3
  BY CountOK DEF BarType, BarOK
<1>2. Count(b) * bar[b].done \in Int
  BY <1>1 DEF BarRecord
<1> QED
  BY <1>1, <1>2 DEF Arrivals, BarRecord

LEMMA MovesKeeps ==
    ASSUME NEW w, NEW a, Moves(w, a), BarType'
    PROVE  BarOK'
BY DEF Moves, BarOK

-----------------------------------------------------------------------------
(* What an action leaves alone. *)

SeenKept(names) == \A b \in Barrier : b[1] \in names => bar'[b].seen = bar[b].seen
ArrKept(names)  == \A b \in Barrier : b[1] \in names => Arrivals(b)' = Arrivals(b)

LEMMA KeptSeen ==
    ASSUME BarType, BarOK, NEW w, NEW a, Moves(w, a), NEW names, \A b \in w : b[1] \notin names
    PROVE  SeenKept(names)
BY BarNumbers DEF Moves, SeenKept, If1

LEMMA KeptArr ==
    ASSUME BarType, BarOK, NEW w, NEW a, Moves(w, a), NEW names, \A b \in a : b[1] \notin names
    PROVE  ArrKept(names)
BY BarNumbers DEF Moves, ArrKept, If1

LEMMA StageIs == Stage = {0, 1} /\ 0 \in Stage /\ 1 \in Stage
BY DEF Stage

LEMMA NamesAre ==
    /\ \A i \in Stage : /\ <<"q_full", i>> \in Barrier /\ <<"q_empty", i>> \in Barrier
                        /\ <<"S_full", i>> \in Barrier /\ <<"O_full", i>> \in Barrier
                        /\ <<"P_full_O", i>> \in Barrier /\ <<"P_full_2", i>> \in Barrier
                        /\ <<"corr_full", i>> \in Barrier /\ <<"corr_empty", i>> \in Barrier
                        /\ <<"epi_full", i>> \in Barrier /\ <<"epi_empty", i>> \in Barrier
                        /\ <<"sfqk", i>> \in Barrier
    /\ \A s \in Slot : <<"kv_full", s>> \in Barrier /\ <<"kv_empty", s>> \in Barrier
    /\ <<"dealloc", 0>> \in Barrier
BY BarrierNames DEF StagedBarrier

LEMMA OnlyThese ==
    ASSUME NEW b \in Barrier
    PROVE  \/ b = <<"dealloc", 0>>
           \/ \E i \in Stage : \E n \in StagedBarrier : b = <<n, i>>
           \/ \E s \in Slot : b = <<"kv_full", s>> \/ b = <<"kv_empty", s>>
BY DEF Barrier

\* Barriers of one arrival: all but P_full_O and dealloc.
LEMMA Ones ==
    ASSUME BarType, BarOK, NEW b \in Barrier, b[1] \notin {"P_full_O", "dealloc"}
    PROVE  Arrivals(b) = bar[b].done /\ bar[b].done \in Nat /\ bar[b].seen \in Nat
<1>1. Count(b) = 1
  BY DEF Count
<1> QED
  BY <1>1, OneEach

-----------------------------------------------------------------------------
(* The load warp: what it has loaded into Q and into each slot of the ring. *)

QLoaded(i) == ld.t - 1 + If1(IF i = 0 THEN ld.at \in {"k", "q1", "v"}
                                      ELSE ld.at = "v" \/ (ld.at = "k" /\ ld.k > 1))
LdPlace == /\ ld.at \in {"q0", "q1"} => ld.k = 1
           /\ ld.at # "end" => ld.t \in Tile /\ ld.k >= 1
           /\ ld.at = "end" => ld.k = 1
LdQ ==
    /\ \A i \in Stage : /\ Seen("q_empty", i) = QLoaded(i)
                        /\ Arr("q_full", i) = QLoaded(i) - If1(Landing(<<"q_full", i>>))
    /\ ld.qPh = (QLoaded(1) + 1) % 2
LdRing ==
    /\ \A s \in Slot :
        /\ Arr("kv_full", s) = Seen("kv_empty", s) - If1(Landing(<<"kv_full", s>>))
        /\ Seen("kv_empty", s) = Seen("kv_empty", ld.idx) + If1(s < ld.idx)
    /\ ld.ph = (Seen("kv_empty", ld.idx) + 1) % 2
TmaApart ==
    /\ \A x, y \in tma : x.full = y.full => x = y
    /\ \A x \in tma : \/ \E i \in Stage : x.full = <<"q_full", i>> /\ x.dst = <<"Q", i>>
                      \/ \E s \in Slot : x.full = <<"kv_full", s>> /\ x.dst = <<"KV", s>>
LdInv == LdPlace /\ LdQ /\ LdRing /\ TmaApart

LdWaits == {"q_empty", "kv_empty"}
LdGives == {"q_full", "kv_full"}

LEMMA LdKept ==
    ASSUME LdInv, LdType, SeenKept(LdWaits), ArrKept(LdGives), UNCHANGED <<ld, tma>>
    PROVE  LdInv'
<1>1. \A b \in Barrier : b[1] \in LdWaits => bar'[b].seen = bar[b].seen
  BY DEF SeenKept
<1>2. \A b \in Barrier : b[1] \in LdGives => Arrivals(b)' = Arrivals(b)
  BY DEF ArrKept
<1>3. \A i \in Stage : /\ Seen("q_empty", i)' = Seen("q_empty", i)
                       /\ Arr("q_full", i)' = Arr("q_full", i)
                       /\ QLoaded(i)' = QLoaded(i)
  BY <1>1, <1>2, NamesAre DEF LdWaits, LdGives, Seen, Arr, QLoaded
<1>4. \A s \in Slot : /\ Seen("kv_empty", s)' = Seen("kv_empty", s)
                      /\ Arr("kv_full", s)' = Arr("kv_full", s)
  BY <1>1, <1>2, NamesAre DEF LdWaits, LdGives, Seen, Arr
<1>5. \A b : Landing(b)' = Landing(b)
  BY DEF Landing
<1>6. LdQ'
  BY <1>3, <1>5, StageIs DEF LdInv, LdQ
<1>7. LdRing'
  <2>1. ld.idx \in Slot
    BY DEF LdType
  <2> QED
    BY <1>4, <1>5, <2>1 DEF LdInv, LdRing
<1>8. LdPlace' /\ TmaApart'
  BY DEF LdInv, LdPlace, TmaApart
<1> QED
  BY <1>6, <1>7, <1>8 DEF LdInv

-----------------------------------------------------------------------------
(* The MMA warp: which items of the ring and which Q it has in hand.       *)

Tiles  == Len(Blocks)
Last   == mm.t \in Tile /\ mm.k = Blocks[mm.t]
MmOver == mm.at \in {"dealloc", "end"}
MmPlace ==
    /\ mm.t \in 1..(Tiles + 1)
    /\ MmOver <=> mm.t = Tiles + 1
    /\ MmOver => mm.k = 0 /\ mm.st = 0
    /\ ~MmOver => mm.k \in 0..Blocks[mm.t]
    /\ mm.k = 0 => mm.at \in {"q", "k", "qk", "dealloc", "end"}
    /\ mm.at = "q" => mm.k = 0
    /\ mm.at \in {"v", "k"} => mm.st = 0
    /\ mm.at \in {"k", "qk"} => ~Last

\* The item at mm.idx is taken; V of the block is in hand besides it; V is that item.
HoldsNext == mm.at \in {"p", "p2", "qk"} \/ (mm.at = "q" /\ mm.st = 1)
HoldsV    == /\ mm.k > 0 /\ ~Last
             /\ IF Decoupled THEN mm.at \in {"k", "qk", "p", "p2"}
                ELSE \/ mm.at = "k"
                     \/ mm.at = "qk" /\ mm.st = 0
                     \/ mm.at \in {"p", "p2"} /\ mm.st = 1
VIsNext == mm.at \in {"p", "p2"} /\ ~HoldsV => mm.v = mm.idx

Holds(s)  == If1(HoldsNext /\ s = mm.idx) + If1(HoldsV /\ s = mm.v)
Before    == Seen("kv_full", mm.idx) - If1(HoldsNext)
QTaken(i) == mm.t - 1 + If1(~MmOver /\ (mm.k > 0 \/ i < mm.st \/ (i = mm.st /\ mm.at # "q")))
QGiven    == mm.t - 1 + If1(Last)

MmQ ==
    /\ \A i \in Stage : /\ Seen("q_full", i) = QTaken(i)
                        /\ Arr("q_empty", i) = QGiven - If1(Committed(<<"q_empty", i>>))
    /\ mm.qPh = (mm.t - 1 + If1(mm.k > 0)) % 2
MmRing ==
    /\ \A s \in Slot :
        /\ Arr("kv_empty", s) = Seen("kv_full", s) - Holds(s) - If1(Committed(<<"kv_empty", s>>))
        /\ Seen("kv_full", s) = Before + If1(s < mm.idx) + If1(HoldsNext /\ s = mm.idx)
    /\ mm.ph = Before % 2

\* No two operations release the same buffer, and none commits to another kind of
\* barrier; a PV whose second part is awaited is the last one issued.
CommitBarriers == ({"S_full", "O_full", "q_empty"} \X Stage) \cup ({"kv_empty"} \X Slot)
TcApart ==
    /\ \A i, j \in DOMAIN tc : i # j =>
          \A b \in tc[i].signals \cap tc[j].signals : b[1] \notin {"q_empty", "kv_empty"}
    /\ \A j \in DOMAIN tc : tc[j].signals \subseteq CommitBarriers
    /\ mm.at = "p2" => tc # <<>> /\ tc[Len(tc)].open /\ tc[Len(tc)].signals = {}
MmInv == MmPlace /\ VIsNext /\ MmQ /\ MmRing /\ TcApart

MmWaits == {"q_full", "kv_full"}
MmGives == {"q_empty", "kv_empty"}

LEMMA MmKept ==
    ASSUME MmInv, MmType, SeenKept(MmWaits), ArrKept(MmGives), UNCHANGED <<mm, tc>>
    PROVE  MmInv'
<1>1. \A b \in Barrier : b[1] \in MmWaits => bar'[b].seen = bar[b].seen
  BY DEF SeenKept
<1>2. \A b \in Barrier : b[1] \in MmGives => Arrivals(b)' = Arrivals(b)
  BY DEF ArrKept
<1>3. \A i \in Stage : Seen("q_full", i)' = Seen("q_full", i) /\ Arr("q_empty", i)' = Arr("q_empty", i)
  BY <1>1, <1>2, NamesAre DEF MmWaits, MmGives, Seen, Arr
<1>4. \A s \in Slot : Seen("kv_full", s)' = Seen("kv_full", s) /\ Arr("kv_empty", s)' = Arr("kv_empty", s)
  BY <1>1, <1>2, NamesAre DEF MmWaits, MmGives, Seen, Arr
<1>5. \A b : Committed(b)' = Committed(b)
  BY DEF Committed
<1>6. /\ MmOver' = MmOver /\ Last' = Last /\ HoldsNext' = HoldsNext /\ HoldsV' = HoldsV
      /\ \A i \in Stage : QTaken(i)' = QTaken(i)
  BY DEF MmOver, Last, HoldsNext, HoldsV, QTaken
<1>7. MmQ'
  BY <1>3, <1>5, <1>6 DEF MmInv, MmQ, QGiven
<1>8. MmRing'
  <2>1. mm.idx \in Slot /\ Before' = Before
    BY <1>4, <1>6 DEF MmType, MmRecord, Before
  <2>2. \A s \in Slot : Holds(s)' = Holds(s)
    BY <1>6 DEF Holds
  <2> QED
    BY <1>4, <1>5, <1>6, <2>1, <2>2 DEF MmInv, MmRing
<1>9. MmPlace' /\ VIsNext' /\ TcApart'
  BY <1>6 DEF MmInv, MmPlace, VIsNext, TcApart
<1> QED
  BY <1>7, <1>8, <1>9 DEF MmInv

-----------------------------------------------------------------------------
(* Each slot of the ring, and each of the two buffers of Q, is in one hand *)
(* at most: a load on its way, the MMA warp's, or a release on its way.    *)

RingBarriers == {"q_full", "q_empty", "kv_full", "kv_empty"}
Free(b)    == If1(b[1] \in StartsFree)
NotBehind(names) == \A b \in Barrier : b[1] \in names => bar[b].seen <= bar[b].done + Free(b)
OnTime(names) ==
    \A b \in Barrier : b[1] \in names =>
        bar[b].done - bar[b].seen \in (IF b[1] \in StartsFree THEN {-1, 0} ELSE {0, 1})

OperandInv == Types /\ BarOK /\ LdInv /\ MmInv /\ NotBehind(RingBarriers)

HoldsQ(i) == QTaken(i) - QGiven

LEMMA SlotFacts ==
    ASSUME OperandInv, NEW s \in Slot
    PROVE  /\ Arr("kv_full", s) \in Int /\ Arr("kv_empty", s) \in Int
           /\ Seen("kv_full", s) \in Int /\ Seen("kv_empty", s) \in Int
           /\ Arr("kv_full", s) = Done("kv_full", s) /\ Arr("kv_empty", s) = Done("kv_empty", s)
           /\ Done("kv_full", s) \in Nat /\ Seen("kv_full", s) \in Nat
           /\ Done("kv_empty", s) \in Nat /\ Seen("kv_empty", s) \in Nat
           /\ Seen("kv_full", s) <= Done("kv_full", s)
           /\ Seen("kv_empty", s) <= Done("kv_empty", s) + 1
           /\ Arr("kv_full", s) = Seen("kv_empty", s) - If1(Landing(<<"kv_full", s>>))
           /\ Arr("kv_empty", s) = Seen("kv_full", s) - Holds(s) - If1(Committed(<<"kv_empty", s>>))
           /\ Holds(s) \in 0..2
<1>1. <<"kv_full", s>> \in Barrier /\ <<"kv_empty", s>> \in Barrier
  BY NamesAre
<1>2. /\ Arr("kv_full", s) \in Int /\ Arr("kv_empty", s) \in Int
      /\ Seen("kv_full", s) \in Int /\ Seen("kv_empty", s) \in Int
      /\ Arr("kv_full", s) = Done("kv_full", s) /\ Arr("kv_empty", s) = Done("kv_empty", s)
      /\ Done("kv_full", s) \in Nat /\ Seen("kv_full", s) \in Nat
      /\ Done("kv_empty", s) \in Nat /\ Seen("kv_empty", s) \in Nat
  BY <1>1, Ones DEF OperandInv, Types, Arr, Done, Seen
<1>3. Seen("kv_full", s) <= Done("kv_full", s) /\ Seen("kv_empty", s) <= Done("kv_empty", s) + 1
  BY <1>1, <1>2 DEF OperandInv, NotBehind, RingBarriers, Free, StartsFree, If1, Done, Seen
<1>4. Holds(s) \in 0..2
  BY DEF Holds, If1
<1> QED
  BY <1>2, <1>3, <1>4 DEF OperandInv, LdInv, LdRing, MmInv, MmRing

LEMMA OneHand ==
    ASSUME OperandInv, NEW s \in Slot
    PROVE  /\ Holds(s) + If1(Committed(<<"kv_empty", s>>)) + If1(Landing(<<"kv_full", s>>)) <= 1
           /\ Holds(s) \in {0, 1}
           /\ Done("kv_full", s) - Seen("kv_full", s) \in {0, 1}
           /\ Done("kv_empty", s) - Seen("kv_empty", s) \in {-1, 0}
           /\ Done("kv_empty", s) = Seen("kv_empty", s) => ~Landing(<<"kv_full", s>>)
<1>1. If1(Committed(<<"kv_empty", s>>)) \in {0, 1} /\ If1(Landing(<<"kv_full", s>>)) \in {0, 1}
  BY DEF If1
<1>2. Done("kv_empty", s) = Seen("kv_empty", s) => If1(Landing(<<"kv_full", s>>)) = 0
  BY <1>1, SlotFacts
<1> QED
  BY <1>1, <1>2, SlotFacts DEF If1

LEMMA QFacts ==
    ASSUME OperandInv, NEW i \in Stage
    PROVE  /\ Arr("q_full", i) \in Int /\ Arr("q_empty", i) \in Int
           /\ Seen("q_full", i) \in Int /\ Seen("q_empty", i) \in Int
           /\ Arr("q_full", i) = Done("q_full", i) /\ Arr("q_empty", i) = Done("q_empty", i)
           /\ Done("q_full", i) \in Nat /\ Seen("q_full", i) \in Nat
           /\ Done("q_empty", i) \in Nat /\ Seen("q_empty", i) \in Nat
           /\ Seen("q_full", i) <= Done("q_full", i)
           /\ Seen("q_empty", i) <= Done("q_empty", i) + 1
           /\ Arr("q_full", i) = Seen("q_empty", i) - If1(Landing(<<"q_full", i>>))
           /\ Arr("q_empty", i) = QGiven - If1(Committed(<<"q_empty", i>>))
           /\ Seen("q_full", i) = QTaken(i) /\ QTaken(i) \in Int /\ QGiven \in Int
           /\ HoldsQ(i) \in {0, 1}
<1>1. <<"q_full", i>> \in Barrier /\ <<"q_empty", i>> \in Barrier
  BY NamesAre
<1>2. /\ Arr("q_full", i) \in Int /\ Arr("q_empty", i) \in Int
      /\ Seen("q_full", i) \in Int /\ Seen("q_empty", i) \in Int
      /\ Arr("q_full", i) = Done("q_full", i) /\ Arr("q_empty", i) = Done("q_empty", i)
      /\ Done("q_full", i) \in Nat /\ Seen("q_full", i) \in Nat
      /\ Done("q_empty", i) \in Nat /\ Seen("q_empty", i) \in Nat
  BY <1>1, Ones DEF OperandInv, Types, Arr, Done, Seen
<1>3. Seen("q_full", i) <= Done("q_full", i) /\ Seen("q_empty", i) <= Done("q_empty", i) + 1
  BY <1>1, <1>2 DEF OperandInv, NotBehind, RingBarriers, Free, StartsFree, If1, Done, Seen
<1>4. Last => ~MmOver /\ mm.k > 0
  <2>1. Last => Blocks[mm.t] \in Nat \ {0} /\ mm.t # Tiles + 1
    BY ConfigAssumption DEF Last, Tile, Tiles
  <2> QED
    BY <2>1 DEF Last, OperandInv, MmInv, MmPlace
<1>5. QTaken(i) \in Int /\ QGiven \in Int /\ HoldsQ(i) \in {0, 1}
  <2>1. PICK n \in Int : n = mm.t - 1
    BY DEF OperandInv, Types, MmType, MmRecord
  <2>2. QGiven = n + If1(Last)
    BY <2>1 DEF QGiven
  <2>3. QTaken(i) = n + If1(~MmOver /\ (mm.k > 0 \/ i < mm.st \/ (i = mm.st /\ mm.at # "q")))
    BY <2>1 DEF QTaken
  <2> QED
    BY <1>4, <2>2, <2>3 DEF HoldsQ, If1
<1> QED
  BY <1>2, <1>3, <1>5 DEF OperandInv, LdInv, LdQ, MmInv, MmQ

LEMMA OneHandQ ==
    ASSUME OperandInv, NEW i \in Stage
    PROVE  /\ HoldsQ(i) + If1(Committed(<<"q_empty", i>>)) + If1(Landing(<<"q_full", i>>)) <= 1
           /\ Done("q_full", i) - Seen("q_full", i) \in {0, 1}
           /\ Done("q_empty", i) - Seen("q_empty", i) \in {-1, 0}
           /\ Done("q_empty", i) = Seen("q_empty", i) => ~Landing(<<"q_full", i>>)
<1>1. If1(Committed(<<"q_empty", i>>)) \in {0, 1} /\ If1(Landing(<<"q_full", i>>)) \in {0, 1}
  BY DEF If1
<1>2. QTaken(i) = QGiven + HoldsQ(i)
  <2>1. QTaken(i) \in Int /\ QGiven \in Int
    BY QFacts
  <2> QED
    BY <2>1 DEF HoldsQ
<1> HIDE DEF HoldsQ
<1>3. Done("q_empty", i) = Seen("q_empty", i) => If1(Landing(<<"q_full", i>>)) = 0
  BY <1>1, <1>2, QFacts
<1> QED
  BY <1>1, <1>2, <1>3, QFacts DEF If1

-----------------------------------------------------------------------------
(* Parity.                                                                 *)

\* A wait for the parity of the phase meant goes on only when that phase is over.
LEMMA ParityTells ==
    ASSUME NEW b, NEW d \in Nat, NEW s \in Nat, bar[b].done = d, bar[b].seen = s,
           d - s \in (IF b[1] \in StartsFree THEN {-1, 0} ELSE {0, 1}),
           Passes(bar[b], (s + Free(b)) % 2)
    PROVE  d = s + 1 - Free(b)
<1>1. d % 2 # (s + Free(b)) % 2
  BY DEF Passes
<1>2. CASE b[1] \in StartsFree
  <2>1. Free(b) = 1 /\ (d = s \/ d = s - 1)
    BY <1>2 DEF Free, If1
  <2> QED
    BY <1>1, <2>1
<1>3. CASE b[1] \notin StartsFree
  <2>1. Free(b) = 0 /\ (d = s \/ d = s + 1)
    BY <1>3 DEF Free, If1
  <2> QED
    BY <1>1, <2>1
<1> QED
  BY <1>2, <1>3

LEMMA StaysNotBehind ==
    ASSUME BarType, BarOK, NEW w, NEW a, Moves(w, a), NEW names, NotBehind(names),
           \A b \in w : b[1] \in names => bar[b].done = bar[b].seen + 1 - Free(b)
    PROVE  NotBehind(names)'
<1> SUFFICES ASSUME NEW b \in Barrier, b[1] \in names
             PROVE  bar'[b].seen <= bar'[b].done + Free(b)
  BY DEF NotBehind, Free
<1>1. /\ bar[b].done \in Nat /\ bar[b].seen \in Nat /\ Free(b) \in {0, 1}
      /\ bar'[b].done \in Nat /\ bar'[b].seen \in Nat
  BY BarNumbers DEF Free, If1, Moves, BarRecord
<1>2. bar[b].done <= bar'[b].done /\ bar'[b].seen = bar[b].seen + If1(b \in w)
  BY DEF Moves
<1>3. bar[b].seen <= bar[b].done + Free(b)
  BY DEF NotBehind
<1> QED
  BY <1>1, <1>2, <1>3 DEF If1

-----------------------------------------------------------------------------
(* The load warp and the bulk-copy engine.                                 *)

LEMMA TmaLandMoves == ASSUME OperandInv, TmaLand PROVE \E a : Moves({}, a) /\ \A b \in a : b[1] \in LdGives
<1>1. PICK x \in tma : Arrive({x.full})
  BY DEF TmaLand
<1>2. x.full[1] \in LdGives
  BY DEF OperandInv, LdInv, TmaApart, LdGives
<1> QED
  BY <1>1, <1>2, ArriveMoves DEF OperandInv, Types

LEMMA TmaLandLd == ASSUME OperandInv, TmaLand PROVE LdInv'
<1>1. PICK x \in tma : tma' = tma \ {x} /\ Arrive({x.full}) /\ UNCHANGED ld
  BY DEF TmaLand
<1>2. Moves({}, {x.full})
  BY <1>1, ArriveMoves DEF OperandInv, Types
<1>3. \A b : If1(Landing(b))' = If1(Landing(b)) - If1(b = x.full)
  <2>1. \A y \in tma : y # x => y.full # x.full
    BY DEF OperandInv, LdInv, TmaApart
  <2>2. \A b : Landing(b)' <=> Landing(b) /\ b # x.full
    BY <1>1, <2>1 DEF Landing
  <2>3. Landing(x.full)
    BY DEF Landing
  <2> QED
    BY <2>2, <2>3 DEF If1
<1>4. \A b \in Barrier : Arrivals(b)' = Arrivals(b) + If1(b = x.full) /\ Arrivals(b) \in Int
  BY <1>2, BarNumbers DEF Moves, OperandInv, Types, If1
<1>5. \A b \in Barrier : bar'[b].seen = bar[b].seen
  BY <1>2, BarNumbers DEF Moves, OperandInv, Types, If1
<1>6. LdQ'
  <2>1. \A i \in Stage : QLoaded(i)' = QLoaded(i) /\ QLoaded(i) \in Int
    BY <1>1 DEF QLoaded, If1, OperandInv, Types, LdType
  <2>2. \A i \in Stage : Seen("q_empty", i)' = Seen("q_empty", i)
    BY <1>5, NamesAre DEF Seen
  <2>3. \A i \in Stage : /\ Arr("q_full", i)' = Arr("q_full", i) + If1(<<"q_full", i>> = x.full)
                         /\ If1(Landing(<<"q_full", i>>))' = If1(Landing(<<"q_full", i>>)) - If1(<<"q_full", i>> = x.full)
    BY <1>3, <1>4, NamesAre DEF Arr
  <2>4. \A i \in Stage : Arr("q_full", i) = QLoaded(i) - If1(Landing(<<"q_full", i>>))
    BY DEF OperandInv, LdInv, LdQ
  <2>a. \A i \in Stage : /\ If1(Landing(<<"q_full", i>>)) \in Int
                        /\ If1(<<"q_full", i>> = x.full) \in Int
    BY DEF If1
  <2>b. \A i \in Stage : Arr("q_full", i) \in Int
    BY QFacts
  <2>5. ASSUME NEW i \in Stage
        PROVE  Arr("q_full", i)' = QLoaded(i)' - If1(Landing(<<"q_full", i>>))'
    <3>1. /\ QLoaded(i)' = QLoaded(i) /\ QLoaded(i) \in Int
          /\ Arr("q_full", i)' = Arr("q_full", i) + If1(<<"q_full", i>> = x.full)
          /\ If1(Landing(<<"q_full", i>>))' = If1(Landing(<<"q_full", i>>)) - If1(<<"q_full", i>> = x.full)
          /\ Arr("q_full", i) = QLoaded(i) - If1(Landing(<<"q_full", i>>))
          /\ If1(Landing(<<"q_full", i>>)) \in Int /\ If1(<<"q_full", i>> = x.full) \in Int
          /\ Arr("q_full", i) \in Int
      BY <2>1, <2>3, <2>4, <2>a, <2>b
    <3> QED
      BY <3>1
  <2> QED
    BY <1>1, <2>1, <2>2, <2>5, StageIs DEF OperandInv, LdInv, LdQ
<1>7. LdRing'
  <2>1. ld.idx \in Slot
    BY DEF OperandInv, Types, LdType
  <2>2. \A s \in Slot : Seen("kv_empty", s)' = Seen("kv_empty", s) /\ Seen("kv_empty", s) \in Nat
    BY <1>5, NamesAre, SlotFacts DEF Seen
  <2>3. \A s \in Slot : /\ Arr("kv_full", s)' = Arr("kv_full", s) + If1(<<"kv_full", s>> = x.full)
                        /\ If1(Landing(<<"kv_full", s>>))' = If1(Landing(<<"kv_full", s>>)) - If1(<<"kv_full", s>> = x.full)
    BY <1>3, <1>4, NamesAre DEF Arr
  <2>4. \A s \in Slot : Arr("kv_full", s) = Seen("kv_empty", s) - If1(Landing(<<"kv_full", s>>))
    BY DEF OperandInv, LdInv, LdRing
  <2>a. \A s \in Slot : /\ If1(Landing(<<"kv_full", s>>)) \in Int
                        /\ If1(<<"kv_full", s>> = x.full) \in Int
    BY DEF If1
  <2>b. \A s \in Slot : Arr("kv_full", s) \in Int
    BY SlotFacts
  <2>5. ASSUME NEW s \in Slot
        PROVE  Arr("kv_full", s)' = Seen("kv_empty", s)' - If1(Landing(<<"kv_full", s>>))'
    <3>1. /\ Seen("kv_empty", s)' = Seen("kv_empty", s) /\ Seen("kv_empty", s) \in Int
          /\ Arr("kv_full", s)' = Arr("kv_full", s) + If1(<<"kv_full", s>> = x.full)
          /\ If1(Landing(<<"kv_full", s>>))' = If1(Landing(<<"kv_full", s>>)) - If1(<<"kv_full", s>> = x.full)
          /\ Arr("kv_full", s) = Seen("kv_empty", s) - If1(Landing(<<"kv_full", s>>))
          /\ If1(Landing(<<"kv_full", s>>)) \in Int /\ If1(<<"kv_full", s>> = x.full) \in Int
          /\ Arr("kv_full", s) \in Int
      BY <2>2, <2>3, <2>4, <2>a, <2>b
    <3> QED
      BY <3>1
  <2> QED
    BY <1>1, <2>1, <2>2, <2>5 DEF OperandInv, LdInv, LdRing
<1>8. LdPlace' /\ TmaApart'
  BY <1>1 DEF OperandInv, LdInv, LdPlace, TmaApart
<1> QED
  BY <1>6, <1>7, <1>8 DEF LdInv

LEMMA NextSlot ==
    ASSUME NEW s \in Slot
    PROVE  (s + 1) % KvStages = IF s = KvStages - 1 THEN 0 ELSE s + 1
<1>1. KvStages \in Nat \ {0} /\ s \in 0..(KvStages - 1)
  BY ConfigAssumption DEF Slot
<1>2. CASE s = KvStages - 1
  BY <1>1, <1>2
<1>3. CASE s # KvStages - 1
  <2>1. s + 1 \in 0..(KvStages - 1)
    BY <1>1, <1>3
  <2> QED
    BY <1>1, <1>3, <2>1
<1> QED
  BY <1>2, <1>3

\* One load more is on its way.
LEMMA LandingAdds ==
    ASSUME NEW r, NEW tag, NEW f, StartLoad(r, tag, f), ~Landing(f), TmaApart,
           \/ \E i \in Stage : f = <<"q_full", i>> /\ r = <<"Q", i>>
           \/ \E s \in Slot : f = <<"kv_full", s>> /\ r = <<"KV", s>>
    PROVE  /\ \A b : If1(Landing(b))' = If1(Landing(b)) + If1(b = f)
           /\ TmaApart'
<1> DEFINE x == [dst |-> r, tag |-> tag, full |-> f]
<1>1. tma' = tma \cup {x} /\ x.full = f /\ x.dst = r
  BY DEF StartLoad
<1> HIDE DEF x
<1>2. \A b : Landing(b)' <=> Landing(b) \/ b = f
  BY <1>1 DEF Landing
<1>3. \A b : If1(Landing(b))' = If1(Landing(b)) + If1(b = f)
  BY <1>2 DEF If1
<1>4. \A y \in tma : y.full # f
  BY DEF Landing
<1>5. TmaApart'
  BY <1>1, <1>4 DEF TmaApart
<1> QED
  BY <1>3, <1>5

\* The load warp passes a wait only when the buffer it waits for is free.
LEMMA LoadQFree ==
    ASSUME OperandInv, NEW i \in Stage, WaitThenArrive(<<"q_empty", i>>, ld.qPh, {}),
           ld.qPh = (QLoaded(i) + 1) % 2
    PROVE  /\ bar[<<"q_empty", i>>].done = bar[<<"q_empty", i>>].seen
           /\ ~Landing(<<"q_full", i>>)
<1>1. Done("q_empty", i) \in Nat /\ Seen("q_empty", i) \in Nat
      /\ Done("q_empty", i) - Seen("q_empty", i) \in {-1, 0}
      /\ (Done("q_empty", i) = Seen("q_empty", i) => ~Landing(<<"q_full", i>>))
  BY OneHandQ, QFacts
<1>2. Free(<<"q_empty", i>>) = 1 /\ <<"q_empty", i>>[1] \in StartsFree
  BY DEF Free, StartsFree, If1
<1>3. Passes(bar[<<"q_empty", i>>], (Seen("q_empty", i) + 1) % 2)
  BY DEF OperandInv, LdInv, LdQ, WaitThenArrive
<1>4. Done("q_empty", i) = Seen("q_empty", i) + 1 - 1
  BY <1>1, <1>2, <1>3, ParityTells DEF Done, Seen
<1> QED
  BY <1>1, <1>4 DEF Done, Seen

LEMMA LoadKVFree ==
    ASSUME OperandInv, WaitThenArrive(<<"kv_empty", ld.idx>>, ld.ph, {})
    PROVE  /\ bar[<<"kv_empty", ld.idx>>].done = bar[<<"kv_empty", ld.idx>>].seen
           /\ ~Landing(<<"kv_full", ld.idx>>)
<1> DEFINE i == ld.idx
<1>0. i \in Slot
  BY DEF OperandInv, Types, LdType
<1>1. Done("kv_empty", i) \in Nat /\ Seen("kv_empty", i) \in Nat
      /\ Done("kv_empty", i) - Seen("kv_empty", i) \in {-1, 0}
      /\ (Done("kv_empty", i) = Seen("kv_empty", i) => ~Landing(<<"kv_full", i>>))
  BY <1>0, OneHand, SlotFacts
<1>2. Free(<<"kv_empty", i>>) = 1 /\ <<"kv_empty", i>>[1] \in StartsFree
  BY DEF Free, StartsFree, If1
<1>3. Passes(bar[<<"kv_empty", i>>], (Seen("kv_empty", i) + 1) % 2)
  BY DEF OperandInv, LdInv, LdRing, WaitThenArrive
<1> HIDE DEF i
<1>4. Done("kv_empty", i) = Seen("kv_empty", i) + 1 - 1
  BY <1>1, <1>2, <1>3, ParityTells DEF Done, Seen
<1> QED
  BY <1>1, <1>4 DEF Done, Seen, i

LEMMA LoadQLd == ASSUME OperandInv, LoadQ PROVE LdInv'
<1>1. PICK i \in Stage :
          /\ ld.at = (IF i = 0 THEN "q0" ELSE "q1")
          /\ WaitThenArrive(<<"q_empty", i>>, ld.qPh, {})
          /\ StartLoad(<<"Q", i>>, QTag(ld.t), <<"q_full", i>>)
          /\ ld' = IF i = 0 THEN [ld EXCEPT !.at = "k"] ELSE [ld EXCEPT !.at = "v", !.qPh = 1 - @]
  BY StageIs DEF LoadQ
<1> DEFINE w == <<"q_empty", i>>
           f == <<"q_full", i>>
<1>2. PICK n \in Int : n = ld.t - 1
  BY DEF OperandInv, Types, LdType
<1>3. /\ ld \in [at : {"q0", "k", "q1", "v", "end"}, t : Int, k : Int, qPh : Bit, idx : Slot, ph : Bit]
      /\ ld.k = 1 /\ ld.t \in Tile
  BY <1>1, StageIs DEF OperandInv, Types, LdType, LdInv, LdPlace
<1>4. /\ ld'.t = ld.t /\ ld'.k = 1 /\ ld'.idx = ld.idx /\ ld'.ph = ld.ph
      /\ ld'.at = (IF i = 0 THEN "k" ELSE "v")
      /\ ld'.qPh = (IF i = 0 THEN ld.qPh ELSE 1 - ld.qPh)
  BY <1>1, <1>3
<1>5. /\ QLoaded(0) = n + (IF i = 0 THEN 0 ELSE 1) /\ QLoaded(0)' = n + 1
      /\ QLoaded(1) = n /\ QLoaded(1)' = n + (IF i = 0 THEN 0 ELSE 1)
  BY <1>1, <1>2, <1>3, <1>4, StageIs DEF QLoaded, If1
<1>6. ld.qPh = (QLoaded(1) + 1) % 2 /\ ld.qPh \in {0, 1}
  BY <1>3 DEF OperandInv, LdInv, LdQ, Bit
<1>7. ld.qPh = (QLoaded(i) + 1) % 2 /\ QLoaded(i) = n
  BY <1>5, <1>6, StageIs
<1>8. ~Landing(f)
  BY <1>1, <1>7, LoadQFree
<1>9. \A b : If1(Landing(b))' = If1(Landing(b)) + If1(b = f)
  BY <1>1, <1>8, LandingAdds DEF OperandInv, LdInv
<1>10. TmaApart'
  BY <1>1, <1>8, LandingAdds DEF OperandInv, LdInv
<1>11. Moves({w}, {})
  BY <1>1, WaitMoves DEF OperandInv, Types
<1>12. LdQ'
  <2>1. ASSUME NEW j \in Stage
        PROVE  /\ QLoaded(j)' = QLoaded(j) + If1(j = i) /\ QLoaded(j) \in Int
               /\ Seen("q_empty", j)' = Seen("q_empty", j) + If1(j = i)
               /\ Arr("q_full", j)' = Arr("q_full", j) + 0 /\ Arr("q_full", j) \in Int
               /\ If1(Landing(<<"q_full", j>>))' = If1(Landing(<<"q_full", j>>)) + If1(j = i)
               /\ Seen("q_empty", j) = QLoaded(j)
               /\ Arr("q_full", j) = QLoaded(j) - If1(Landing(<<"q_full", j>>))
               /\ If1(Landing(<<"q_full", j>>)) \in Int /\ If1(j = i) \in Int
    <3>1. <<"q_empty", j>> \in Barrier /\ <<"q_full", j>> \in Barrier
      BY NamesAre
    <3>2. Seen("q_empty", j)' = Seen("q_empty", j) + If1(j = i)
      BY <1>11, <3>1 DEF Moves, Seen, If1
    <3>3. Arr("q_full", j)' = Arr("q_full", j) + 0
      BY <1>11, <3>1 DEF Moves, Arr, If1
    <3>4. If1(Landing(<<"q_full", j>>))' = If1(Landing(<<"q_full", j>>)) + If1(j = i)
      BY <1>9 DEF If1
    <3>5. QLoaded(j)' = QLoaded(j) + If1(j = i) /\ QLoaded(j) \in Int
      BY <1>5, StageIs DEF If1
    <3>6. If1(Landing(<<"q_full", j>>)) \in Int /\ If1(j = i) \in Int
      BY DEF If1
    <3>7. Seen("q_empty", j) = QLoaded(j) /\ Arr("q_full", j) = QLoaded(j) - If1(Landing(<<"q_full", j>>))
      BY DEF OperandInv, LdInv, LdQ
    <3> QED
      BY <3>2, <3>3, <3>4, <3>5, <3>6, <3>7, QFacts
  <2>2. ASSUME NEW j \in Stage
        PROVE  /\ Seen("q_empty", j)' = QLoaded(j)'
               /\ Arr("q_full", j)' = QLoaded(j)' - If1(Landing(<<"q_full", j>>))'
    <3>1. /\ Seen("q_empty", j)' = Seen("q_empty", j) + If1(j = i)
          /\ Seen("q_empty", j) = QLoaded(j) /\ QLoaded(j)' = QLoaded(j) + If1(j = i)
      BY <2>1
    <3>2. /\ QLoaded(j)' = QLoaded(j) + If1(j = i) /\ QLoaded(j) \in Int
          /\ Arr("q_full", j)' = Arr("q_full", j) + 0 /\ Arr("q_full", j) \in Int
          /\ If1(Landing(<<"q_full", j>>))' = If1(Landing(<<"q_full", j>>)) + If1(j = i)
          /\ Arr("q_full", j) = QLoaded(j) - If1(Landing(<<"q_full", j>>))
          /\ If1(Landing(<<"q_full", j>>)) \in Int /\ If1(j = i) \in Int
      BY <2>1
    <3> QED
      BY <3>1, <3>2
  <2>3. ld'.qPh = (QLoaded(1)' + 1) % 2
    <3>1. ld.qPh = (n + 1) % 2
      BY <1>5, <1>6
    <3>2. CASE i = 0
      BY <1>4, <1>5, <3>1, <3>2
    <3>3. CASE i = 1
      <4>1. 1 - ((n + 1) % 2) = (n + 1 + 1) % 2
        OBVIOUS
      <4> QED
        BY <1>4, <1>5, <3>1, <3>3, <4>1
    <3> QED
      BY <3>2, <3>3, StageIs
  <2> QED
    BY <2>2, <2>3 DEF LdQ
<1>13. LdRing'
  <2>1. ld.idx \in Slot
    BY <1>3
  <2>2. ASSUME NEW s \in Slot
        PROVE  /\ Seen("kv_empty", s)' = Seen("kv_empty", s)
               /\ Arr("kv_full", s)' = Arr("kv_full", s)
               /\ If1(Landing(<<"kv_full", s>>))' = If1(Landing(<<"kv_full", s>>))
    <3>1. <<"kv_empty", s>> \in Barrier /\ <<"kv_full", s>> \in Barrier
      BY NamesAre
    <3>2. Seen("kv_empty", s)' = Seen("kv_empty", s) + 0
      BY <1>11, <3>1 DEF Moves, Seen, If1
    <3>3. Arr("kv_full", s)' = Arr("kv_full", s) + 0
      BY <1>11, <3>1 DEF Moves, Arr, If1
    <3>4. If1(Landing(<<"kv_full", s>>))' = If1(Landing(<<"kv_full", s>>)) + 0
      BY <1>9 DEF If1
    <3>5. If1(Landing(<<"kv_full", s>>)) \in Int
      BY DEF If1
    <3> QED
      <4>1. Seen("kv_empty", s) \in Int /\ Arr("kv_full", s) \in Int
        BY SlotFacts
      <4> QED
        BY <3>2, <3>3, <3>4, <3>5, <4>1
  <2> QED
    BY <1>4, <2>1, <2>2 DEF OperandInv, LdInv, LdRing
<1>14. LdPlace'
  BY <1>3, <1>4 DEF LdPlace
<1> QED
  BY <1>10, <1>12, <1>13, <1>14 DEF LdInv

LEMMA LoadKVLd == ASSUME OperandInv, LoadKV PROVE LdInv'
<1> DEFINE m == ld.idx
           w == <<"kv_empty", m>>
           f == <<"kv_full", m>>
           Rec == [at : {"q0", "k", "q1", "v", "end"}, t : Int, k : Int, qPh : Bit, idx : Slot, ph : Bit]
<1>1. PICK tag :
          /\ ld.at \in {"k", "v"}
          /\ WaitThenArrive(w, ld.ph, {})
          /\ StartLoad(<<"KV", m>>, tag, f)
          /\ ld' = NextLoad(Advance(ld))
  BY DEF LoadKV
<1>2. PICK n \in Int : n = ld.t - 1
  BY DEF OperandInv, Types, LdType
<1>3. ld \in Rec /\ m \in Slot /\ ld.t \in Tile /\ ld.k \in Int /\ ld.k >= 1 /\ ld.ph \in {0, 1}
  BY <1>1 DEF OperandInv, Types, LdType, LdInv, LdPlace, Bit
<1>4. /\ ld'.qPh = ld.qPh
      /\ ld'.idx = (IF m = KvStages - 1 THEN 0 ELSE m + 1)
      /\ ld'.ph = (IF m = KvStages - 1 THEN 1 - ld.ph ELSE ld.ph)
      /\ \/ ld.at = "k" /\ ld.k = 1 /\ ld'.at = "q1" /\ ld'.t = ld.t /\ ld'.k = ld.k
         \/ ld.at = "k" /\ ld.k # 1 /\ ld'.at = "v" /\ ld'.t = ld.t /\ ld'.k = ld.k
         \/ ld.at = "v" /\ ld'.at = "k" /\ ld'.t = ld.t /\ ld'.k = ld.k + 1
         \/ ld.at = "v" /\ ld'.at = "q0" /\ ld.t + 1 \in Tile /\ ld'.t = ld.t + 1 /\ ld'.k = 1
         \/ ld.at = "v" /\ ld'.at = "end" /\ ld'.t = ld.t + 1 /\ ld'.k = 1
  <2> DEFINE a == [ld EXCEPT !.idx = (m + 1) % KvStages,
                             !.ph = IF m = KvStages - 1 THEN 1 - ld.ph ELSE ld.ph]
  <2>1. (m + 1) % KvStages = IF m = KvStages - 1 THEN 0 ELSE m + 1
    BY <1>3, NextSlot
  <2>2. /\ a.qPh = ld.qPh /\ a.t = ld.t /\ a.k = ld.k /\ a.at = ld.at
        /\ a.idx = (IF m = KvStages - 1 THEN 0 ELSE m + 1)
        /\ a.ph = (IF m = KvStages - 1 THEN 1 - ld.ph ELSE ld.ph)
        /\ DOMAIN a = {"at", "t", "k", "qPh", "idx", "ph"}
    BY <1>3, <2>1
  <2>3. ld' = NextLoad(a)
    BY <1>1 DEF Advance
  <2> HIDE DEF a, m
  <2>4. CASE ld.at = "k"
    <3>1. ld' = [a EXCEPT !.at = IF ld.k = 1 THEN "q1" ELSE "v"]
      BY <2>3, <2>4 DEF NextLoad
    <3> QED
      BY <2>2, <2>4, <3>1
  <2>5. CASE ld.at = "v" /\ ld.k < Blocks[ld.t]
    <3>1. ld' = [a EXCEPT !.at = "k", !.k = a.k + 1]
      BY <2>3, <2>5 DEF NextLoad
    <3> QED
      BY <2>2, <2>5, <3>1
  <2>6. CASE ld.at = "v" /\ ~(ld.k < Blocks[ld.t])
    <3>1. ld' = [a EXCEPT !.at = IF ld.t + 1 \in Tile THEN "q0" ELSE "end", !.t = a.t + 1, !.k = 1]
      BY <2>3, <2>6 DEF NextLoad
    <3> QED
      BY <2>2, <2>6, <3>1
  <2> QED
    BY <1>1, <2>4, <2>5, <2>6
<1>5. /\ QLoaded(0) = n + 1 /\ QLoaded(0)' = n + 1
      /\ QLoaded(1)' = QLoaded(1) /\ QLoaded(1) \in Int
  BY <1>1, <1>2, <1>3, <1>4 DEF QLoaded, If1
<1>6. bar[w].done = bar[w].seen /\ ~Landing(f)
  BY <1>1, LoadKVFree
<1>7. \A b : If1(Landing(b))' = If1(Landing(b)) + If1(b = f)
  BY <1>1, <1>3, <1>6, LandingAdds DEF OperandInv, LdInv
<1>8. TmaApart'
  BY <1>1, <1>3, <1>6, LandingAdds DEF OperandInv, LdInv
<1>9. Moves({w}, {})
  BY <1>1, WaitMoves DEF OperandInv, Types
<1>10. LdQ'
  <2>1. ASSUME NEW j \in Stage
        PROVE  /\ Seen("q_empty", j)' = QLoaded(j)'
               /\ Arr("q_full", j)' = QLoaded(j)' - If1(Landing(<<"q_full", j>>))'
    <3>1. <<"q_empty", j>> \in Barrier /\ <<"q_full", j>> \in Barrier
      BY NamesAre
    <3>2. Seen("q_empty", j)' = Seen("q_empty", j) + 0
      BY <1>9, <3>1 DEF Moves, Seen, If1
    <3>3. Arr("q_full", j)' = Arr("q_full", j) + 0
      BY <1>9, <3>1 DEF Moves, Arr, If1
    <3>4. If1(Landing(<<"q_full", j>>))' = If1(Landing(<<"q_full", j>>)) + 0
      BY <1>7 DEF If1
    <3>5. QLoaded(j)' = QLoaded(j) /\ QLoaded(j) \in Int
      BY <1>5, StageIs
    <3>6. If1(Landing(<<"q_full", j>>)) \in Int
      BY DEF If1
    <3>7. Seen("q_empty", j) = QLoaded(j) /\ Arr("q_full", j) = QLoaded(j) - If1(Landing(<<"q_full", j>>))
      BY DEF OperandInv, LdInv, LdQ
    <3>8. Seen("q_empty", j) \in Int /\ Arr("q_full", j) \in Int
      BY QFacts
    <3> QED
      BY <3>2, <3>3, <3>4, <3>5, <3>6, <3>7, <3>8
  <2>2. ld'.qPh = (QLoaded(1)' + 1) % 2
    BY <1>4, <1>5 DEF OperandInv, LdInv, LdQ
  <2> QED
    BY <2>1, <2>2 DEF LdQ
<1>11. LdRing'
  <2> DEFINE wrap == m = KvStages - 1
  <2>1. PICK z \in Int : z = Seen("kv_empty", m)
    BY <1>3, SlotFacts
  <2>2. ld.ph = (z + 1) % 2
    BY <2>1 DEF OperandInv, LdInv, LdRing
  <2>3. ASSUME NEW s \in Slot
        PROVE  /\ Seen("kv_empty", s)' = z + If1(s < m) + If1(s = m)
               /\ Arr("kv_full", s)' = Seen("kv_empty", s)' - If1(Landing(<<"kv_full", s>>))'
    <3>1. <<"kv_empty", s>> \in Barrier /\ <<"kv_full", s>> \in Barrier
      BY NamesAre
    <3>2. Seen("kv_empty", s)' = Seen("kv_empty", s) + If1(s = m)
      BY <1>9, <3>1 DEF Moves, Seen, If1
    <3>3. Arr("kv_full", s)' = Arr("kv_full", s) + 0
      BY <1>9, <3>1 DEF Moves, Arr, If1
    <3>4. If1(Landing(<<"kv_full", s>>))' = If1(Landing(<<"kv_full", s>>)) + If1(s = m)
      BY <1>7 DEF If1
    <3>5. If1(Landing(<<"kv_full", s>>)) \in Int /\ If1(s = m) \in Int /\ If1(s < m) \in Int
      BY DEF If1
    <3>6. /\ Seen("kv_empty", s) = z + If1(s < m)
          /\ Arr("kv_full", s) = Seen("kv_empty", s) - If1(Landing(<<"kv_full", s>>))
      BY <2>1 DEF OperandInv, LdInv, LdRing
    <3>7. Seen("kv_empty", s) \in Int /\ Arr("kv_full", s) \in Int
      BY SlotFacts
    <3> QED
      BY <3>2, <3>3, <3>4, <3>5, <3>6, <3>7
  <2>a. \A s \in Slot : Seen("kv_empty", s)' = z + If1(s < m) + If1(s = m)
    BY <2>3
  <2>4. \A s \in Slot : /\ s \in Int /\ 0 <= s /\ s <= KvStages - 1 /\ KvStages \in Int /\ m \in Int
                        /\ 0 <= m /\ m <= KvStages - 1
    BY <1>3, ConfigAssumption DEF Slot
  <2>5. ld'.idx \in Slot
    BY <1>3, <1>4, <2>4 DEF Slot
  <2>6. CASE wrap
    <3>1. \A s \in Slot : Seen("kv_empty", s)' = z + 1
      BY <2>a, <2>4, <2>6 DEF If1
    <3>2. ld'.idx = 0 /\ ld'.ph = 1 - ld.ph
      BY <1>4, <2>6
    <3>3. 1 - ((z + 1) % 2) = (z + 1 + 1) % 2
      OBVIOUS
    <3>4. ASSUME NEW s \in Slot PROVE If1(s < ld'.idx) = 0
      BY <2>4, <3>2 DEF If1
    <3>5. Seen("kv_empty", ld.idx)' = z + 1
      BY <2>5, <3>1 DEF Seen
    <3>6. ASSUME NEW s \in Slot PROVE Seen("kv_empty", s)' = Seen("kv_empty", ld.idx)' + If1(s < ld'.idx)
      BY <3>1, <3>4, <3>5
    <3>7. ld'.ph = (Seen("kv_empty", ld.idx)' + 1) % 2
      BY <2>2, <3>2, <3>3, <3>5
    <3> QED
      BY <2>3, <3>6, <3>7 DEF LdRing, If1
  <2>7. CASE ~wrap
    <3>2. ld'.idx = m + 1 /\ ld'.ph = ld.ph
      BY <1>4, <2>7
    <3>4. ASSUME NEW s \in Slot PROVE If1(s < ld'.idx) = If1(s < m) + If1(s = m)
      BY <2>4, <3>2 DEF If1
    <3>5. Seen("kv_empty", ld.idx)' = z
      <4>1. PICK j \in Slot : j = ld'.idx
        BY <2>5
      <4>2. Seen("kv_empty", j)' = z
        BY <2>a, <2>4, <3>2, <4>1 DEF If1
      <4> QED
        BY <4>1, <4>2 DEF Seen
    <3>6. ASSUME NEW s \in Slot PROVE Seen("kv_empty", s)' = Seen("kv_empty", ld.idx)' + If1(s < ld'.idx)
      <4>1. If1(s < m) \in Int /\ If1(s = m) \in Int
        BY DEF If1
      <4>2. Seen("kv_empty", s)' = z + If1(s < m) + If1(s = m)
        BY <2>a
      <4>3. If1(s < ld'.idx) = If1(s < m) + If1(s = m)
        BY <3>4
      <4> QED
        BY <3>5, <4>1, <4>2, <4>3
    <3>7. ld'.ph = (Seen("kv_empty", ld.idx)' + 1) % 2
      BY <2>2, <3>2, <3>5
    <3> QED
      BY <2>3, <3>6, <3>7 DEF LdRing, If1
  <2> QED
    BY <2>6, <2>7
<1>12. LdPlace'
  BY <1>3, <1>4 DEF LdPlace
<1> QED
  BY <1>8, <1>10, <1>11, <1>12 DEF LdInv

-----------------------------------------------------------------------------
(* The MMA warp, step by step. *)

MmTo(at, t, k, st, v) ==
    mm'.at = at /\ mm'.t = t /\ mm'.k = k /\ mm'.st = st /\ mm'.v = v
Keeps == mm'.idx = mm.idx /\ mm'.ph = mm.ph
Turns == /\ mm'.idx = IF mm.idx = KvStages - 1 THEN 0 ELSE mm.idx + 1
         /\ mm'.ph = IF mm.idx = KvStages - 1 THEN 1 - mm.ph ELSE mm.ph
Flip(x, p) == IF p THEN 1 - x ELSE x
Flips(q, p, f) == /\ mm'.qPh = Flip(mm.qPh, q) /\ mm'.pPh = Flip(mm.pPh, p)
                  /\ mm'.fPh = Flip(mm.fPh, f)

MmDomain == {"at", "t", "k", "st", "v", "qPh", "pPh", "fPh", "idx", "ph"}

LEMMA MmTurn ==
    ASSUME MmType
    PROVE  LET a == Advance(mm)
           IN  /\ a.at = mm.at /\ a.t = mm.t /\ a.k = mm.k /\ a.st = mm.st /\ a.v = mm.v
               /\ a.qPh = mm.qPh /\ a.pPh = mm.pPh /\ a.fPh = mm.fPh
               /\ a.idx = (IF mm.idx = KvStages - 1 THEN 0 ELSE mm.idx + 1)
               /\ a.ph = (IF mm.idx = KvStages - 1 THEN 1 - mm.ph ELSE mm.ph)
               /\ DOMAIN a = MmDomain /\ a = [x \in MmDomain |-> a[x]]
<1>1. mm.idx \in Slot /\ DOMAIN mm = MmDomain /\ mm = [x \in MmDomain |-> mm[x]]
  BY DEF MmType, MmRecord, MmDomain
<1>2. (mm.idx + 1) % KvStages = IF mm.idx = KvStages - 1 THEN 0 ELSE mm.idx + 1
  BY <1>1, NextSlot
<1> QED
  BY <1>1, <1>2 DEF Advance, MmDomain

LEMMA MmaWaitVCases ==
    ASSUME MmType, MmaWaitV
    PROVE  /\ Flips(FALSE, FALSE, FALSE)
           /\ \/ Decoupled /\ ~LastBlock /\ Turns /\ MmTo("k", mm.t, mm.k, mm.st, mm.idx)
              \/ ~(Decoupled /\ ~LastBlock) /\ Keeps /\ MmTo("p", mm.t, mm.k, mm.st, mm.idx)
<1> DEFINE a == Advance(mm)
<1>1. mm' = IF Decoupled /\ ~LastBlock THEN [a EXCEPT !.v = mm.idx, !.at = "k"]
                                       ELSE [mm EXCEPT !.v = mm.idx, !.at = "p"]
  BY DEF MmaWaitV
<1>2. DOMAIN mm = MmDomain
  BY DEF MmType, MmRecord, MmDomain
<1> HIDE DEF a
<1>3. CASE Decoupled /\ ~LastBlock
  <2>1. mm' = [a EXCEPT !.v = mm.idx, !.at = "k"]
    BY <1>1, <1>3
  <2> QED
    BY <1>3, <2>1, MmTurn DEF a, Turns, MmTo, Flips, Flip, MmDomain
<1>4. CASE ~(Decoupled /\ ~LastBlock)
  BY <1>1, <1>2, <1>4 DEF Keeps, MmTo, Flips, Flip, MmDomain
<1> QED
  BY <1>3, <1>4

LEMMA MmaIssueQKCases ==
    ASSUME MmType, MmaIssueQK
    PROVE  \/ /\ Prologue /\ mm.st = 0 /\ Keeps /\ Flips(FALSE, FALSE, FALSE)
              /\ MmTo("q", mm.t, mm.k, 1, mm.v)
           \/ /\ Prologue /\ mm.st = 1 /\ Turns /\ Flips(TRUE, FALSE, QuantQK)
              /\ MmTo("v", mm.t, mm.k + 1, 0, mm.v)
           \/ /\ ~Prologue /\ Decoupled /\ Keeps /\ Flips(FALSE, FALSE, FALSE)
              /\ MmTo("p", mm.t, mm.k, mm.st, mm.v)
           \/ /\ ~Prologue /\ ~Decoupled /\ mm.st = 0 /\ Keeps /\ Flips(FALSE, FALSE, FALSE)
              /\ MmTo("p", mm.t, mm.k, 1, mm.v)
           \/ /\ ~Prologue /\ ~Decoupled /\ mm.st = 1 /\ Turns /\ Flips(FALSE, TRUE, QuantQK)
              /\ MmTo("v", mm.t, mm.k + 1, 0, mm.v)
<1> DEFINE a == Advance(mm)
           next == [a EXCEPT !.at = "v", !.k = a.k + 1, !.st = 0,
                             !.fPh = IF QuantQK THEN 1 - a.fPh ELSE a.fPh]
<1>1. mm' = CASE Prologue /\ mm.st = 0    -> [mm EXCEPT !.at = "q", !.st = 1]
              [] Prologue /\ mm.st = 1    -> [next EXCEPT !.qPh = 1 - next.qPh]
              [] ~Prologue /\ Decoupled   -> [mm EXCEPT !.at = "p"]
              [] ~Prologue /\ ~Decoupled /\ mm.st = 0 -> [mm EXCEPT !.at = "p", !.st = 1]
              [] OTHER                    -> [next EXCEPT !.pPh = 1 - next.pPh]
  BY DEF MmaIssueQK
<1>2. DOMAIN mm = MmDomain /\ mm.st \in {0, 1}
  BY StageIs DEF MmType, MmRecord, MmDomain
<1>3. /\ next.at = "v" /\ next.t = mm.t /\ next.k = mm.k + 1 /\ next.st = 0 /\ next.v = mm.v
      /\ next.qPh = mm.qPh /\ next.pPh = mm.pPh /\ next.fPh = Flip(mm.fPh, QuantQK)
      /\ next.idx = (IF mm.idx = KvStages - 1 THEN 0 ELSE mm.idx + 1)
      /\ next.ph = (IF mm.idx = KvStages - 1 THEN 1 - mm.ph ELSE mm.ph)
      /\ DOMAIN next = MmDomain
  <2>1. /\ a.at = mm.at /\ a.t = mm.t /\ a.k = mm.k /\ a.st = mm.st /\ a.v = mm.v
        /\ a.qPh = mm.qPh /\ a.pPh = mm.pPh /\ a.fPh = mm.fPh
        /\ a.idx = (IF mm.idx = KvStages - 1 THEN 0 ELSE mm.idx + 1)
        /\ a.ph = (IF mm.idx = KvStages - 1 THEN 1 - mm.ph ELSE mm.ph)
        /\ DOMAIN a = MmDomain
    BY MmTurn
  <2> HIDE DEF a
  <2> QED
    BY <2>1 DEF Flip, MmDomain
<1> HIDE DEF next
<1>4. CASE Prologue /\ mm.st = 0
  <2>1. mm' = [mm EXCEPT !.at = "q", !.st = 1]
    BY <1>1, <1>4
  <2> QED
    BY <1>2, <1>4, <2>1 DEF Keeps, MmTo, Flips, Flip, MmDomain
<1>5. CASE Prologue /\ mm.st = 1
  <2>1. mm' = [next EXCEPT !.qPh = 1 - next.qPh]
    BY <1>1, <1>5
  <2> QED
    BY <1>3, <1>5, <2>1 DEF Turns, MmTo, Flips, Flip, MmDomain
<1>6. CASE ~Prologue /\ Decoupled
  <2>1. mm' = [mm EXCEPT !.at = "p"]
    BY <1>1, <1>6
  <2> QED
    BY <1>2, <1>6, <2>1 DEF Keeps, MmTo, Flips, Flip, MmDomain
<1>7. CASE ~Prologue /\ ~Decoupled /\ mm.st = 0
  <2>1. mm' = [mm EXCEPT !.at = "p", !.st = 1]
    BY <1>1, <1>7
  <2> QED
    BY <1>2, <1>7, <2>1 DEF Keeps, MmTo, Flips, Flip, MmDomain
<1>8. CASE ~Prologue /\ ~Decoupled /\ mm.st = 1
  <2>1. mm' = [next EXCEPT !.pPh = 1 - next.pPh]
    BY <1>1, <1>8
  <2> QED
    BY <1>3, <1>8, <2>1 DEF Turns, MmTo, Flips, Flip, MmDomain
<1> QED
  BY <1>2, <1>4, <1>5, <1>6, <1>7, <1>8

LEMMA MmaIssuePV2Cases ==
    ASSUME MmType, MmaIssuePV2
    PROVE  \/ /\ LastBlock /\ mm.st = 0 /\ Keeps /\ Flips(FALSE, FALSE, FALSE)
              /\ MmTo("p", mm.t, mm.k, 1, mm.v)
           \/ /\ LastBlock /\ mm.st = 1 /\ Turns /\ Flips(FALSE, TRUE, FALSE)
              /\ MmTo(IF mm.t + 1 \in Tile THEN "q" ELSE "dealloc", mm.t + 1, 0, 0, mm.v)
           \/ /\ ~LastBlock /\ Decoupled /\ mm.st = 0 /\ Keeps /\ Flips(FALSE, FALSE, FALSE)
              /\ MmTo("qk", mm.t, mm.k, 1, mm.v)
           \/ /\ ~LastBlock /\ Decoupled /\ mm.st = 1 /\ Turns /\ Flips(FALSE, TRUE, TRUE)
              /\ MmTo("v", mm.t, mm.k + 1, 0, mm.v)
           \/ /\ ~LastBlock /\ ~Decoupled /\ mm.st = 0 /\ Turns /\ Flips(FALSE, FALSE, FALSE)
              /\ MmTo("k", mm.t, mm.k, 0, mm.v)
           \/ /\ ~LastBlock /\ ~Decoupled /\ mm.st = 1 /\ Keeps /\ Flips(FALSE, FALSE, FALSE)
              /\ MmTo("qk", mm.t, mm.k, 1, mm.v)
<1> DEFINE a == Advance(mm)
           next == [a EXCEPT !.st = 0, !.pPh = 1 - a.pPh]
<1>1. mm' = CASE LastBlock /\ mm.st = 0 -> [mm EXCEPT !.at = "p", !.st = 1]
              [] LastBlock /\ mm.st = 1 ->
                   [next EXCEPT !.at = IF mm.t + 1 \in Tile THEN "q" ELSE "dealloc",
                                !.t = next.t + 1, !.k = 0]
              [] ~LastBlock /\ Decoupled /\ mm.st = 0 -> [mm EXCEPT !.at = "qk", !.st = 1]
              [] ~LastBlock /\ Decoupled /\ mm.st = 1 ->
                   [next EXCEPT !.at = "v", !.k = next.k + 1, !.fPh = 1 - next.fPh]
              [] ~LastBlock /\ ~Decoupled /\ mm.st = 0 -> [a EXCEPT !.at = "k"]
              [] OTHER -> [mm EXCEPT !.at = "qk"]
  BY DEF MmaIssuePV2
<1>2. DOMAIN mm = MmDomain /\ mm.st \in {0, 1}
  BY StageIs DEF MmType, MmRecord, MmDomain
<1>3. /\ a.at = mm.at /\ a.t = mm.t /\ a.k = mm.k /\ a.st = mm.st /\ a.v = mm.v
      /\ a.qPh = mm.qPh /\ a.pPh = mm.pPh /\ a.fPh = mm.fPh
      /\ a.idx = (IF mm.idx = KvStages - 1 THEN 0 ELSE mm.idx + 1)
      /\ a.ph = (IF mm.idx = KvStages - 1 THEN 1 - mm.ph ELSE mm.ph)
      /\ DOMAIN a = MmDomain
  BY MmTurn
<1> HIDE DEF a
<1>4. /\ next.t = mm.t /\ next.k = mm.k /\ next.st = 0 /\ next.v = mm.v
      /\ next.qPh = mm.qPh /\ next.pPh = 1 - mm.pPh /\ next.fPh = mm.fPh
      /\ next.idx = (IF mm.idx = KvStages - 1 THEN 0 ELSE mm.idx + 1)
      /\ next.ph = (IF mm.idx = KvStages - 1 THEN 1 - mm.ph ELSE mm.ph)
      /\ DOMAIN next = MmDomain
  BY <1>3 DEF MmDomain
<1> HIDE DEF next
<1>5. CASE LastBlock /\ mm.st = 0
  <2>1. mm' = [mm EXCEPT !.at = "p", !.st = 1]
    BY <1>1, <1>5
  <2> QED
    BY <1>2, <1>5, <2>1 DEF Keeps, MmTo, Flips, Flip, MmDomain
<1>6. CASE LastBlock /\ mm.st = 1
  <2>1. mm' = [next EXCEPT !.at = IF mm.t + 1 \in Tile THEN "q" ELSE "dealloc",
                           !.t = next.t + 1, !.k = 0]
    BY <1>1, <1>6
  <2> QED
    BY <1>4, <1>6, <2>1 DEF Turns, MmTo, Flips, Flip, MmDomain
<1>7. CASE ~LastBlock /\ Decoupled /\ mm.st = 0
  <2>1. mm' = [mm EXCEPT !.at = "qk", !.st = 1]
    BY <1>1, <1>7
  <2> QED
    BY <1>2, <1>7, <2>1 DEF Keeps, MmTo, Flips, Flip, MmDomain
<1>8. CASE ~LastBlock /\ Decoupled /\ mm.st = 1
  <2>1. mm' = [next EXCEPT !.at = "v", !.k = next.k + 1, !.fPh = 1 - next.fPh]
    BY <1>1, <1>8
  <2> QED
    BY <1>4, <1>8, <2>1 DEF Turns, MmTo, Flips, Flip, MmDomain
<1>9. CASE ~LastBlock /\ ~Decoupled /\ mm.st = 0
  <2>1. mm' = [a EXCEPT !.at = "k"]
    BY <1>1, <1>9
  <2> QED
    BY <1>3, <1>9, <2>1 DEF Turns, MmTo, Flips, Flip, MmDomain
<1>10. CASE ~LastBlock /\ ~Decoupled /\ mm.st = 1
  <2>1. mm' = [mm EXCEPT !.at = "qk"]
    BY <1>1, <1>10
  <2> QED
    BY <1>2, <1>10, <2>1 DEF Keeps, MmTo, Flips, Flip, MmDomain
<1> QED
  BY <1>2, <1>5, <1>6, <1>7, <1>8, <1>9, <1>10

\* What a step of the MMA warp does to what it has in hand: it takes what it waited for,
\* gives back what it commits a release of, and moves on in the ring or stays.
MmHand(w, sig) ==
    /\ \A s \in Slot : Holds(s)' + If1(<<"kv_empty", s>> \in sig) = Holds(s) + If1(<<"kv_full", s>> \in w)
    /\ \A i \in Stage : QTaken(i)' = QTaken(i) + If1(<<"q_full", i>> \in w)
    /\ \A i \in Stage : QGiven' = QGiven + If1(<<"q_empty", i>> \in sig)
    /\ \/ Keeps /\ If1(HoldsNext)' = If1(HoldsNext) + If1(<<"kv_full", mm.idx>> \in w)
       \/ Turns /\ If1(HoldsNext)' = 0 /\ If1(HoldsNext) + If1(<<"kv_full", mm.idx>> \in w) = 1
MmStep(w, sig) ==
    /\ MmHand(w, sig) /\ MmPlace' /\ VIsNext'
    /\ mm'.qPh = (mm'.t - 1 + If1(mm'.k > 0)) % 2
    /\ \A b \in w : b[1] = "kv_full" => b = <<"kv_full", mm.idx>>
    /\ sig \subseteq CommitBarriers
    /\ sig = {} \/ \A b \in w : b[1] \notin MmWaits

\* Where the MMA warp can be.
MmWhere ==
    /\ mm \in MmRecord /\ mm.st \in {0, 1} /\ mm.t \in Int /\ mm.k \in Int /\ Tiles \in Int
    /\ 1 <= mm.t /\ mm.t <= Tiles + 1 /\ (MmOver <=> mm.t = Tiles + 1)
    /\ mm.idx \in Slot /\ mm.v \in Slot
    /\ ~MmOver => /\ mm.t \in Tile /\ 0 <= mm.k /\ mm.k <= Blocks[mm.t]
                  /\ Blocks[mm.t] \in Int /\ 1 <= Blocks[mm.t]

LEMMA TilesAre ==
    /\ Tiles \in Int /\ 1 <= Tiles
    /\ \A t \in Int : t \in Tile <=> 1 <= t /\ t <= Tiles
    /\ \A t \in Tile : Blocks[t] \in Int /\ 1 <= Blocks[t]
BY ConfigAssumption DEF Tiles, Tile

LEMMA MmIsSomewhere == ASSUME MmType, MmPlace PROVE MmWhere
<1>1. mm \in MmRecord /\ mm.st \in {0, 1} /\ mm.t \in Int /\ mm.k \in Int /\ mm.idx \in Slot /\ mm.v \in Slot
  BY StageIs DEF MmType, MmRecord
<1>2. 1 <= mm.t /\ mm.t <= Tiles + 1 /\ (MmOver <=> mm.t = Tiles + 1)
  BY TilesAre DEF MmPlace
<1>3. ~MmOver => mm.t \in Tile /\ mm.k \in 0..Blocks[mm.t]
  BY <1>1, <1>2, TilesAre DEF MmPlace
<1> QED
  BY <1>1, <1>2, <1>3, TilesAre DEF MmWhere

\* In hand, or not.
LEMMA HoldsIs ==
    ASSUME NEW s
    PROVE  /\ ~HoldsNext /\ ~HoldsV => Holds(s) = 0
           /\ HoldsNext /\ ~HoldsV => Holds(s) = If1(s = mm.idx)
           /\ ~HoldsNext /\ HoldsV => Holds(s) = If1(s = mm.v)
           /\ HoldsNext /\ HoldsV /\ mm.v # mm.idx => Holds(s) = If1(s = mm.idx \/ s = mm.v)
           /\ Holds(s) \in Int
BY DEF Holds, If1

LEMMA MmaWaitQStep ==
    ASSUME OperandInv, MmaWaitQ
    PROVE  MmStep({<<"q_full", mm.st>>}, {})
<1> DEFINE w == {<<"q_full", mm.st>>}
<1>1. MmWhere /\ MmPlace
  BY MmIsSomewhere DEF OperandInv, MmInv, Types
<1>2. mm.at = "q" /\ mm' = [mm EXCEPT !.at = IF mm.st = 0 THEN "k" ELSE "qk"] /\ mm.k = 0
  BY <1>1 DEF MmaWaitQ, MmPlace
<1>3. /\ mm'.at = (IF mm.st = 0 THEN "k" ELSE "qk") /\ mm'.t = mm.t /\ mm'.k = 0 /\ mm'.st = mm.st
      /\ mm'.v = mm.v /\ mm'.idx = mm.idx /\ mm'.ph = mm.ph /\ mm'.qPh = mm.qPh
  BY <1>1, <1>2 DEF MmWhere, MmRecord
<1>4. ~MmOver /\ ~MmOver' /\ ~Last /\ ~Last'
  BY <1>1, <1>2, <1>3 DEF MmOver, Last, MmWhere
<1>5. HoldsNext' = HoldsNext /\ ~HoldsV /\ ~HoldsV'
  BY <1>1, <1>2, <1>3 DEF HoldsNext, HoldsV, MmWhere
<1>6. MmHand(w, {})
  <2>1. \A s \in Slot : Holds(s)' + 0 = Holds(s) + 0
    BY <1>3, <1>5 DEF Holds, If1
  <2>2. \A i \in Stage : QTaken(i)' = QTaken(i) + If1(i = mm.st)
    BY <1>1, <1>2, <1>3, <1>4, StageIs DEF QTaken, If1, MmWhere
  <2>3. QGiven' = QGiven + 0
    BY <1>1, <1>3, <1>4 DEF QGiven, If1, MmWhere
  <2>4. Keeps /\ If1(HoldsNext)' = If1(HoldsNext) + 0
    BY <1>3, <1>5 DEF Keeps, If1
  <2> QED
    BY <2>1, <2>2, <2>3, <2>4 DEF MmHand, If1
<1>7. MmPlace' /\ VIsNext'
  BY <1>1, <1>2, <1>3, <1>4 DEF MmPlace, VIsNext, MmWhere
<1>8. mm'.qPh = (mm'.t - 1 + If1(mm'.k > 0)) % 2
  BY <1>2, <1>3 DEF OperandInv, MmInv, MmQ
<1> QED
  BY <1>6, <1>7, <1>8 DEF MmStep, MmWaits

LEMMA MmaWaitKStep ==
    ASSUME OperandInv, MmaWaitK
    PROVE  MmStep({<<"kv_full", mm.idx>>}, {})
<1> DEFINE w == {<<"kv_full", mm.idx>>}
<1>1. MmWhere /\ MmPlace
  BY MmIsSomewhere DEF OperandInv, MmInv, Types
<1>2. mm.at = "k" /\ mm' = [mm EXCEPT !.at = "qk"] /\ mm.st = 0
  BY <1>1 DEF MmaWaitK, MmPlace
<1>3. /\ mm'.at = "qk" /\ mm'.t = mm.t /\ mm'.k = mm.k /\ mm'.st = 0
      /\ mm'.v = mm.v /\ mm'.idx = mm.idx /\ mm'.ph = mm.ph /\ mm'.qPh = mm.qPh
  BY <1>1, <1>2 DEF MmWhere, MmRecord
<1>4. ~MmOver /\ ~MmOver' /\ Last' = Last
  BY <1>2, <1>3 DEF MmOver, Last
<1>5. ~HoldsNext /\ HoldsNext' /\ HoldsV' = HoldsV
  BY <1>2, <1>3, <1>4 DEF HoldsNext, HoldsV
<1>6. MmHand(w, {})
  <2>1. \A s \in Slot : Holds(s)' + 0 = Holds(s) + If1(s = mm.idx)
    BY <1>3, <1>5 DEF Holds, If1
  <2>2. \A i \in Stage : QTaken(i)' = QTaken(i) + 0
    BY <1>1, <1>2, <1>3, <1>4, StageIs DEF QTaken, If1, MmWhere
  <2>3. QGiven' = QGiven + 0
    BY <1>1, <1>3, <1>4 DEF QGiven, If1, MmWhere
  <2>4. Keeps /\ If1(HoldsNext)' = If1(HoldsNext) + 1
    BY <1>3, <1>5 DEF Keeps, If1
  <2> QED
    BY <2>1, <2>2, <2>3, <2>4 DEF MmHand, If1
<1>7. MmPlace' /\ VIsNext'
  BY <1>1, <1>2, <1>3, <1>4 DEF MmPlace, VIsNext, MmWhere, OperandInv, MmInv
<1>8. mm'.qPh = (mm'.t - 1 + If1(mm'.k > 0)) % 2
  BY <1>3 DEF OperandInv, MmInv, MmQ
<1> QED
  BY <1>6, <1>7, <1>8 DEF MmStep, MmWaits

LEMMA MmaWaitVStep ==
    ASSUME OperandInv, MmaWaitV
    PROVE  MmStep({<<"kv_full", mm.idx>>}, {})
<1> DEFINE w == {<<"kv_full", mm.idx>>}
<1>1. MmWhere /\ MmPlace
  BY MmIsSomewhere DEF OperandInv, MmInv, Types
<1>2. mm.at = "v" /\ mm.st = 0 /\ mm.k > 0
  BY <1>1 DEF MmaWaitV, MmPlace, MmWhere, MmOver
<1>3. /\ Flips(FALSE, FALSE, FALSE)
      /\ \/ Decoupled /\ ~LastBlock /\ Turns /\ MmTo("k", mm.t, mm.k, mm.st, mm.idx)
         \/ ~(Decoupled /\ ~LastBlock) /\ Keeps /\ MmTo("p", mm.t, mm.k, mm.st, mm.idx)
  BY MmaWaitVCases DEF OperandInv, Types
<1>4. ~MmOver /\ mm'.t = mm.t /\ mm'.k = mm.k /\ mm'.st = 0 /\ mm'.qPh = mm.qPh /\ mm'.v = mm.idx
      /\ mm'.at \in {"k", "p"}
  BY <1>2, <1>3 DEF MmOver, MmTo, Flips, Flip
<1>5. ~MmOver' /\ Last' = Last /\ (Last <=> LastBlock)
  BY <1>1, <1>4 DEF MmOver, Last, LastBlock, N, MmWhere
<1>6. ~HoldsNext /\ ~HoldsV
  BY <1>2 DEF HoldsNext, HoldsV
<1>7. MmHand(w, {})
  <2>1. \A i \in Stage : QTaken(i)' = QTaken(i) + 0
    BY <1>1, <1>2, <1>4, <1>5, StageIs DEF QTaken, If1, MmWhere
  <2>2. QGiven' = QGiven + 0
    BY <1>1, <1>4, <1>5 DEF QGiven, If1, MmWhere
  <2>3. CASE Decoupled /\ ~LastBlock
    <3>1. Turns /\ mm'.at = "k"
      BY <1>3, <2>3 DEF MmTo
    <3>2. ~HoldsNext' /\ HoldsV'
      BY <1>2, <1>4, <1>5, <2>3, <3>1 DEF HoldsNext, HoldsV
    <3>3. \A s \in Slot : Holds(s)' + 0 = Holds(s) + If1(s = mm.idx)
      BY <1>4, <1>6, <3>2 DEF Holds, If1
    <3>4. If1(HoldsNext)' = 0 /\ If1(HoldsNext) + 1 = 1
      BY <1>6, <3>2 DEF If1
    <3> QED
      BY <2>1, <2>2, <3>1, <3>3, <3>4 DEF MmHand, If1
  <2>4. CASE ~(Decoupled /\ ~LastBlock)
    <3>1. Keeps /\ mm'.at = "p"
      BY <1>3, <2>4 DEF MmTo
    <3>2. HoldsNext' /\ ~HoldsV'
      BY <1>2, <1>4, <1>5, <2>4, <3>1 DEF HoldsNext, HoldsV
    <3>3. \A s \in Slot : Holds(s)' + 0 = Holds(s) + If1(s = mm.idx)
      BY <1>6, <3>1, <3>2 DEF Holds, If1, Keeps
    <3>4. If1(HoldsNext)' = If1(HoldsNext) + 1
      BY <1>6, <3>2 DEF If1
    <3> QED
      BY <2>1, <2>2, <3>1, <3>3, <3>4 DEF MmHand, If1
  <2> QED
    BY <2>3, <2>4
<1>8. MmPlace'
  BY <1>1, <1>2, <1>3, <1>4, <1>5 DEF MmPlace, MmWhere, MmTo
<1>9. VIsNext'
  BY <1>3, <1>4 DEF VIsNext, MmTo, Keeps
<1>10. mm'.qPh = (mm'.t - 1 + If1(mm'.k > 0)) % 2
  BY <1>4 DEF OperandInv, MmInv, MmQ
<1> QED
  BY <1>7, <1>8, <1>9, <1>10 DEF MmStep, MmWaits

LEMMA MmaIssuePVStep ==
    ASSUME OperandInv, MmaIssuePV
    PROVE  MmStep({<<"P_full_O", mm.st>>}, {})
<1> DEFINE w == {<<"P_full_O", mm.st>>}
<1>1. MmWhere /\ MmPlace /\ VIsNext
  BY MmIsSomewhere DEF OperandInv, MmInv, Types
<1>2. mm.at = "p" /\ mm' = [mm EXCEPT !.at = "p2"]
  BY DEF MmaIssuePV
<1>3. /\ mm'.at = "p2" /\ mm'.t = mm.t /\ mm'.k = mm.k /\ mm'.st = mm.st
      /\ mm'.v = mm.v /\ mm'.idx = mm.idx /\ mm'.ph = mm.ph /\ mm'.qPh = mm.qPh
  BY <1>1, <1>2 DEF MmWhere, MmRecord
<1>4. ~MmOver /\ ~MmOver' /\ Last' = Last
  BY <1>2, <1>3 DEF MmOver, Last
<1>5. HoldsNext /\ HoldsNext' /\ HoldsV' = HoldsV
  BY <1>2, <1>3, <1>4 DEF HoldsNext, HoldsV
<1>6. MmHand(w, {})
  <2>1. \A s \in Slot : Holds(s)' + 0 = Holds(s) + 0
    BY <1>3, <1>5 DEF Holds, If1
  <2>2. \A i \in Stage : QTaken(i)' = QTaken(i) + 0
    BY <1>1, <1>2, <1>3, <1>4, StageIs DEF QTaken, If1, MmWhere
  <2>3. QGiven' = QGiven + 0
    BY <1>1, <1>3, <1>4 DEF QGiven, If1, MmWhere
  <2>4. Keeps /\ If1(HoldsNext)' = If1(HoldsNext) + 0
    BY <1>3, <1>5 DEF Keeps, If1
  <2> QED
    BY <2>1, <2>2, <2>3, <2>4 DEF MmHand, If1
<1>7. MmPlace' /\ VIsNext'
  BY <1>1, <1>2, <1>3, <1>4, <1>5 DEF MmPlace, VIsNext, MmWhere
<1>8. mm'.qPh = (mm'.t - 1 + If1(mm'.k > 0)) % 2
  BY <1>3 DEF OperandInv, MmInv, MmQ
<1> QED
  BY <1>6, <1>7, <1>8 DEF MmStep, MmWaits

LEMMA MmaDeallocStep ==
    ASSUME OperandInv, MmaDealloc
    PROVE  MmStep({<<"dealloc", 0>>}, {})
<1> DEFINE w == {<<"dealloc", 0>>}
<1>1. MmWhere /\ MmPlace /\ VIsNext
  BY MmIsSomewhere DEF OperandInv, MmInv, Types
<1>2. mm.at = "dealloc" /\ mm' = [mm EXCEPT !.at = "end"]
  BY DEF MmaDealloc
<1>3. /\ mm'.at = "end" /\ mm'.t = mm.t /\ mm'.k = mm.k /\ mm'.st = mm.st
      /\ mm'.v = mm.v /\ mm'.idx = mm.idx /\ mm'.ph = mm.ph /\ mm'.qPh = mm.qPh
  BY <1>1, <1>2 DEF MmWhere, MmRecord
<1>4. MmOver /\ MmOver' /\ Last' = Last
  BY <1>2, <1>3 DEF MmOver, Last
<1>5. HoldsNext' = HoldsNext /\ HoldsV' = HoldsV
  BY <1>1, <1>2, <1>3, <1>4 DEF HoldsNext, HoldsV, MmPlace
<1>6. MmHand(w, {})
  <2>1. \A s \in Slot : Holds(s)' + 0 = Holds(s) + 0
    BY <1>3, <1>5 DEF Holds, If1
  <2>2. \A i \in Stage : QTaken(i)' = QTaken(i) + 0
    BY <1>1, <1>2, <1>3, <1>4, StageIs DEF QTaken, If1, MmWhere
  <2>3. QGiven' = QGiven + 0
    BY <1>1, <1>3, <1>4 DEF QGiven, If1, MmWhere
  <2>4. Keeps /\ If1(HoldsNext)' = If1(HoldsNext) + 0
    BY <1>3, <1>5 DEF Keeps, If1
  <2> QED
    BY <2>1, <2>2, <2>3, <2>4 DEF MmHand, If1
<1>7. MmPlace' /\ VIsNext'
  BY <1>1, <1>2, <1>3, <1>4, <1>5 DEF MmPlace, VIsNext, MmWhere
<1>8. mm'.qPh = (mm'.t - 1 + If1(mm'.k > 0)) % 2
  BY <1>3 DEF OperandInv, MmInv, MmQ
<1> QED
  BY <1>6, <1>7, <1>8 DEF MmStep, MmWaits

\* The barriers the operations of a step arrive on.
QKEnds    == mm.st = 1 /\ (Prologue \/ ~Decoupled)
QKSignals == SFullCommit \cup (IF QKEnds THEN {<<"kv_empty", mm.idx>>} ELSE {})
             \cup (IF QKEnds /\ mm.k + 1 = N THEN QRelease ELSE {})
PVEnds    == mm.st = 1 /\ (LastBlock \/ Decoupled)
PVSignals == OFullCommit \cup VRelease
             \cup (IF PVEnds /\ ~LastBlock THEN {<<"kv_empty", mm.idx>>} ELSE {})
             \cup (IF PVEnds /\ mm.k + 1 = N THEN QRelease ELSE {})

LEMMA QKSignalsAre ==
    /\ \A s \in Slot : <<"kv_empty", s>> \in QKSignals <=> QKEnds /\ s = mm.idx
    /\ \A i \in Stage : <<"q_empty", i>> \in QKSignals <=> QKEnds /\ mm.k + 1 = N
    /\ MmWhere => QKSignals \subseteq CommitBarriers
<1>1. \A s \in Slot : <<"kv_empty", s>> \in QKSignals <=> QKEnds /\ s = mm.idx
  BY DEF QKSignals, SFullCommit, QRelease
<1>2. \A i \in Stage : <<"q_empty", i>> \in QKSignals <=> QKEnds /\ mm.k + 1 = N
  BY DEF QKSignals, SFullCommit, QRelease
<1>3. MmWhere => QKSignals \subseteq CommitBarriers
  BY StageIs DEF QKSignals, SFullCommit, QRelease, CommitBarriers, MmWhere
<1> QED
  BY <1>1, <1>2, <1>3

LEMMA PVSignalsAre ==
    /\ \A s \in Slot : <<"kv_empty", s>> \in PVSignals <=>
                          (mm.st = 1 /\ s = mm.v) \/ (PVEnds /\ ~LastBlock /\ s = mm.idx)
    /\ \A i \in Stage : <<"q_empty", i>> \in PVSignals <=> PVEnds /\ mm.k + 1 = N
    /\ MmWhere => PVSignals \subseteq CommitBarriers
<1>1. \A s \in Slot : <<"kv_empty", s>> \in PVSignals <=>
                         (mm.st = 1 /\ s = mm.v) \/ (PVEnds /\ ~LastBlock /\ s = mm.idx)
  BY DEF PVSignals, OFullCommit, VRelease, QRelease
<1>2. \A i \in Stage : <<"q_empty", i>> \in PVSignals <=> PVEnds /\ mm.k + 1 = N
  BY DEF PVSignals, OFullCommit, VRelease, QRelease
<1>3. MmWhere => PVSignals \subseteq CommitBarriers
  BY StageIs DEF PVSignals, OFullCommit, VRelease, QRelease, CommitBarriers, MmWhere
<1> QED
  BY <1>1, <1>2, <1>3

LEMMA MmaIssueQKStep ==
    ASSUME OperandInv, MmaIssueQK, NEW w, \A b \in w : b[1] = "sfqk"
    PROVE  MmStep(w, QKSignals)
<1>1. MmWhere /\ MmPlace /\ VIsNext
  BY MmIsSomewhere DEF OperandInv, MmInv, Types
<1>2. mm.at = "qk" /\ ~MmOver /\ ~Last /\ mm.k < Blocks[mm.t] /\ N = Blocks[mm.t]
  BY <1>1 DEF MmaIssueQK, MmPlace, MmOver, MmWhere, Last, N
<1>3. HoldsNext /\ (HoldsV <=> mm.k > 0 /\ (Decoupled \/ mm.st = 0))
  BY <1>2 DEF HoldsNext, HoldsV
<1>4. /\ \A s \in Slot : <<"kv_empty", s>> \in QKSignals <=> QKEnds /\ s = mm.idx
      /\ \A i \in Stage : <<"q_empty", i>> \in QKSignals <=> QKEnds /\ mm.k + 1 = N
  BY QKSignalsAre
<1>5. \A i \in Stage : /\ <<"q_full", i>> \notin w
                       /\ \A s \in Slot : <<"kv_full", s>> \notin w
  BY DEF If1
<1>a. mm.qPh = (mm.t - 1 + If1(mm.k > 0)) % 2
  BY DEF OperandInv, MmInv, MmQ
\* What is to be shown, in terms of the places before and after.
<1>6. ASSUME /\ \A s \in Slot : Holds(s)' + If1(QKEnds /\ s = mm.idx) = Holds(s)
             /\ \A i \in Stage : QTaken(i)' = QTaken(i)
             /\ QGiven' = QGiven + If1(QKEnds /\ mm.k + 1 = N)
             /\ (Keeps /\ HoldsNext') \/ (Turns /\ ~HoldsNext')
             /\ MmPlace' /\ VIsNext' /\ mm'.qPh = (mm'.t - 1 + If1(mm'.k > 0)) % 2
      PROVE  MmStep(w, QKSignals)
  <2>1. ASSUME NEW s \in Slot
        PROVE  Holds(s)' + If1(<<"kv_empty", s>> \in QKSignals) = Holds(s) + If1(<<"kv_full", s>> \in w)
    <3>1. If1(<<"kv_empty", s>> \in QKSignals) = If1(QKEnds /\ s = mm.idx) /\ If1(<<"kv_full", s>> \in w) = 0
      BY <1>4, <1>5, StageIs DEF If1
    <3>2. Holds(s) \in Int
      BY HoldsIs
    <3> QED
      BY <1>6, <3>1, <3>2
  <2>2. ASSUME NEW i \in Stage
        PROVE  QTaken(i)' = QTaken(i) + If1(<<"q_full", i>> \in w)
    <3>1. If1(<<"q_full", i>> \in w) = 0
      BY <1>5 DEF If1
    <3>2. QTaken(i)' = QTaken(i) /\ QTaken(i) \in Int
      BY <1>6, QFacts
    <3> QED
      BY <3>1, <3>2
  <2>3. \A i \in Stage : QGiven' = QGiven + If1(<<"q_empty", i>> \in QKSignals)
    BY <1>4, <1>6 DEF If1
  <2>4. \/ Keeps /\ If1(HoldsNext)' = If1(HoldsNext) + If1(<<"kv_full", mm.idx>> \in w)
        \/ Turns /\ If1(HoldsNext)' = 0 /\ If1(HoldsNext) + If1(<<"kv_full", mm.idx>> \in w) = 1
    BY <1>1, <1>3, <1>5, <1>6, StageIs DEF If1, MmWhere
  <2>5. MmHand(w, QKSignals)
    BY <2>1, <2>2, <2>3, <2>4 DEF MmHand
  <2> QED
    BY <1>1, <1>6, <2>5, QKSignalsAre DEF MmStep, MmWaits
<1>7. CASE /\ Prologue /\ mm.st = 0 /\ Keeps /\ Flips(FALSE, FALSE, FALSE)
           /\ MmTo("q", mm.t, mm.k, 1, mm.v)
  <2>1. /\ mm'.at = "q" /\ mm'.t = mm.t /\ mm'.k = 0 /\ mm.k = 0 /\ mm'.st = 1 /\ mm.st = 0
        /\ mm'.v = mm.v /\ mm'.idx = mm.idx /\ mm'.qPh = mm.qPh /\ ~QKEnds
    BY <1>7 DEF MmTo, Keeps, Flips, Flip, Prologue, QKEnds
  <2>2. ~MmOver' /\ ~Last' /\ HoldsNext' /\ ~HoldsV' /\ ~HoldsV
    BY <1>1, <1>2, <1>3, <2>1 DEF MmOver, Last, HoldsNext, HoldsV, MmWhere
  <2>3. \A s \in Slot : Holds(s)' + If1(QKEnds /\ s = mm.idx) = Holds(s)
    BY <1>3, <2>1, <2>2 DEF Holds, If1
  <2>4. \A i \in Stage : QTaken(i)' = QTaken(i)
    BY <1>1, <1>2, <2>1, <2>2, StageIs DEF QTaken, If1, MmWhere
  <2>5. QGiven' = QGiven + If1(QKEnds /\ mm.k + 1 = N)
    BY <1>1, <1>2, <2>1, <2>2 DEF QGiven, If1, MmWhere
  <2>6. MmPlace' /\ VIsNext'
    BY <1>1, <1>2, <2>1, <2>2 DEF MmPlace, VIsNext, MmWhere
  <2>7. mm'.qPh = (mm'.t - 1 + If1(mm'.k > 0)) % 2
    BY <1>a, <2>1
  <2> QED
    BY <1>6, <1>7, <2>2, <2>3, <2>4, <2>5, <2>6, <2>7
<1>8. CASE /\ Prologue /\ mm.st = 1 /\ Turns /\ Flips(TRUE, FALSE, QuantQK)
           /\ MmTo("v", mm.t, mm.k + 1, 0, mm.v)
  <2>1. /\ mm'.at = "v" /\ mm'.t = mm.t /\ mm'.k = 1 /\ mm.k = 0 /\ mm'.st = 0 /\ mm.st = 1
        /\ mm'.v = mm.v /\ mm'.qPh = 1 - mm.qPh /\ QKEnds
    BY <1>8 DEF MmTo, Turns, Flips, Flip, Prologue, QKEnds
  <2>2. ~MmOver' /\ (Last' <=> mm.k + 1 = N) /\ ~HoldsNext' /\ ~HoldsV' /\ ~HoldsV
    BY <1>1, <1>2, <1>3, <2>1 DEF MmOver, Last, HoldsNext, HoldsV, MmWhere
  <2>3. \A s \in Slot : Holds(s)' + If1(QKEnds /\ s = mm.idx) = Holds(s)
    BY <1>3, <2>1, <2>2 DEF Holds, If1
  <2>4. \A i \in Stage : QTaken(i)' = QTaken(i)
    BY <1>1, <1>2, <2>1, <2>2, StageIs DEF QTaken, If1, MmWhere
  <2>5. QGiven' = QGiven + If1(QKEnds /\ mm.k + 1 = N)
    BY <1>1, <1>2, <2>1, <2>2 DEF QGiven, If1, MmWhere
  <2>6. MmPlace' /\ VIsNext'
    BY <1>1, <1>2, <2>1, <2>2 DEF MmPlace, VIsNext, MmWhere
  <2>7. mm'.qPh = (mm'.t - 1 + If1(mm'.k > 0)) % 2
    <3>1. PICK n \in Int : n = mm.t - 1
      BY <1>1 DEF MmWhere
    <3>2. 1 - (n % 2) = (n + 1) % 2 /\ (n + 0) % 2 = n % 2
      OBVIOUS
    <3>3. If1(mm.k > 0) = 0 /\ If1(mm'.k > 0) = 1
      BY <2>1 DEF If1
    <3>4. mm.qPh = n % 2
      BY <1>a, <3>1, <3>2, <3>3
    <3> QED
      BY <2>1, <3>1, <3>2, <3>3, <3>4
  <2> QED
    BY <1>6, <1>8, <2>2, <2>3, <2>4, <2>5, <2>6, <2>7
<1>9. CASE \/ /\ ~Prologue /\ Decoupled /\ Keeps /\ Flips(FALSE, FALSE, FALSE)
              /\ MmTo("p", mm.t, mm.k, mm.st, mm.v)
           \/ /\ ~Prologue /\ ~Decoupled /\ mm.st = 0 /\ Keeps /\ Flips(FALSE, FALSE, FALSE)
              /\ MmTo("p", mm.t, mm.k, 1, mm.v)
  <2>1. /\ mm'.at = "p" /\ mm'.t = mm.t /\ mm'.k = mm.k /\ mm.k > 0
        /\ mm'.v = mm.v /\ mm'.idx = mm.idx /\ mm'.qPh = mm.qPh /\ ~QKEnds
        /\ (IF Decoupled THEN mm'.st = mm.st ELSE mm.st = 0 /\ mm'.st = 1) /\ Keeps
    BY <1>1, <1>2, <1>9 DEF MmTo, Keeps, Flips, Flip, Prologue, QKEnds, MmWhere
  <2>2. ~MmOver' /\ ~Last' /\ HoldsNext' /\ HoldsV' /\ HoldsV
    BY <1>1, <1>2, <1>3, <2>1 DEF MmOver, Last, HoldsNext, HoldsV, MmWhere
  <2>3. \A s \in Slot : Holds(s)' + If1(QKEnds /\ s = mm.idx) = Holds(s)
    BY <1>3, <2>1, <2>2 DEF Holds, If1
  <2>4. \A i \in Stage : QTaken(i)' = QTaken(i)
    BY <1>1, <1>2, <2>1, <2>2, StageIs DEF QTaken, If1, MmWhere
  <2>5. QGiven' = QGiven + If1(QKEnds /\ mm.k + 1 = N)
    BY <1>1, <1>2, <2>1, <2>2 DEF QGiven, If1, MmWhere
  <2>6. MmPlace' /\ VIsNext'
    BY <1>1, <1>2, <2>1, <2>2 DEF MmPlace, VIsNext, MmWhere
  <2>7. mm'.qPh = (mm'.t - 1 + If1(mm'.k > 0)) % 2
    BY <1>a, <2>1
  <2> QED
    BY <1>6, <2>1, <2>2, <2>3, <2>4, <2>5, <2>6, <2>7
<1>10. CASE /\ ~Prologue /\ ~Decoupled /\ mm.st = 1 /\ Turns /\ Flips(FALSE, TRUE, QuantQK)
            /\ MmTo("v", mm.t, mm.k + 1, 0, mm.v)
  <2>1. /\ mm'.at = "v" /\ mm'.t = mm.t /\ mm'.k = mm.k + 1 /\ mm.k > 0 /\ mm'.st = 0 /\ mm.st = 1
        /\ mm'.v = mm.v /\ mm'.qPh = mm.qPh /\ QKEnds /\ ~Decoupled
    BY <1>1, <1>2, <1>10 DEF MmTo, Turns, Flips, Flip, Prologue, QKEnds, MmWhere
  <2>2. ~MmOver' /\ (Last' <=> mm.k + 1 = N) /\ ~HoldsNext' /\ ~HoldsV' /\ ~HoldsV
    BY <1>1, <1>2, <1>3, <2>1 DEF MmOver, Last, HoldsNext, HoldsV, MmWhere
  <2>3. \A s \in Slot : Holds(s)' + If1(QKEnds /\ s = mm.idx) = Holds(s)
    BY <1>3, <2>1, <2>2 DEF Holds, If1
  <2>4. \A i \in Stage : QTaken(i)' = QTaken(i)
    BY <1>1, <1>2, <2>1, <2>2, StageIs DEF QTaken, If1, MmWhere
  <2>5. QGiven' = QGiven + If1(QKEnds /\ mm.k + 1 = N)
    BY <1>1, <1>2, <2>1, <2>2 DEF QGiven, If1, MmWhere
  <2>6. MmPlace' /\ VIsNext'
    BY <1>1, <1>2, <2>1, <2>2 DEF MmPlace, VIsNext, MmWhere
  <2>7. If1(mm'.k > 0) = If1(mm.k > 0)
    BY <1>1, <2>1 DEF If1, MmWhere
  <2> QED
    BY <1>6, <1>10, <1>a, <2>1, <2>2, <2>3, <2>4, <2>5, <2>6, <2>7
<1> QED
  BY <1>7, <1>8, <1>9, <1>10, MmaIssueQKCases DEF OperandInv, Types

LEMMA MmaIssuePV2Step ==
    ASSUME OperandInv, MmaIssuePV2
    PROVE  MmStep({<<"P_full_2", mm.st>>}, PVSignals)
<1> DEFINE w == {<<"P_full_2", mm.st>>}
<1>1. MmWhere /\ MmPlace /\ VIsNext
  BY MmIsSomewhere DEF OperandInv, MmInv, Types
<1>2. /\ mm.at = "p2" /\ ~MmOver /\ mm.k > 0 /\ N = Blocks[mm.t] /\ (Last <=> LastBlock)
      /\ (LastBlock <=> mm.k = N)
  BY <1>1 DEF MmaIssuePV2, MmPlace, MmOver, MmWhere, Last, LastBlock, N
<1>3. HoldsNext /\ (HoldsV <=> ~Last /\ (Decoupled \/ mm.st = 1)) /\ (HoldsV \/ mm.v = mm.idx)
  BY <1>1, <1>2 DEF HoldsNext, HoldsV, VIsNext
<1>4. /\ \A s \in Slot : <<"kv_empty", s>> \in PVSignals <=>
                            (mm.st = 1 /\ s = mm.v) \/ (PVEnds /\ ~LastBlock /\ s = mm.idx)
      /\ \A i \in Stage : <<"q_empty", i>> \in PVSignals <=> PVEnds /\ mm.k + 1 = N
  BY PVSignalsAre
<1>a. mm.qPh = (mm.t - 1 + 1) % 2
  <2>1. If1(mm.k > 0) = 1
    BY <1>2 DEF If1
  <2> QED
    BY <2>1 DEF OperandInv, MmInv, MmQ
<1>b. HoldsV => mm.v # mm.idx
  <2>1. Holds(mm.idx) \in {0, 1}
    BY <1>1, OneHand DEF MmWhere
  <2> QED
    BY <1>3, <2>1 DEF Holds, If1
<1>6. ASSUME /\ \A s \in Slot : Holds(s)' + If1((mm.st = 1 /\ s = mm.v)
                                                \/ (PVEnds /\ ~LastBlock /\ s = mm.idx)) = Holds(s)
             /\ \A i \in Stage : QTaken(i)' = QTaken(i)
             /\ QGiven' = QGiven + If1(PVEnds /\ mm.k + 1 = N)
             /\ (Keeps /\ HoldsNext') \/ (Turns /\ ~HoldsNext')
             /\ MmPlace' /\ VIsNext' /\ mm'.qPh = (mm'.t - 1 + If1(mm'.k > 0)) % 2
      PROVE  MmStep(w, PVSignals)
  <2>1. ASSUME NEW s \in Slot
        PROVE  Holds(s)' + If1(<<"kv_empty", s>> \in PVSignals) = Holds(s) + If1(<<"kv_full", s>> \in w)
    <3>1. /\ If1(<<"kv_empty", s>> \in PVSignals) =
                If1((mm.st = 1 /\ s = mm.v) \/ (PVEnds /\ ~LastBlock /\ s = mm.idx))
          /\ If1(<<"kv_full", s>> \in w) = 0
      BY <1>4 DEF If1
    <3>2. Holds(s) \in Int
      BY HoldsIs
    <3> QED
      BY <1>6, <3>1, <3>2
  <2>2. ASSUME NEW i \in Stage
        PROVE  QTaken(i)' = QTaken(i) + If1(<<"q_full", i>> \in w)
    <3>1. If1(<<"q_full", i>> \in w) = 0
      BY DEF If1
    <3>2. QTaken(i)' = QTaken(i) /\ QTaken(i) \in Int
      BY <1>6, QFacts
    <3> QED
      BY <3>1, <3>2
  <2>3. \A i \in Stage : QGiven' = QGiven + If1(<<"q_empty", i>> \in PVSignals)
    BY <1>4, <1>6 DEF If1
  <2>4. \/ Keeps /\ If1(HoldsNext)' = If1(HoldsNext) + If1(<<"kv_full", mm.idx>> \in w)
        \/ Turns /\ If1(HoldsNext)' = 0 /\ If1(HoldsNext) + If1(<<"kv_full", mm.idx>> \in w) = 1
    BY <1>3, <1>6 DEF If1
  <2>5. MmHand(w, PVSignals)
    BY <2>1, <2>2, <2>3, <2>4 DEF MmHand
  <2> QED
    BY <1>1, <1>6, <2>5, PVSignalsAre DEF MmStep, MmWaits
<1>7. CASE /\ LastBlock /\ mm.st = 0 /\ Keeps /\ Flips(FALSE, FALSE, FALSE)
           /\ MmTo("p", mm.t, mm.k, 1, mm.v)
  <2>1. /\ mm'.at = "p" /\ mm'.t = mm.t /\ mm'.k = mm.k /\ mm'.st = 1 /\ mm.st = 0
        /\ mm'.v = mm.v /\ mm'.idx = mm.idx /\ mm'.qPh = mm.qPh /\ ~PVEnds
    BY <1>7 DEF MmTo, Keeps, Flips, Flip, PVEnds
  <2>2. ~MmOver' /\ Last' /\ Last /\ HoldsNext' /\ ~HoldsV' /\ ~HoldsV
    BY <1>1, <1>2, <1>3, <1>7, <2>1 DEF MmOver, Last, HoldsNext, HoldsV, MmWhere
  <2>3. \A s \in Slot : Holds(s)' + If1((mm.st = 1 /\ s = mm.v)
                                        \/ (PVEnds /\ ~LastBlock /\ s = mm.idx)) = Holds(s)
    BY <1>3, <2>1, <2>2 DEF Holds, If1
  <2>4. \A i \in Stage : QTaken(i)' = QTaken(i)
    BY <1>1, <1>2, <2>1, <2>2, StageIs DEF QTaken, If1, MmWhere
  <2>5. QGiven' = QGiven + If1(PVEnds /\ mm.k + 1 = N)
    BY <1>1, <1>2, <2>1, <2>2 DEF QGiven, If1, MmWhere
  <2>6. MmPlace' /\ VIsNext'
    BY <1>1, <1>2, <1>3, <2>1, <2>2 DEF MmPlace, VIsNext, MmWhere
  <2>7. mm'.qPh = (mm'.t - 1 + If1(mm'.k > 0)) % 2
    BY <1>2, <1>a, <2>1 DEF If1
  <2> QED
    BY <1>6, <1>7, <2>2, <2>3, <2>4, <2>5, <2>6, <2>7
<1>8. CASE /\ LastBlock /\ mm.st = 1 /\ Turns /\ Flips(FALSE, TRUE, FALSE)
           /\ MmTo(IF mm.t + 1 \in Tile THEN "q" ELSE "dealloc", mm.t + 1, 0, 0, mm.v)
  <2>1. /\ mm'.at = (IF mm.t + 1 \in Tile THEN "q" ELSE "dealloc") /\ mm'.t = mm.t + 1
        /\ mm'.k = 0 /\ mm'.st = 0 /\ mm.st = 1 /\ mm'.v = mm.v /\ mm'.qPh = mm.qPh
        /\ mm.v = mm.idx /\ LastBlock /\ mm.k + 1 # N
    BY <1>1, <1>2, <1>3, <1>8 DEF MmTo, Turns, Flips, Flip, MmWhere
  <2>a. mm.t + 1 \in Tile <=> mm.t # Tiles
    BY <1>1, <1>2, TilesAre DEF MmWhere
  <2>2. (MmOver' <=> mm.t = Tiles) /\ ~Last' /\ Last /\ ~HoldsNext' /\ ~HoldsV' /\ ~HoldsV
    BY <1>1, <1>2, <1>3, <2>1, <2>a, TilesAre DEF MmOver, Last, HoldsNext, HoldsV, MmWhere
  <2>3. \A s \in Slot : Holds(s)' + If1((mm.st = 1 /\ s = mm.v)
                                        \/ (PVEnds /\ ~LastBlock /\ s = mm.idx)) = Holds(s)
    BY <1>3, <2>1, <2>2 DEF Holds, If1
  <2>4. \A i \in Stage : QTaken(i)' = QTaken(i)
    BY <1>1, <1>2, <2>1, <2>2, StageIs DEF QTaken, If1, MmWhere, MmOver
  <2>5. QGiven' = QGiven + If1(PVEnds /\ mm.k + 1 = N)
    BY <1>1, <1>2, <2>1, <2>2 DEF QGiven, If1, MmWhere
  <2>6. MmPlace' /\ VIsNext'
    BY <1>1, <1>2, <2>1, <2>2, <2>a, TilesAre DEF MmPlace, VIsNext, MmWhere
  <2>7. mm'.qPh = (mm'.t - 1 + If1(mm'.k > 0)) % 2
    <3>1. If1(mm'.k > 0) = 0
      BY <2>1 DEF If1
    <3> QED
      BY <1>1, <1>a, <2>1, <3>1 DEF MmWhere
  <2> QED
    BY <1>6, <1>8, <2>2, <2>3, <2>4, <2>5, <2>6, <2>7
<1>9. CASE /\ ~LastBlock /\ Decoupled /\ mm.st = 0 /\ Keeps /\ Flips(FALSE, FALSE, FALSE)
           /\ MmTo("qk", mm.t, mm.k, 1, mm.v)
  <2>1. /\ mm'.at = "qk" /\ mm'.t = mm.t /\ mm'.k = mm.k /\ mm'.st = 1 /\ mm.st = 0
        /\ mm'.v = mm.v /\ mm'.idx = mm.idx /\ mm'.qPh = mm.qPh /\ ~PVEnds /\ Decoupled
    BY <1>9 DEF MmTo, Keeps, Flips, Flip, PVEnds
  <2>2. ~MmOver' /\ ~Last' /\ ~Last /\ HoldsNext' /\ HoldsV' /\ HoldsV
    BY <1>1, <1>2, <1>3, <1>9, <2>1 DEF MmOver, Last, HoldsNext, HoldsV, MmWhere
  <2>3. \A s \in Slot : Holds(s)' + If1((mm.st = 1 /\ s = mm.v)
                                        \/ (PVEnds /\ ~LastBlock /\ s = mm.idx)) = Holds(s)
    BY <1>3, <2>1, <2>2 DEF Holds, If1
  <2>4. \A i \in Stage : QTaken(i)' = QTaken(i)
    BY <1>1, <1>2, <2>1, <2>2, StageIs DEF QTaken, If1, MmWhere
  <2>5. QGiven' = QGiven + If1(PVEnds /\ mm.k + 1 = N)
    BY <1>1, <1>2, <2>1, <2>2 DEF QGiven, If1, MmWhere
  <2>6. MmPlace' /\ VIsNext'
    BY <1>1, <1>2, <2>1, <2>2 DEF MmPlace, VIsNext, MmWhere
  <2>7. mm'.qPh = (mm'.t - 1 + If1(mm'.k > 0)) % 2
    BY <1>2, <1>a, <2>1 DEF If1
  <2> QED
    BY <1>6, <1>9, <2>2, <2>3, <2>4, <2>5, <2>6, <2>7
<1>10. CASE /\ ~LastBlock /\ Decoupled /\ mm.st = 1 /\ Turns /\ Flips(FALSE, TRUE, TRUE)
            /\ MmTo("v", mm.t, mm.k + 1, 0, mm.v)
  <2>1. /\ mm'.at = "v" /\ mm'.t = mm.t /\ mm'.k = mm.k + 1 /\ mm'.st = 0 /\ mm.st = 1
        /\ mm'.v = mm.v /\ mm'.qPh = mm.qPh /\ PVEnds /\ Decoupled /\ ~LastBlock
    BY <1>10 DEF MmTo, Turns, Flips, Flip, PVEnds
  <2>2. ~MmOver' /\ (Last' <=> mm.k + 1 = N) /\ ~Last /\ ~HoldsNext' /\ ~HoldsV' /\ HoldsV
    BY <1>1, <1>2, <1>3, <2>1 DEF MmOver, Last, HoldsNext, HoldsV, MmWhere
  <2>3. \A s \in Slot : Holds(s)' + If1((mm.st = 1 /\ s = mm.v)
                                        \/ (PVEnds /\ ~LastBlock /\ s = mm.idx)) = Holds(s)
    BY <1>3, <1>b, <2>1, <2>2 DEF Holds, If1
  <2>4. \A i \in Stage : QTaken(i)' = QTaken(i)
    BY <1>1, <1>2, <2>1, <2>2, StageIs DEF QTaken, If1, MmWhere
  <2>5. QGiven' = QGiven + If1(PVEnds /\ mm.k + 1 = N)
    BY <1>1, <1>2, <2>1, <2>2 DEF QGiven, If1, MmWhere
  <2>6. MmPlace' /\ VIsNext'
    BY <1>1, <1>2, <2>1, <2>2 DEF MmPlace, VIsNext, MmWhere
  <2>7. mm'.qPh = (mm'.t - 1 + If1(mm'.k > 0)) % 2
    <3>1. If1(mm'.k > 0) = 1
      BY <1>1, <1>2, <2>1 DEF If1, MmWhere
    <3> QED
      BY <1>a, <2>1, <3>1
  <2> QED
    BY <1>6, <1>10, <2>2, <2>3, <2>4, <2>5, <2>6, <2>7
<1>11. CASE /\ ~LastBlock /\ ~Decoupled /\ mm.st = 0 /\ Turns /\ Flips(FALSE, FALSE, FALSE)
            /\ MmTo("k", mm.t, mm.k, 0, mm.v)
  <2>1. /\ mm'.at = "k" /\ mm'.t = mm.t /\ mm'.k = mm.k /\ mm'.st = 0 /\ mm.st = 0
        /\ mm'.v = mm.v /\ mm'.qPh = mm.qPh /\ ~PVEnds /\ ~Decoupled /\ ~LastBlock
    BY <1>11 DEF MmTo, Turns, Flips, Flip, PVEnds
  <2>2. /\ ~MmOver' /\ ~Last' /\ ~Last /\ ~HoldsNext' /\ HoldsV' /\ ~HoldsV /\ mm.v = mm.idx
    BY <1>1, <1>2, <1>3, <2>1 DEF MmOver, Last, HoldsNext, HoldsV, MmWhere
  <2>3. \A s \in Slot : Holds(s)' + If1((mm.st = 1 /\ s = mm.v)
                                        \/ (PVEnds /\ ~LastBlock /\ s = mm.idx)) = Holds(s)
    BY <1>3, <2>1, <2>2 DEF Holds, If1
  <2>4. \A i \in Stage : QTaken(i)' = QTaken(i)
    BY <1>1, <1>2, <2>1, <2>2, StageIs DEF QTaken, If1, MmWhere
  <2>5. QGiven' = QGiven + If1(PVEnds /\ mm.k + 1 = N)
    BY <1>1, <1>2, <2>1, <2>2 DEF QGiven, If1, MmWhere
  <2>6. MmPlace' /\ VIsNext'
    BY <1>1, <1>2, <2>1, <2>2 DEF MmPlace, VIsNext, MmWhere
  <2>7. mm'.qPh = (mm'.t - 1 + If1(mm'.k > 0)) % 2
    BY <1>2, <1>a, <2>1 DEF If1
  <2> QED
    BY <1>6, <1>11, <2>2, <2>3, <2>4, <2>5, <2>6, <2>7
<1>12. CASE /\ ~LastBlock /\ ~Decoupled /\ mm.st = 1 /\ Keeps /\ Flips(FALSE, FALSE, FALSE)
            /\ MmTo("qk", mm.t, mm.k, 1, mm.v)
  <2>1. /\ mm'.at = "qk" /\ mm'.t = mm.t /\ mm'.k = mm.k /\ mm'.st = 1 /\ mm.st = 1
        /\ mm'.v = mm.v /\ mm'.idx = mm.idx /\ mm'.qPh = mm.qPh /\ ~PVEnds /\ ~Decoupled /\ ~LastBlock
    BY <1>12 DEF MmTo, Keeps, Flips, Flip, PVEnds
  <2>2. ~MmOver' /\ ~Last' /\ ~Last /\ HoldsNext' /\ ~HoldsV' /\ HoldsV
    BY <1>1, <1>2, <1>3, <2>1 DEF MmOver, Last, HoldsNext, HoldsV, MmWhere
  <2>3. \A s \in Slot : Holds(s)' + If1((mm.st = 1 /\ s = mm.v)
                                        \/ (PVEnds /\ ~LastBlock /\ s = mm.idx)) = Holds(s)
    BY <1>3, <2>1, <2>2 DEF Holds, If1
  <2>4. \A i \in Stage : QTaken(i)' = QTaken(i)
    BY <1>1, <1>2, <2>1, <2>2, StageIs DEF QTaken, If1, MmWhere
  <2>5. QGiven' = QGiven + If1(PVEnds /\ mm.k + 1 = N)
    BY <1>1, <1>2, <2>1, <2>2 DEF QGiven, If1, MmWhere
  <2>6. MmPlace' /\ VIsNext'
    BY <1>1, <1>2, <2>1, <2>2 DEF MmPlace, VIsNext, MmWhere
  <2>7. mm'.qPh = (mm'.t - 1 + If1(mm'.k > 0)) % 2
    BY <1>2, <1>a, <2>1 DEF If1
  <2> QED
    BY <1>6, <1>12, <2>2, <2>3, <2>4, <2>5, <2>6, <2>7
<1> QED
  BY <1>7, <1>8, <1>9, <1>10, <1>11, <1>12, MmaIssuePV2Cases DEF OperandInv, Types

LEMMA HoldsQIs ==
    ASSUME MmType, MmPlace, NEW i \in Stage
    PROVE  QTaken(i) \in Int /\ QGiven \in Int /\ HoldsQ(i) \in {0, 1}
<1>1. MmWhere
  BY MmIsSomewhere
<1>2. Last => ~MmOver /\ mm.k > 0
  BY <1>1, TilesAre DEF Last, MmWhere
<1>3. PICK n \in Int : n = mm.t - 1
  BY <1>1 DEF MmWhere
<1>4. QGiven = n + If1(Last)
  BY <1>3 DEF QGiven
<1>5. QTaken(i) = n + If1(~MmOver /\ (mm.k > 0 \/ i < mm.st \/ (i = mm.st /\ mm.at # "q")))
  BY <1>3 DEF QTaken
<1> QED
  BY <1>2, <1>4, <1>5 DEF HoldsQ, If1

HoldsOneQ == \A i \in Stage : HoldsQ(i) \in {0, 1}
LEMMA HoldsOneQIs == MmType /\ MmPlace => HoldsOneQ
BY HoldsQIs DEF HoldsOneQ

\* A step of the MMA warp keeps the account of what it holds.
LEMMA MmStepRing ==
    ASSUME OperandInv, Types', NEW w, NEW sig, MmStep(w, sig), Moves(w, {}),
           \A b : Committed(b)' <=> Committed(b) \/ b \in sig
    PROVE  /\ MmQ' /\ MmRing'
           /\ \A b \in sig : b[1] \in {"q_empty", "kv_empty"} => ~Committed(b)
<1>1. MmWhere /\ mm'.idx \in Slot /\ MmPlace'
  BY MmIsSomewhere DEF OperandInv, MmInv, Types, MmType, MmRecord, MmStep
<1>2. ASSUME NEW i \in Stage, <<"q_empty", i>> \in sig PROVE ~Committed(<<"q_empty", i>>)
  <2>1. QTaken(i)' = QTaken(i) + 0
    BY <1>2, NamesAre DEF MmStep, MmHand, MmWaits, If1
  <2>2. QGiven' = QGiven + 1
    BY <1>2 DEF MmStep, MmHand, If1
  <2>3. QTaken(i) \in Int /\ QGiven \in Int /\ HoldsQ(i) \in {0, 1}
    BY QFacts
  <2>4. HoldsQ(i)' \in {0, 1}
    <3>1. MmType' /\ MmPlace' => HoldsOneQ'
      BY HoldsOneQIs, PTL
    <3> QED
      BY <1>1, <3>1 DEF Types, HoldsOneQ
  <2>5. HoldsQ(i) = 1
    BY <2>1, <2>2, <2>3, <2>4 DEF HoldsQ
  <2> QED
    <3>1. HoldsQ(i) + If1(Committed(<<"q_empty", i>>)) + If1(Landing(<<"q_full", i>>)) <= 1
      BY OneHandQ
    <3> QED
      BY <2>5, <3>1 DEF If1
<1>3. ASSUME NEW s \in Slot, <<"kv_empty", s>> \in sig PROVE ~Committed(<<"kv_empty", s>>)
  <2>1. Holds(s)' + 1 = Holds(s) + 0
    BY <1>3, NamesAre DEF MmStep, MmHand, MmWaits, If1
  <2>2. Holds(s)' \in {0, 1, 2} /\ Holds(s) \in {0, 1}
    <3>1. Holds(s)' \in {0, 1, 2}
      BY DEF Holds, If1
    <3>2. Holds(s) \in {0, 1}
      BY OneHand
    <3> QED
      BY <3>1, <3>2
  <2>3. Holds(s) = 1
    BY <2>1, <2>2
  <2>4. Holds(s) + If1(Committed(<<"kv_empty", s>>)) + If1(Landing(<<"kv_full", s>>)) <= 1
    BY OneHand
  <2> QED
    BY <2>3, <2>4 DEF If1
<1>4. \A b \in sig : b[1] \in {"q_empty", "kv_empty"} => ~Committed(b)
  BY <1>2, <1>3 DEF MmStep, CommitBarriers
\* The count of commits on the way, and of arrivals, of a buffer's release.
<1>5. \A b : (b \in sig => ~Committed(b)) => If1(Committed(b))' = If1(Committed(b)) + If1(b \in sig)
  BY DEF If1
<1>6. ASSUME NEW i \in Stage
      PROVE  /\ Seen("q_full", i)' = QTaken(i)'
             /\ Arr("q_empty", i)' = QGiven' - If1(Committed(<<"q_empty", i>>))'
  <2>1. <<"q_empty", i>> \in Barrier /\ <<"q_full", i>> \in Barrier
    BY NamesAre
  <2>2. Seen("q_full", i)' = Seen("q_full", i) + If1(<<"q_full", i>> \in w)
    BY <2>1 DEF Moves, Seen
  <2>3. Arr("q_empty", i)' = Arr("q_empty", i) + 0
    BY <2>1 DEF Moves, Arr, If1
  <2>4. If1(Committed(<<"q_empty", i>>))' = If1(Committed(<<"q_empty", i>>)) + If1(<<"q_empty", i>> \in sig)
    BY <1>2, <1>5
  <2>5. QTaken(i)' = QTaken(i) + If1(<<"q_full", i>> \in w) /\ QGiven' = QGiven + If1(<<"q_empty", i>> \in sig)
    BY DEF MmStep, MmHand
  <2>6. /\ Seen("q_full", i) = QTaken(i) /\ Arr("q_empty", i) = QGiven - If1(Committed(<<"q_empty", i>>))
        /\ QTaken(i) \in Int /\ QGiven \in Int /\ Arr("q_empty", i) \in Int
    BY QFacts
  <2>7. /\ If1(Committed(<<"q_empty", i>>)) \in Int /\ If1(<<"q_empty", i>> \in sig) \in Int
        /\ If1(<<"q_full", i>> \in w) \in Int
    BY DEF If1
  <2> QED
    BY <2>2, <2>3, <2>4, <2>5, <2>6, <2>7
<1>7. MmQ'
  BY <1>6 DEF MmQ, MmStep
<1>0. PICK m \in Slot : m = mm.idx
  BY <1>1 DEF MmWhere
<1>8. PICK z \in Int : z = Before
  <2>1. Seen("kv_full", mm.idx) \in Int
    BY <1>1, SlotFacts DEF MmWhere
  <2> QED
    BY <2>1 DEF Before, If1
<1>9. ASSUME NEW s \in Slot
      PROVE  /\ Seen("kv_full", s)' = z + If1(s < m) + If1(HoldsNext /\ s = m) + If1(s = m /\ <<"kv_full", m>> \in w)
             /\ Arr("kv_empty", s)' = Seen("kv_full", s)' - Holds(s)' - If1(Committed(<<"kv_empty", s>>))'
  <2>1. <<"kv_empty", s>> \in Barrier /\ <<"kv_full", s>> \in Barrier
    BY NamesAre
  <2>2. Seen("kv_full", s)' = Seen("kv_full", s) + If1(<<"kv_full", s>> \in w)
    BY <2>1 DEF Moves, Seen
  <2>3. Arr("kv_empty", s)' = Arr("kv_empty", s) + 0
    BY <2>1 DEF Moves, Arr, If1
  <2>4. If1(Committed(<<"kv_empty", s>>))' = If1(Committed(<<"kv_empty", s>>)) + If1(<<"kv_empty", s>> \in sig)
    BY <1>3, <1>5
  <2>5. Holds(s)' + If1(<<"kv_empty", s>> \in sig) = Holds(s) + If1(<<"kv_full", s>> \in w)
    BY DEF MmStep, MmHand
  <2>6. /\ Arr("kv_empty", s) = Seen("kv_full", s) - Holds(s) - If1(Committed(<<"kv_empty", s>>))
        /\ Seen("kv_full", s) \in Int /\ Arr("kv_empty", s) \in Int
    BY SlotFacts
  <2>7. /\ If1(Committed(<<"kv_empty", s>>)) \in Int /\ If1(<<"kv_empty", s>> \in sig) \in Int
        /\ If1(<<"kv_full", s>> \in w) \in Int /\ Holds(s) \in Int /\ Holds(s)' \in Int
    BY DEF If1, Holds
  <2>8. Seen("kv_full", s) = z + If1(s < m) + If1(HoldsNext /\ s = m)
    BY <1>0, <1>8 DEF OperandInv, MmInv, MmRing
  <2>9. If1(<<"kv_full", s>> \in w) = If1(s = m /\ <<"kv_full", m>> \in w)
    BY <1>0 DEF MmStep, If1
  <2>10. Seen("kv_full", s)' = z + If1(s < m) + If1(HoldsNext /\ s = m) + If1(s = m /\ <<"kv_full", m>> \in w)
    BY <2>2, <2>8, <2>9
  <2>11. Arr("kv_empty", s)' = Seen("kv_full", s)' - Holds(s)' - If1(Committed(<<"kv_empty", s>>))'
    BY <2>2, <2>3, <2>4, <2>5, <2>6, <2>7
  <2> QED
    BY <2>10, <2>11
<1>10. \A s \in Slot : Seen("kv_full", s)' = z + If1(s < m) + If1(HoldsNext /\ s = m) + If1(s = m /\ <<"kv_full", m>> \in w)
  BY <1>9
<1>b. \A s \in Slot : Arr("kv_empty", s)' = Seen("kv_full", s)' - Holds(s)' - If1(Committed(<<"kv_empty", s>>))'
  BY <1>9
<1>11. mm.ph = z % 2 /\ m \in Slot
  BY <1>1, <1>8 DEF OperandInv, MmInv, MmRing, MmWhere
<1>12. \A s \in Slot : s \in Int /\ 0 <= s /\ s <= KvStages - 1 /\ KvStages \in Int /\ m \in Int
                        /\ 0 <= m /\ m <= KvStages - 1
  BY <1>11, ConfigAssumption DEF Slot
<1>13. ASSUME Keeps /\ If1(HoldsNext)' = If1(HoldsNext) + If1(<<"kv_full", mm.idx>> \in w)
       PROVE  MmRing'
  <2>1. mm'.idx = m /\ mm'.ph = mm.ph
    BY <1>0, <1>13 DEF Keeps
  <2>2. \A s \in Slot : Seen("kv_full", s)' = z + If1(s < m) + If1(HoldsNext' /\ s = m)
    <3>1. ASSUME NEW s \in Slot
          PROVE  If1(HoldsNext /\ s = m) + If1(s = m /\ <<"kv_full", m>> \in w) = If1(HoldsNext' /\ s = m)
      BY <1>0, <1>13 DEF If1
    <3> QED
      BY <1>10, <3>1 DEF If1
  <2>3. Seen("kv_full", mm.idx)' = z + If1(HoldsNext)'
    <3>1. Seen("kv_full", m)' = z + If1(m < m) + If1(HoldsNext' /\ m = m)
      BY <1>11, <2>2
    <3>2. Seen("kv_full", mm.idx)' = z + If1(m < m) + If1(HoldsNext' /\ m = m)
      BY <2>1, <3>1 DEF Seen
    <3> QED
      BY <1>11, <1>12, <3>2 DEF If1
  <2>4. Before' = z
    BY <2>3 DEF Before, If1
  <2>5. \A s \in Slot : Seen("kv_full", s)' = Before' + If1(s < mm'.idx) + If1(HoldsNext' /\ s = mm'.idx)
    BY <2>1, <2>2, <2>4
  <2>6. \A s \in Slot : Seen("kv_full", s)' = Before' + If1(s < mm.idx)' + If1(HoldsNext /\ s = mm.idx)'
    BY <2>5 DEF If1
  <2>7. mm'.ph = Before' % 2
    BY <1>11, <2>1, <2>4
  <2> QED
    BY <1>b, <2>6, <2>7 DEF MmRing
<1>14. ASSUME Turns, If1(HoldsNext)' = 0, If1(HoldsNext) + If1(<<"kv_full", mm.idx>> \in w) = 1
       PROVE  MmRing'
  <2>0. ~HoldsNext'
    BY <1>14 DEF If1
  <2>1. \A s \in Slot : Seen("kv_full", s)' = z + If1(s < m) + If1(s = m)
    <3>1. ASSUME NEW s \in Slot
          PROVE  If1(HoldsNext /\ s = m) + If1(s = m /\ <<"kv_full", m>> \in w) = If1(s = m)
      BY <1>0, <1>14 DEF If1
    <3> QED
      BY <1>10, <3>1 DEF If1
  <2>2. CASE m = KvStages - 1
    <3>1. \A s \in Slot : Seen("kv_full", s)' = z + 1
      BY <1>12, <2>1, <2>2 DEF If1
    <3>2. mm'.idx = 0 /\ mm'.ph = 1 - mm.ph
      BY <1>0, <1>14, <2>2 DEF Turns
    <3>3. 1 - (z % 2) = (z + 1) % 2
      OBVIOUS
    <3>4. Seen("kv_full", mm.idx)' = z + 1
      BY <1>1, <3>1 DEF Seen
    <3>5. Before' = z + 1
      BY <2>0, <3>4 DEF Before, If1
    <3>6. ASSUME NEW s \in Slot
          PROVE  Seen("kv_full", s)' = Before' + If1(s < mm'.idx) + If1(HoldsNext' /\ s = mm'.idx)
      BY <1>12, <2>0, <3>1, <3>2, <3>5 DEF If1
    <3>7. mm'.ph = Before' % 2
      BY <1>11, <3>2, <3>3, <3>5
    <3>8. \A s \in Slot : Seen("kv_full", s)' = Before' + If1(s < mm.idx)' + If1(HoldsNext /\ s = mm.idx)'
      BY <3>6 DEF If1
    <3> QED
      BY <1>b, <3>7, <3>8 DEF MmRing
  <2>3. CASE m # KvStages - 1
    <3>1. mm'.idx = m + 1 /\ mm'.ph = mm.ph
      BY <1>0, <1>14, <2>3 DEF Turns
    <3>2. Seen("kv_full", mm.idx)' = z
      <4>1. PICK j \in Slot : j = mm'.idx
        BY <1>1
      <4>2. Seen("kv_full", j)' = z
        BY <1>12, <2>1, <3>1, <4>1 DEF If1
      <4> QED
        BY <4>1, <4>2 DEF Seen
    <3>3. Before' = z
      BY <2>0, <3>2 DEF Before, If1
    <3>4. ASSUME NEW s \in Slot
          PROVE  Seen("kv_full", s)' = Before' + If1(s < mm'.idx) + If1(HoldsNext' /\ s = mm'.idx)
      <4>1. If1(s < mm'.idx) = If1(s < m) + If1(s = m) /\ If1(HoldsNext' /\ s = mm'.idx) = 0
        BY <1>12, <2>0, <3>1 DEF If1
      <4>2. Seen("kv_full", s)' = z + If1(s < m) + If1(s = m)
        BY <2>1
      <4>3. If1(s < m) \in Int /\ If1(s = m) \in Int
        BY DEF If1
      <4> QED
        BY <3>3, <4>1, <4>2, <4>3
    <3>5. mm'.ph = Before' % 2
      BY <1>11, <3>1, <3>3
    <3>8. \A s \in Slot : Seen("kv_full", s)' = Before' + If1(s < mm.idx)' + If1(HoldsNext /\ s = mm.idx)'
      BY <3>4 DEF If1
    <3> QED
      BY <1>b, <3>5, <3>8 DEF MmRing
  <2> QED
    BY <2>2, <2>3
<1>15. MmRing'
  BY <1>13, <1>14 DEF MmStep, MmHand
<1> QED
  BY <1>4, <1>7, <1>15

-----------------------------------------------------------------------------
(* Operations in flight.  A slot or a Q buffer an operation reads is still *)
(* in the MMA warp's hand, or its release is carried by that operation or  *)
(* a later one.                                                            *)

Covered ==
    \A j \in DOMAIN tc :
        /\ \/ Holds(tc[j].slot) > 0
           \/ \E i \in DOMAIN tc : j <= i /\ <<"kv_empty", tc[j].slot>> \in tc[i].signals
        /\ tc[j].kind = "QK" =>
              \/ HoldsQ(tc[j].st) > 0
              \/ \E i \in DOMAIN tc : j <= i /\ <<"q_empty", tc[j].st>> \in tc[i].signals

\* What leaves the hand is released.
LEMMA LeavesByRelease ==
    ASSUME OperandInv, NEW w, NEW sig, MmStep(w, sig)
    PROVE  /\ \A s \in Slot : Holds(s) > 0 => Holds(s)' > 0 \/ <<"kv_empty", s>> \in sig
           /\ \A i \in Stage : HoldsQ(i) > 0 => HoldsQ(i)' > 0 \/ <<"q_empty", i>> \in sig
<1>1. ASSUME NEW s \in Slot, Holds(s) > 0, <<"kv_empty", s>> \notin sig PROVE Holds(s)' > 0
  <2>1. Holds(s)' + If1(<<"kv_empty", s>> \in sig) = Holds(s) + If1(<<"kv_full", s>> \in w)
    BY DEF MmStep, MmHand
  <2>2. If1(<<"kv_empty", s>> \in sig) = 0 /\ If1(<<"kv_full", s>> \in w) \in {0, 1}
    BY <1>1 DEF If1
  <2>3. Holds(s) \in Int /\ Holds(s)' \in Int
    BY DEF Holds, If1
  <2> QED
    BY <1>1, <2>1, <2>2, <2>3
<1>2. ASSUME NEW i \in Stage, HoldsQ(i) > 0, <<"q_empty", i>> \notin sig PROVE HoldsQ(i)' > 0
  <2>1. QTaken(i)' = QTaken(i) + If1(<<"q_full", i>> \in w) /\ QGiven' = QGiven + If1(<<"q_empty", i>> \in sig)
    BY DEF MmStep, MmHand
  <2>2. If1(<<"q_empty", i>> \in sig) = 0 /\ If1(<<"q_full", i>> \in w) \in {0, 1}
    BY <1>2 DEF If1
  <2>3. QTaken(i) \in Int /\ QGiven \in Int
    BY QFacts
  <2> QED
    BY <1>2, <2>1, <2>2, <2>3 DEF HoldsQ
<1> QED
  BY <1>1, <1>2

LEMMA IssueRing ==
    ASSUME OperandInv, Covered, Types', NEW w, NEW sig, MmStep(w, sig), Moves(w, {}),
           NEW kind, NEW k, NEW slot \in Slot, NEW copies, NEW open,
           Issue(kind, k, slot, copies, open, sig), Holds(slot) > 0,
           kind = "QK" => HoldsQ(mm.st) > 0, mm'.at = "p2" => open /\ sig = {}
    PROVE  MmInv' /\ Covered'
<1> DEFINE op == [kind |-> kind, st |-> mm.st, t |-> mm.t, k |-> k, slot |-> slot,
                  copies |-> copies, open |-> open, signals |-> sig,
                  begun |-> FALSE, ok |-> TRUE]
           n == Len(tc)
<1>1. tc \in Seq(Op) /\ tc' = Append(tc, op) /\ mm.st \in Stage
  BY DEF Issue, OperandInv, Types, TcType, MmType, MmRecord
<1>2. op.kind = kind /\ op.st = mm.st /\ op.slot = slot /\ op.open = open /\ op.signals = sig
  OBVIOUS
<1> HIDE DEF op
<1>3. /\ n \in Nat /\ DOMAIN tc = 1..n /\ DOMAIN tc' = 1..(n + 1) /\ tc'[n + 1] = op /\ Len(tc') = n + 1
      /\ \A j \in 1..n : tc'[j] = tc[j]
  BY <1>1
<1> HIDE DEF n
<1>a. \A j \in 1..(n + 1) : tc'[j].slot \in Slot /\ tc'[j].st \in Stage
  <2>1. tc' \in Seq(Op)
    BY DEF Types, TcType
  <2>2. \A j \in 1..(n + 1) : tc'[j] \in Op
    BY <1>3, <2>1
  <2> QED
    BY <2>2 DEF Op
<1>4. \A b : Committed(b)' <=> Committed(b) \/ b \in sig
  <2>1. \A b : Committed(b)' <=> \E j \in 1..(n + 1) : b \in tc'[j].signals
    BY <1>3 DEF Committed
  <2>2. \A b : Committed(b) <=> \E j \in 1..n : b \in tc[j].signals
    BY <1>3 DEF Committed
  <2> QED
    BY <1>2, <1>3, <2>1, <2>2
<1>5. MmQ' /\ MmRing' /\ \A b \in sig : b[1] \in {"q_empty", "kv_empty"} => ~Committed(b)
  BY <1>4, MmStepRing
<1>6. TcApart'
  <2>1. ASSUME NEW i \in 1..(n + 1), NEW j \in 1..(n + 1), i # j,
               NEW b \in tc'[i].signals, b \in tc'[j].signals
        PROVE  b[1] \notin {"q_empty", "kv_empty"}
    <3>1. CASE i \in 1..n /\ j \in 1..n
      BY <1>3, <2>1, <3>1 DEF OperandInv, MmInv, TcApart
    <3>2. CASE i \notin 1..n
      <4>1. i = n + 1 /\ j \in 1..n
        BY <1>3, <2>1, <3>2
      <4>2. b \in sig /\ Committed(b)
        BY <1>2, <1>3, <2>1, <4>1 DEF Committed
      <4> QED
        BY <1>5, <4>2
    <3>3. CASE j \notin 1..n
      <4>1. j = n + 1 /\ i \in 1..n
        BY <1>3, <2>1, <3>3
      <4>2. b \in sig /\ Committed(b)
        BY <1>2, <1>3, <2>1, <4>1 DEF Committed
      <4> QED
        BY <1>5, <4>2
    <3> QED
      BY <3>1, <3>2, <3>3
  <2>2. ASSUME NEW j \in 1..(n + 1) PROVE tc'[j].signals \subseteq CommitBarriers
    <3>1. CASE j \in 1..n
      BY <1>3, <3>1 DEF OperandInv, MmInv, TcApart
    <3>2. CASE j = n + 1
      BY <1>2, <1>3, <3>2 DEF MmStep
    <3> QED
      BY <1>3, <3>1, <3>2
  <2>3. mm'.at = "p2" => tc' # <<>> /\ tc'[Len(tc')].open /\ tc'[Len(tc')].signals = {}
    <3>1. tc' # <<>>
      BY <1>3
    <3> QED
      BY <1>2, <1>3, <3>1
  <2> QED
    BY <1>3, <2>1, <2>2, <2>3 DEF TcApart, CommitBarriers
<1>7. Covered'
  <2>1. ASSUME NEW j \in 1..(n + 1)
        PROVE  \/ Holds(tc[j].slot)' > 0
               \/ \E i \in 1..(n + 1) : j <= i /\ <<"kv_empty", tc'[j].slot>> \in tc'[i].signals
    <3>1. PICK s \in Slot : s = tc'[j].slot
      BY <1>a
    <3>2. \/ Holds(s) > 0
          \/ \E i \in 1..n : j <= i /\ <<"kv_empty", s>> \in tc[i].signals
      <4>1. CASE j \in 1..n
        BY <1>3, <3>1, <4>1 DEF Covered
      <4>2. CASE j = n + 1
        BY <1>2, <1>3, <3>1, <4>2
      <4> QED
        BY <1>3, <4>1, <4>2
    <3>3. CASE Holds(s) > 0
      <4>1. Holds(s)' > 0 \/ <<"kv_empty", s>> \in tc'[n + 1].signals
        BY <1>2, <1>3, <3>3, LeavesByRelease
      <4> QED
        BY <1>3, <3>1, <4>1 DEF Holds
    <3>4. CASE \E i \in 1..n : j <= i /\ <<"kv_empty", s>> \in tc[i].signals
      BY <1>3, <3>1, <3>4
    <3> QED
      BY <3>2, <3>3, <3>4
  <2>2. ASSUME NEW j \in 1..(n + 1), tc'[j].kind = "QK"
        PROVE  \/ HoldsQ(tc[j].st)' > 0
               \/ \E i \in 1..(n + 1) : j <= i /\ <<"q_empty", tc'[j].st>> \in tc'[i].signals
    <3>1. PICK s \in Stage : s = tc'[j].st
      BY <1>a
    <3>2. \/ HoldsQ(s) > 0
          \/ \E i \in 1..n : j <= i /\ <<"q_empty", s>> \in tc[i].signals
      <4>1. CASE j \in 1..n
        BY <1>3, <2>2, <3>1, <4>1 DEF Covered
      <4>2. CASE j = n + 1
        BY <1>2, <1>3, <2>2, <3>1, <4>2
      <4> QED
        BY <1>3, <4>1, <4>2
    <3>3. CASE HoldsQ(s) > 0
      <4>1. HoldsQ(s)' > 0 \/ <<"q_empty", s>> \in tc'[n + 1].signals
        BY <1>2, <1>3, <3>3, LeavesByRelease
      <4> QED
        BY <1>3, <3>1, <4>1 DEF HoldsQ, QTaken
    <3>4. CASE \E i \in 1..n : j <= i /\ <<"q_empty", s>> \in tc[i].signals
      BY <1>3, <3>1, <3>4
    <3> QED
      BY <3>2, <3>3, <3>4
  <2> QED
    BY <1>3, <2>1, <2>2 DEF Covered
<1> QED
  BY <1>5, <1>6, <1>7 DEF MmInv, MmStep

LEMMA PV2Ring == ASSUME OperandInv, Covered, Types', MmaIssuePV2 PROVE MmInv' /\ Covered'
<1> DEFINE w == {<<"P_full_2", mm.st>>}
           sig == PVSignals
           n == Len(tc)
<1>1. MmStep(w, sig) /\ Moves(w, {})
  BY MmaIssuePV2Step, WaitMoves DEF MmaIssuePV2, OperandInv, Types
<1>2. /\ mm.at = "p2" /\ mm'.at # "p2"
      /\ tc' = [tc EXCEPT ![n].open = FALSE, ![n].signals = sig]
  <2>1. mm'.at # "p2"
    BY MmaIssuePV2Cases DEF OperandInv, Types, MmTo
  <2> QED
    BY <2>1 DEF MmaIssuePV2, PVSignals, PVEnds
<1> HIDE DEF sig
<1>3. tc \in Seq(Op) /\ tc # <<>> /\ tc[n].signals = {}
  BY <1>2 DEF OperandInv, Types, TcType, MmInv, TcApart
<1>4. n \in Nat /\ n >= 1 /\ DOMAIN tc = 1..n
  BY <1>3
<1> HIDE DEF n
<1>5. \A j \in 1..n : tc[j] \in Op
  BY <1>3, <1>4
<1>6. /\ DOMAIN tc' = 1..n
      /\ \A j \in 1..n : /\ tc'[j].slot = tc[j].slot /\ tc'[j].st = tc[j].st /\ tc'[j].kind = tc[j].kind
                         /\ tc[j].slot \in Slot /\ tc[j].st \in Stage
                         /\ tc'[j].signals = IF j = n THEN sig ELSE tc[j].signals
  <2>1. ASSUME NEW j \in 1..n
        PROVE  /\ tc'[j].slot = tc[j].slot /\ tc'[j].st = tc[j].st /\ tc'[j].kind = tc[j].kind
               /\ tc[j].slot \in Slot /\ tc[j].st \in Stage
               /\ tc'[j].signals = IF j = n THEN sig ELSE tc[j].signals
    <3>1. tc[j] \in Op
      BY <1>5
    <3>2. CASE j = n
      <4>1. tc'[j] = [tc[j] EXCEPT !.open = FALSE, !.signals = sig]
        BY <1>2, <1>4, <3>2
      <4> QED
        BY <3>1, <3>2, <4>1 DEF Op
    <3>3. CASE j # n
      <4>1. tc'[j] = tc[j]
        BY <1>2, <1>4, <3>3
      <4> QED
        BY <3>1, <3>3, <4>1 DEF Op
    <3> QED
      BY <3>2, <3>3
  <2> QED
    BY <1>2, <1>4, <2>1
<1>7. \A b : Committed(b)' <=> Committed(b) \/ b \in sig
  <2>1. \A b : Committed(b)' <=> \E j \in 1..n : b \in tc'[j].signals
    BY <1>6 DEF Committed
  <2>2. \A b : Committed(b) <=> \E j \in 1..n : b \in tc[j].signals
    BY <1>4 DEF Committed
  <2>3. n \in 1..n
    BY <1>4
  <2> QED
    BY <1>3, <1>6, <2>1, <2>2, <2>3
<1>8. MmQ' /\ MmRing' /\ \A b \in sig : b[1] \in {"q_empty", "kv_empty"} => ~Committed(b)
  BY <1>1, <1>7, MmStepRing
<1>9. TcApart'
  <2>1. ASSUME NEW i \in 1..n, NEW j \in 1..n, i # j, NEW b \in tc'[i].signals, b \in tc'[j].signals
        PROVE  b[1] \notin {"q_empty", "kv_empty"}
    <3>1. CASE i # n /\ j # n
      BY <1>4, <1>6, <2>1, <3>1 DEF OperandInv, MmInv, TcApart
    <3>2. CASE i = n \/ j = n
      <4>1. b \in sig /\ Committed(b)
        BY <1>4, <1>6, <2>1, <3>2 DEF Committed
      <4> QED
        BY <1>8, <4>1
    <3> QED
      BY <3>1, <3>2
  <2>2. ASSUME NEW j \in 1..n PROVE tc'[j].signals \subseteq CommitBarriers
    <3>1. CASE j # n
      BY <1>4, <1>6, <3>1 DEF OperandInv, MmInv, TcApart
    <3>2. CASE j = n
      BY <1>1, <1>6, <3>2 DEF MmStep
    <3> QED
      BY <3>1, <3>2
  <2> QED
    BY <1>2, <1>6, <2>1, <2>2 DEF TcApart, CommitBarriers
<1>10. Covered'
  <2>0. n \in 1..n /\ \A j \in 1..n : j <= n
    BY <1>4
  <2>1. ASSUME NEW j \in 1..n
        PROVE  \/ Holds(tc[j].slot)' > 0
               \/ \E i \in 1..n : j <= i /\ <<"kv_empty", tc'[j].slot>> \in tc'[i].signals
    <3>1. PICK s \in Slot : s = tc[j].slot /\ s = tc'[j].slot
      BY <1>6
    <3>2. \/ Holds(s) > 0
          \/ \E i \in 1..n : j <= i /\ <<"kv_empty", s>> \in tc[i].signals
      BY <1>4, <3>1 DEF Covered
    <3>3. CASE Holds(s) > 0
      <4>1. Holds(s)' > 0 \/ <<"kv_empty", s>> \in tc'[n].signals
        BY <1>1, <1>6, <2>0, <3>3, LeavesByRelease
      <4> QED
        BY <2>0, <3>1, <4>1 DEF Holds
    <3>4. CASE \E i \in 1..n : j <= i /\ <<"kv_empty", s>> \in tc[i].signals
      BY <1>3, <1>6, <3>1, <3>4
    <3> QED
      BY <3>2, <3>3, <3>4
  <2>2. ASSUME NEW j \in 1..n, tc'[j].kind = "QK"
        PROVE  \/ HoldsQ(tc[j].st)' > 0
               \/ \E i \in 1..n : j <= i /\ <<"q_empty", tc'[j].st>> \in tc'[i].signals
    <3>1. PICK s \in Stage : s = tc[j].st /\ s = tc'[j].st
      BY <1>6
    <3>2. \/ HoldsQ(s) > 0
          \/ \E i \in 1..n : j <= i /\ <<"q_empty", s>> \in tc[i].signals
      <4>1. tc[j].kind = "QK" /\ j \in DOMAIN tc
        BY <1>4, <1>6, <2>2
      <4> QED
        BY <1>4, <3>1, <4>1 DEF Covered
    <3>3. CASE HoldsQ(s) > 0
      <4>1. HoldsQ(s)' > 0 \/ <<"q_empty", s>> \in tc'[n].signals
        BY <1>1, <1>6, <2>0, <3>3, LeavesByRelease
      <4> QED
        BY <2>0, <3>1, <4>1 DEF HoldsQ, QTaken
    <3>4. CASE \E i \in 1..n : j <= i /\ <<"q_empty", s>> \in tc[i].signals
      BY <1>3, <1>6, <3>1, <3>4
    <3> QED
      BY <3>2, <3>3, <3>4
  <2> QED
    BY <1>6, <2>1, <2>2 DEF Covered
<1> QED
  BY <1>1, <1>8, <1>9, <1>10 DEF MmInv, MmStep

LEMMA WaitRing ==
    ASSUME OperandInv, Covered, Types', NEW w, MmStep(w, {}), Moves(w, {}), UNCHANGED tc, mm'.at # "p2"
    PROVE  MmInv' /\ Covered'
<1>1. \A b : Committed(b)' <=> Committed(b) \/ b \in {}
  BY DEF Committed
<1>2. MmQ' /\ MmRing'
  BY <1>1, MmStepRing
<1>3. TcApart'
  BY DEF OperandInv, MmInv, TcApart
<1>4. Covered'
  <2>1. \A j \in DOMAIN tc : tc[j].slot \in Slot /\ tc[j].st \in Stage
    <3>1. tc \in Seq(Op)
      BY DEF OperandInv, Types, TcType
    <3>2. \A j \in DOMAIN tc : tc[j] \in Op
      BY <3>1
    <3> QED
      BY <3>2 DEF Op
  <2>a. PICK g : g = {} /\ MmStep(w, g)
    OBVIOUS
  <2>b. /\ \A s \in Slot : Holds(s) > 0 => Holds(s)' > 0 \/ <<"kv_empty", s>> \in g
        /\ \A i \in Stage : HoldsQ(i) > 0 => HoldsQ(i)' > 0 \/ <<"q_empty", i>> \in g
    BY <2>a, LeavesByRelease
  <2>2. ASSUME NEW j \in DOMAIN tc, Holds(tc[j].slot) > 0 PROVE Holds(tc[j].slot)' > 0
    <3>1. PICK s \in Slot : s = tc[j].slot
      BY <2>1
    <3>2. Holds(s)' > 0
      BY <2>2, <2>a, <2>b, <3>1
    <3> QED
      BY <3>1, <3>2 DEF Holds
  <2>3. ASSUME NEW j \in DOMAIN tc, HoldsQ(tc[j].st) > 0 PROVE HoldsQ(tc[j].st)' > 0
    <3>1. PICK s \in Stage : s = tc[j].st
      BY <2>1
    <3>2. HoldsQ(s)' > 0
      BY <2>3, <2>a, <2>b, <3>1
    <3> QED
      BY <3>1, <3>2 DEF HoldsQ, QTaken
  <2> QED
    BY <2>2, <2>3 DEF Covered
<1> QED
  BY <1>2, <1>3, <1>4 DEF MmInv, MmStep

-----------------------------------------------------------------------------
(* The ring's invariant, step by step.                                     *)

RingKept == OperandInv' /\ Covered'

\* A step that stays away from the ring's barriers, both roles' state and the engines.
LEMMA FrameRing ==
    ASSUME OperandInv, Covered, Types', NEW w, NEW a, Moves(w, a),
           \A b \in w : b[1] \notin RingBarriers, \A b \in a : b[1] \notin RingBarriers,
           UNCHANGED <<ld, tma, mm, tc>>
    PROVE  RingKept
<1>1. BarType /\ BarOK /\ LdType /\ MmType /\ BarType'
  BY DEF OperandInv, Types
<1>2. BarOK'
  BY <1>1, MovesKeeps
<1>3. SeenKept(LdWaits) /\ SeenKept(MmWaits) /\ ArrKept(LdGives) /\ ArrKept(MmGives)
  <2>1. \A b \in w : b[1] \notin LdWaits /\ b[1] \notin MmWaits
    BY DEF RingBarriers, LdWaits, MmWaits
  <2>2. \A b \in a : b[1] \notin LdGives /\ b[1] \notin MmGives
    BY DEF RingBarriers, LdGives, MmGives
  <2> QED
    BY <1>1, <2>1, <2>2, KeptSeen, KeptArr
<1>4. LdInv' /\ MmInv'
  BY <1>1, <1>3, LdKept, MmKept DEF OperandInv
<1>5. NotBehind(RingBarriers)'
  BY <1>1, StaysNotBehind DEF OperandInv
<1>6. Covered'
  BY DEF Covered, Holds, HoldsNext, HoldsV, HoldsQ, QTaken, QGiven, MmOver, Last
<1> QED
  BY <1>2, <1>4, <1>5, <1>6 DEF RingKept, OperandInv

\* The MMA warp goes on only when the item, or the Q, it waits for has landed.
LEMMA MmaWaitQDue ==
    ASSUME OperandInv, MmaWaitQ
    PROVE  Done("q_full", mm.st) = Seen("q_full", mm.st) + 1
<1>1. PICK i \in Stage : i = mm.st
  BY DEF OperandInv, Types, MmType, MmRecord
<1>2. mm.k = 0 /\ mm.at = "q" /\ mm.t \in Int
  BY DEF MmaWaitQ, OperandInv, MmInv, MmPlace, Types, MmType, MmRecord
<1>3. mm.qPh = (mm.t - 1) % 2
  <2>1. mm.qPh = (mm.t - 1 + If1(mm.k > 0)) % 2 /\ If1(mm.k > 0) = 0
    BY <1>2 DEF OperandInv, MmInv, MmQ, If1
  <2> QED
    BY <1>2, <2>1
<1>4. QTaken(i) = mm.t - 1
  <2>1. If1(~MmOver /\ (mm.k > 0 \/ i < mm.st \/ (i = mm.st /\ mm.at # "q"))) = 0
    BY <1>1, <1>2, StageIs DEF If1
  <2> QED
    BY <1>2, <2>1 DEF QTaken
<1>5. PICK d \in Nat, s \in Nat :
         /\ bar[<<"q_full", i>>].done = d /\ bar[<<"q_full", i>>].seen = s /\ s = mm.t - 1
         /\ d - s \in {0, 1}
  BY <1>4, QFacts, OneHandQ DEF Done, Seen
<1>6. Passes(bar[<<"q_full", i>>], s % 2)
  BY <1>1, <1>3, <1>5 DEF MmaWaitQ, WaitThenArrive
<1>7. d % 2 # s % 2
  BY <1>5, <1>6 DEF Passes
<1> QED
  BY <1>1, <1>5, <1>7 DEF Done, Seen

LEMMA MmaWaitKVDue ==
    ASSUME OperandInv, MmaWaitK \/ MmaWaitV
    PROVE  Done("kv_full", mm.idx) = Seen("kv_full", mm.idx) + 1
<1>1. PICK m \in Slot : m = mm.idx
  BY DEF OperandInv, Types, MmType, MmRecord
<1>2. mm.at \in {"k", "v"}
  BY DEF MmaWaitK, MmaWaitV
<1>3. PICK d \in Nat, s \in Nat :
         bar[<<"kv_full", m>>].done = d /\ bar[<<"kv_full", m>>].seen = s /\ d - s \in {0, 1}
  BY SlotFacts, OneHand DEF Done, Seen
<1>4. Before = s
  BY <1>1, <1>2, <1>3 DEF Before, HoldsNext, If1, Seen
<1>5. Passes(bar[<<"kv_full", m>>], s % 2)
  BY <1>1, <1>4 DEF MmaWaitK, MmaWaitV, WaitThenArrive, OperandInv, MmInv, MmRing
<1>6. d % 2 # s % 2
  BY <1>3, <1>5 DEF Passes
<1> QED
  BY <1>1, <1>3, <1>6 DEF Done, Seen

\* What a step of the MMA warp has to show.
LEMMA MmaFrame ==
    ASSUME OperandInv, Types', NEW w, Moves(w, {}), UNCHANGED <<ld, tma>>,
           \A b \in w : b[1] \notin LdWaits,
           \A b \in w : b[1] \in RingBarriers => bar[b].done = bar[b].seen + 1,
           MmInv', Covered'
    PROVE  RingKept
<1>1. BarType /\ BarOK /\ LdType /\ BarType'
  BY DEF OperandInv, Types
<1>2. BarOK'
  BY <1>1, MovesKeeps
<1>3. SeenKept(LdWaits)
  BY <1>1, KeptSeen
<1>4. ArrKept(LdGives)
  <2>1. PICK g : g = {} /\ Moves(w, g)
    OBVIOUS
  <2>2. \A b \in g : b[1] \notin LdGives
    BY <2>1
  <2> QED
    BY <1>1, <2>1, <2>2, KeptArr
<1>5. LdInv'
  BY <1>1, <1>3, <1>4, LdKept DEF OperandInv
<1>6. NotBehind(RingBarriers)'
  <2>1. \A b \in w : b[1] \in RingBarriers => Free(b) = 0 /\ bar[b].done = bar[b].seen + 1
    BY DEF RingBarriers, LdWaits, Free, StartsFree, If1
  <2>2. \A b \in w : b[1] \in RingBarriers => b \in Barrier \/ b \notin Barrier
    OBVIOUS
  <2>3. ASSUME NEW b \in Barrier, b[1] \in RingBarriers
        PROVE  bar'[b].seen <= bar'[b].done + Free(b)
    <3>1. /\ bar[b].done \in Nat /\ bar[b].seen \in Nat /\ Free(b) \in {0, 1}
          /\ bar'[b].done \in Nat /\ bar'[b].seen \in Nat
      BY <1>1, BarNumbers DEF Free, If1, Moves, BarRecord
    <3>2. bar[b].done <= bar'[b].done /\ bar'[b].seen = bar[b].seen + If1(b \in w)
      BY DEF Moves
    <3>3. bar[b].seen <= bar[b].done + Free(b)
      BY <2>3 DEF OperandInv, NotBehind
    <3>4. b \in w => bar[b].done = bar[b].seen + 1
      BY <2>1, <2>3
    <3> QED
      BY <3>1, <3>2, <3>3, <3>4 DEF If1
  <2> QED
    BY <2>3 DEF NotBehind, Free
<1> QED
  BY <1>2, <1>5, <1>6 DEF RingKept, OperandInv

LEMMA MmaWaitQRing == ASSUME OperandInv, Covered, Types', MmaWaitQ PROVE RingKept
<1> DEFINE w == {<<"q_full", mm.st>>}
<1>1. MmStep(w, {}) /\ Moves(w, {})
  BY MmaWaitQStep, WaitMoves DEF MmaWaitQ, OperandInv, Types
<1>2. mm'.at # "p2" /\ UNCHANGED <<tc, ld, tma>>
  BY DEF MmaWaitQ, OperandInv, Types, MmType, MmRecord
<1>3. \A b \in w : b[1] = "q_full" /\ bar[b].done = bar[b].seen + 1
  BY MmaWaitQDue DEF Done, Seen
<1>4. \A b \in w : b[1] \notin LdWaits
  BY <1>3 DEF LdWaits
<1> HIDE DEF w
<1>5. MmInv' /\ Covered'
  BY <1>1, <1>2, WaitRing
<1> QED
  BY <1>1, <1>2, <1>3, <1>4, <1>5, MmaFrame

LEMMA MmaWaitKVRing == ASSUME OperandInv, Covered, Types', MmaWaitK \/ MmaWaitV PROVE RingKept
<1> DEFINE w == {<<"kv_full", mm.idx>>}
<1>1. MmStep(w, {}) /\ Moves(w, {})
  BY MmaWaitKStep, MmaWaitVStep, WaitMoves DEF MmaWaitK, MmaWaitV, OperandInv, Types
<1>2. mm'.at # "p2" /\ UNCHANGED <<tc, ld, tma>>
  <2>1. CASE MmaWaitK
    BY <2>1 DEF MmaWaitK, OperandInv, Types, MmType, MmRecord
  <2>2. CASE MmaWaitV
    <3>1. mm'.at # "p2"
      BY <2>2, MmaWaitVCases DEF MmTo, OperandInv, Types
    <3> QED
      BY <2>2, <3>1 DEF MmaWaitV
  <2> QED
    BY <2>1, <2>2
<1>3. \A b \in w : b[1] = "kv_full" /\ bar[b].done = bar[b].seen + 1
  BY MmaWaitKVDue DEF Done, Seen
<1>4. \A b \in w : b[1] \notin LdWaits
  BY <1>3 DEF LdWaits
<1> HIDE DEF w
<1>5. MmInv' /\ Covered'
  BY <1>1, <1>2, WaitRing
<1> QED
  BY <1>1, <1>2, <1>3, <1>4, <1>5, MmaFrame

LEMMA MmaDeallocRing == ASSUME OperandInv, Covered, Types', MmaDealloc PROVE RingKept
<1> DEFINE w == {<<"dealloc", 0>>}
<1>1. MmStep(w, {}) /\ Moves(w, {})
  BY MmaDeallocStep, WaitMoves DEF MmaDealloc, OperandInv, Types
<1>2. mm'.at # "p2" /\ UNCHANGED <<tc, ld, tma>>
  BY DEF MmaDealloc, OperandInv, Types, MmType, MmRecord
<1>3. \A b \in w : b[1] \notin LdWaits /\ b[1] \notin RingBarriers
  BY DEF LdWaits, RingBarriers
<1> HIDE DEF w
<1>5. MmInv' /\ Covered'
  BY <1>1, <1>2, WaitRing
<1> QED
  BY <1>1, <1>2, <1>3, <1>5, MmaFrame

LEMMA MmaIssuePV2Ring == ASSUME OperandInv, Covered, Types', MmaIssuePV2 PROVE RingKept
<1> DEFINE w == {<<"P_full_2", mm.st>>}
<1>1. Moves(w, {})
  BY WaitMoves DEF MmaIssuePV2, OperandInv, Types
<1>2. UNCHANGED <<ld, tma>>
  BY DEF MmaIssuePV2
<1>3. \A b \in w : b[1] \notin LdWaits /\ b[1] \notin RingBarriers
  BY DEF LdWaits, RingBarriers
<1> HIDE DEF w
<1> QED
  BY <1>1, <1>2, <1>3, PV2Ring, MmaFrame

LEMMA MmaIssuePVRing == ASSUME OperandInv, Covered, Types', MmaIssuePV PROVE RingKept
<1> DEFINE w == {<<"P_full_O", mm.st>>}
<1>1. Moves(w, {}) /\ MmStep(w, {})
  BY WaitMoves, MmaIssuePVStep DEF MmaIssuePV, OperandInv, Types
<1>2. UNCHANGED <<ld, tma>> /\ Issue("PV", mm.k, mm.v, PVCopies, TRUE, {}) /\ mm.at = "p"
  BY DEF MmaIssuePV
<1>3. \A b \in w : b[1] \notin LdWaits /\ b[1] \notin RingBarriers
  BY DEF LdWaits, RingBarriers
<1> HIDE DEF w
<1>4. PICK v \in Slot : v = mm.v
  BY DEF OperandInv, Types, MmType, MmRecord
<1>5. Holds(v) > 0
  <2>1. HoldsNext /\ (HoldsV \/ v = mm.idx)
    BY <1>2, <1>4 DEF HoldsNext, OperandInv, MmInv, VIsNext
  <2> QED
    BY <1>4, <2>1 DEF Holds, If1
<1>6. PICK sig : sig = {}
  OBVIOUS
<1>7. MmInv' /\ Covered'
  <2>1. Moves(w, {}) /\ MmStep(w, sig) /\ Issue("PV", mm.k, v, PVCopies, TRUE, sig)
    BY <1>1, <1>2, <1>4, <1>6
  <2> QED
    BY <1>5, <1>6, <2>1, IssueRing
<1> QED
  BY <1>1, <1>2, <1>3, <1>7, MmaFrame

LEMMA MmaIssueQKRing == ASSUME OperandInv, Covered, Types', MmaIssueQK PROVE RingKept
<1>1. PICK w : Moves(w, {}) /\ \A b \in w : b[1] = "sfqk"
  <2>1. CASE QuantQK
    <3>1. WaitThenArrive(<<"sfqk", mm.st>>, mm.fPh, {})
      BY <2>1 DEF MmaIssueQK
    <3>2. Moves({<<"sfqk", mm.st>>}, {})
      BY <3>1, WaitMoves DEF OperandInv, Types
    <3> QED
      BY <3>2
  <2>2. CASE ~QuantQK
    <3>1. UNCHANGED bar
      BY <2>2 DEF MmaIssueQK
    <3>2. Moves({}, {})
      BY <3>1, StillMoves DEF OperandInv, Types
    <3> QED
      BY <3>2
  <2> QED
    BY <2>1, <2>2
<1>2. MmStep(w, QKSignals)
  BY <1>1, MmaIssueQKStep
<1>3. UNCHANGED <<ld, tma>> /\ mm.at = "qk"
  BY DEF MmaIssueQK
<1>4. Issue("QK", mm.k + 1, mm.idx, QKCopies, FALSE, QKSignals)
  BY DEF MmaIssueQK, QKSignals, QKEnds
<1>5. mm'.at # "p2"
  BY MmaIssueQKCases DEF MmTo, OperandInv, Types
<1>6. \A b \in w : b[1] \notin LdWaits /\ b[1] \notin RingBarriers
  BY <1>1 DEF LdWaits, RingBarriers
<1>7. PICK s \in Slot : s = mm.idx
  BY DEF OperandInv, Types, MmType, MmRecord
<1>8. Holds(s) > 0
  <2>1. HoldsNext
    BY <1>3 DEF HoldsNext
  <2> QED
    BY <1>7, <2>1 DEF Holds, If1
<1>9. HoldsQ(mm.st) > 0
  <2>1. MmWhere /\ ~Last /\ ~MmOver
    BY <1>3, MmIsSomewhere DEF OperandInv, MmInv, MmPlace, MmOver, Types
  <2>2. QGiven = mm.t - 1 + 0 /\ QTaken(mm.st) = mm.t - 1 + 1
    <3>1. If1(~MmOver /\ (mm.k > 0 \/ mm.st < mm.st \/ (mm.st = mm.st /\ mm.at # "q"))) = 1
      BY <1>3, <2>1 DEF If1
    <3>2. If1(Last) = 0
      BY <2>1 DEF If1
    <3> QED
      BY <3>1, <3>2 DEF QGiven, QTaken
  <2>3. mm.t \in Int
    BY <2>1 DEF MmWhere
  <2> QED
    BY <2>2, <2>3 DEF HoldsQ
<1>10. MmInv' /\ Covered'
  <2>1. PICK sig : sig = QKSignals
    OBVIOUS
  <2>2. MmStep(w, sig) /\ Issue("QK", mm.k + 1, s, QKCopies, FALSE, sig)
    BY <1>2, <1>4, <1>7, <2>1
  <2> QED
    BY <1>1, <1>5, <1>8, <1>9, <2>2, IssueRing
<1> QED
  BY <1>1, <1>3, <1>6, <1>10, MmaFrame

LEMMA MmaRing == ASSUME OperandInv, Covered, Types', Mma PROVE RingKept
BY MmaWaitQRing, MmaWaitKVRing, MmaIssueQKRing, MmaIssuePVRing, MmaIssuePV2Ring, MmaDeallocRing DEF Mma

\* A step of the load warp or of the bulk-copy engine.
LEMMA LoadFrame ==
    ASSUME OperandInv, Covered, Types', NEW w, NEW a, Moves(w, a), UNCHANGED <<mm, tc>>,
           \A b \in w : b[1] \in LdWaits /\ bar[b].done = bar[b].seen,
           \A b \in a : b[1] \in LdGives, LdInv'
    PROVE  RingKept
<1>1. BarType /\ BarOK /\ MmType /\ BarType'
  BY DEF OperandInv, Types
<1>2. BarOK'
  BY <1>1, MovesKeeps
<1>3. SeenKept(MmWaits) /\ ArrKept(MmGives)
  <2>1. \A b \in w : b[1] \notin MmWaits
    BY DEF LdWaits, MmWaits
  <2>2. \A b \in a : b[1] \notin MmGives
    BY DEF LdGives, MmGives
  <2> QED
    BY <1>1, <2>1, <2>2, KeptSeen, KeptArr
<1>4. MmInv'
  BY <1>1, <1>3, MmKept DEF OperandInv
<1>5. NotBehind(RingBarriers)'
  <2>1. \A b \in w : Free(b) = 1
    BY DEF LdWaits, Free, StartsFree, If1
  <2>2. ASSUME NEW b \in Barrier, b[1] \in RingBarriers
        PROVE  bar'[b].seen <= bar'[b].done + Free(b)
    <3>1. /\ bar[b].done \in Nat /\ bar[b].seen \in Nat /\ Free(b) \in {0, 1}
          /\ bar'[b].done \in Nat /\ bar'[b].seen \in Nat
      BY <1>1, BarNumbers DEF Free, If1, Moves, BarRecord
    <3>2. bar[b].done <= bar'[b].done /\ bar'[b].seen = bar[b].seen + If1(b \in w)
      BY DEF Moves
    <3>3. bar[b].seen <= bar[b].done + Free(b)
      BY <2>2 DEF OperandInv, NotBehind
    <3>4. b \in w => bar[b].done = bar[b].seen /\ Free(b) = 1
      BY <2>1
    <3> QED
      BY <3>1, <3>2, <3>3, <3>4 DEF If1
  <2> QED
    BY <2>2 DEF NotBehind, Free
<1>6. Covered'
  BY DEF Covered, Holds, HoldsNext, HoldsV, HoldsQ, QTaken, QGiven, MmOver, Last
<1> QED
  BY <1>2, <1>4, <1>5, <1>6 DEF RingKept, OperandInv

LEMMA LoadQRing == ASSUME OperandInv, Covered, Types', LoadQ PROVE RingKept
<1>1. PICK i \in Stage :
          /\ ld.at = (IF i = 0 THEN "q0" ELSE "q1")
          /\ WaitThenArrive(<<"q_empty", i>>, ld.qPh, {})
  BY StageIs DEF LoadQ
<1>2. ld.qPh = (QLoaded(i) + 1) % 2
  <2>1. ld.qPh = (QLoaded(1) + 1) % 2
    BY DEF OperandInv, LdInv, LdQ
  <2>2. QLoaded(i) = QLoaded(1)
    BY <1>1, StageIs DEF QLoaded, If1
  <2> QED
    BY <2>1, <2>2
<1>3. bar[<<"q_empty", i>>].done = bar[<<"q_empty", i>>].seen
  BY <1>1, <1>2, LoadQFree
<1>4. PICK w, a : w = {<<"q_empty", i>>} /\ a = {} /\ Moves(w, a)
  <2>1. Moves({<<"q_empty", i>>}, {})
    BY <1>1, WaitMoves DEF OperandInv, Types
  <2> QED
    BY <2>1
<1>5. UNCHANGED <<mm, tc>>
  BY DEF LoadQ
<1>6. \A b \in w : b[1] \in LdWaits /\ bar[b].done = bar[b].seen
  BY <1>3, <1>4 DEF LdWaits
<1>7. \A b \in a : b[1] \in LdGives
  BY <1>4
<1>8. LdInv'
  BY LoadQLd
<1> QED
  BY <1>4, <1>5, <1>6, <1>7, <1>8, LoadFrame

LEMMA LoadKVRing == ASSUME OperandInv, Covered, Types', LoadKV PROVE RingKept
<1>1. WaitThenArrive(<<"kv_empty", ld.idx>>, ld.ph, {}) /\ UNCHANGED <<mm, tc>>
  BY DEF LoadKV
<1>3. bar[<<"kv_empty", ld.idx>>].done = bar[<<"kv_empty", ld.idx>>].seen
  BY <1>1, LoadKVFree
<1>4. PICK w, a : w = {<<"kv_empty", ld.idx>>} /\ a = {} /\ Moves(w, a)
  <2>1. Moves({<<"kv_empty", ld.idx>>}, {})
    BY <1>1, WaitMoves DEF OperandInv, Types
  <2> QED
    BY <2>1
<1>6. \A b \in w : b[1] \in LdWaits /\ bar[b].done = bar[b].seen
  BY <1>3, <1>4 DEF LdWaits
<1>7. \A b \in a : b[1] \in LdGives
  BY <1>4
<1>8. LdInv'
  BY LoadKVLd
<1> QED
  BY <1>1, <1>4, <1>6, <1>7, <1>8, LoadFrame

LEMMA TmaLandRing == ASSUME OperandInv, Covered, Types', TmaLand PROVE RingKept
<1>1. PICK w, a : w = {} /\ Moves(w, a) /\ \A b \in a : b[1] \in LdGives
  <2>1. PICK a : Moves({}, a) /\ \A b \in a : b[1] \in LdGives
    BY TmaLandMoves
  <2> QED
    BY <2>1
<1>2. UNCHANGED <<mm, tc>> /\ LdInv'
  BY TmaLandLd DEF TmaLand
<1>3. \A b \in w : b[1] \in LdWaits /\ bar[b].done = bar[b].seen
  BY <1>1
<1> QED
  BY <1>1, <1>2, <1>3, LoadFrame

-----------------------------------------------------------------------------
(* The tensor core. *)

\* An operation begins: nothing of the ring's account changes.
LEMMA TcStartRing == ASSUME OperandInv, Covered, Types', TcStart PROVE RingKept
<1> DEFINE n == Len(tc)
<1>1. /\ tc # <<>> /\ UNCHANGED <<bar, tma, ld, mm>>
      /\ \E v : tc' = [tc EXCEPT ![1].begun = TRUE, ![1].ok = v]
  BY DEF TcStart
<1>2. PICK v : tc' = [tc EXCEPT ![1].begun = TRUE, ![1].ok = v]
  BY <1>1
<1>3. tc \in Seq(Op) /\ n \in Nat /\ n >= 1 /\ DOMAIN tc = 1..n
  BY <1>1 DEF OperandInv, Types, TcType
<1> HIDE DEF n
<1>4. \A j \in 1..n : tc[j] \in Op
  BY <1>3
<1>5. /\ DOMAIN tc' = 1..n
      /\ \A j \in 1..n : /\ tc'[j].slot = tc[j].slot /\ tc'[j].st = tc[j].st /\ tc'[j].kind = tc[j].kind
                         /\ tc'[j].signals = tc[j].signals /\ tc'[j].open = tc[j].open
  <2>1. ASSUME NEW j \in 1..n
        PROVE  /\ tc'[j].slot = tc[j].slot /\ tc'[j].st = tc[j].st /\ tc'[j].kind = tc[j].kind
               /\ tc'[j].signals = tc[j].signals /\ tc'[j].open = tc[j].open
    <3>1. tc[j] \in Op
      BY <1>4
    <3>2. CASE j = 1
      <4>1. tc'[j] = [tc[j] EXCEPT !.begun = TRUE, !.ok = v]
        BY <1>2, <1>3, <3>2
      <4> QED
        BY <3>1, <4>1 DEF Op
    <3>3. CASE j # 1
      <4>1. tc'[j] = tc[j]
        BY <1>2, <1>3, <3>3
      <4> QED
        BY <4>1
    <3> QED
      BY <3>2, <3>3
  <2> QED
    BY <1>2, <1>3, <2>1
<1>6. Moves({}, {}) /\ BarType /\ BarOK /\ MmType /\ LdType /\ BarType'
  BY <1>1, StillMoves DEF OperandInv, Types
<1>7. SeenKept(LdWaits) /\ ArrKept(LdGives)
  BY <1>1 DEF SeenKept, ArrKept, Arrivals
<1>8. LdInv'
  BY <1>1, <1>6, <1>7, LdKept DEF OperandInv
<1>9. NotBehind(RingBarriers)' /\ BarOK'
  BY <1>1 DEF OperandInv, NotBehind, Free, BarOK
<1>10. \A b : Committed(b)' <=> Committed(b)
  BY <1>3, <1>5 DEF Committed
<1>11. MmQ' /\ MmRing'
  <2>1. \A b : If1(Committed(b))' = If1(Committed(b))
    BY <1>10 DEF If1
  <2>2. MmQ'
    BY <1>1, <2>1 DEF OperandInv, MmInv, MmQ, Seen, Arr, Arrivals, QTaken, QGiven, MmOver, Last
  <2>3. MmRing'
    BY <1>1, <2>1 DEF OperandInv, MmInv, MmRing, Seen, Arr, Arrivals, Holds, HoldsNext, HoldsV, Before, Last
  <2> QED
    BY <2>2, <2>3
<1>12. TcApart'
  <2>1. ASSUME NEW i \in 1..n, NEW j \in 1..n, i # j, NEW b \in tc'[i].signals, b \in tc'[j].signals
        PROVE  b[1] \notin {"q_empty", "kv_empty"}
    BY <1>3, <1>5, <2>1 DEF OperandInv, MmInv, TcApart
  <2>2. ASSUME NEW j \in 1..n PROVE tc'[j].signals \subseteq CommitBarriers
    BY <1>3, <1>5 DEF OperandInv, MmInv, TcApart
  <2>3. mm'.at = "p2" => tc' # <<>> /\ tc'[Len(tc')].open /\ tc'[Len(tc')].signals = {}
    <3>1. Len(tc') = n /\ tc' # <<>> /\ n \in 1..n /\ Len(tc) = n
      <4>1. tc' \in Seq(Op)
        BY DEF Types, TcType
      <4>2. Len(tc) = n
        BY <1>3
      <4> QED
        BY <1>3, <1>5, <4>1, <4>2
    <3> QED
      BY <1>1, <1>5, <3>1 DEF OperandInv, MmInv, TcApart
  <2> QED
    BY <1>5, <2>1, <2>2, <2>3 DEF TcApart, CommitBarriers
<1>13. MmPlace' /\ VIsNext'
  BY <1>1 DEF OperandInv, MmInv, MmPlace, VIsNext, MmOver, Last, HoldsV
<1>14. Covered'
  <2>1. \A s : Holds(s)' = Holds(s) /\ HoldsQ(s)' = HoldsQ(s)
    BY <1>1 DEF Holds, HoldsNext, HoldsV, HoldsQ, QTaken, QGiven, MmOver, Last
  <2>2. ASSUME NEW j \in 1..n
        PROVE  /\ Holds(tc[j].slot)' > 0
                  \/ \E i \in 1..n : j <= i /\ <<"kv_empty", tc'[j].slot>> \in tc'[i].signals
               /\ tc'[j].kind = "QK" =>
                     \/ HoldsQ(tc[j].st)' > 0
                     \/ \E i \in 1..n : j <= i /\ <<"q_empty", tc'[j].st>> \in tc'[i].signals
    <3>1. PICK s, q : s = tc[j].slot /\ s = tc'[j].slot /\ q = tc[j].st /\ q = tc'[j].st
      BY <1>5
    <3>2. Holds(tc[j].slot)' = Holds(s)' /\ HoldsQ(tc[j].st)' = HoldsQ(q)'
      BY <3>1 DEF Holds, HoldsQ, QTaken
    <3>3. /\ Holds(s) > 0 \/ \E i \in 1..n : j <= i /\ <<"kv_empty", s>> \in tc[i].signals
          /\ tc[j].kind = "QK" => \/ HoldsQ(q) > 0
                                 \/ \E i \in 1..n : j <= i /\ <<"q_empty", q>> \in tc[i].signals
      BY <1>3, <3>1 DEF Covered
    <3>4. Holds(s)' = Holds(s) /\ HoldsQ(q)' = HoldsQ(q) /\ tc'[j].kind = tc[j].kind
      BY <1>5, <2>1
    <3>5. \A i \in 1..n : tc'[i].signals = tc[i].signals
      BY <1>5
    <3>6. Holds(tc[j].slot)' > 0
             \/ \E i \in 1..n : j <= i /\ <<"kv_empty", tc'[j].slot>> \in tc'[i].signals
      BY <3>1, <3>2, <3>3, <3>4, <3>5
    <3>7. tc'[j].kind = "QK" =>
             \/ HoldsQ(tc[j].st)' > 0
             \/ \E i \in 1..n : j <= i /\ <<"q_empty", tc'[j].st>> \in tc'[i].signals
      BY <3>1, <3>2, <3>3, <3>4, <3>5
    <3> QED
      BY <3>6, <3>7
  <2> QED
    BY <1>5, <2>2 DEF Covered
<1> QED
  BY <1>6, <1>8, <1>9, <1>11, <1>12, <1>13, <1>14 DEF RingKept, OperandInv, MmInv

\* An operation ends: the releases it carries become arrivals.
LEMMA TcFinishRing == ASSUME OperandInv, Covered, Types', TcFinish PROVE RingKept
<1> DEFINE n == Len(tc)
           sig == tc[1].signals
<1>1. tc # <<>> /\ ~tc[1].open /\ Arrive(sig) /\ tc' = Tail(tc) /\ UNCHANGED <<tma, ld, mm>>
  BY DEF TcFinish
<1>2. tc \in Seq(Op)
  BY DEF OperandInv, Types, TcType
<1>3. /\ n \in Nat /\ n >= 1 /\ DOMAIN tc = 1..n /\ 1 \in 1..n
      /\ Len(tc') = n - 1 /\ DOMAIN tc' = 1..(n - 1)
      /\ \A j \in 1..(n - 1) : tc'[j] = tc[j + 1] /\ j + 1 \in 1..n /\ j \in Int
  BY <1>1, <1>2
<1>4. sig \subseteq CommitBarriers
  BY <1>3 DEF OperandInv, MmInv, TcApart
<1>5. \A b : b[1] \in {"q_empty", "kv_empty"} =>
               /\ Committed(b)' <=> Committed(b) /\ b \notin sig
               /\ b \in sig => Committed(b)
  <2>1. ASSUME NEW b, b[1] \in {"q_empty", "kv_empty"}
        PROVE  /\ Committed(b)' <=> Committed(b) /\ b \notin sig
               /\ b \in sig => Committed(b)
    <3>1. Committed(b)' <=> \E j \in 1..(n - 1) : b \in tc[j + 1].signals
      BY <1>3 DEF Committed
    <3>2. Committed(b) <=> \E j \in 1..n : b \in tc[j].signals
      BY <1>3 DEF Committed
    <3>3. b \in sig => \A j \in 1..n : j # 1 => b \notin tc[j].signals
      <4>1. \A i, j \in 1..n : i # j => \A c \in tc[i].signals \cap tc[j].signals :
                                          c[1] \notin {"q_empty", "kv_empty"}
        BY <1>3 DEF OperandInv, MmInv, TcApart
      <4> QED
        BY <1>3, <2>1, <4>1
    <3>4. ASSUME NEW j \in 1..n, j # 1 PROVE j - 1 \in 1..(n - 1) /\ (j - 1) + 1 = j
      BY <1>3, <3>4
    <3>5. ASSUME NEW j \in 1..n, j # 1, b \in tc[j].signals PROVE Committed(b)'
      <4>1. j - 1 \in 1..(n - 1) /\ (j - 1) + 1 = j
        BY <3>4, <3>5
      <4>2. b \in tc[(j - 1) + 1].signals
        BY <3>5, <4>1
      <4> QED
        BY <3>1, <4>1, <4>2
    <3>6. Committed(b)' => Committed(b) /\ b \notin sig
      <4>1. SUFFICES ASSUME NEW j \in 1..(n - 1), b \in tc[j + 1].signals
                     PROVE  Committed(b) /\ b \notin sig
        BY <3>1
      <4>2. j + 1 \in 1..n /\ j + 1 # 1
        BY <1>3
      <4> QED
        BY <3>2, <3>3, <4>1, <4>2
    <3>7. Committed(b) /\ b \notin sig => Committed(b)'
      BY <3>2, <3>5
    <3>8. b \in sig => Committed(b)
      BY <1>3, <3>2
    <3> QED
      BY <3>6, <3>7, <3>8
  <2> QED
    BY <2>1
<1>6. \A j \in 1..n : tc[j] \in Op
  BY <1>2, <1>3
<1>7. mm.at = "p2" => n >= 2 /\ tc[n].open /\ tc[n].signals = {}
  BY <1>1, <1>3 DEF OperandInv, MmInv, TcApart
<1> HIDE DEF n
<1>8. Moves({}, sig)
  BY <1>1, ArriveMoves DEF OperandInv, Types
<1>9. PICK w : w = {} /\ Moves(w, sig)
  BY <1>8
<1>10. BarType /\ BarOK /\ LdType /\ MmType /\ BarType'
  BY DEF OperandInv, Types
<1>11. BarOK'
  BY <1>8, <1>10, MovesKeeps
<1>12. LdInv'
  <2>1. \A b \in sig : b[1] \notin LdGives
    BY <1>4 DEF LdGives, CommitBarriers
  <2>2. \A b \in w : b[1] \notin LdWaits
    BY <1>9
  <2>3. SeenKept(LdWaits) /\ ArrKept(LdGives)
    BY <1>9, <1>10, <2>1, <2>2, KeptSeen, KeptArr
  <2> QED
    BY <1>1, <1>10, <2>3, LdKept DEF OperandInv
<1>13. NotBehind(RingBarriers)'
  <2>1. \A b \in w : b[1] \in RingBarriers => bar[b].done = bar[b].seen + 1 - Free(b)
    BY <1>9
  <2> QED
    BY <1>9, <1>10, <2>1, StaysNotBehind DEF OperandInv
<1>14. \A b \in Barrier : bar'[b].seen = bar[b].seen /\ Arrivals(b)' = Arrivals(b) + If1(b \in sig)
  <2>1. ASSUME NEW b \in Barrier
        PROVE  bar'[b].seen = bar[b].seen /\ Arrivals(b)' = Arrivals(b) + If1(b \in sig)
    <3>1. bar'[b].seen = bar[b].seen + If1(b \in w) /\ bar[b].seen \in Nat
      BY <1>9, <1>10, BarNumbers DEF Moves
    <3>2. If1(b \in w) = 0
      BY <1>9 DEF If1
    <3> QED
      BY <1>9, <3>1, <3>2 DEF Moves
  <2> QED
    BY <2>1
<1> HIDE DEF sig
<1>15. \A b : b[1] \in {"q_empty", "kv_empty"} =>
                If1(Committed(b))' = If1(Committed(b)) - If1(b \in sig)
  BY <1>5 DEF If1
<1>16. MmQ'
  <2>1. ASSUME NEW i \in Stage
        PROVE  /\ Seen("q_full", i)' = QTaken(i)'
               /\ Arr("q_empty", i)' = QGiven' - If1(Committed(<<"q_empty", i>>))'
    <3>1. /\ Arr("q_empty", i)' = Arr("q_empty", i) + If1(<<"q_empty", i>> \in sig)
          /\ Seen("q_full", i)' = Seen("q_full", i)
      BY <1>14, NamesAre DEF Arr, Seen
    <3>2. If1(Committed(<<"q_empty", i>>))' = If1(Committed(<<"q_empty", i>>)) - If1(<<"q_empty", i>> \in sig)
      BY <1>15
    <3>3. QTaken(i)' = QTaken(i) /\ QGiven' = QGiven
      BY <1>1 DEF QTaken, QGiven, MmOver, Last
    <3>4. /\ Arr("q_empty", i) = QGiven - If1(Committed(<<"q_empty", i>>))
          /\ Arr("q_empty", i) \in Int /\ QGiven \in Int /\ Seen("q_full", i) = QTaken(i)
      BY QFacts
    <3>5. If1(Committed(<<"q_empty", i>>)) \in Int /\ If1(<<"q_empty", i>> \in sig) \in Int
      BY DEF If1
    <3> QED
      BY <3>1, <3>2, <3>3, <3>4, <3>5
  <2>2. mm'.qPh = (mm'.t - 1 + If1(mm'.k > 0)) % 2
    BY <1>1 DEF OperandInv, MmInv, MmQ, If1
  <2> QED
    BY <2>1, <2>2 DEF MmQ, If1
<1>17. MmRing'
  <2>0. /\ \A s : Holds(s)' = Holds(s)
        /\ HoldsNext' = HoldsNext /\ mm' = mm
    BY <1>1 DEF Holds, HoldsNext, HoldsV, Last
  <2>1. ASSUME NEW s \in Slot
        PROVE  /\ Seen("kv_full", s)' = Seen("kv_full", s)
               /\ Arr("kv_empty", s)' = Seen("kv_full", s)' - Holds(s)' - If1(Committed(<<"kv_empty", s>>))'
    <3>1. /\ Arr("kv_empty", s)' = Arr("kv_empty", s) + If1(<<"kv_empty", s>> \in sig)
          /\ Seen("kv_full", s)' = Seen("kv_full", s)
      BY <1>14, NamesAre DEF Arr, Seen
    <3>2. If1(Committed(<<"kv_empty", s>>))' = If1(Committed(<<"kv_empty", s>>)) - If1(<<"kv_empty", s>> \in sig)
      BY <1>15
    <3>4. /\ Arr("kv_empty", s) = Seen("kv_full", s) - Holds(s) - If1(Committed(<<"kv_empty", s>>))
          /\ Arr("kv_empty", s) \in Int /\ Seen("kv_full", s) \in Int
      BY SlotFacts
    <3>5. If1(Committed(<<"kv_empty", s>>)) \in Int /\ If1(<<"kv_empty", s>> \in sig) \in Int
          /\ Holds(s) \in Int
      BY DEF If1, Holds
    <3> QED
      BY <2>0, <3>1, <3>2, <3>4, <3>5
  <2>2. Before' = Before
    <3>1. PICK m \in Slot : m = mm.idx
      BY <1>10 DEF MmType, MmRecord
    <3>2. Seen("kv_full", m)' = Seen("kv_full", m)
      BY <2>1
    <3>3. Seen("kv_full", mm.idx)' = Seen("kv_full", mm.idx)
      BY <2>0, <3>1, <3>2 DEF Seen
    <3> QED
      BY <2>0, <3>3 DEF Before, If1
  <2>3. \A s \in Slot : Seen("kv_full", s) = Before + If1(s < mm.idx) + If1(HoldsNext /\ s = mm.idx)
    BY DEF OperandInv, MmInv, MmRing
  <2>4. mm.ph = Before % 2
    BY DEF OperandInv, MmInv, MmRing
  <2>5. \A s \in Slot : If1(s < mm.idx)' = If1(s < mm.idx) /\ If1(HoldsNext /\ s = mm.idx)' = If1(HoldsNext /\ s = mm.idx)
    BY <2>0 DEF If1
  <2>6. \A s \in Slot : Seen("kv_full", s)' = Before' + If1(s < mm.idx)' + If1(HoldsNext /\ s = mm.idx)'
    BY <2>1, <2>2, <2>3, <2>5
  <2>7. mm'.ph = Before' % 2
    BY <2>0, <2>2, <2>4
  <2>8. \A s \in Slot : Arr("kv_empty", s)' = Seen("kv_full", s)' - Holds(s)' - If1(Committed(<<"kv_empty", s>>))'
    BY <2>1
  <2> QED
    BY <2>6, <2>7, <2>8 DEF MmRing
<1>18. TcApart'
  <2>1. ASSUME NEW i \in 1..(n - 1), NEW j \in 1..(n - 1), i # j,
               NEW b \in tc'[i].signals, b \in tc'[j].signals
        PROVE  b[1] \notin {"q_empty", "kv_empty"}
    <3>1. i + 1 \in DOMAIN tc /\ j + 1 \in DOMAIN tc /\ i + 1 # j + 1
      BY <1>3, <2>1
    <3>2. b \in tc[i + 1].signals \cap tc[j + 1].signals
      BY <1>3, <2>1
    <3> QED
      BY <3>1, <3>2 DEF OperandInv, MmInv, TcApart
  <2>2. ASSUME NEW j \in 1..(n - 1) PROVE tc'[j].signals \subseteq CommitBarriers
    <3>1. j + 1 \in DOMAIN tc /\ tc'[j] = tc[j + 1]
      BY <1>3
    <3> QED
      BY <3>1 DEF OperandInv, MmInv, TcApart
  <2>3. mm'.at = "p2" => tc' # <<>> /\ tc'[Len(tc')].open /\ tc'[Len(tc')].signals = {}
    <3>1. SUFFICES ASSUME mm.at = "p2"
                   PROVE  tc' # <<>> /\ tc'[Len(tc')].open /\ tc'[Len(tc')].signals = {}
      BY <1>1
    <3>2. n - 1 \in 1..(n - 1) /\ (n - 1) + 1 = n
      BY <1>3, <1>7, <3>1
    <3>3. tc'[n - 1] = tc[n]
      BY <1>3, <3>2
    <3>4. tc' # <<>>
      BY <1>3, <3>2
    <3> QED
      BY <1>3, <1>7, <3>1, <3>3, <3>4
  <2> QED
    BY <1>3, <2>1, <2>2, <2>3 DEF TcApart, CommitBarriers
<1>19. MmPlace' /\ VIsNext'
  BY <1>1 DEF OperandInv, MmInv, MmPlace, VIsNext, MmOver, Last, HoldsV
<1>20. Covered'
  <2>1. \A s : Holds(s)' = Holds(s) /\ HoldsQ(s)' = HoldsQ(s)
    BY <1>1 DEF Holds, HoldsNext, HoldsV, HoldsQ, QTaken, QGiven, MmOver, Last
  <2>a. ASSUME NEW i \in 1..n, NEW j \in 1..(n - 1), j + 1 <= i
        PROVE  i - 1 \in 1..(n - 1) /\ j <= i - 1 /\ tc'[i - 1] = tc[i]
    <3>1. i - 1 \in 1..(n - 1) /\ j <= i - 1 /\ (i - 1) + 1 = i
      BY <1>3, <2>a
    <3> QED
      BY <1>3, <3>1
  <2>2. ASSUME NEW j \in 1..(n - 1)
        PROVE  /\ Holds(tc[j].slot)' > 0
                  \/ \E i \in 1..(n - 1) : j <= i /\ <<"kv_empty", tc'[j].slot>> \in tc'[i].signals
               /\ tc'[j].kind = "QK" =>
                     \/ HoldsQ(tc[j].st)' > 0
                     \/ \E i \in 1..(n - 1) : j <= i /\ <<"q_empty", tc'[j].st>> \in tc'[i].signals
    <3>0. tc'[j] = tc[j + 1] /\ j + 1 \in 1..n
      BY <1>3
    <3>1. PICK s, q : s = tc[j + 1].slot /\ s = tc'[j].slot /\ q = tc[j + 1].st /\ q = tc'[j].st
      BY <3>0
    <3>2. Holds(tc[j].slot)' = Holds(s)' /\ HoldsQ(tc[j].st)' = HoldsQ(q)'
      BY <3>1 DEF Holds, HoldsQ, QTaken
    <3>3. /\ Holds(s) > 0 \/ \E i \in 1..n : j + 1 <= i /\ <<"kv_empty", s>> \in tc[i].signals
          /\ tc'[j].kind = "QK" =>
                \/ HoldsQ(q) > 0
                \/ \E i \in 1..n : j + 1 <= i /\ <<"q_empty", q>> \in tc[i].signals
      BY <1>3, <3>0, <3>1 DEF Covered
    <3>4. ASSUME NEW b, \E i \in 1..n : j + 1 <= i /\ b \in tc[i].signals
          PROVE  \E i \in 1..(n - 1) : j <= i /\ b \in tc'[i].signals
      <4>1. PICK i \in 1..n : j + 1 <= i /\ b \in tc[i].signals
        BY <3>4
      <4>2. i - 1 \in 1..(n - 1) /\ j <= i - 1 /\ tc'[i - 1] = tc[i]
        BY <2>a, <4>1
      <4> QED
        BY <4>1, <4>2
    <3> QED
      BY <2>1, <3>1, <3>2, <3>3, <3>4
  <2> QED
    BY <1>3, <2>2 DEF Covered
<1> QED
  BY <1>10, <1>11, <1>12, <1>13, <1>16, <1>17, <1>18, <1>19, <1>20 DEF RingKept, OperandInv, MmInv

-----------------------------------------------------------------------------
(* The other roles: none of their barriers is of the ring or of Q.         *)

LEMMA ArriveRing ==
    ASSUME OperandInv, Covered, Types', NEW a, Arrive(a), \A b \in a : b[1] \notin RingBarriers,
           UNCHANGED <<ld, tma, mm, tc>>
    PROVE  RingKept
<1>1. Moves({}, a)
  BY ArriveMoves DEF OperandInv, Types
<1>2. PICK w : w = {} /\ Moves(w, a)
  BY <1>1
<1>3. \A b \in w : b[1] \notin RingBarriers
  BY <1>2
<1> QED
  BY <1>2, <1>3, FrameRing

LEMMA WaitArriveRing ==
    ASSUME OperandInv, Covered, Types', NEW v, NEW parity, NEW a, WaitThenArrive(v, parity, a),
           v[1] \notin RingBarriers, \A b \in a : b[1] \notin RingBarriers,
           UNCHANGED <<ld, tma, mm, tc>>
    PROVE  RingKept
<1>1. Moves({v}, a)
  BY WaitMoves DEF OperandInv, Types
<1>2. PICK w : w = {v} /\ Moves(w, a)
  BY <1>1
<1>3. \A b \in w : b[1] \notin RingBarriers
  BY <1>2
<1> QED
  BY <1>2, <1>3, FrameRing

LEMMA SoftmaxRing == ASSUME OperandInv, Covered, Types', NEW i \in Stage, Softmax(i) PROVE RingKept
<1>1. UNCHANGED <<ld, tma, mm, tc>>
  BY DEF Softmax, SoftmaxStart, SoftmaxTile, SoftmaxLoadS, SoftmaxScale, SoftmaxStoreP,
         SoftmaxStoreP2, SoftmaxWaitCorr, SoftmaxSum
<1>2. ASSUME NEW a, Arrive(a), \A b \in a : b[1] \in {"sfqk", "corr_full", "P_full_O", "P_full_2", "dealloc"}
      PROVE  RingKept
  <2>1. \A b \in a : b[1] \notin RingBarriers
    BY <1>2 DEF RingBarriers
  <2> QED
    BY <1>1, <1>2, <2>1, ArriveRing
<1>3. ASSUME NEW v, NEW parity, NEW a, WaitThenArrive(v, parity, a), v[1] \in {"corr_empty", "S_full"},
             \A b \in a : b[1] = "sfqk"
      PROVE  RingKept
  <2>1. v[1] \notin RingBarriers /\ \A b \in a : b[1] \notin RingBarriers
    BY <1>3 DEF RingBarriers
  <2> QED
    BY <1>1, <1>3, <2>1, WaitArriveRing
<1>4. CASE SoftmaxStart(i)
  <2>1. PICK a : Arrive(a) /\ a = {<<"sfqk", 0>>}
    BY <1>4 DEF SoftmaxStart
  <2> QED
    BY <1>2, <2>1
<1>5. CASE SoftmaxTile(i)
  <2>1. PICK v, a : WaitThenArrive(v, sm[i].cPh, a) /\ v = <<"corr_empty", i>> /\ a = {}
    BY <1>5 DEF SoftmaxTile
  <2> QED
    BY <1>3, <2>1
<1>6. CASE SoftmaxLoadS(i)
  <2>1. PICK v, a : WaitThenArrive(v, sm[i].sPh, a) /\ v = <<"S_full", i>> /\ a = {<<"sfqk", 1 - i>>}
    BY <1>6 DEF SoftmaxLoadS
  <2> QED
    BY <1>3, <2>1
<1>7. CASE SoftmaxScale(i)
  <2>1. PICK a : Arrive(a) /\ a = {<<"corr_full", i>>}
    BY <1>7 DEF SoftmaxScale
  <2> QED
    BY <1>2, <2>1
<1>8. CASE SoftmaxStoreP(i)
  <2>1. PICK a : Arrive(a) /\ a = {<<"P_full_O", i>>}
    BY <1>8 DEF SoftmaxStoreP
  <2> QED
    BY <1>2, <2>1
<1>9. CASE SoftmaxStoreP2(i)
  <2>1. PICK a : Arrive(a) /\ a = {<<"P_full_2", i>>}
    BY <1>9 DEF SoftmaxStoreP2
  <2> QED
    BY <1>2, <2>1
<1>10. CASE SoftmaxWaitCorr(i)
  <2>1. PICK v, a : WaitThenArrive(v, sm[i].cPh, a) /\ v = <<"corr_empty", i>> /\ a = {}
    BY <1>10 DEF SoftmaxWaitCorr
  <2> QED
    BY <1>3, <2>1
<1>11. CASE SoftmaxSum(i)
  <2>1. PICK a : Arrive(a) /\ \A b \in a : b = <<"corr_full", i>> \/ b = <<"dealloc", 0>>
    BY <1>11 DEF SoftmaxSum
  <2> QED
    BY <1>2, <2>1
<1> QED
  BY <1>4, <1>5, <1>6, <1>7, <1>8, <1>9, <1>10, <1>11 DEF Softmax

LEMMA CorrectionRing == ASSUME OperandInv, Covered, Types', Correction PROVE RingKept
<1>1. UNCHANGED <<ld, tma, mm, tc>>
  BY DEF Correction, CorrStart, CorrFirst, CorrToRescale, CorrRescaled, CorrSum, CorrWaitLastO,
         CorrWaitBuffer, CorrWriteO
<1> DEFINE Names == {"P_full_O", "corr_full", "corr_empty", "O_full", "epi_empty", "epi_full", "dealloc"}
<1>2. ASSUME NEW a, Arrive(a), \A b \in a : b[1] \in Names PROVE RingKept
  <2>1. \A b \in a : b[1] \notin RingBarriers
    BY <1>2 DEF RingBarriers
  <2> QED
    BY <1>1, <1>2, <2>1, ArriveRing
<1>3. ASSUME NEW v, NEW parity, NEW a, WaitThenArrive(v, parity, a), v[1] \in Names,
             \A b \in a : b[1] \in Names
      PROVE  RingKept
  <2>1. v[1] \notin RingBarriers /\ \A b \in a : b[1] \notin RingBarriers
    BY <1>3 DEF RingBarriers
  <2> QED
    BY <1>1, <1>3, <2>1, WaitArriveRing
<1>4. CASE CorrStart
  <2>1. PICK a : Arrive(a) /\ a = {<<"P_full_O", i>> : i \in Stage}
    BY <1>4 DEF CorrStart
  <2>2. \A b \in a : b[1] \in Names
    BY <2>1
  <2> QED
    BY <1>2, <2>1, <2>2
<1>5. CASE CorrFirst
  <2>1. CASE co.st = 0
    <3>1. PICK v, a : WaitThenArrive(v, co.cPh, a) /\ v = <<"corr_full", 0>> /\ a = {<<"corr_empty", 0>>}
      BY <1>5, <2>1 DEF CorrFirst
    <3> QED
      BY <1>3, <3>1
  <2>2. CASE co.st # 0
    <3>1. PICK v, a : /\ WaitThenArrive(v, co.cPh, a) /\ v = <<"corr_full", 1>>
                      /\ a = IF Blocks[co.t] > 1 THEN {} ELSE {<<"corr_empty", 1>>}
      BY <1>5, <2>2 DEF CorrFirst
    <3>2. \A b \in a : b = <<"corr_empty", 1>>
      BY <3>1
    <3> QED
      BY <1>3, <3>1, <3>2
  <2> QED
    BY <2>1, <2>2
<1>6. CASE CorrToRescale
  <2>1. CASE CorrScale
    <3>1. PICK v, a : WaitThenArrive(v, co.cPh, a) /\ v = <<"corr_full", co.st>> /\ a = {}
      BY <2>1 DEF CorrScale
    <3> QED
      BY <1>3, <3>1
  <2>2. CASE CorrWaitO
    <3>1. PICK v, a : WaitThenArrive(v, co.oPh, a) /\ v = <<"O_full", co.st>> /\ a = {}
      BY <2>2 DEF CorrWaitO
    <3> QED
      BY <1>3, <3>1
  <2> QED
    BY <1>6, <2>1, <2>2 DEF CorrToRescale
<1>7. CASE CorrRescaled
  <2>1. PICK a : /\ Arrive(a)
                 /\ \A b \in a : b \in {<<"P_full_O", co.st>>, <<"corr_empty", 1 - co.st>>, <<"corr_empty", 1>>}
    BY <1>7 DEF CorrRescaled
  <2>2. \A b \in a : b[1] \in Names
    BY <2>1
  <2> QED
    BY <1>2, <2>1, <2>2
<1>8. CASE CorrSum
  <2>1. PICK v, a : WaitThenArrive(v, co.cPh, a) /\ v = <<"corr_full", co.st>> /\ a = {<<"corr_empty", co.st>>}
    BY <1>8 DEF CorrSum
  <2> QED
    BY <1>3, <2>1
<1>9. CASE CorrWaitLastO
  <2>1. PICK v, a : WaitThenArrive(v, co.oPh, a) /\ v = <<"O_full", co.st>> /\ a = {}
    BY <1>9 DEF CorrWaitLastO
  <2> QED
    BY <1>3, <2>1
<1>10. CASE CorrWaitBuffer
  <2>1. PICK v, a : WaitThenArrive(v, co.ePh, a) /\ v = <<"epi_empty", co.st>> /\ a = {}
    BY <1>10 DEF CorrWaitBuffer
  <2> QED
    BY <1>3, <2>1
<1>11. CASE CorrWriteO
  <2>1. PICK a : /\ Arrive(a)
                 /\ \A b \in a : b \in {<<"P_full_O", co.st>>, <<"epi_full", co.st>>, <<"dealloc", 0>>}
    BY <1>11 DEF CorrWriteO
  <2>2. \A b \in a : b[1] \in Names
    BY <2>1
  <2> QED
    BY <1>2, <2>1, <2>2
<1> QED
  BY <1>4, <1>5, <1>6, <1>7, <1>8, <1>9, <1>10, <1>11 DEF Correction

LEMMA EpilogueRing == ASSUME OperandInv, Covered, Types', Epilogue PROVE RingKept
<1>1. UNCHANGED <<ld, tma, mm, tc>>
  BY DEF Epilogue, EpiStore, EpiFree
<1>2. CASE EpiStore
  <2>1. PICK v, a : WaitThenArrive(v, ep.ph, a) /\ v = <<"epi_full", ep.st>> /\ a = {}
    BY <1>2 DEF EpiStore
  <2>2. v[1] \notin RingBarriers /\ \A b \in a : b[1] \notin RingBarriers
    BY <2>1 DEF RingBarriers
  <2> QED
    BY <1>1, <2>1, <2>2, WaitArriveRing
<1>3. CASE EpiFree
  <2>1. PICK a : Arrive(a) /\ a = {<<"epi_empty", ep.st>>}
    BY <1>3 DEF EpiFree, Frees
  <2>2. \A b \in a : b[1] \notin RingBarriers
    BY <2>1 DEF RingBarriers
  <2> QED
    BY <1>1, <2>1, <2>2, ArriveRing
<1> QED
  BY <1>2, <1>3 DEF Epilogue

LEMMA StillRing == ASSUME OperandInv, Covered, Types', UNCHANGED vars PROVE RingKept
<1>1. UNCHANGED <<ld, tma, mm, tc>> /\ UNCHANGED bar
  BY DEF vars
<1>2. Moves({}, {})
  BY <1>1, StillMoves DEF OperandInv, Types
<1>3. PICK w, a : w = {} /\ a = {} /\ Moves(w, a)
  BY <1>2
<1>4. \A b : b \notin w /\ b \notin a
  BY <1>3
<1> QED
  BY <1>1, <1>3, <1>4, FrameRing

-----------------------------------------------------------------------------
LEMMA InitRing == Init => OperandInv /\ Covered
<1> SUFFICES ASSUME Init PROVE OperandInv /\ Covered
  OBVIOUS
<1>1. Types
  BY InitTypes
<1>2. \A b \in Barrier : /\ bar[b].done = 0 /\ bar[b].seen = 0 /\ bar[b].left = Count(b)
                         /\ Count(b) \in 1..3
  BY CountOK DEF Init, NewBarrier
<1>3. \A b \in Barrier : Arrivals(b) = 0
  BY <1>2 DEF Arrivals
<1>4. BarOK /\ NotBehind(RingBarriers)
  BY <1>2 DEF BarOK, NotBehind, Free, If1
<1>5. /\ \A i \in Stage : /\ Seen("q_empty", i) = 0 /\ Seen("q_full", i) = 0
                          /\ Arr("q_full", i) = 0 /\ Arr("q_empty", i) = 0
      /\ \A s \in Slot : /\ Seen("kv_empty", s) = 0 /\ Seen("kv_full", s) = 0
                         /\ Arr("kv_full", s) = 0 /\ Arr("kv_empty", s) = 0
  BY <1>2, <1>3, NamesAre DEF Seen, Arr
<1>6. /\ ld.at = "q0" /\ ld.t = 1 /\ ld.k = 1 /\ ld.qPh = 1 /\ ld.idx = 0 /\ ld.ph = 1
      /\ mm.at = "q" /\ mm.t = 1 /\ mm.k = 0 /\ mm.st = 0 /\ mm.idx = 0 /\ mm.ph = 0 /\ mm.qPh = 0
      /\ tma = {} /\ tc = <<>>
  BY DEF Init
<1>7. 0 \in Slot /\ \A s \in Slot : s \in Int /\ ~(s < 0)
  BY ConfigAssumption DEF Slot
<1>8. 1 \in Tile /\ Tiles # 0 /\ Blocks[1] >= 1 /\ Blocks[1] \in Int
  BY TilesAre
<1>9. LdInv
  <2>1. \A i \in Stage : QLoaded(i) = 0
    BY <1>6, StageIs DEF QLoaded, If1
  <2>2. \A b : ~Landing(b)
    BY <1>6 DEF Landing
  <2>3. LdPlace /\ TmaApart
    BY <1>6, <1>8 DEF LdPlace, TmaApart
  <2>4. LdQ
    BY <1>5, <1>6, <2>1, <2>2, StageIs DEF LdQ, If1
  <2>5. LdRing
    BY <1>5, <1>6, <1>7, <2>2 DEF LdRing, If1
  <2> QED
    BY <2>3, <2>4, <2>5 DEF LdInv
<1>10. MmInv /\ Covered
  <2>1. ~MmOver /\ ~Last /\ ~HoldsNext /\ ~HoldsV /\ \A b : ~Committed(b)
    BY <1>6, <1>8 DEF MmOver, Last, HoldsNext, HoldsV, Committed
  <2>2. MmPlace /\ VIsNext
    BY <1>6, <1>8, <2>1, TilesAre DEF MmPlace, VIsNext
  <2>3. (\A i \in Stage : QTaken(i) = 0) /\ QGiven = 0
    BY <1>6, <2>1, StageIs DEF QTaken, QGiven, If1
  <2>4. MmQ
    BY <1>5, <1>6, <2>1, <2>3 DEF MmQ, If1
  <2>5. (\A s \in Slot : Holds(s) = 0) /\ Before = 0
    BY <1>5, <1>6, <1>7, <2>1 DEF Holds, Before, If1
  <2>6. MmRing
    BY <1>5, <1>6, <1>7, <2>1, <2>5 DEF MmRing, If1
  <2>7. TcApart /\ Covered
    BY <1>6 DEF TcApart, Covered
  <2> QED
    BY <2>2, <2>4, <2>6, <2>7 DEF MmInv
<1> QED
  BY <1>1, <1>4, <1>9, <1>10 DEF OperandInv

LEMMA NextRing == OperandInv /\ Covered /\ [Next]_vars => OperandInv' /\ Covered'
<1> SUFFICES ASSUME OperandInv, Covered, [Next]_vars PROVE RingKept
  BY DEF RingKept
<1>0. Types'
  BY NextTypes DEF OperandInv
<1>1. CASE Load
  BY <1>0, <1>1, LoadQRing, LoadKVRing DEF Load
<1>2. CASE TmaLand
  BY <1>0, <1>2, TmaLandRing
<1>3. CASE Mma
  BY <1>0, <1>3, MmaRing
<1>4. CASE TensorCore
  BY <1>0, <1>4, TcStartRing, TcFinishRing DEF TensorCore
<1>5. ASSUME NEW i \in Stage, Softmax(i) PROVE RingKept
  BY <1>0, <1>5, SoftmaxRing
<1>6. CASE Correction
  BY <1>0, <1>6, CorrectionRing
<1>7. CASE Epilogue
  BY <1>0, <1>7, EpilogueRing
<1>8. CASE UNCHANGED vars
  BY <1>0, <1>8, StillRing
<1> QED
  BY <1>1, <1>2, <1>3, <1>4, <1>5, <1>6, <1>7, <1>8 DEF Next, Halt

\* In every build: where the load warp and the MMA warp are in their loops says what
\* each barrier of Q and of the ring has counted, each buffer is in one hand at most,
\* and the ones an operation in flight reads are in the MMA warp's or to be released
\* by a commit behind that operation (load, load_KV, mma).
THEOREM OperandInvariant == Spec => [](OperandInv /\ Covered)
<1>1. Init => OperandInv /\ Covered
  BY InitRing
<1>2. (OperandInv /\ Covered) /\ [Next]_vars => (OperandInv /\ Covered)'
  BY NextRing
<1> QED
  BY <1>1, <1>2, PTL DEF Spec

LEMMA OperandsAre ==
    ASSUME NEW op
    PROVE  /\ \A i : <<"Q", i>> \in Operands(op) => op.kind = "QK" /\ op.st = i
           /\ \A s : <<"KV", s>> \in Operands(op) => op.slot = s
BY DEF Operands

LEMMA LoadsFree == OperandInv /\ Covered => LoadsIntoFreeBuffer
<1> SUFFICES ASSUME OperandInv, Covered, NEW x \in tma, NEW j \in DOMAIN tc, x.dst \in Operands(tc[j])
             PROVE  FALSE
  BY DEF LoadsIntoFreeBuffer
<1>1. \/ \E i \in Stage : x.full = <<"q_full", i>> /\ x.dst = <<"Q", i>>
      \/ \E s \in Slot : x.full = <<"kv_full", s>> /\ x.dst = <<"KV", s>>
  BY DEF OperandInv, LdInv, TmaApart
<1>2. ASSUME NEW i \in Stage, x.full = <<"q_full", i>>, x.dst = <<"Q", i>> PROVE FALSE
  <2>1. Landing(<<"q_full", i>>) /\ tc[j].kind = "QK" /\ tc[j].st = i
    BY <1>2, OperandsAre DEF Landing
  <2>2. HoldsQ(i) > 0 \/ Committed(<<"q_empty", i>>)
    BY <2>1 DEF Covered, Committed
  <2>3. /\ HoldsQ(i) + If1(Committed(<<"q_empty", i>>)) + If1(Landing(<<"q_full", i>>)) <= 1
        /\ HoldsQ(i) \in {0, 1}
    BY OneHandQ, QFacts
  <2> QED
    BY <2>1, <2>2, <2>3 DEF If1
<1>3. ASSUME NEW s \in Slot, x.full = <<"kv_full", s>>, x.dst = <<"KV", s>> PROVE FALSE
  <2>1. Landing(<<"kv_full", s>>) /\ tc[j].slot = s
    BY <1>3, OperandsAre DEF Landing
  <2>2. Holds(s) > 0 \/ Committed(<<"kv_empty", s>>)
    BY <2>1 DEF Covered, Committed
  <2>3. /\ Holds(s) + If1(Committed(<<"kv_empty", s>>)) + If1(Landing(<<"kv_full", s>>)) <= 1
        /\ Holds(s) \in {0, 1}
    BY OneHand
  <2> QED
    BY <2>1, <2>2, <2>3 DEF If1
<1> QED
  BY <1>1, <1>2, <1>3

\* In every build, for any blocks, tiles and number of ring slots: while an operation
\* that reads a slot of the ring or a Q buffer is issued and not over, no bulk load
\* into it is on its way (load's acquires of q_empty and kv_empty, mma's commits).
THEOREM LoadsAreSafe == Spec => []LoadsIntoFreeBuffer
BY OperandInvariant, LoadsFree, PTL

LEMMA RingOnTime == OperandInv => OnTime(RingBarriers)
<1> SUFFICES ASSUME OperandInv, NEW b \in Barrier, b[1] \in RingBarriers
             PROVE  bar[b].done - bar[b].seen \in (IF b[1] \in StartsFree THEN {-1, 0} ELSE {0, 1})
  BY DEF OnTime
<1>1. CASE \E i \in Stage : b = <<"q_full", i>> \/ b = <<"q_empty", i>>
  <2>1. PICK i \in Stage : b = <<"q_full", i>> \/ b = <<"q_empty", i>>
    BY <1>1
  <2>2. Done("q_full", i) - Seen("q_full", i) \in {0, 1} /\ Done("q_empty", i) - Seen("q_empty", i) \in {-1, 0}
    BY OneHandQ
  <2>3. b[1] = "q_full" \/ b[1] = "q_empty"
    BY <2>1
  <2>4. "q_full" \notin StartsFree /\ "q_empty" \in StartsFree
    BY DEF StartsFree
  <2> QED
    BY <2>1, <2>2, <2>3, <2>4 DEF Done, Seen
<1>2. CASE \E s \in Slot : b = <<"kv_full", s>> \/ b = <<"kv_empty", s>>
  <2>1. PICK s \in Slot : b = <<"kv_full", s>> \/ b = <<"kv_empty", s>>
    BY <1>2
  <2>2. Done("kv_full", s) - Seen("kv_full", s) \in {0, 1} /\ Done("kv_empty", s) - Seen("kv_empty", s) \in {-1, 0}
    BY OneHand
  <2>3. b[1] = "kv_full" \/ b[1] = "kv_empty"
    BY <2>1
  <2>4. "kv_full" \notin StartsFree /\ "kv_empty" \in StartsFree
    BY DEF StartsFree
  <2> QED
    BY <2>1, <2>2, <2>3, <2>4 DEF Done, Seen
<1>3. \/ \E i \in Stage : b = <<"q_full", i>> \/ b = <<"q_empty", i>>
      \/ \E s \in Slot : b = <<"kv_full", s>> \/ b = <<"kv_empty", s>>
  BY OnlyThese DEF RingBarriers, StagedBarrier
<1> QED
  BY <1>1, <1>2, <1>3

\* The part of NoPhaseLost that is about Q and the ring, in every build: neither the
\* load warp nor the MMA warp is ever a whole phase behind a barrier of theirs, so
\* the one parity bit they keep names the phase they mean (PipelineState.phase).
THEOREM RingPhasesKept == Spec => []OnTime(RingBarriers)
BY OperandInvariant, RingOnTime, PTL

-----------------------------------------------------------------------------
(* The blocks of the tiles before a tile put all roles on one scale. *)

IsStart(f, n) == /\ f \in [1..(n + 1) -> Nat] /\ f[1] = 0
                 /\ \A t \in 1..n : f[t + 1] = f[t] + Blocks[t]

\* KV blocks of the tiles before tile t.
Start == CHOOSE f : IsStart(f, Tiles)

-----------------------------------------------------------------------------
(* Where the roles are, counted in blocks, tiles and scales of a stage.    *)

\* Softmax: blocks gone through; S loaded, P begun, its parts stored; acc_scale's
\* buffer taken and given to the correction warps, row sums included.
SmBlocks(i)   == Start[sm[i].t] + sm[i].k - 1
SLoaded(i)    == SmBlocks(i) + If1(sm[i].at \in {"scale", "plo", "phi", "corr", "sum"})
PBegun(i)     == SmBlocks(i) + If1(sm[i].at \in {"plo", "phi", "corr", "sum"})
PStored(i)    == SmBlocks(i) + If1(sm[i].at \in {"phi", "corr", "sum"})
P2Stored(i)   == SmBlocks(i) + If1(sm[i].at \in {"corr", "sum"})
ScalesFree(i) == SmBlocks(i) + sm[i].t - 1
                 + If1(sm[i].at \notin {"start", "tile", "end"}) + If1(sm[i].at = "sum")
ScalesOut(i)  == PBegun(i) + sm[i].t - 1
\* QKs of the other stage that softmax i lets go on.
QksLet(i)     == SLoaded(i) + If1(i = 1 /\ sm[i].at # "start")

SmPlace(i) ==
    /\ sm[i].t \in 1..(Tiles + 1)
    /\ sm[i].at = "end" <=> sm[i].t = Tiles + 1
    /\ sm[i].at # "end" => sm[i].k \in 1..Blocks[sm[i].t]
    /\ sm[i].at \in {"start", "tile", "end"} => sm[i].k = 1
    /\ sm[i].at = "sum" => sm[i].k = Blocks[sm[i].t]
    /\ sm[i].at = "start" => i = 1 /\ QuantQK /\ sm[i].t = 1
    /\ ~QuantQK => sm[i].at # "start"
SmBits(i) ==
    /\ sm[i].sPh = (SmBlocks(i) + If1(sm[i].at = "sum")) % 2
    /\ sm[i].cPh = (ScalesFree(i) + 1) % 2

\* Correction: scales taken and given back, O rescaled or left to the first PV, O
\* waited for, outputs written.
CoIn     == co.at \notin {"start", "first", "end"}
CoEnding == co.at \in {"sum", "o", "buffer", "write"}
CoRounds == Start[co.t] + co.t - 1 + (IF CoIn THEN co.k - 1 ELSE 0)
ScalesTaken(i) == CoRounds + If1(i < co.st)
                  + If1(i = co.st /\ co.at \in {"acc", "rescale", "o", "buffer", "write"})
ScalesBack(i) ==
    CoRounds + (IF ~CoIn THEN If1(i < co.st)
                ELSE If1(CoEnding /\ (i < co.st \/ (i = co.st /\ co.at # "sum")))
                     - If1(~CoEnding /\ i = 1 /\ co.st = 0))
ORescaled(i) == Start[co.t] + If1(co.at # "start") + (IF CoIn THEN co.k - 2 + If1(i < co.st) ELSE 0)
OTaken(i) ==
    IF Decoupled
    THEN Start[co.t] + (IF CoIn THEN co.k - 2 + If1(i < co.st)
                                     + If1(i = co.st /\ co.at \in {"rescale", "buffer", "write"})
                                ELSE 0)
    ELSE co.t - 1 + If1(CoEnding /\ (i < co.st \/ (i = co.st /\ co.at \in {"buffer", "write"})))
OWritten(i)    == co.t - 1 + If1(CoEnding /\ i < co.st)
BuffersHad(i)  == OWritten(i) + If1(i = co.st /\ co.at = "write")

CoPlace ==
    /\ co.t \in 1..(Tiles + 1)
    /\ co.at = "end" <=> co.t = Tiles + 1
    /\ co.at \in {"start", "end"} => co.st = 0
    /\ co.at = "start" => co.t = 1
    /\ co.at \in {"scale", "acc", "rescale"} => co.k \in 2..Blocks[co.t]
    /\ CoEnding => co.k = Blocks[co.t] + 1
    /\ co.at = "acc" => Decoupled
    /\ co.at = "buffer" => ~CorrStoresO
CoBits ==
    /\ co.cPh = CoRounds % 2
    /\ co.oPh = (IF Decoupled THEN Start[co.t] + (IF CoIn THEN co.k - 2 ELSE 0) ELSE co.t - 1) % 2
    /\ co.ePh = co.t % 2

\* MMA: QKs issued, PVs begun and wholly issued, commits of O.
MmBlocks     == Start[mm.t] + mm.k
QksIssued(i) == MmBlocks + If1(~Last /\ (i < mm.st \/ (Decoupled /\ i = mm.st /\ mm.at \in {"p", "p2"})))
PvDone(i)    == MmBlocks + (IF mm.k = 0 THEN 0
                            ELSE If1(i < mm.st \/ (i = mm.st /\ ~Decoupled /\ mm.at \in {"k", "qk"})) - 1)
PvBegun(i)   == PvDone(i) + If1(i = mm.st /\ mm.at = "p2")
OCommits(i)  == IF Decoupled THEN PvDone(i) ELSE mm.t - 1 + If1(Last /\ i < mm.st)
MmBits ==
    /\ QuantQK => mm.fPh = MmBlocks % 2
    /\ mm.pPh = (MmBlocks - If1(mm.k > 0)) % 2

\* Epilogue: outputs whose store was issued, buffers freed.
EpRead(i)  == ep.t - 1 + If1(ep.at = "free" \/ (ep.at = "store" /\ i < ep.st))
EpFreed(i) == ep.t - 1 + If1(ep.at = "free" /\ i < ep.st)
EpBits     == ep.ph = (ep.t + 1) % 2

-----------------------------------------------------------------------------
(* The accounts: waits passed and arrivals made or committed, by barrier.  *)

HandNames   == {"S_full", "P_full_O", "P_full_2", "O_full", "corr_full", "corr_empty", "sfqk",
                "epi_full", "epi_empty"} \ Unwaited
HandBarrier == (HandNames \X Stage) \cup {<<"dealloc", 0>>}

Waited(b) ==
    CASE b[1] = "S_full"     -> SLoaded(b[2])
      [] b[1] = "P_full_O"   -> PvBegun(b[2])
      [] b[1] = "P_full_2"   -> PvDone(b[2])
      [] b[1] = "O_full"     -> OTaken(b[2])
      [] b[1] = "corr_full"  -> ScalesTaken(b[2])
      [] b[1] = "corr_empty" -> ScalesFree(b[2])
      [] b[1] = "sfqk"       -> QksIssued(b[2])
      [] b[1] = "epi_full"   -> EpRead(b[2])
      [] b[1] = "epi_empty"  -> BuffersHad(b[2])
      [] b[1] = "dealloc"    -> If1(mm.at = "end")
Given(b) ==
    CASE b[1] = "S_full"     -> QksIssued(b[2])
      [] b[1] = "P_full_O"   -> PStored(b[2]) + ORescaled(b[2])
      [] b[1] = "P_full_2"   -> P2Stored(b[2])
      [] b[1] = "O_full"     -> OCommits(b[2])
      [] b[1] = "corr_full"  -> ScalesOut(b[2])
      [] b[1] = "corr_empty" -> ScalesBack(b[2])
      [] b[1] = "sfqk"       -> QksLet(1 - b[2])
      [] b[1] = "epi_full"   -> OWritten(b[2])
      [] b[1] = "epi_empty"  -> EpFreed(b[2])
      [] b[1] = "dealloc"    -> If1(sm[0].at = "end") + If1(sm[1].at = "end") + If1(co.at = "end")

Counted == \A b \in HandBarrier : /\ bar[b].seen = Waited(b)
                                  /\ Arrivals(b) = Given(b) - If1(Committed(b))

\* No two operations in flight commit to one barrier.
CommitsOnce == \A i, j \in DOMAIN tc : i # j => tc[i].signals \cap tc[j].signals = {}

\* A PV is issued only when both have let it; P is begun only when the PV before it is
\* over, where that is assumed of softmax.
PvBehind ==
    \A i \in Stage : /\ PvBegun(i) <= PStored(i) /\ PvBegun(i) <= ORescaled(i)
                     /\ Decoupled /\ PvBeforeNextP => PBegun(i) <= Done("O_full", i) + 1

Places == (\A i \in Stage : SmPlace(i) /\ SmBits(i)) /\ CoPlace /\ CoBits /\ MmBits
          /\ (IF CorrStoresO THEN ep.at = "end" ELSE EpBits)

HandInv == /\ OperandInv /\ Covered /\ Places
           /\ Counted /\ CommitsOnce /\ NotBehind(HandNames \cup {"dealloc"}) /\ PvBehind

-----------------------------------------------------------------------------
(* The blocks before a tile. *)

LEMMA StartExists == \E f : IsStart(f, Tiles)
<1> DEFINE Bad == {n \in Nat : n <= Tiles /\ ~\E f : IsStart(f, n)}
<1>0. Tiles \in Nat /\ \A t \in 1..Tiles : Blocks[t] \in Nat
  BY ConfigAssumption DEF Tiles
<1> SUFFICES ASSUME Bad # {} PROVE FALSE
  BY <1>0
<1>1. PICK n \in Bad : \A m \in Bad : ~(<<m, n>> \in OpToRel(<, Nat))
  <2>1. Bad \subseteq Nat
    OBVIOUS
  <2> HIDE DEF Bad
  <2> QED
    BY <2>1, WFMin, NatLessThanWellFounded
<1>2. \A m \in Bad : ~(m < n)
  BY <1>1 DEF OpToRel
<1>3. n # 0
  <2>1. CASE n = 0
    <3>1. IsStart([t \in 1..1 |-> 0], 0)
      BY DEF IsStart
    <3> QED
      BY <1>1, <2>1, <3>1
  <2> QED
    BY <2>1
<1>4. n - 1 \in Nat /\ n - 1 <= Tiles /\ n \in 1..Tiles /\ n \in Nat
  BY <1>0, <1>3
<1>5. PICK f : IsStart(f, n - 1)
  BY <1>2, <1>4
<1> DEFINE g == [t \in 1..(n + 1) |-> IF t = n + 1 THEN f[n] + Blocks[n] ELSE f[t]]
<1>6. f \in [1..n -> Nat] /\ f[1] = 0 /\ \A t \in 1..(n - 1) : f[t + 1] = f[t] + Blocks[t]
  BY <1>4, <1>5 DEF IsStart
<1>7. g \in [1..(n + 1) -> Nat]
  BY <1>0, <1>4, <1>6
<1>8. g[1] = 0
  BY <1>4, <1>6
<1>9. ASSUME NEW t \in 1..n PROVE g[t + 1] = g[t] + Blocks[t]
  BY <1>4, <1>6
<1>10. IsStart(g, n)
  <2> HIDE DEF g
  <2> QED
    BY <1>7, <1>8, <1>9 DEF IsStart
<1> QED
  BY <1>1, <1>10

LEMMA StartIs ==
    /\ Tiles \in Nat /\ 1 <= Tiles
    /\ Start[1] = 0 /\ \A t \in 1..(Tiles + 1) : Start[t] \in Int /\ 0 <= Start[t]
    /\ \A t \in 1..Tiles : t \in Tile /\ Start[t + 1] = Start[t] + Blocks[t]
                           /\ Blocks[t] \in Int /\ 1 <= Blocks[t]
<1>1. IsStart(Start, Tiles)
  BY StartExists DEF Start
<1>2. /\ Tiles \in Nat /\ 1 <= Tiles /\ Tile = 1..Tiles
      /\ \A t \in 1..Tiles : Blocks[t] \in Int /\ 1 <= Blocks[t]
  BY ConfigAssumption DEF Tiles, Tile
<1>3. \A t \in 1..(Tiles + 1) : Start[t] \in Int /\ 0 <= Start[t]
  BY <1>1 DEF IsStart
<1> QED
  BY <1>1, <1>2, <1>3 DEF IsStart

LEMMA StartGrows ==
    \A t, u \in 1..(Tiles + 1) : t < u => Start[t] + Blocks[t] <= Start[u]
<1> SUFFICES ASSUME NEW t \in 1..(Tiles + 1), NEW w \in 1..(Tiles + 1), t < w,
                    ~(Start[t] + Blocks[t] <= Start[w])
             PROVE  FALSE
  OBVIOUS
<1> DEFINE Bad == {u \in Nat : u \in 1..(Tiles + 1) /\ t < u /\ ~(Start[t] + Blocks[t] <= Start[u])}
<1>1. PICK n \in Bad : \A m \in Bad : ~(<<m, n>> \in OpToRel(<, Nat))
  <2>1. Bad \subseteq Nat
    OBVIOUS
  <2>2. w \in Bad
    <3>1. w \in Nat
      BY StartIs
    <3> QED
      BY <3>1
  <2> HIDE DEF Bad
  <2> QED
    BY <2>1, <2>2, WFMin, NatLessThanWellFounded
<1>2. \A m \in Bad : ~(m < n)
  BY <1>1 DEF OpToRel
<1>4. n \in Nat /\ n \in 1..(Tiles + 1) /\ t < n /\ ~(Start[t] + Blocks[t] <= Start[n])
  OBVIOUS
<1>5. t \in 1..Tiles /\ n - 1 \in 1..Tiles /\ n - 1 \in Nat /\ n - 1 < n /\ (n - 1) + 1 = n
  BY StartIs, <1>4
<1>6. n - 1 \notin Bad
  BY <1>2, <1>5
<1>7. Start[n] = Start[n - 1] + Blocks[n - 1]
  BY StartIs, <1>5
<1>8. Start[n] \in Int /\ Start[n - 1] \in Int /\ Start[t] \in Int /\ Blocks[n - 1] \in Int /\ Blocks[t] \in Int
      /\ 1 <= Blocks[n - 1]
  BY StartIs, <1>4, <1>5
<1>9. CASE t = n - 1
  BY <1>4, <1>7, <1>8, <1>9
<1>10. CASE t # n - 1
  <2>1. t < n - 1 /\ n - 1 \in 1..(Tiles + 1)
    <3>1. t \in Int /\ n \in Int /\ Tiles \in Int
      BY <1>4, StartIs
    <3> QED
      BY <1>4, <1>5, <1>10, <3>1
  <2>2. Start[t] + Blocks[t] <= Start[n - 1]
    BY <1>5, <1>6, <2>1
  <2> QED
    BY <1>4, <1>7, <1>8, <2>2
<1> QED
  BY <1>9, <1>10

\* Two tiles: the same, or one is wholly before the other.
Apart(s, c) ==
    /\ Start[s] \in Int /\ 0 <= Start[s] /\ Start[c] \in Int /\ 0 <= Start[c]
    /\ s = c => Start[s] = Start[c]
    /\ s < c => /\ s \in Tile /\ Blocks[s] \in Int /\ 1 <= Blocks[s]
                /\ Start[s] + Blocks[s] <= Start[c] /\ (c = s + 1 => Start[c] = Start[s] + Blocks[s])
    /\ c < s => /\ c \in Tile /\ Blocks[c] \in Int /\ 1 <= Blocks[c]
                /\ Start[c] + Blocks[c] <= Start[s] /\ (s = c + 1 => Start[s] = Start[c] + Blocks[c])

LEMMA TilesApart == ASSUME NEW s \in 1..(Tiles + 1), NEW c \in 1..(Tiles + 1) PROVE Apart(s, c)
<1>1. s < c => s \in 1..Tiles
  BY StartIs
<1>2. c < s => c \in 1..Tiles
  BY StartIs
<1>3. c = s + 1 => s \in 1..Tiles
  BY StartIs
<1>4. s = c + 1 => c \in 1..Tiles
  BY StartIs
<1> QED
  BY <1>1, <1>2, <1>3, <1>4, StartIs, StartGrows DEF Apart

-----------------------------------------------------------------------------
(* All positions are numbers. *)

LEMMA StageOther == ASSUME NEW i \in Stage PROVE 1 - i \in Stage /\ 1 - i # i /\ 1 - (1 - i) = i
                                              /\ \A j \in Stage : j = i \/ j = 1 - i
BY DEF Stage

LEMMA If1Is == ASSUME NEW p \in BOOLEAN PROVE If1(p) \in Int /\ 0 <= If1(p) /\ If1(p) <= 1
BY DEF If1

\* Where softmax i can be.
SmWhere(i) ==
    /\ sm[i] \in SmRecord /\ sm[i].t \in Int /\ sm[i].k \in Int /\ Tiles \in Int /\ i \in {0, 1}
    /\ 1 <= sm[i].t /\ sm[i].t <= Tiles + 1 /\ sm[i].t \in 1..(Tiles + 1) /\ 1 <= sm[i].k
    /\ Start[sm[i].t] \in Int
    /\ sm[i].at # "end" => /\ sm[i].t \in Tile /\ sm[i].t <= Tiles /\ sm[i].k <= Blocks[sm[i].t]
                           /\ Blocks[sm[i].t] \in Int /\ 1 <= Blocks[sm[i].t]
                           /\ Start[sm[i].t + 1] = Start[sm[i].t] + Blocks[sm[i].t]
    /\ \A t \in Int : t \in Tile <=> 1 <= t /\ t <= Tiles

LEMMA SmIsSomewhere == ASSUME SmType, NEW i \in Stage, SmPlace(i) PROVE SmWhere(i)
<1>1. sm[i] \in SmRecord /\ sm[i].t \in Int /\ sm[i].k \in Int /\ i \in {0, 1}
  BY StageIs DEF SmType, SmRecord
<1>2. sm[i].t \in 1..(Tiles + 1) /\ (sm[i].at = "end" <=> sm[i].t = Tiles + 1)
  BY DEF SmPlace
<1>3. sm[i].at # "end" => sm[i].t \in 1..Tiles
  BY <1>1, <1>2, StartIs
<1>4. 1 <= sm[i].k
  <2>1. CASE sm[i].at = "end"
    BY <2>1 DEF SmPlace
  <2>2. CASE sm[i].at # "end"
    <3>1. sm[i].k \in 1..Blocks[sm[i].t] /\ Blocks[sm[i].t] \in Int
      BY <1>3, <2>2, StartIs DEF SmPlace
    <3> QED
      BY <3>1
  <2> QED
    BY <2>1, <2>2
<1>5. sm[i].at # "end" => sm[i].k <= Blocks[sm[i].t]
  BY <1>3, StartIs DEF SmPlace
<1> QED
  BY <1>1, <1>2, <1>3, <1>4, <1>5, StartIs, TilesAre DEF SmWhere

\* Where the correction warps can be.
CoWhere ==
    /\ co \in CoRecord /\ co.t \in Int /\ co.k \in Int /\ Tiles \in Int /\ co.st \in {0, 1}
    /\ 1 <= co.t /\ co.t <= Tiles + 1 /\ co.t \in 1..(Tiles + 1)
    /\ Start[co.t] \in Int /\ 0 <= Start[co.t] /\ Start[1] = 0
    /\ co.at # "end" => /\ co.t \in Tile /\ co.t <= Tiles
                        /\ Blocks[co.t] \in Int /\ 1 <= Blocks[co.t]
                        /\ Start[co.t + 1] = Start[co.t] + Blocks[co.t]
    /\ \A t \in Int : t \in Tile <=> 1 <= t /\ t <= Tiles

LEMMA CoIsSomewhere == ASSUME CoType, CoPlace PROVE CoWhere
<1>1. co \in CoRecord /\ co.t \in Int /\ co.k \in Int /\ co.st \in {0, 1}
  BY StageIs DEF CoType, CoRecord
<1>2. co.t \in 1..(Tiles + 1) /\ (co.at = "end" <=> co.t = Tiles + 1)
  BY DEF CoPlace
<1>3. co.at # "end" => co.t \in 1..Tiles
  BY <1>1, <1>2, StartIs
<1> QED
  BY <1>1, <1>2, <1>3, StartIs, TilesAre DEF CoWhere

\* ... and the MMA warp.
MmStarts ==
    /\ mm.t \in 1..(Tiles + 1) /\ Start[mm.t] \in Int /\ 0 <= Start[mm.t]
    /\ ~MmOver => Start[mm.t + 1] = Start[mm.t] + Blocks[mm.t]

LEMMA MmStartsIs == ASSUME MmType, MmPlace PROVE MmStarts
<1>1. mm.t \in 1..(Tiles + 1)
  BY DEF MmPlace
<1>2. ~MmOver => mm.t \in 1..Tiles
  BY StartIs DEF MmPlace
<1> QED
  BY <1>1, <1>2, StartIs DEF MmStarts

Numbers == \A b \in HandBarrier : Waited(b) \in Int /\ Given(b) \in Int

SmNumbers(i) ==
    /\ SmBlocks(i) \in Int /\ SLoaded(i) \in Int /\ PBegun(i) \in Int /\ PStored(i) \in Int
    /\ P2Stored(i) \in Int /\ ScalesFree(i) \in Int /\ ScalesOut(i) \in Int /\ QksLet(i) \in Int

LEMMA SmNumbersAre == ASSUME NEW i, SmWhere(i) PROVE SmNumbers(i)
<1>1. SmBlocks(i) \in Int /\ sm[i].t \in Int
  BY DEF SmWhere, SmBlocks
<1>2. SLoaded(i) \in Int /\ PBegun(i) \in Int /\ PStored(i) \in Int /\ P2Stored(i) \in Int
  BY <1>1 DEF SLoaded, PBegun, PStored, P2Stored, If1
<1>3. ScalesFree(i) \in Int
  BY <1>1 DEF ScalesFree, If1
<1> QED
  BY <1>1, <1>2, <1>3 DEF SmNumbers, ScalesOut, QksLet, If1

CoNumbers(i) ==
    /\ CoRounds \in Int /\ ScalesTaken(i) \in Int /\ ScalesBack(i) \in Int /\ ORescaled(i) \in Int
    /\ OTaken(i) \in Int /\ OWritten(i) \in Int /\ BuffersHad(i) \in Int

LEMMA CoNumbersAre == ASSUME NEW i, CoWhere PROVE CoNumbers(i)
<1>1. CoRounds \in Int
  BY DEF CoWhere, CoRounds
<1>2. ScalesTaken(i) \in Int /\ ScalesBack(i) \in Int
  BY <1>1 DEF ScalesTaken, ScalesBack, If1
<1>3. ORescaled(i) \in Int
  BY DEF CoWhere, ORescaled, If1
<1>4. OTaken(i) \in Int
  BY DEF CoWhere, OTaken, If1
<1>5. OWritten(i) \in Int
  BY DEF CoWhere, OWritten, If1
<1> QED
  BY <1>1, <1>2, <1>3, <1>4, <1>5 DEF CoNumbers, BuffersHad, If1

MmNumbers(i) ==
    /\ MmBlocks \in Int /\ QksIssued(i) \in Int /\ PvDone(i) \in Int /\ PvBegun(i) \in Int /\ OCommits(i) \in Int

LEMMA MmNumbersAre == ASSUME NEW i, MmWhere, MmStarts PROVE MmNumbers(i)
<1>1. MmBlocks \in Int
  BY DEF MmWhere, MmStarts, MmBlocks
<1>2. QksIssued(i) \in Int /\ PvDone(i) \in Int
  BY <1>1 DEF QksIssued, PvDone, If1
<1>3. PvBegun(i) \in Int
  BY <1>2 DEF PvBegun, If1
<1>4. OCommits(i) \in Int
  BY <1>2 DEF OCommits, If1, MmWhere
<1> QED
  BY <1>1, <1>2, <1>3, <1>4 DEF MmNumbers

LEMMA EpNumbersAre == ASSUME EpType, NEW i PROVE EpRead(i) \in Int /\ EpFreed(i) \in Int
BY DEF EpType, EpRead, EpFreed, If1

LEMMA HandBarriersAre ==
    /\ HandBarrier \subseteq Barrier
    /\ <<"dealloc", 0>> \in HandBarrier
    /\ \A i \in Stage : /\ <<"S_full", i>> \in HandBarrier /\ <<"O_full", i>> \in HandBarrier
                        /\ <<"P_full_O", i>> \in HandBarrier /\ <<"P_full_2", i>> \in HandBarrier
                        /\ <<"corr_full", i>> \in HandBarrier /\ <<"corr_empty", i>> \in HandBarrier
                        /\ QuantQK => <<"sfqk", i>> \in HandBarrier
                        /\ ~CorrStoresO => /\ <<"epi_full", i>> \in HandBarrier
                                           /\ <<"epi_empty", i>> \in HandBarrier
    /\ \A b \in HandBarrier : b[1] \in HandNames \cup {"dealloc"} /\ b[1] \notin RingBarriers
    /\ \A b \in Barrier : b[1] \in HandNames \cup {"dealloc"} => b \in HandBarrier
<1>1. HandBarrier \subseteq Barrier
  BY DEF HandBarrier, HandNames, Barrier, StagedBarrier
<1>2. \A b \in Barrier : b[1] \in HandNames \cup {"dealloc"} => b \in HandBarrier
  <2> SUFFICES ASSUME NEW b \in Barrier, b[1] \in HandNames \cup {"dealloc"} PROVE b \in HandBarrier
    OBVIOUS
  <2>1. CASE b = <<"dealloc", 0>>
    BY <2>1 DEF HandBarrier
  <2>2. CASE \E i \in Stage : \E n \in StagedBarrier : b = <<n, i>>
    BY <2>2 DEF HandBarrier, HandNames, StagedBarrier
  <2>3. CASE \E s \in Slot : b = <<"kv_full", s>> \/ b = <<"kv_empty", s>>
    BY <2>3 DEF HandNames
  <2> QED
    BY <2>1, <2>2, <2>3, OnlyThese
<1> QED
  BY <1>1, <1>2 DEF HandBarrier, HandNames, Unwaited, RingBarriers

\* The accounts of a barrier, by its name.
LEMMA AccountsAre ==
    \A i : /\ Waited(<<"S_full", i>>) = SLoaded(i) /\ Given(<<"S_full", i>>) = QksIssued(i)
           /\ Waited(<<"P_full_O", i>>) = PvBegun(i)
           /\ Given(<<"P_full_O", i>>) = PStored(i) + ORescaled(i)
           /\ Waited(<<"P_full_2", i>>) = PvDone(i) /\ Given(<<"P_full_2", i>>) = P2Stored(i)
           /\ Waited(<<"O_full", i>>) = OTaken(i) /\ Given(<<"O_full", i>>) = OCommits(i)
           /\ Waited(<<"corr_full", i>>) = ScalesTaken(i) /\ Given(<<"corr_full", i>>) = ScalesOut(i)
           /\ Waited(<<"corr_empty", i>>) = ScalesFree(i) /\ Given(<<"corr_empty", i>>) = ScalesBack(i)
           /\ Waited(<<"sfqk", i>>) = QksIssued(i) /\ Given(<<"sfqk", i>>) = QksLet(1 - i)
           /\ Waited(<<"epi_full", i>>) = EpRead(i) /\ Given(<<"epi_full", i>>) = OWritten(i)
           /\ Waited(<<"epi_empty", i>>) = BuffersHad(i) /\ Given(<<"epi_empty", i>>) = EpFreed(i)
           /\ Waited(<<"dealloc", i>>) = If1(mm.at = "end")
           /\ Given(<<"dealloc", i>>) = If1(sm[0].at = "end") + If1(sm[1].at = "end") + If1(co.at = "end")
BY DEF Waited, Given

\* The barriers there are, one by one.
Named(b, i) == b[2] = i /\ b \in {<<"S_full", i>>, <<"P_full_O", i>>, <<"P_full_2", i>>, <<"O_full", i>>,
                  <<"corr_full", i>>, <<"corr_empty", i>>, <<"sfqk", i>>, <<"epi_full", i>>,
                  <<"epi_empty", i>>}

LEMMA HandBarrierIs ==
    ASSUME NEW b \in HandBarrier
    PROVE  b = <<"dealloc", 0>> \/ \E i \in Stage : Named(b, i)
BY DEF HandBarrier, HandNames, Named

LEMMA NumbersAre ==
    ASSUME Types, MmPlace, CoPlace, \A i \in Stage : SmPlace(i)
    PROVE  Numbers
<1>1. \A i \in Stage : SmNumbers(i) /\ CoNumbers(i) /\ MmNumbers(i)
  BY SmIsSomewhere, SmNumbersAre, CoIsSomewhere, CoNumbersAre, MmIsSomewhere, MmStartsIs, MmNumbersAre
     DEF Types
<1>2. \A i \in Stage : EpRead(i) \in Int /\ EpFreed(i) \in Int /\ 1 - i \in Stage
  BY EpNumbersAre, StageOther DEF Types
<1>3. \A p : If1(p) \in Int
  BY DEF If1
<1> SUFFICES ASSUME NEW b \in HandBarrier PROVE Waited(b) \in Int /\ Given(b) \in Int
  BY DEF Numbers
<1>4. CASE b = <<"dealloc", 0>>
  <2>1. Waited(b) = If1(mm.at = "end") /\ Given(b) = If1(sm[0].at = "end") + If1(sm[1].at = "end") + If1(co.at = "end")
    BY <1>4, AccountsAre
  <2> QED
    BY <1>3, <2>1
<1>5. CASE \E i \in Stage : Named(b, i)
  <2>1. PICK i \in Stage : Named(b, i)
    BY <1>5
  <2>2. SmNumbers(i) /\ CoNumbers(i) /\ MmNumbers(i) /\ SmNumbers(1 - i) /\ EpRead(i) \in Int /\ EpFreed(i) \in Int
    BY <1>1, <1>2
  <2>3. PStored(i) + ORescaled(i) \in Int
    BY <2>2 DEF SmNumbers, CoNumbers
  <2> QED
    BY <2>1, <2>2, <2>3, AccountsAre DEF Named, SmNumbers, CoNumbers, MmNumbers
<1> QED
  BY <1>4, <1>5, HandBarrierIs

-----------------------------------------------------------------------------
(* Keeping the accounts. *)

\* What a step does to every account: waits w passed in their turn, arrivals a made,
\* commits sig issued.
Accounts(w, a, sig) ==
    \A b \in HandBarrier : /\ Waited(b)' = Waited(b) + If1(b \in w)
                           /\ Given(b)' = Given(b) + If1(b \in a) + If1(b \in sig)
InTurn(w) == \A b \in w : b \in HandBarrier => Passes(bar[b], (Waited(b) + Free(b)) % 2)

\* No waiter of a barrier can take one phase for another.
Window(b) == bar[b].done - bar[b].seen \in (CASE b[1] \in StartsFree -> {-1, 0}
                                              [] b[1] = "P_full_2"   -> {0, 1, 2}
                                              [] OTHER               -> {0, 1})
Windows == \A b \in HandBarrier : Window(b)

LEMMA HandNumbers ==
    ASSUME BarType, BarOK, NEW b \in HandBarrier
    PROVE  /\ bar[b].done \in Nat /\ bar[b].seen \in Nat /\ Arrivals(b) \in Int
           /\ b[1] \notin {"P_full_O", "dealloc"} => Arrivals(b) = bar[b].done
BY HandBarriersAre, BarNumbers, Ones

\* What a step waits for, arrives on and commits to is accounted for.
LEMMA AccountsKept ==
    ASSUME BarType, BarOK, Counted, Numbers, NEW w, NEW a, NEW sig, Moves(w, a), Accounts(w, a, sig),
           \A b \in HandBarrier : Committed(b)' <=> Committed(b) \/ b \in sig,
           \A b \in HandBarrier : ~(Committed(b) /\ b \in sig)
    PROVE  Counted'
<1> SUFFICES ASSUME NEW b \in HandBarrier
             PROVE  /\ bar'[b].seen = Waited(b)'
                    /\ Arrivals(b)' = Given(b)' - If1(Committed(b))'
  BY DEF Counted, HandBarrier, HandNames, Unwaited
<1>1. b \in Barrier /\ bar[b].seen \in Nat /\ Arrivals(b) \in Int
  BY HandBarriersAre, HandNumbers
<1>2. bar'[b].seen = bar[b].seen + If1(b \in w) /\ Arrivals(b)' = Arrivals(b) + If1(b \in a)
  BY <1>1 DEF Moves
<1>3. bar[b].seen = Waited(b) /\ Arrivals(b) = Given(b) - If1(Committed(b))
  BY DEF Counted
<1>4. Waited(b)' = Waited(b) + If1(b \in w) /\ Given(b)' = Given(b) + If1(b \in a) + If1(b \in sig)
  BY DEF Accounts
<1>5. If1(Committed(b))' = If1(Committed(b)) + If1(b \in sig)
  BY DEF If1
<1>6. If1(Committed(b)) \in Int /\ If1(b \in a) \in Int /\ If1(b \in sig) \in Int /\ If1(b \in w) \in Int
  BY DEF If1
<1>7. Given(b) \in Int /\ Waited(b) \in Int
  BY DEF Numbers
<1> QED
  BY <1>1, <1>2, <1>3, <1>4, <1>5, <1>6, <1>7

\* A wait in its turn goes on when its own phase is over, and not before.
LEMMA TurnsTell ==
    ASSUME BarType, BarOK, Counted, Windows, NEW w, InTurn(w), NEW b \in w, b \in HandBarrier
    PROVE  bar[b].done = bar[b].seen + 1 - Free(b)
<1>1. bar[b].done \in Nat /\ bar[b].seen \in Nat
  BY HandNumbers
<1>2. Passes(bar[b], (bar[b].seen + Free(b)) % 2) /\ Window(b)
  BY DEF InTurn, Counted, Windows
<1>3. CASE b[1] # "P_full_2"
  BY <1>1, <1>2, <1>3, ParityTells DEF Window
<1>4. CASE b[1] = "P_full_2"
  <2>1. Free(b) = 0
    BY <1>4 DEF Free, StartsFree, If1
  <2>2. bar[b].done - bar[b].seen \in {0, 1, 2}
    BY <1>2, <1>4 DEF Window, StartsFree
  <2>3. bar[b].done % 2 # bar[b].seen % 2
    BY <1>1, <1>2, <2>1 DEF Passes
  <2> QED
    BY <1>1, <2>1, <2>2, <2>3
<1> QED
  BY <1>3, <1>4

LEMMA TurnsKept ==
    ASSUME BarType, BarOK, Counted, Windows, NEW w, NEW a, Moves(w, a), InTurn(w),
           NotBehind(HandNames \cup {"dealloc"}), \A b \in w : b \in Barrier
    PROVE  NotBehind(HandNames \cup {"dealloc"})'
<1>1. \A b \in w : b[1] \in HandNames \cup {"dealloc"} => bar[b].done = bar[b].seen + 1 - Free(b)
  BY HandBarriersAre, TurnsTell
<1>2. NotBehind(HandNames \cup {"dealloc"})' <=>
          \A b \in Barrier : b[1] \in HandNames \cup {"dealloc"} => bar'[b].seen <= bar'[b].done + Free(b)
  BY DEF NotBehind, HandNames, Free, Unwaited
<1> DEFINE names == HandNames \cup {"dealloc"}
<1>3. PICK g : g = names
  OBVIOUS
<1>4. NotBehind(g) /\ \A b \in w : b[1] \in g => bar[b].done = bar[b].seen + 1 - Free(b)
  BY <1>1, <1>3
<1>5. NotBehind(g)'
  BY <1>4, StaysNotBehind
<1> QED
  BY <1>2, <1>3, <1>5 DEF NotBehind, Free

-----------------------------------------------------------------------------
(* The softmax warpgroups.                                                 *)

SmTo(i, at, t, k, s, c) ==
    /\ sm'[i].at = at /\ sm'[i].t = t /\ sm'[i].k = k
    /\ sm'[i].sPh = Flip(sm[i].sPh, s) /\ sm'[i].cPh = Flip(sm[i].cPh, c)

SmDelta(i, w, a) ==
    /\ SLoaded(i)' = SLoaded(i) + If1(<<"S_full", i>> \in w)
    /\ ScalesFree(i)' = ScalesFree(i) + If1(<<"corr_empty", i>> \in w)
    /\ ScalesOut(i)' = ScalesOut(i) + If1(<<"corr_full", i>> \in a)
    /\ PStored(i)' = PStored(i) + If1(<<"P_full_O", i>> \in a)
    /\ P2Stored(i)' = P2Stored(i) + If1(<<"P_full_2", i>> \in a)
    /\ QksLet(i)' = QksLet(i) + If1(<<"sfqk", 1 - i>> \in a)
    /\ If1(sm[i].at = "end")' = If1(sm[i].at = "end") + If1(<<"dealloc", 0>> \in a)

SmStep(i, w, a) ==
    /\ Moves(w, a) /\ SmDelta(i, w, a) /\ InTurn(w) /\ SmPlace(i)' /\ SmBits(i)'
    /\ w \subseteq {<<"S_full", i>>, <<"corr_empty", i>>}
    /\ a \subseteq {<<"corr_full", i>>, <<"P_full_O", i>>, <<"P_full_2", i>>, <<"sfqk", 1 - i>>,
                    <<"dealloc", 0>>}
    /\ PBegun(i)' = PBegun(i) \/ (PBegun(i)' = SLoaded(i) /\ (PvBeforeNextP => PreviousPvOver(i)))
    /\ sm'[1 - i] = sm[1 - i] /\ UNCHANGED <<tma, tc, ld, mm, co, ep>>

SmHere(i) == BarType /\ BarOK /\ SmType /\ SmPlace(i) /\ SmBits(i)

\* A step's record, field by field.
LEMMA SmFields ==
    ASSUME SmType, NEW i \in Stage, NEW r, sm' = [sm EXCEPT ![i] = r]
    PROVE  sm'[i] = r /\ sm'[1 - i] = sm[1 - i]
BY StageOther DEF SmType

LEMMA SmStartStep == ASSUME NEW i \in Stage, SmHere(i), SoftmaxStart(i) PROVE \E w, a : SmStep(i, w, a)
<1> DEFINE a == {<<"sfqk", 0>>}
<1>1. SmWhere(i)
  BY SmIsSomewhere DEF SmHere
<1>2. Moves({}, a)
  BY ArriveMoves DEF SmHere, SoftmaxStart
<1>3. sm'[i] = [sm[i] EXCEPT !.at = "tile"] /\ sm'[1 - i] = sm[1 - i]
  BY StageOther DEF SoftmaxStart, SmHere, SmType
<1>4. sm[i].at = "start" /\ SmTo(i, "tile", sm[i].t, sm[i].k, FALSE, FALSE) /\ i = 1 /\ sm[i].t = 1 /\ sm[i].k = 1 /\ QuantQK
  BY <1>1, <1>3 DEF SoftmaxStart, SmTo, Flip, SmWhere, SmRecord, SmHere, SmPlace
<1>5. UNCHANGED <<tma, tc, ld, mm, co, ep>>
  BY DEF SoftmaxStart
<1>6. SmBlocks(i)' = SmBlocks(i) /\ SmBlocks(i) \in Int
  BY <1>1, <1>4 DEF SmBlocks, SmWhere, SmTo
<1>7. SmDelta(i, {}, a)
  BY <1>1, <1>4, <1>6
     DEF SmDelta, SLoaded, ScalesFree, ScalesOut, PBegun, PStored, P2Stored, QksLet, If1, SmTo, SmWhere
<1>8. SmPlace(i)' /\ SmBits(i)'
  BY <1>1, <1>4, <1>6, StartIs DEF SmPlace, SmBits, SmHere, SmTo, Flip, ScalesFree, If1, SmWhere
<1>9. PBegun(i)' = PBegun(i)
  BY <1>4, <1>6 DEF PBegun, SmTo, If1
<1> QED
  BY <1>2, <1>3, <1>4, <1>5, <1>7, <1>8, <1>9 DEF SmStep, InTurn

LEMMA SmTileStep == ASSUME NEW i \in Stage, SmHere(i), SoftmaxTile(i) PROVE \E w, a : SmStep(i, w, a)
<1> DEFINE w == {<<"corr_empty", i>>}
<1>0. sm[i] \in SmRecord
  BY DEF SmHere, SmType
<1>1. SmWhere(i)
  BY SmIsSomewhere DEF SmHere
<1>2. Moves(w, {})
  BY WaitMoves DEF SmHere, SoftmaxTile
<1>3. sm'[i] = [sm[i] EXCEPT !.at = "s", !.cPh = 1 - sm[i].cPh] /\ sm'[1 - i] = sm[1 - i]
  BY StageOther DEF SoftmaxTile, SmHere, SmType
<1>4. sm[i].at = "tile" /\ SmTo(i, "s", sm[i].t, sm[i].k, FALSE, TRUE)
  <2>1. sm[i].at = "tile"
    BY DEF SoftmaxTile
  <2> QED
    BY <1>0, <1>3, <2>1 DEF SmTo, Flip, SmRecord
<1>5. UNCHANGED <<tma, tc, ld, mm, co, ep>>
  BY DEF SoftmaxTile
<1>6. SmBlocks(i)' = SmBlocks(i) /\ SmBlocks(i) \in Int
  BY <1>1, <1>4 DEF SmBlocks, SmWhere, SmTo
<1>7. SmDelta(i, w, {})
  BY <1>1, <1>4, <1>6
     DEF SmDelta, SLoaded, ScalesFree, ScalesOut, PBegun, PStored, P2Stored, QksLet, If1, SmTo, SmWhere
<1>8. SmPlace(i)'
  BY <1>1, <1>4, StartIs DEF SmPlace, SmHere, SmTo, SmWhere
<1>9. SmBits(i)'
  <2>1. ScalesFree(i)' = ScalesFree(i) + 1 /\ ScalesFree(i) \in Int
    BY <1>1, <1>4, <1>6 DEF ScalesFree, SmTo, If1, SmWhere
  <2>2. sm'[i].cPh = 1 - ((ScalesFree(i) + 1) % 2)
    <3>1. sm'[i].cPh = 1 - sm[i].cPh
      BY <1>4 DEF SmTo, Flip
    <3> QED
      BY <2>1, <3>1 DEF SmHere, SmBits
  <2>3. sm'[i].sPh = sm[i].sPh /\ If1(sm[i].at = "sum") = 0 /\ If1(sm'[i].at = "sum") = 0
    BY <1>4 DEF SmTo, Flip, If1
  <2>4. sm[i].sPh = (SmBlocks(i) + If1(sm[i].at = "sum")) % 2
    BY DEF SmHere, SmBits
  <2> QED
    BY <1>6, <2>1, <2>2, <2>3, <2>4 DEF SmBits
<1>10. PBegun(i)' = PBegun(i)
  BY <1>4, <1>6 DEF PBegun, SmTo, If1
<1>11. InTurn(w)
  <2>1. Passes(bar[<<"corr_empty", i>>], (ScalesFree(i) + 1) % 2)
    BY DEF SoftmaxTile, WaitThenArrive, SmHere, SmBits
  <2> QED
    BY <2>1, AccountsAre DEF InTurn, Free, StartsFree, If1
<1> QED
  BY <1>2, <1>3, <1>5, <1>7, <1>8, <1>9, <1>10, <1>11 DEF SmStep

LEMMA SmLoadStep == ASSUME NEW i \in Stage, SmHere(i), SoftmaxLoadS(i) PROVE \E w, a : SmStep(i, w, a)
<1> DEFINE w == {<<"S_full", i>>}
           a == {<<"sfqk", 1 - i>>}
<1>0. sm[i] \in SmRecord
  BY DEF SmHere, SmType
<1>1. SmWhere(i)
  BY SmIsSomewhere DEF SmHere
<1>2. Moves(w, a)
  BY WaitMoves DEF SmHere, SoftmaxLoadS
<1>3. /\ sm'[i] = [sm[i] EXCEPT !.at = "scale", !.ok = mem[<<"S", i>>] = STag(sm[i].t, sm[i].k)]
      /\ sm'[1 - i] = sm[1 - i]
  BY StageOther DEF SoftmaxLoadS, SmHere, SmType
<1>4. sm[i].at = "s" /\ SmTo(i, "scale", sm[i].t, sm[i].k, FALSE, FALSE)
  <2>1. sm[i].at = "s"
    BY DEF SoftmaxLoadS
  <2> QED
    BY <1>0, <1>3, <2>1 DEF SmTo, Flip, SmRecord
<1>5. UNCHANGED <<tma, tc, ld, mm, co, ep>>
  BY DEF SoftmaxLoadS
<1>6. SmBlocks(i)' = SmBlocks(i) /\ SmBlocks(i) \in Int
  BY <1>1, <1>4 DEF SmBlocks, SmWhere, SmTo
<1>7. SmDelta(i, w, a)
  BY <1>1, <1>4, <1>6
     DEF SmDelta, SLoaded, ScalesFree, ScalesOut, PBegun, PStored, P2Stored, QksLet, If1, SmTo, SmWhere
<1>8. SmPlace(i)'
  BY <1>1, <1>4, StartIs DEF SmPlace, SmHere, SmTo, SmWhere
<1>9. SmBits(i)'
  <2>1. ScalesFree(i)' = ScalesFree(i)
    BY <1>1, <1>4, <1>6 DEF ScalesFree, SmTo, If1, SmWhere
  <2> QED
    BY <1>4, <1>6, <2>1 DEF SmBits, SmHere, SmTo, Flip, If1
<1>10. PBegun(i)' = PBegun(i)
  BY <1>4, <1>6 DEF PBegun, SmTo, If1
<1>11. InTurn(w)
  <2>1. Passes(bar[<<"S_full", i>>], SmBlocks(i) % 2)
    <3>1. SmBlocks(i) + If1(sm[i].at = "sum") = SmBlocks(i)
      BY <1>4, <1>6 DEF If1
    <3> QED
      BY <3>1 DEF SoftmaxLoadS, WaitThenArrive, SmHere, SmBits
  <2>2. SLoaded(i) + Free(<<"S_full", i>>) = SmBlocks(i)
    BY <1>4, <1>6 DEF SLoaded, Free, StartsFree, If1
  <2> QED
    BY <2>1, <2>2, AccountsAre DEF InTurn
<1> QED
  BY <1>2, <1>3, <1>5, <1>7, <1>8, <1>9, <1>10, <1>11 DEF SmStep

LEMMA SmScaleStep == ASSUME NEW i \in Stage, SmHere(i), SoftmaxScale(i) PROVE \E w, a : SmStep(i, w, a)
<1> DEFINE a == {<<"corr_full", i>>}
<1>0. sm[i] \in SmRecord
  BY DEF SmHere, SmType
<1>1. SmWhere(i)
  BY SmIsSomewhere DEF SmHere
<1>2. Moves({}, a)
  BY ArriveMoves DEF SmHere, SoftmaxScale
<1>3. sm'[i] = [sm[i] EXCEPT !.at = "plo"] /\ sm'[1 - i] = sm[1 - i]
  BY StageOther DEF SoftmaxScale, SmHere, SmType
<1>4. sm[i].at = "scale" /\ SmTo(i, "plo", sm[i].t, sm[i].k, FALSE, FALSE)
  BY <1>0, <1>3 DEF SoftmaxScale, SmTo, Flip, SmRecord
<1>5. UNCHANGED <<tma, tc, ld, mm, co, ep>>
  BY DEF SoftmaxScale
<1>6. SmBlocks(i)' = SmBlocks(i) /\ SmBlocks(i) \in Int
  BY <1>1, <1>4 DEF SmBlocks, SmWhere, SmTo
<1>7. SmDelta(i, {}, a)
  BY <1>1, <1>4, <1>6
     DEF SmDelta, SLoaded, ScalesFree, ScalesOut, PBegun, PStored, P2Stored, QksLet, If1, SmTo, SmWhere
<1>8. SmPlace(i)'
  BY <1>1, <1>4, StartIs DEF SmPlace, SmHere, SmTo, SmWhere
<1>9. SmBits(i)'
  <2>1. ScalesFree(i)' = ScalesFree(i)
    BY <1>1, <1>4, <1>6 DEF ScalesFree, SmTo, If1, SmWhere
  <2> QED
    BY <1>4, <1>6, <2>1 DEF SmBits, SmHere, SmTo, Flip, If1
<1>10. PBegun(i)' = SLoaded(i) /\ (PvBeforeNextP => PreviousPvOver(i))
  BY <1>4, <1>6 DEF PBegun, SLoaded, SmTo, If1, SoftmaxScale
<1> QED
  BY <1>2, <1>3, <1>5, <1>7, <1>8, <1>9, <1>10 DEF SmStep, InTurn

LEMMA SmStorePStep == ASSUME NEW i \in Stage, SmHere(i), SoftmaxStoreP(i) PROVE \E w, a : SmStep(i, w, a)
<1> DEFINE a == {<<"P_full_O", i>>}
<1>0. sm[i] \in SmRecord
  BY DEF SmHere, SmType
<1>1. SmWhere(i)
  BY SmIsSomewhere DEF SmHere
<1>2. Moves({}, a)
  BY ArriveMoves DEF SmHere, SoftmaxStoreP
<1>3. sm'[i] = [sm[i] EXCEPT !.at = "phi"] /\ sm'[1 - i] = sm[1 - i]
  BY StageOther DEF SoftmaxStoreP, SmHere, SmType
<1>4. sm[i].at = "plo" /\ SmTo(i, "phi", sm[i].t, sm[i].k, FALSE, FALSE)
  BY <1>0, <1>3 DEF SoftmaxStoreP, SmTo, Flip, SmRecord
<1>5. UNCHANGED <<tma, tc, ld, mm, co, ep>>
  BY DEF SoftmaxStoreP
<1>6. SmBlocks(i)' = SmBlocks(i) /\ SmBlocks(i) \in Int
  BY <1>1, <1>4 DEF SmBlocks, SmWhere, SmTo
<1>7. SmDelta(i, {}, a)
  BY <1>1, <1>4, <1>6
     DEF SmDelta, SLoaded, ScalesFree, ScalesOut, PBegun, PStored, P2Stored, QksLet, If1, SmTo, SmWhere
<1>8. SmPlace(i)'
  BY <1>1, <1>4, StartIs DEF SmPlace, SmHere, SmTo, SmWhere
<1>9. SmBits(i)'
  <2>1. ScalesFree(i)' = ScalesFree(i)
    BY <1>1, <1>4, <1>6 DEF ScalesFree, SmTo, If1, SmWhere
  <2> QED
    BY <1>4, <1>6, <2>1 DEF SmBits, SmHere, SmTo, Flip, If1
<1>10. PBegun(i)' = PBegun(i)
  BY <1>4, <1>6 DEF PBegun, SmTo, If1
<1> QED
  BY <1>2, <1>3, <1>5, <1>7, <1>8, <1>9, <1>10 DEF SmStep, InTurn

LEMMA SmStoreP2Step == ASSUME NEW i \in Stage, SmHere(i), SoftmaxStoreP2(i) PROVE \E w, a : SmStep(i, w, a)
<1> DEFINE a == {<<"P_full_2", i>>}
<1>0. sm[i] \in SmRecord
  BY DEF SmHere, SmType
<1>1. SmWhere(i)
  BY SmIsSomewhere DEF SmHere
<1>2. Moves({}, a)
  BY ArriveMoves DEF SmHere, SoftmaxStoreP2
<1>3. sm'[i] = [sm[i] EXCEPT !.at = "corr"] /\ sm'[1 - i] = sm[1 - i]
  BY StageOther DEF SoftmaxStoreP2, SmHere, SmType
<1>4. sm[i].at = "phi" /\ SmTo(i, "corr", sm[i].t, sm[i].k, FALSE, FALSE)
  BY <1>0, <1>3 DEF SoftmaxStoreP2, SmTo, Flip, SmRecord
<1>5. UNCHANGED <<tma, tc, ld, mm, co, ep>>
  BY DEF SoftmaxStoreP2
<1>6. SmBlocks(i)' = SmBlocks(i) /\ SmBlocks(i) \in Int
  BY <1>1, <1>4 DEF SmBlocks, SmWhere, SmTo
<1>7. SmDelta(i, {}, a)
  BY <1>1, <1>4, <1>6
     DEF SmDelta, SLoaded, ScalesFree, ScalesOut, PBegun, PStored, P2Stored, QksLet, If1, SmTo, SmWhere
<1>8. SmPlace(i)'
  BY <1>1, <1>4, StartIs DEF SmPlace, SmHere, SmTo, SmWhere
<1>9. SmBits(i)'
  <2>1. ScalesFree(i)' = ScalesFree(i)
    BY <1>1, <1>4, <1>6 DEF ScalesFree, SmTo, If1, SmWhere
  <2> QED
    BY <1>4, <1>6, <2>1 DEF SmBits, SmHere, SmTo, Flip, If1
<1>10. PBegun(i)' = PBegun(i)
  BY <1>4, <1>6 DEF PBegun, SmTo, If1
<1> QED
  BY <1>2, <1>3, <1>5, <1>7, <1>8, <1>9, <1>10 DEF SmStep, InTurn

LEMMA SmWaitCorrStep == ASSUME NEW i \in Stage, SmHere(i), SoftmaxWaitCorr(i) PROVE \E w, a : SmStep(i, w, a)
<1> DEFINE w == {<<"corr_empty", i>>}
<1>0. sm[i] \in SmRecord
  BY DEF SmHere, SmType
<1>1. SmWhere(i)
  BY SmIsSomewhere DEF SmHere
<1>2. Moves(w, {})
  BY WaitMoves DEF SmHere, SoftmaxWaitCorr
<1>3. /\ \/ /\ sm[i].k < Blocks[sm[i].t]
            /\ sm'[i] = [sm[i] EXCEPT !.at = "s", !.k = sm[i].k + 1, !.sPh = 1 - sm[i].sPh, !.cPh = 1 - sm[i].cPh]
         \/ /\ ~(sm[i].k < Blocks[sm[i].t])
            /\ sm'[i] = [sm[i] EXCEPT !.at = "sum", !.sPh = 1 - sm[i].sPh, !.cPh = 1 - sm[i].cPh]
      /\ sm'[1 - i] = sm[1 - i]
  <2>1. CASE sm[i].k < Blocks[sm[i].t]
    <3>1. sm' = [sm EXCEPT ![i] = [[sm[i] EXCEPT !.sPh = 1 - @, !.cPh = 1 - @] EXCEPT !.at = "s", !.k = @ + 1]]
      BY <2>1 DEF SoftmaxWaitCorr
    <3>2. [[sm[i] EXCEPT !.sPh = 1 - @, !.cPh = 1 - @] EXCEPT !.at = "s", !.k = @ + 1]
            = [sm[i] EXCEPT !.at = "s", !.k = sm[i].k + 1, !.sPh = 1 - sm[i].sPh, !.cPh = 1 - sm[i].cPh]
      BY <1>0 DEF SmRecord
    <3> QED
      BY <2>1, <3>1, <3>2, SmFields DEF SmHere
  <2>2. CASE ~(sm[i].k < Blocks[sm[i].t])
    <3>1. sm' = [sm EXCEPT ![i] = [[sm[i] EXCEPT !.sPh = 1 - @, !.cPh = 1 - @] EXCEPT !.at = "sum"]]
      BY <2>2 DEF SoftmaxWaitCorr
    <3>2. [[sm[i] EXCEPT !.sPh = 1 - @, !.cPh = 1 - @] EXCEPT !.at = "sum"]
            = [sm[i] EXCEPT !.at = "sum", !.sPh = 1 - sm[i].sPh, !.cPh = 1 - sm[i].cPh]
      BY <1>0 DEF SmRecord
    <3> QED
      BY <2>2, <3>1, <3>2, SmFields DEF SmHere
  <2> QED
    BY <2>1, <2>2
<1>4. /\ sm[i].at = "corr"
      /\ \/ sm[i].k < Blocks[sm[i].t] /\ SmTo(i, "s", sm[i].t, sm[i].k + 1, TRUE, TRUE)
         \/ sm[i].k = Blocks[sm[i].t] /\ SmTo(i, "sum", sm[i].t, sm[i].k, TRUE, TRUE)
  <2>1. sm[i].at = "corr" /\ (~(sm[i].k < Blocks[sm[i].t]) => sm[i].k = Blocks[sm[i].t])
    BY <1>1 DEF SoftmaxWaitCorr, SmWhere
  <2> QED
    BY <1>0, <1>3, <2>1 DEF SmTo, Flip, SmRecord
<1>5. UNCHANGED <<tma, tc, ld, mm, co, ep>>
  BY DEF SoftmaxWaitCorr
<1> DEFINE Steps == sm[i].k < Blocks[sm[i].t] /\ SmTo(i, "s", sm[i].t, sm[i].k + 1, TRUE, TRUE)
           Sums  == sm[i].k = Blocks[sm[i].t] /\ SmTo(i, "sum", sm[i].t, sm[i].k, TRUE, TRUE)
<1>6. SmBlocks(i) \in Int /\ (Steps => SmBlocks(i)' = SmBlocks(i) + 1) /\ (Sums => SmBlocks(i)' = SmBlocks(i))
  <2>1. SmBlocks(i) \in Int
    BY <1>1 DEF SmBlocks, SmWhere
  <2>2. CASE Steps
    BY <1>1, <2>1, <2>2 DEF SmBlocks, SmWhere, SmTo
  <2>3. CASE Sums
    BY <1>1, <2>1, <2>3 DEF SmBlocks, SmWhere, SmTo
  <2> QED
    BY <1>4, <2>1, <2>2, <2>3
<1>7. SmDelta(i, w, {}) /\ ScalesFree(i)' = ScalesFree(i) + 1 /\ ScalesFree(i) \in Int /\ PBegun(i)' = PBegun(i)
  <2>1. CASE Steps
    BY <1>1, <1>4, <1>6, <2>1
       DEF SmDelta, SLoaded, ScalesFree, ScalesOut, PBegun, PStored, P2Stored, QksLet, If1, SmTo, SmWhere
  <2>2. CASE Sums
    BY <1>1, <1>4, <1>6, <2>2
       DEF SmDelta, SLoaded, ScalesFree, ScalesOut, PBegun, PStored, P2Stored, QksLet, If1, SmTo, SmWhere
  <2> QED
    BY <1>4, <2>1, <2>2
<1>8. SmPlace(i)'
  <2>1. CASE Steps
    BY <1>1, <1>4, <2>1 DEF SmPlace, SmHere, SmTo, SmWhere
  <2>2. CASE Sums
    BY <1>1, <1>4, <2>2 DEF SmPlace, SmHere, SmTo, SmWhere
  <2> QED
    BY <1>4, <2>1, <2>2
<1>9. SmBits(i)'
  <2>2. sm'[i].cPh = 1 - ((ScalesFree(i) + 1) % 2)
    <3>1. sm'[i].cPh = 1 - sm[i].cPh
      BY <1>4 DEF SmTo, Flip
    <3> QED
      BY <1>7, <3>1 DEF SmHere, SmBits
  <2>3. sm'[i].sPh = 1 - (SmBlocks(i) % 2)
    <3>1. SmBlocks(i) + If1(sm[i].at = "sum") = SmBlocks(i)
      BY <1>4, <1>6 DEF If1
    <3>2. sm'[i].sPh = 1 - sm[i].sPh
      BY <1>4 DEF SmTo, Flip
    <3> QED
      BY <1>6, <3>1, <3>2 DEF SmHere, SmBits
  <2>4. (SmBlocks(i) + If1(sm[i].at = "sum"))' = SmBlocks(i) + 1
    <3>1. CASE Steps
      BY <1>4, <1>6, <3>1 DEF If1, SmTo
    <3>2. CASE Sums
      BY <1>4, <1>6, <3>2 DEF If1, SmTo
    <3> QED
      BY <1>4, <3>1, <3>2
  <2> QED
    BY <1>6, <1>7, <2>2, <2>3, <2>4 DEF SmBits
<1>11. InTurn(w)
  <2>1. Passes(bar[<<"corr_empty", i>>], (ScalesFree(i) + 1) % 2)
    BY DEF SoftmaxWaitCorr, WaitThenArrive, SmHere, SmBits
  <2> QED
    BY <2>1, AccountsAre DEF InTurn, Free, StartsFree, If1
<1> QED
  BY <1>2, <1>3, <1>5, <1>7, <1>8, <1>9, <1>11 DEF SmStep

LEMMA SmSumStep == ASSUME NEW i \in Stage, SmHere(i), SoftmaxSum(i) PROVE \E w, a : SmStep(i, w, a)
<1> DEFINE more == sm[i].t + 1 \in Tile
           a == {<<"corr_full", i>>} \cup (IF more THEN {} ELSE {<<"dealloc", 0>>})
<1>0. sm[i] \in SmRecord
  BY DEF SmHere, SmType
<1>1. SmWhere(i)
  BY SmIsSomewhere DEF SmHere
<1>2. Moves({}, a)
  BY ArriveMoves DEF SmHere, SoftmaxSum
<1>3. /\ sm'[i] = [sm[i] EXCEPT !.at = IF more THEN "tile" ELSE "end", !.t = sm[i].t + 1, !.k = 1]
      /\ sm'[1 - i] = sm[1 - i]
  BY StageOther DEF SoftmaxSum, SmHere, SmType
<1>4. /\ sm[i].at = "sum" /\ SmTo(i, IF more THEN "tile" ELSE "end", sm[i].t + 1, 1, FALSE, FALSE)
      /\ sm[i].k = Blocks[sm[i].t] /\ (more <=> sm[i].t + 1 <= Tiles) /\ sm[i].t + 1 \in 1..(Tiles + 1)
  <2>1. sm[i].at = "sum"
    BY DEF SoftmaxSum
  <2>2. SmTo(i, IF more THEN "tile" ELSE "end", sm[i].t + 1, 1, FALSE, FALSE)
    BY <1>0, <1>3, <2>1 DEF SmTo, Flip, SmRecord
  <2>3. sm[i].k = Blocks[sm[i].t]
    BY <2>1 DEF SmHere, SmPlace
  <2>4. (more <=> sm[i].t + 1 <= Tiles) /\ sm[i].t + 1 \in 1..(Tiles + 1)
    BY <1>1, <2>1 DEF SmWhere
  <2> QED
    BY <2>1, <2>2, <2>3, <2>4
<1>5. UNCHANGED <<tma, tc, ld, mm, co, ep>>
  BY DEF SoftmaxSum
<1>6. SmBlocks(i)' = SmBlocks(i) + 1 /\ SmBlocks(i) \in Int
  <2>1. SmBlocks(i)' = Start[sm[i].t + 1] + 1 - 1
    BY <1>4 DEF SmBlocks, SmTo
  <2>2. SmBlocks(i) = Start[sm[i].t] + Blocks[sm[i].t] - 1
    BY <1>4 DEF SmBlocks
  <2> QED
    BY <1>1, <1>4, <2>1, <2>2 DEF SmWhere
<1>7. SmDelta(i, {}, a)
  <2>0. If1(FALSE) = 0 /\ If1(TRUE) = 1
    BY DEF If1
  <2>1. /\ If1(sm[i].at \in {"scale", "plo", "phi", "corr", "sum"}) = 1
        /\ If1(sm[i].at \in {"plo", "phi", "corr", "sum"}) = 1
        /\ If1(sm[i].at \in {"phi", "corr", "sum"}) = 1 /\ If1(sm[i].at \in {"corr", "sum"}) = 1
        /\ If1(sm[i].at \notin {"start", "tile", "end"}) = 1 /\ If1(sm[i].at = "sum") = 1
        /\ If1(sm[i].at = "end") = 0
        /\ If1(i = 1 /\ sm[i].at # "start") = If1(i = 1)
    BY <1>4 DEF If1
  <2>2. /\ If1(sm'[i].at \in {"scale", "plo", "phi", "corr", "sum"}) = 0
        /\ If1(sm'[i].at \in {"plo", "phi", "corr", "sum"}) = 0
        /\ If1(sm'[i].at \in {"phi", "corr", "sum"}) = 0 /\ If1(sm'[i].at \in {"corr", "sum"}) = 0
        /\ If1(sm'[i].at \notin {"start", "tile", "end"}) = 0 /\ If1(sm'[i].at = "sum") = 0
        /\ If1(sm'[i].at = "end") = If1(~more)
        /\ If1(i = 1 /\ sm'[i].at # "start") = If1(i = 1)
    BY <1>4 DEF If1, SmTo
  <2>3. /\ <<"corr_full", i>> \in a /\ <<"P_full_O", i>> \notin a /\ <<"P_full_2", i>> \notin a
        /\ <<"sfqk", 1 - i>> \notin a /\ (<<"dealloc", 0>> \in a <=> ~more)
    OBVIOUS
  <2>4. sm'[i].t = sm[i].t + 1 /\ sm[i].t \in Int /\ If1(i = 1) \in Int /\ If1(~more) \in Int
    BY <1>1, <1>4 DEF SmTo, SmWhere, If1
  <2> HIDE DEF more, a
  <2>5. SLoaded(i)' = SLoaded(i) /\ PBegun(i)' = PBegun(i) /\ PStored(i)' = PStored(i) /\ P2Stored(i)' = P2Stored(i)
    BY <1>6, <2>1, <2>2 DEF SLoaded, PBegun, PStored, P2Stored
  <2>6. ScalesFree(i)' = ScalesFree(i)
    BY <1>6, <2>1, <2>2, <2>4 DEF ScalesFree
  <2>7. ScalesOut(i)' = ScalesOut(i) + 1
    BY <1>1, <1>6, <2>4, <2>5, SmNumbersAre DEF ScalesOut, SmNumbers
  <2>8. QksLet(i)' = QksLet(i)
    BY <2>1, <2>2, <2>5 DEF QksLet
  <2>9. SmNumbers(i)
    BY <1>1, SmNumbersAre
  <2>10. /\ If1(<<"S_full", i>> \in {}) = 0 /\ If1(<<"corr_empty", i>> \in {}) = 0
         /\ If1(<<"corr_full", i>> \in a) = 1 /\ If1(<<"P_full_O", i>> \in a) = 0
         /\ If1(<<"P_full_2", i>> \in a) = 0 /\ If1(<<"sfqk", 1 - i>> \in a) = 0
         /\ If1(<<"dealloc", 0>> \in a) = If1(~more)
    BY <2>3 DEF If1
  <2>11. (If1(sm[i].at = "end"))' = If1(sm[i].at = "end") + If1(<<"dealloc", 0>> \in a)
    BY <2>1, <2>2, <2>4, <2>10
  <2> QED
    BY <2>5, <2>6, <2>7, <2>8, <2>9, <2>10, <2>11 DEF SmDelta, SmNumbers
<1>8. SmPlace(i)'
  <2>1. more => Blocks[sm'[i].t] \in Int /\ 1 <= Blocks[sm'[i].t]
    BY <1>4, TilesAre DEF SmTo
  <2> QED
    BY <1>1, <1>4, <2>1, StartIs DEF SmPlace, SmHere, SmTo, SmWhere
<1>9. SmBits(i)'
  <2>1. ScalesFree(i)' = ScalesFree(i)
    BY <1>1, <1>4, <1>6 DEF ScalesFree, SmTo, If1, SmWhere
  <2>2. (SmBlocks(i) + If1(sm[i].at = "sum"))' = SmBlocks(i) + If1(sm[i].at = "sum")
    BY <1>4, <1>6 DEF SmTo, If1
  <2> QED
    BY <1>4, <2>1, <2>2 DEF SmBits, SmHere, SmTo, Flip
<1>10. PBegun(i)' = PBegun(i)
  BY <1>4, <1>6 DEF PBegun, SmTo, If1
<1> QED
  BY <1>2, <1>3, <1>5, <1>7, <1>8, <1>9, <1>10 DEF SmStep, InTurn

LEMMA SoftmaxStep == ASSUME NEW i \in Stage, SmHere(i), Softmax(i) PROVE \E w, a : SmStep(i, w, a)
BY SmStartStep, SmTileStep, SmLoadStep, SmScaleStep, SmStorePStep, SmStoreP2Step, SmWaitCorrStep, SmSumStep
   DEF Softmax

-----------------------------------------------------------------------------
(* The correction warps.                                                   *)

CoTo(at, t, k, st, c, o, e) ==
    /\ co'.at = at /\ co'.t = t /\ co'.k = k /\ co'.st = st
    /\ co'.cPh = Flip(co.cPh, c) /\ co'.oPh = Flip(co.oPh, o) /\ co'.ePh = Flip(co.ePh, e)

CoDelta(w, a) ==
    /\ \A i \in {0, 1} :
        /\ ScalesTaken(i)' = ScalesTaken(i) + If1(<<"corr_full", i>> \in w)
        /\ ScalesBack(i)' = ScalesBack(i) + If1(<<"corr_empty", i>> \in a)
        /\ ORescaled(i)' = ORescaled(i) + If1(<<"P_full_O", i>> \in a)
        /\ OTaken(i)' = OTaken(i) + If1(<<"O_full", i>> \in w)
        /\ ~CorrStoresO => /\ OWritten(i)' = OWritten(i) + If1(<<"epi_full", i>> \in a)
                           /\ BuffersHad(i)' = BuffersHad(i) + If1(<<"epi_empty", i>> \in w)
    /\ If1(co.at = "end")' = If1(co.at = "end") + If1(<<"dealloc", 0>> \in a)

CoStep(w, a) ==
    /\ Moves(w, a) /\ CoDelta(w, a) /\ InTurn(w) /\ CoPlace' /\ CoBits'
    /\ w \subseteq {"corr_full", "O_full", "epi_empty"} \X Stage
    /\ a \subseteq ({"corr_empty", "P_full_O", "epi_full"} \X Stage) \cup {<<"dealloc", 0>>}
    /\ UNCHANGED <<tma, tc, ld, mm, sm, ep>>

CoHere == BarType /\ BarOK /\ CoType /\ CoPlace /\ CoBits

LEMMA CorrStartStep == ASSUME CoHere, CorrStart PROVE \E w, a : CoStep(w, a)
<1> DEFINE a == {<<"P_full_O", i>> : i \in Stage}
<1>0. co \in CoRecord /\ CoWhere
  BY CoIsSomewhere DEF CoHere, CoType
<1>1. Moves({}, a)
  BY ArriveMoves DEF CoHere, CorrStart
<1>2. /\ co.at = "start" /\ co.t = 1 /\ co.st = 0
      /\ CoTo("first", co.t, co.k, co.st, FALSE, FALSE, FALSE)
  <2>1. co.at = "start"
    BY DEF CorrStart
  <2>2. co' = [co EXCEPT !.at = "first"]
    BY DEF CorrStart
  <2> QED
    BY <1>0, <2>1, <2>2 DEF CoTo, Flip, CoRecord, CoHere, CoPlace
<1>3. UNCHANGED <<tma, tc, ld, mm, sm, ep>>
  BY DEF CorrStart
<1>4. CoDelta({}, a)
  BY <1>0, <1>2, StageIs DEF CoDelta, CoTo, CoWhere, CoIn, CoEnding, CoRounds, ScalesTaken, ScalesBack, ORescaled,
     OTaken, OWritten, BuffersHad, If1
<1>5. CoPlace' /\ CoBits'
  BY <1>0, <1>2, StartIs DEF CoHere, CoPlace, CoBits, CoTo, Flip, CoWhere, CoIn, CoEnding, CoRounds
<1> QED
  BY <1>1, <1>3, <1>4, <1>5 DEF CoStep, InTurn

LEMMA CorrFirstStep == ASSUME CoHere, CorrFirst PROVE \E w, a : CoStep(w, a)
<1> DEFINE more == Blocks[co.t] > 1
           w == {<<"corr_full", co.st>>}
           a == IF co.st = 0 \/ ~more THEN {<<"corr_empty", co.st>>} ELSE {}
<1>0. co \in CoRecord /\ CoWhere
  BY CoIsSomewhere DEF CoHere, CoType
<1>1. Moves(w, a) /\ Passes(bar[<<"corr_full", co.st>>], co.cPh)
  <2>1. WaitThenArrive(<<"corr_full", co.st>>, co.cPh, a)
    BY <1>0 DEF CorrFirst, CoWhere
  <2> QED
    BY <2>1, WaitMoves DEF CoHere, WaitThenArrive
<1>2. /\ co.at = "first"
      /\ \/ co.st = 0 /\ CoTo("first", co.t, co.k, 1, FALSE, FALSE, FALSE)
         \/ co.st = 1 /\ CoTo(IF more THEN "scale" ELSE "sum", co.t, 2, 0, TRUE, FALSE, FALSE)
  <2>1. co.at = "first"
    BY DEF CorrFirst
  <2>2. CASE co.st = 0
    <3>1. co' = [co EXCEPT !.st = 1]
      BY <2>2 DEF CorrFirst
    <3> QED
      BY <1>0, <2>1, <2>2, <3>1 DEF CoTo, Flip, CoRecord
  <2>3. CASE co.st = 1
    <3>1. co' = [co EXCEPT !.at = IF more THEN "scale" ELSE "sum", !.st = 0, !.k = 2, !.cPh = 1 - @]
      BY <2>3 DEF CorrFirst
    <3> HIDE DEF more
    <3> QED
      BY <1>0, <2>1, <2>3, <3>1 DEF CoTo, Flip, CoRecord
  <2> QED
    BY <1>0, <2>2, <2>3 DEF CoWhere
<1>3. UNCHANGED <<tma, tc, ld, mm, sm, ep>>
  BY DEF CorrFirst
<1>4. CoDelta(w, a)
  <2>1. CASE co.st = 0
    BY <1>0, <1>2, <2>1, StageIs DEF CoDelta, CoTo, CoWhere, CoIn, CoEnding, CoRounds, ScalesTaken, ScalesBack, ORescaled,
       OTaken, OWritten, BuffersHad, If1
  <2>2. CASE co.st = 1
    BY <1>0, <1>2, <2>2, StageIs DEF CoDelta, CoTo, CoWhere, CoIn, CoEnding, CoRounds, ScalesTaken, ScalesBack, ORescaled,
       OTaken, OWritten, BuffersHad, If1
  <2> QED
    BY <1>0, <2>1, <2>2 DEF CoWhere
<1>5. CoPlace' /\ CoBits'
  <2>1. CASE co.st = 0
    BY <1>0, <1>2, <2>1 DEF CoHere, CoPlace, CoBits, CoTo, Flip, CoWhere, CoIn, CoEnding, CoRounds
  <2>2. CASE co.st = 1
    <3>1. CoRounds' = CoRounds + 1 /\ CoRounds \in Int
      BY <1>0, <1>2, <2>2 DEF CoTo, CoWhere, CoIn, CoRounds
    <3>2. co.cPh = CoRounds % 2
      BY DEF CoHere, CoBits
    <3>3. CoBits'
      BY <1>0, <1>2, <2>2, <3>1, <3>2 DEF CoHere, CoBits, CoTo, Flip, CoWhere, CoIn
    <3>4. CoPlace'
      BY <1>0, <1>2, <2>2 DEF CoHere, CoPlace, CoTo, CoWhere, CoEnding
    <3> QED
      BY <3>3, <3>4
  <2> QED
    BY <1>0, <2>1, <2>2 DEF CoWhere
<1>6. InTurn(w)
  <2>1. ScalesTaken(co.st) + Free(<<"corr_full", co.st>>) = CoRounds
    BY <1>0, <1>2 DEF ScalesTaken, Free, StartsFree, If1, CoRounds, CoIn, CoWhere
  <2> QED
    BY <1>1, <2>1, AccountsAre DEF InTurn, CoHere, CoBits
<1>7. w \subseteq {"corr_full", "O_full", "epi_empty"} \X Stage /\ a \subseteq {"corr_empty"} \X Stage
  BY <1>0, StageIs DEF CoWhere
<1> QED
  BY <1>1, <1>3, <1>4, <1>5, <1>6, <1>7 DEF CoStep

LEMMA CorrScaleStep ==
    ASSUME CoHere, CorrScale, UNCHANGED <<tma, tc, ld, mm, sm, ep>> PROVE \E w, a : CoStep(w, a)
<1> DEFINE w == {<<"corr_full", co.st>>}
<1>0. co \in CoRecord /\ CoWhere
  BY CoIsSomewhere DEF CoHere, CoType
<1>1. Moves(w, {}) /\ Passes(bar[<<"corr_full", co.st>>], co.cPh)
  <2>1. WaitThenArrive(<<"corr_full", co.st>>, co.cPh, {})
    BY DEF CorrScale
  <2>2. Moves(w, {})
    BY <2>1, WaitMoves DEF CoHere
  <2> QED
    BY <2>1, <2>2 DEF WaitThenArrive
<1>2. /\ co.at = "scale"
      /\ CoTo(IF Decoupled THEN "acc" ELSE "rescale", co.t, co.k, co.st, FALSE, FALSE, FALSE)
  <2>1. co.at = "scale"
    BY DEF CorrScale
  <2>2. /\ Decoupled => \E x : co' = [[co EXCEPT !.ok = x] EXCEPT !.at = "acc"]
        /\ ~Decoupled => \E x, y : co' = [[co EXCEPT !.ok = x] EXCEPT !.at = "rescale", !.ok = y]
    BY DEF CorrScale, BeginRescale, WaitsForPv
  <2> QED
    BY <1>0, <2>1, <2>2 DEF CoTo, Flip, CoRecord
<1>4. CoDelta(w, {})
  BY <1>0, <1>2, StageIs DEF CoDelta, CoTo, CoWhere, CoIn, CoEnding, CoRounds, ScalesTaken, ScalesBack, ORescaled,
     OTaken, OWritten, BuffersHad, If1
<1>5. CoPlace' /\ CoBits'
  BY <1>0, <1>2 DEF CoHere, CoPlace, CoBits, CoTo, Flip, CoWhere, CoIn, CoEnding, CoRounds
<1>6. InTurn(w)
  <2>1. ScalesTaken(co.st) + Free(<<"corr_full", co.st>>) = CoRounds
    BY <1>0, <1>2 DEF ScalesTaken, Free, StartsFree, If1, CoRounds, CoIn, CoWhere
  <2> QED
    BY <1>1, <2>1, AccountsAre DEF InTurn, CoHere, CoBits
<1>7. w \subseteq {"corr_full"} \X Stage
  BY <1>0, StageIs DEF CoWhere
<1> QED
  BY <1>1, <1>4, <1>5, <1>6, <1>7 DEF CoStep

LEMMA CorrWaitOStep ==
    ASSUME CoHere, CorrWaitO, UNCHANGED <<tma, tc, ld, mm, sm, ep>> PROVE \E w, a : CoStep(w, a)
<1> DEFINE w == {<<"O_full", co.st>>}
<1>0. co \in CoRecord /\ CoWhere
  BY CoIsSomewhere DEF CoHere, CoType
<1>1. Moves(w, {}) /\ Passes(bar[<<"O_full", co.st>>], co.oPh)
  <2>1. WaitThenArrive(<<"O_full", co.st>>, co.oPh, {})
    BY DEF CorrWaitO
  <2>2. Moves(w, {})
    BY <2>1, WaitMoves DEF CoHere
  <2> QED
    BY <2>1, <2>2 DEF WaitThenArrive
<1>2. /\ co.at = "acc" /\ Decoupled
      /\ CoTo("rescale", co.t, co.k, co.st, FALSE, FALSE, FALSE)
  <2>1. co.at = "acc" /\ Decoupled
    BY DEF CorrWaitO, CoHere, CoPlace
  <2>2. \E y : co' = [co EXCEPT !.at = "rescale", !.ok = y]
    BY DEF CorrWaitO, BeginRescale
  <2> QED
    BY <1>0, <2>1, <2>2 DEF CoTo, Flip, CoRecord
<1>4. CoDelta(w, {})
  BY <1>0, <1>2, StageIs DEF CoDelta, CoTo, CoWhere, CoIn, CoEnding, CoRounds, ScalesTaken, ScalesBack, ORescaled,
     OTaken, OWritten, BuffersHad, If1
<1>5. CoPlace' /\ CoBits'
  BY <1>0, <1>2 DEF CoHere, CoPlace, CoBits, CoTo, Flip, CoWhere, CoIn, CoEnding, CoRounds
<1>6. InTurn(w)
  <2>1. OTaken(co.st) + Free(<<"O_full", co.st>>) = Start[co.t] + co.k - 2
    BY <1>0, <1>2 DEF OTaken, Free, StartsFree, If1, CoIn, CoWhere
  <2>2. co.oPh = (Start[co.t] + co.k - 2) % 2
    <3>1. Start[co.t] + (co.k - 2) = Start[co.t] + co.k - 2
      BY <1>0 DEF CoWhere
    <3> QED
      BY <1>2, <3>1 DEF CoHere, CoBits, CoIn
  <2> QED
    BY <1>1, <2>1, <2>2, AccountsAre DEF InTurn
<1>7. w \subseteq {"O_full"} \X Stage
  BY <1>0, StageIs DEF CoWhere
<1> QED
  BY <1>1, <1>4, <1>5, <1>6, <1>7 DEF CoStep

LEMMA CorrRescaledStep == ASSUME CoHere, CorrRescaled PROVE \E w, a : CoStep(w, a)
<1> DEFINE last == co.st = 1 /\ co.k = Blocks[co.t]
           a == {<<"P_full_O", co.st>>, <<"corr_empty", 1 - co.st>>}
                \cup (IF last THEN {<<"corr_empty", 1>>} ELSE {})
<1>0. co \in CoRecord /\ CoWhere
  BY CoIsSomewhere DEF CoHere, CoType
<1>1. Moves({}, a)
  BY ArriveMoves DEF CorrRescaled, CoHere
<1>2. /\ co.at = "rescale"
      /\ \/ co.st = 0 /\ CoTo("scale", co.t, co.k, 1, FALSE, FALSE, FALSE)
         \/ co.st = 1 /\ CoTo(IF last THEN "sum" ELSE "scale", co.t, co.k + 1, 0, TRUE, Decoupled, FALSE)
  <2>1. co.at = "rescale"
    BY DEF CorrRescaled
  <2>2. CASE co.st = 0
    <3>1. co' = [co EXCEPT !.at = "scale", !.st = 1]
      BY <2>2 DEF CorrRescaled
    <3> QED
      BY <1>0, <2>1, <2>2, <3>1 DEF CoTo, Flip, CoRecord
  <2>3. CASE co.st = 1
    <3>1. co' = [co EXCEPT !.cPh = 1 - @, !.oPh = IF Decoupled THEN 1 - @ ELSE @,
                           !.at = IF last THEN "sum" ELSE "scale", !.st = 0, !.k = @ + 1]
      BY <2>3 DEF CorrRescaled
    <3> HIDE DEF last
    <3> QED
      BY <1>0, <2>1, <2>3, <3>1 DEF CoTo, Flip, CoRecord
  <2> QED
    BY <1>0, <2>2, <2>3 DEF CoWhere
<1>3. UNCHANGED <<tma, tc, ld, mm, sm, ep>>
  BY DEF CorrRescaled
<1>8. 2 <= co.k /\ co.k <= Blocks[co.t]
  BY <1>0, <1>2 DEF CoHere, CoPlace, CoWhere
<1>4. CoDelta({}, a)
  <2>1. CASE co.st = 0
    BY <1>0, <1>2, <2>1, StageIs DEF CoDelta, CoTo, CoWhere, CoIn, CoEnding, CoRounds, ScalesTaken, ScalesBack, ORescaled,
       OTaken, OWritten, BuffersHad, If1
  <2>2. CASE co.st = 1 /\ last
    <3>1. ASSUME NEW i \in {0, 1}
          PROVE  /\ ScalesTaken(i)' = ScalesTaken(i) /\ ScalesBack(i)' = ScalesBack(i) + 1
                 /\ ORescaled(i)' = ORescaled(i) + If1(i = 1) /\ OTaken(i)' = OTaken(i)
                 /\ OWritten(i)' = OWritten(i) /\ BuffersHad(i)' = BuffersHad(i)
      BY <1>0, <1>2, <1>8, <2>2 DEF CoTo, CoWhere, CoIn, CoEnding, CoRounds, If1, ScalesTaken, ScalesBack,
         ORescaled, OTaken, OWritten, BuffersHad
    <3>2. /\ \A i \in {0, 1} : /\ If1(<<"corr_empty", i>> \in a) = 1 /\ If1(<<"P_full_O", i>> \in a) = If1(i = 1)
                               /\ If1(<<"epi_full", i>> \in a) = 0
          /\ If1(<<"dealloc", 0>> \in a) = 0
          /\ \A b : If1(b \in {}) = 0
      BY <2>2 DEF If1
    <3>3. If1(co.at = "end") = 0 /\ If1(co'.at = "end") = 0
      BY <1>2, <2>2 DEF CoTo, If1
    <3>4. \A i \in {0, 1} : CoNumbers(i)
      BY <1>0, CoNumbersAre
    <3> HIDE DEF a
    <3> QED
      BY <3>1, <3>2, <3>3, <3>4 DEF CoDelta, CoNumbers
  <2>3. CASE co.st = 1 /\ ~last
    <3>1. ASSUME NEW i \in {0, 1}
          PROVE  /\ ScalesTaken(i)' = ScalesTaken(i) /\ ScalesBack(i)' = ScalesBack(i) + If1(i = 0)
                 /\ ORescaled(i)' = ORescaled(i) + If1(i = 1) /\ OTaken(i)' = OTaken(i)
                 /\ OWritten(i)' = OWritten(i) /\ BuffersHad(i)' = BuffersHad(i)
      BY <1>0, <1>2, <1>8, <2>3 DEF CoTo, CoWhere, CoIn, CoEnding, CoRounds, If1, ScalesTaken, ScalesBack,
         ORescaled, OTaken, OWritten, BuffersHad
    <3>2. /\ \A i \in {0, 1} : /\ If1(<<"corr_empty", i>> \in a) = If1(i = 0) /\ If1(<<"P_full_O", i>> \in a) = If1(i = 1)
                               /\ If1(<<"epi_full", i>> \in a) = 0
          /\ If1(<<"dealloc", 0>> \in a) = 0
          /\ \A b : If1(b \in {}) = 0
      BY <2>3 DEF If1
    <3>3. If1(co.at = "end") = 0 /\ If1(co'.at = "end") = 0
      BY <1>2, <2>3 DEF CoTo, If1
    <3>4. \A i \in {0, 1} : CoNumbers(i)
      BY <1>0, CoNumbersAre
    <3> HIDE DEF a
    <3> QED
      BY <3>1, <3>2, <3>3, <3>4 DEF CoDelta, CoNumbers
  <2> QED
    BY <1>0, <2>1, <2>2, <2>3 DEF CoWhere
<1>5. CoPlace' /\ CoBits'
  <2>1. CASE co.st = 0
    BY <1>0, <1>2, <2>1 DEF CoHere, CoPlace, CoBits, CoTo, Flip, CoWhere, CoIn, CoEnding, CoRounds
  <2>2. CASE co.st = 1
    <3>1. CoRounds' = CoRounds + 1 /\ CoRounds \in Int
      BY <1>0, <1>2, <2>2 DEF CoTo, CoWhere, CoIn, CoRounds
    <3>2. co.cPh = CoRounds % 2 /\ (Decoupled => co.oPh = (Start[co.t] + (co.k - 2)) % 2)
      BY <1>2 DEF CoHere, CoBits, CoIn
    <3>3. CoBits'
      <4>1. /\ Start[co.t] + (co.k + 1 - 2) = Start[co.t] + (co.k - 2) + 1 /\ Start[co.t] + (co.k - 2) \in Int
            /\ CoIn' /\ co'.t = co.t /\ co'.k = co.k + 1 /\ co.k \in Int /\ Start[co.t] \in Int
        BY <1>0, <1>2, <2>2 DEF CoWhere, CoTo, CoIn
      <4>2. co'.cPh = CoRounds' % 2
        BY <1>2, <2>2, <3>1, <3>2 DEF CoTo, Flip
      <4>3. Decoupled => co'.oPh = (Start[co'.t] + (co'.k - 2)) % 2
        <5>1. Decoupled => co'.oPh = 1 - co.oPh
          BY <1>2, <2>2 DEF CoTo, Flip
        <5>2. Start[co'.t] + (co'.k - 2) = Start[co.t] + (co.k - 2) + 1
          BY <4>1
        <5>3. ASSUME NEW n \in Int PROVE (n + 1) % 2 = 1 - (n % 2)
          OBVIOUS
        <5>4. (Start[co.t] + (co.k - 2) + 1) % 2 = 1 - ((Start[co.t] + (co.k - 2)) % 2)
          BY <4>1, <5>3
        <5> QED
          BY <3>2, <5>1, <5>2, <5>4
      <4>4. ~Decoupled => co'.oPh = (co'.t - 1) % 2
        BY <1>2, <2>2, <4>1 DEF CoTo, Flip, CoHere, CoBits
      <4>5. co'.ePh = co'.t % 2
        BY <1>2, <2>2, <4>1 DEF CoTo, Flip, CoHere, CoBits
      <4> QED
        BY <4>1, <4>2, <4>3, <4>4, <4>5 DEF CoBits
    <3>4. CoPlace'
      BY <1>0, <1>2, <1>8, <2>2 DEF CoHere, CoPlace, CoTo, CoWhere, CoEnding
    <3> QED
      BY <3>3, <3>4
  <2> QED
    BY <1>0, <2>1, <2>2 DEF CoWhere
<1>7. a \subseteq {"corr_empty", "P_full_O"} \X Stage
  BY <1>0, StageIs DEF CoWhere
<1> QED
  BY <1>1, <1>3, <1>4, <1>5, <1>7 DEF CoStep, InTurn

LEMMA CorrSumStep == ASSUME CoHere, CorrSum PROVE \E w, a : CoStep(w, a)
<1> DEFINE w == {<<"corr_full", co.st>>}
           a == {<<"corr_empty", co.st>>}
<1>0. co \in CoRecord /\ CoWhere
  BY CoIsSomewhere DEF CoHere, CoType
<1>1. Moves(w, a) /\ Passes(bar[<<"corr_full", co.st>>], co.cPh)
  <2>1. WaitThenArrive(<<"corr_full", co.st>>, co.cPh, a)
    BY DEF CorrSum
  <2>2. Moves(w, a)
    BY <2>1, WaitMoves DEF CoHere
  <2> QED
    BY <2>1, <2>2 DEF WaitThenArrive
<1>2. co.at = "sum" /\ CoTo("o", co.t, co.k, co.st, FALSE, FALSE, FALSE)
  <2>1. co.at = "sum" /\ \E x : co' = [co EXCEPT !.at = "o", !.ok = x]
    BY DEF CorrSum
  <2> QED
    BY <1>0, <2>1 DEF CoTo, Flip, CoRecord
<1>3. UNCHANGED <<tma, tc, ld, mm, sm, ep>>
  BY DEF CorrSum
<1>4. CoDelta(w, a)
  BY <1>0, <1>2, StageIs DEF CoDelta, CoTo, CoWhere, CoIn, CoEnding, CoRounds, ScalesTaken, ScalesBack, ORescaled,
     OTaken, OWritten, BuffersHad, If1
<1>5. CoPlace' /\ CoBits'
  BY <1>0, <1>2 DEF CoHere, CoPlace, CoBits, CoTo, Flip, CoWhere, CoIn, CoEnding, CoRounds
<1>6. InTurn(w)
  <2>1. ScalesTaken(co.st) + Free(<<"corr_full", co.st>>) = CoRounds
    BY <1>0, <1>2 DEF ScalesTaken, Free, StartsFree, If1, CoRounds, CoIn, CoWhere
  <2> QED
    BY <1>1, <2>1, AccountsAre DEF InTurn, CoHere, CoBits
<1>7. w \subseteq {"corr_full"} \X Stage /\ a \subseteq {"corr_empty"} \X Stage
  BY <1>0, StageIs DEF CoWhere
<1> QED
  BY <1>1, <1>3, <1>4, <1>5, <1>6, <1>7 DEF CoStep

LEMMA CorrWaitLastOStep == ASSUME CoHere, CorrWaitLastO PROVE \E w, a : CoStep(w, a)
<1> DEFINE w == {<<"O_full", co.st>>}
<1>0. co \in CoRecord /\ CoWhere
  BY CoIsSomewhere DEF CoHere, CoType
<1>1. Moves(w, {}) /\ Passes(bar[<<"O_full", co.st>>], co.oPh)
  <2>1. WaitThenArrive(<<"O_full", co.st>>, co.oPh, {})
    BY DEF CorrWaitLastO
  <2>2. Moves(w, {})
    BY <2>1, WaitMoves DEF CoHere
  <2> QED
    BY <2>1, <2>2 DEF WaitThenArrive
<1>2. /\ co.at = "o"
      /\ CoTo(IF CorrStoresO THEN "write" ELSE "buffer", co.t, co.k, co.st, FALSE, FALSE, FALSE)
  <2>1. co.at = "o" /\ co' = [co EXCEPT !.at = IF CorrStoresO THEN "write" ELSE "buffer"]
    BY DEF CorrWaitLastO
  <2> QED
    BY <1>0, <2>1 DEF CoTo, Flip, CoRecord
<1>3. UNCHANGED <<tma, tc, ld, mm, sm, ep>>
  BY DEF CorrWaitLastO
<1>4. CoDelta(w, {})
  BY <1>0, <1>2, StageIs DEF CoDelta, CoTo, CoWhere, CoIn, CoEnding, CoRounds, ScalesTaken, ScalesBack, ORescaled,
     OTaken, OWritten, BuffersHad, If1
<1>5. CoPlace' /\ CoBits'
  BY <1>0, <1>2 DEF CoHere, CoPlace, CoBits, CoTo, Flip, CoWhere, CoIn, CoEnding, CoRounds
<1>6. InTurn(w)
  <2>1. OTaken(co.st) + Free(<<"O_full", co.st>>) = IF Decoupled THEN Start[co.t] + (co.k - 2) ELSE co.t - 1
    BY <1>0, <1>2 DEF OTaken, Free, StartsFree, If1, CoIn, CoEnding, CoWhere
  <2> QED
    BY <1>1, <1>2, <2>1, AccountsAre DEF InTurn, CoHere, CoBits, CoIn
<1>7. w \subseteq {"O_full"} \X Stage
  BY <1>0, StageIs DEF CoWhere
<1> QED
  BY <1>1, <1>3, <1>4, <1>5, <1>6, <1>7 DEF CoStep

LEMMA CorrWaitBufferStep == ASSUME CoHere, CorrWaitBuffer PROVE \E w, a : CoStep(w, a)
<1> DEFINE w == {<<"epi_empty", co.st>>}
<1>0. co \in CoRecord /\ CoWhere
  BY CoIsSomewhere DEF CoHere, CoType
<1>1. Moves(w, {}) /\ Passes(bar[<<"epi_empty", co.st>>], co.ePh)
  <2>1. WaitThenArrive(<<"epi_empty", co.st>>, co.ePh, {})
    BY DEF CorrWaitBuffer
  <2>2. Moves(w, {})
    BY <2>1, WaitMoves DEF CoHere
  <2> QED
    BY <2>1, <2>2 DEF WaitThenArrive
<1>2. co.at = "buffer" /\ CoTo("write", co.t, co.k, co.st, FALSE, FALSE, FALSE) /\ ~CorrStoresO
  <2>1. co.at = "buffer" /\ co' = [co EXCEPT !.at = "write"] /\ ~CorrStoresO
    BY DEF CorrWaitBuffer, CoHere, CoPlace
  <2> QED
    BY <1>0, <2>1 DEF CoTo, Flip, CoRecord
<1>3. UNCHANGED <<tma, tc, ld, mm, sm, ep>>
  BY DEF CorrWaitBuffer
<1>4. CoDelta(w, {})
  BY <1>0, <1>2, StageIs DEF CoDelta, CoTo, CoWhere, CoIn, CoEnding, CoRounds, ScalesTaken, ScalesBack, ORescaled,
     OTaken, OWritten, BuffersHad, If1
<1>5. CoPlace' /\ CoBits'
  BY <1>0, <1>2 DEF CoHere, CoPlace, CoBits, CoTo, Flip, CoWhere, CoIn, CoEnding, CoRounds
<1>6. InTurn(w)
  <2>1. BuffersHad(co.st) + Free(<<"epi_empty", co.st>>) = co.t
    BY <1>0, <1>2 DEF BuffersHad, OWritten, Free, StartsFree, If1, CoEnding, CoWhere
  <2> QED
    BY <1>1, <2>1, AccountsAre DEF InTurn, CoHere, CoBits
<1>7. w \subseteq {"epi_empty"} \X Stage
  BY <1>0, StageIs DEF CoWhere
<1> QED
  BY <1>1, <1>3, <1>4, <1>5, <1>6, <1>7 DEF CoStep

LEMMA CorrWriteOStep == ASSUME CoHere, CorrWriteO PROVE \E w, a : CoStep(w, a)
<1> DEFINE more == co.t + 1 \in Tile
           a == {<<"P_full_O", co.st>>}
                \cup (IF CorrStoresO THEN {} ELSE {<<"epi_full", co.st>>})
                \cup (IF co.st = 1 /\ ~more THEN {<<"dealloc", 0>>} ELSE {})
<1>0. co \in CoRecord /\ CoWhere
  BY CoIsSomewhere DEF CoHere, CoType
<1>1. Moves({}, a)
  BY ArriveMoves DEF CorrWriteO, CoHere
<1>2. /\ co.at = "write" /\ co.k = Blocks[co.t] + 1
      /\ \/ co.st = 0 /\ CoTo("sum", co.t, co.k, 1, FALSE, FALSE, FALSE)
         \/ co.st = 1 /\ CoTo(IF more THEN "first" ELSE "end", co.t + 1, co.k, 0, TRUE, TRUE, TRUE)
  <2>1. co.at = "write" /\ co.k = Blocks[co.t] + 1
    BY DEF CorrWriteO, CoHere, CoPlace, CoEnding
  <2>2. CASE co.st = 0
    <3>1. co' = [co EXCEPT !.at = "sum", !.st = 1]
      BY <2>2 DEF CorrWriteO
    <3> QED
      BY <1>0, <2>1, <2>2, <3>1 DEF CoTo, Flip, CoRecord
  <2>3. CASE co.st = 1
    <3>1. co' = [co EXCEPT !.at = IF more THEN "first" ELSE "end", !.t = @ + 1, !.st = 0,
                           !.oPh = 1 - @, !.cPh = 1 - @, !.ePh = 1 - @]
      BY <2>3 DEF CorrWriteO
    <3> HIDE DEF more
    <3> QED
      BY <1>0, <2>1, <2>3, <3>1 DEF CoTo, Flip, CoRecord
  <2> QED
    BY <1>0, <2>2, <2>3 DEF CoWhere
<1>3. UNCHANGED <<tma, tc, ld, mm, sm, ep>>
  BY DEF CorrWriteO
<1>8. /\ Start[co.t + 1] = Start[co.t] + Blocks[co.t] /\ Blocks[co.t] \in Int
      /\ co.t + 1 \in 1..(Tiles + 1) /\ co.t <= Tiles /\ (more <=> co.t + 1 # Tiles + 1)
  BY <1>0, <1>2 DEF CoWhere
<1>4. CoDelta({}, a)
  <2>1. CASE co.st = 0
    BY <1>0, <1>2, <2>1, StageIs DEF CoDelta, CoTo, CoWhere, CoIn, CoEnding, CoRounds, ScalesTaken, ScalesBack, ORescaled,
       OTaken, OWritten, BuffersHad, If1
  <2>2. CASE co.st = 1
    BY <1>0, <1>2, <1>8, <2>2, StageIs DEF CoDelta, CoTo, CoWhere, CoIn, CoEnding, CoRounds, ScalesTaken, ScalesBack,
       ORescaled, OTaken, OWritten, BuffersHad, If1
  <2> QED
    BY <1>0, <2>1, <2>2 DEF CoWhere
<1>5. CoPlace' /\ CoBits'
  <2>1. CASE co.st = 0
    BY <1>0, <1>2, <2>1 DEF CoHere, CoPlace, CoBits, CoTo, Flip, CoWhere, CoIn, CoEnding, CoRounds
  <2>2. CASE co.st = 1
    <3>1. CoRounds' = CoRounds + 1 /\ CoRounds \in Int
      BY <1>0, <1>2, <1>8, <2>2 DEF CoTo, CoWhere, CoIn, CoRounds
    <3>2. co.cPh = CoRounds % 2 /\ co.oPh = (IF Decoupled THEN Start[co.t] + (co.k - 2) ELSE co.t - 1) % 2
          /\ co.ePh = co.t % 2
      BY <1>2 DEF CoHere, CoBits, CoIn
    <3>3. CoBits'
      <4>1. /\ Start[co.t + 1] + 0 = Start[co.t] + (co.k - 2) + 1 /\ Start[co.t] + (co.k - 2) \in Int
            /\ co.t + 1 - 1 = co.t - 1 + 1 /\ co.t \in Int
        BY <1>0, <1>2, <1>8 DEF CoWhere
      <4>2. co'.cPh = CoRounds' % 2
        BY <1>2, <2>2, <3>1, <3>2 DEF CoTo, Flip
      <4>3. /\ Decoupled => co'.oPh = (Start[co'.t] + 0) % 2
            /\ ~Decoupled => co'.oPh = (co'.t - 1) % 2
        <5>1. co'.oPh = 1 - co.oPh /\ co'.t = co.t + 1
          BY <1>2, <2>2 DEF CoTo, Flip
        <5> QED
          BY <3>2, <4>1, <5>1
      <4>4. co'.ePh = co'.t % 2 /\ ~CoIn' /\ co'.t = co.t + 1
        BY <1>2, <2>2, <3>2, <4>1 DEF CoTo, Flip, CoIn
      <4> QED
        BY <4>2, <4>3, <4>4 DEF CoBits
    <3>4. CoPlace'
      BY <1>0, <1>2, <1>8, <2>2 DEF CoHere, CoPlace, CoTo, CoWhere, CoEnding
    <3> QED
      BY <3>3, <3>4
  <2> QED
    BY <1>0, <2>1, <2>2 DEF CoWhere
<1>7. a \subseteq ({"P_full_O", "epi_full"} \X Stage) \cup {<<"dealloc", 0>>}
  BY <1>0, StageIs DEF CoWhere
<1> QED
  BY <1>1, <1>3, <1>4, <1>5, <1>7 DEF CoStep, InTurn

LEMMA CorrectionStep == ASSUME CoHere, Correction PROVE \E w, a : CoStep(w, a)
BY CorrStartStep, CorrFirstStep, CorrScaleStep, CorrWaitOStep, CorrRescaledStep, CorrSumStep,
   CorrWaitLastOStep, CorrWaitBufferStep, CorrWriteOStep DEF Correction, CorrToRescale

-----------------------------------------------------------------------------
(* The MMA warp.                                                           *)

MmDelta(w, sig) ==
    /\ \A i \in {0, 1} :
        /\ QksIssued(i)' = QksIssued(i) + If1(<<"S_full", i>> \in sig)
        /\ QuantQK => If1(<<"sfqk", i>> \in w) = If1(<<"S_full", i>> \in sig)
        /\ PvBegun(i)' = PvBegun(i) + If1(<<"P_full_O", i>> \in w)
        /\ PvDone(i)' = PvDone(i) + If1(<<"P_full_2", i>> \in w)
        /\ OCommits(i)' = OCommits(i) + If1(<<"O_full", i>> \in sig)
    /\ If1(mm.at = "end")' = If1(mm.at = "end") + If1(<<"dealloc", 0>> \in w)

MmGo(w, sig) ==
    /\ Moves(w, {}) /\ MmDelta(w, sig) /\ InTurn(w) /\ MmBits'
    /\ w \subseteq ({"q_full", "P_full_O", "P_full_2", "sfqk"} \X Stage) \cup ({"kv_full"} \X Slot)
                   \cup {<<"dealloc", 0>>}
    /\ UNCHANGED <<tma, ld, sm, co, ep>>

MmHere == BarType /\ BarOK /\ MmType /\ MmPlace /\ MmBits

NoPvIn(w) == \A i : <<"P_full_O", i>> \notin w /\ <<"P_full_2", i>> \notin w

LEMMA MmSignalsAre ==
    /\ \A i : <<"S_full", i>> \in QKSignals <=> i = mm.st
    /\ \A i : <<"O_full", i>> \notin QKSignals
    /\ \A i : <<"O_full", i>> \in PVSignals <=> i = mm.st /\ (LastBlock \/ Decoupled)
    /\ \A i : <<"S_full", i>> \notin PVSignals
<1>1. \A i : /\ <<"S_full", i>> \notin QRelease /\ <<"O_full", i>> \notin QRelease
             /\ <<"S_full", i>> \notin VRelease /\ <<"O_full", i>> \notin VRelease
  BY DEF QRelease, VRelease
<1>2. \A i, s : <<"kv_empty", s>> # <<"S_full", i>> /\ <<"kv_empty", s>> # <<"O_full", i>>
                /\ <<"S_full", s>> # <<"O_full", i>>
  OBVIOUS
<1>3. \A i : (<<"S_full", i>> \in SFullCommit <=> i = mm.st) /\ <<"O_full", i>> \notin SFullCommit
  BY DEF SFullCommit
<1>4. \A i : <<"S_full", i>> \notin OFullCommit
             /\ (<<"O_full", i>> \in OFullCommit <=> i = mm.st /\ (LastBlock \/ Decoupled))
  BY DEF OFullCommit
<1>5. PICK ks, kr, kq : ks = SFullCommit /\ kq = QRelease /\ kr = (IF QKEnds THEN {<<"kv_empty", mm.idx>>} ELSE {})
  OBVIOUS
<1>6. QKSignals = ks \cup kr \cup (IF QKEnds /\ mm.k + 1 = N THEN kq ELSE {})
  BY <1>5 DEF QKSignals
<1>7. \A i : <<"S_full", i>> \notin kr /\ <<"O_full", i>> \notin kr
  BY <1>2, <1>5
<1>8. PICK po, pv, pr : po = OFullCommit /\ pv = VRelease
                       /\ pr = (IF PVEnds /\ ~LastBlock THEN {<<"kv_empty", mm.idx>>} ELSE {})
  OBVIOUS
<1>9. PVSignals = po \cup pv \cup pr \cup (IF PVEnds /\ mm.k + 1 = N THEN kq ELSE {})
  BY <1>5, <1>8 DEF PVSignals
<1>10. \A i : <<"S_full", i>> \notin pr /\ <<"O_full", i>> \notin pr
  BY <1>2, <1>8
<1> QED
  BY <1>1, <1>3, <1>4, <1>5, <1>6, <1>7, <1>8, <1>9, <1>10

\* A wait on the ring or on Q moves none of the accounts.
LEMMA MmaWaitRingGo ==
    ASSUME MmHere, MmaWaitQ \/ MmaWaitK \/ MmaWaitV
    PROVE  \E w : MmGo(w, {}) /\ UNCHANGED tc /\ NoPvIn(w) /\ mm.at # "p2" /\ mm'.at # "p2"
<1>0. mm \in MmRecord /\ MmWhere /\ MmStarts
  BY MmIsSomewhere, MmStartsIs DEF MmHere, MmType
<1>1. PICK w, parity : WaitThenArrive(w, parity, {}) /\ w \in ({"q_full"} \X Stage) \cup ({"kv_full"} \X Slot)
  <2>1. CASE MmaWaitQ
    <3>1. WaitThenArrive(<<"q_full", mm.st>>, mm.qPh, {})
      BY <2>1 DEF MmaWaitQ
    <3> QED
      BY <1>0, <3>1, StageIs DEF MmWhere
  <2>2. CASE MmaWaitK \/ MmaWaitV
    <3>1. WaitThenArrive(<<"kv_full", mm.idx>>, mm.ph, {})
      BY <2>2 DEF MmaWaitK, MmaWaitV
    <3> QED
      BY <1>0, <3>1 DEF MmWhere
  <2> QED
    BY <2>1, <2>2
<1>2. Moves({w}, {})
  BY <1>1, WaitMoves DEF MmHere
<1>3. UNCHANGED <<tc, tma, ld, sm, co, ep>>
  BY DEF MmaWaitQ, MmaWaitK, MmaWaitV
<1>4. /\ mm'.t = mm.t /\ mm'.k = mm.k /\ mm'.st = mm.st /\ mm'.fPh = mm.fPh /\ mm'.pPh = mm.pPh
      /\ mm.at \in {"q", "k", "v"} /\ mm'.at \in {"k", "qk", "p"}
      /\ mm.at = "q" => mm'.at = IF mm.st = 0 THEN "k" ELSE "qk"
      /\ mm.at = "k" => mm'.at = "qk"
      /\ mm.at = "v" => mm'.at = IF Decoupled /\ ~LastBlock THEN "k" ELSE "p"
  <2>1. CASE MmaWaitQ
    <3>1. mm.at = "q" /\ mm' = [mm EXCEPT !.at = IF mm.st = 0 THEN "k" ELSE "qk"]
      BY <2>1 DEF MmaWaitQ
    <3> QED
      BY <1>0, <3>1 DEF MmRecord
  <2>2. CASE MmaWaitK
    <3>1. mm.at = "k" /\ mm' = [mm EXCEPT !.at = "qk"]
      BY <2>2 DEF MmaWaitK
    <3> QED
      BY <1>0, <3>1 DEF MmRecord
  <2>3. CASE MmaWaitV
    <3>1. mm.at = "v"
      BY <2>3 DEF MmaWaitV
    <3> QED
      BY <2>3, <3>1, MmaWaitVCases DEF MmHere, MmTo, Flips, Flip
  <2> QED
    BY <2>1, <2>2, <2>3
<1>5. mm.at = "q" => mm.k = 0
  BY DEF MmHere, MmPlace
<1>6. mm.at \in {"v", "k"} => mm.st = 0
  BY DEF MmHere, MmPlace
<1>7. mm.at = "v" => mm.k # 0 /\ (Last <=> LastBlock)
  BY <1>0 DEF MmHere, MmPlace, Last, LastBlock, N, MmWhere, MmOver
<1>8. MmBlocks' = MmBlocks /\ MmBlocks \in Int /\ Last' = Last
  BY <1>0, <1>4 DEF MmBlocks, MmWhere, MmStarts, Last
<1>9. ASSUME NEW i \in {0, 1}
      PROVE  /\ QksIssued(i)' = QksIssued(i) /\ PvDone(i)' = PvDone(i) /\ PvBegun(i)' = PvBegun(i)
             /\ OCommits(i)' = OCommits(i)
  <2>1. QksIssued(i)' = QksIssued(i)
    <3>1. CASE mm.at = "v" /\ ~Decoupled
      BY <1>0, <1>4, <1>6, <1>8, <3>1 DEF QksIssued, If1, MmWhere
    <3>2. CASE mm.at # "v" \/ Decoupled
      BY <1>0, <1>4, <1>6, <1>7, <1>8, <3>2 DEF QksIssued, If1, MmWhere
    <3> QED
      BY <3>1, <3>2
  <2>2. PvDone(i)' = PvDone(i)
    <3>1. CASE mm.at = "q"
      BY <1>4, <1>5, <1>8, <3>1 DEF PvDone
    <3>2. CASE mm.at = "k" /\ mm.k # 0
      BY <1>0, <1>4, <1>6, <1>8, <3>2 DEF PvDone, If1, MmWhere
    <3>3. CASE mm.at = "k" /\ mm.k = 0
      BY <1>4, <1>8, <3>3 DEF PvDone
    <3>4. CASE mm.at = "v"
      BY <1>0, <1>4, <1>6, <1>8, <3>4 DEF PvDone, If1, MmWhere
    <3> QED
      BY <1>4, <3>1, <3>2, <3>3, <3>4
  <2>3. PvBegun(i)' = PvBegun(i)
    BY <1>4, <2>2 DEF PvBegun, If1
  <2>4. OCommits(i)' = OCommits(i)
    BY <1>4, <1>8, <2>2 DEF OCommits, If1
  <2> QED
    BY <2>1, <2>2, <2>3, <2>4
<1>10. MmDelta({w}, {})
  <2>1. \A i \in {0, 1} : MmNumbers(i)
    BY <1>0, MmNumbersAre
  <2>2. If1(mm.at = "end") = 0 /\ If1(mm'.at = "end") = 0
    BY <1>4 DEF If1
  <2>3. \A i : /\ If1(<<"S_full", i>> \in {}) = 0 /\ If1(<<"sfqk", i>> \in {w}) = 0
               /\ If1(<<"P_full_O", i>> \in {w}) = 0 /\ If1(<<"P_full_2", i>> \in {w}) = 0
               /\ If1(<<"O_full", i>> \in {}) = 0 /\ If1(<<"dealloc", i>> \in {w}) = 0
    BY <1>1 DEF If1
  <2> QED
    BY <1>9, <2>1, <2>2, <2>3 DEF MmDelta, MmNumbers
<1>11. MmBits'
  <2>1. If1(mm'.k > 0) = If1(mm.k > 0)
    BY <1>4 DEF If1
  <2> QED
    BY <1>4, <1>8, <2>1 DEF MmHere, MmBits
<1>12. InTurn({w})
  BY <1>1, HandBarriersAre DEF InTurn, RingBarriers
<1>13. NoPvIn({w})
  BY <1>1 DEF NoPvIn
<1> QED
  BY <1>1, <1>2, <1>3, <1>4, <1>10, <1>11, <1>12, <1>13 DEF MmGo

\* The QK of a stage is issued once softmax lets it go.
LEMMA MmaIssueQKGo ==
    ASSUME MmHere, MmaIssueQK
    PROVE  \E w : MmGo(w, QKSignals) /\ NoPvIn(w) /\ mm.at # "p2" /\ mm'.at # "p2"
<1> DEFINE w == IF QuantQK THEN {<<"sfqk", mm.st>>} ELSE {}
<1>0. mm \in MmRecord /\ MmWhere /\ MmStarts
  BY MmIsSomewhere, MmStartsIs DEF MmHere, MmType
<1>1. Moves(w, {}) /\ (QuantQK => Passes(bar[<<"sfqk", mm.st>>], mm.fPh))
  <2>1. CASE QuantQK
    <3>1. WaitThenArrive(<<"sfqk", mm.st>>, mm.fPh, {})
      BY <2>1 DEF MmaIssueQK
    <3>2. Moves({<<"sfqk", mm.st>>}, {})
      BY <3>1, WaitMoves DEF MmHere
    <3> QED
      BY <2>1, <3>1, <3>2 DEF WaitThenArrive
  <2>2. CASE ~QuantQK
    <3>1. Moves({}, {})
      BY <2>2, StillMoves DEF MmaIssueQK, MmHere
    <3> QED
      BY <2>2, <3>1
  <2> QED
    BY <2>1, <2>2
<1>2. mm.at = "qk" /\ ~MmOver /\ ~Last /\ mm.k < Blocks[mm.t] /\ UNCHANGED <<tma, ld, sm, co, ep>>
  BY <1>0 DEF MmaIssueQK, MmHere, MmPlace, MmOver, MmWhere, Last
<1>a. QksIssued(mm.st) = MmBlocks /\ MmBlocks \in Int
  BY <1>0, <1>2 DEF QksIssued, If1, MmWhere, MmBlocks, MmStarts
\* What is to be shown, in terms of the places before and after.
<1>3. ASSUME \A i \in {0, 1} : /\ QksIssued(i)' = QksIssued(i) + If1(i = mm.st) /\ PvDone(i)' = PvDone(i)
                               /\ PvBegun(i)' = PvBegun(i) /\ OCommits(i)' = OCommits(i),
             MmBits', mm'.at \notin {"end", "p2"}
      PROVE  MmGo(w, QKSignals) /\ NoPvIn(w) /\ mm.at # "p2" /\ mm'.at # "p2"
  <2>1. \A i \in {0, 1} : MmNumbers(i)
    BY <1>0, MmNumbersAre
  <2>2. If1(mm.at = "end") = 0 /\ If1(mm'.at = "end") = 0
    BY <1>2, <1>3 DEF If1
  <2>3. \A i \in {0, 1} :
            /\ If1(<<"S_full", i>> \in QKSignals) = If1(i = mm.st)
            /\ QuantQK => If1(<<"sfqk", i>> \in w) = If1(i = mm.st)
            /\ If1(<<"P_full_O", i>> \in w) = 0 /\ If1(<<"P_full_2", i>> \in w) = 0
            /\ If1(<<"O_full", i>> \in QKSignals) = 0 /\ If1(<<"dealloc", i>> \in w) = 0
    BY MmSignalsAre DEF If1
  <2>4. MmDelta(w, QKSignals)
    <3> HIDE DEF w
    <3> QED
      BY <1>3, <2>1, <2>2, <2>3 DEF MmDelta, MmNumbers
  <2>5. InTurn(w)
    <3>1. QuantQK => mm.fPh = MmBlocks % 2
      BY DEF MmHere, MmBits
    <3>2. QksIssued(mm.st) + Free(<<"sfqk", mm.st>>) = MmBlocks
      BY <1>a DEF Free, StartsFree, If1
    <3> QED
      BY <1>1, <3>1, <3>2, AccountsAre DEF InTurn
  <2>6. NoPvIn(w)
    BY DEF NoPvIn
  <2> QED
    BY <1>0, <1>1, <1>2, <1>3, <2>4, <2>5, <2>6, StageIs DEF MmGo, MmWhere
<1>4. CASE /\ Prologue /\ mm.st = 0 /\ Keeps /\ Flips(FALSE, FALSE, FALSE)
           /\ MmTo("q", mm.t, mm.k, 1, mm.v)
  <2>1. MmBlocks' = MmBlocks /\ ~Last' /\ mm.k = 0 /\ mm'.k = 0
    BY <1>0, <1>2, <1>4 DEF MmBlocks, MmWhere, MmStarts, Last, MmTo, Prologue
  <2>2. ASSUME NEW i \in {0, 1}
        PROVE  /\ QksIssued(i)' = QksIssued(i) + If1(i = mm.st) /\ PvDone(i)' = PvDone(i)
               /\ PvBegun(i)' = PvBegun(i) /\ OCommits(i)' = OCommits(i)
    BY <1>0, <1>2, <1>4, <1>a, <2>1 DEF QksIssued, PvDone, PvBegun, OCommits, If1, MmTo
  <2>3. MmBits'
    BY <1>4, <2>1 DEF MmHere, MmBits, If1, Flips, Flip
  <2> QED
    BY <1>3, <1>4, <2>2, <2>3 DEF MmTo
<1>5. CASE /\ Prologue /\ mm.st = 1 /\ Turns /\ Flips(TRUE, FALSE, QuantQK)
           /\ MmTo("v", mm.t, mm.k + 1, 0, mm.v)
  <2>1. MmBlocks' = MmBlocks + 1 /\ mm.k = 0 /\ mm'.k = 1
    BY <1>0, <1>2, <1>5 DEF MmBlocks, MmWhere, MmStarts, MmTo, Prologue
  <2>2. ASSUME NEW i \in {0, 1}
        PROVE  /\ QksIssued(i)' = QksIssued(i) + If1(i = mm.st) /\ PvDone(i)' = PvDone(i)
               /\ PvBegun(i)' = PvBegun(i) /\ OCommits(i)' = OCommits(i)
    BY <1>0, <1>2, <1>5, <1>a, <2>1 DEF QksIssued, PvDone, PvBegun, OCommits, If1, MmTo
  <2>3. MmBits'
    BY <1>5, <1>a, <2>1 DEF MmHere, MmBits, If1, Flips, Flip
  <2> QED
    BY <1>3, <1>5, <2>2, <2>3 DEF MmTo
<1>6. CASE /\ ~Prologue /\ Decoupled /\ Keeps /\ Flips(FALSE, FALSE, FALSE)
           /\ MmTo("p", mm.t, mm.k, mm.st, mm.v)
  <2>1. MmBlocks' = MmBlocks /\ ~Last' /\ mm.k # 0 /\ mm'.k = mm.k
    BY <1>0, <1>2, <1>6 DEF MmBlocks, MmWhere, MmStarts, Last, MmTo, Prologue
  <2>2. ASSUME NEW i \in {0, 1}
        PROVE  /\ QksIssued(i)' = QksIssued(i) + If1(i = mm.st) /\ PvDone(i)' = PvDone(i)
               /\ PvBegun(i)' = PvBegun(i) /\ OCommits(i)' = OCommits(i)
    BY <1>0, <1>2, <1>6, <1>a, <2>1 DEF QksIssued, PvDone, PvBegun, OCommits, If1, MmTo
  <2>3. MmBits'
    BY <1>6, <2>1 DEF MmHere, MmBits, If1, Flips, Flip
  <2> QED
    BY <1>3, <1>6, <2>2, <2>3 DEF MmTo
<1>7. CASE /\ ~Prologue /\ ~Decoupled /\ mm.st = 0 /\ Keeps /\ Flips(FALSE, FALSE, FALSE)
           /\ MmTo("p", mm.t, mm.k, 1, mm.v)
  <2>1. MmBlocks' = MmBlocks /\ ~Last' /\ mm.k # 0 /\ mm'.k = mm.k
    BY <1>0, <1>2, <1>7 DEF MmBlocks, MmWhere, MmStarts, Last, MmTo, Prologue
  <2>2. ASSUME NEW i \in {0, 1}
        PROVE  /\ QksIssued(i)' = QksIssued(i) + If1(i = mm.st) /\ PvDone(i)' = PvDone(i)
               /\ PvBegun(i)' = PvBegun(i) /\ OCommits(i)' = OCommits(i)
    BY <1>0, <1>2, <1>7, <1>a, <2>1 DEF QksIssued, PvDone, PvBegun, OCommits, If1, MmTo
  <2>3. MmBits'
    BY <1>7, <2>1 DEF MmHere, MmBits, If1, Flips, Flip
  <2> QED
    BY <1>3, <1>7, <2>2, <2>3 DEF MmTo
<1>8. CASE /\ ~Prologue /\ ~Decoupled /\ mm.st = 1 /\ Turns /\ Flips(FALSE, TRUE, QuantQK)
           /\ MmTo("v", mm.t, mm.k + 1, 0, mm.v)
  <2>1. MmBlocks' = MmBlocks + 1 /\ mm.k # 0 /\ mm'.k = mm.k + 1 /\ mm.k > 0 /\ mm'.k > 0 /\ mm'.k # 0
    BY <1>0, <1>2, <1>8 DEF MmBlocks, MmWhere, MmStarts, MmTo, Prologue
  <2>2. ASSUME NEW i \in {0, 1}
        PROVE  /\ QksIssued(i)' = QksIssued(i) + If1(i = mm.st) /\ PvDone(i)' = PvDone(i)
               /\ PvBegun(i)' = PvBegun(i) /\ OCommits(i)' = OCommits(i)
    BY <1>0, <1>2, <1>8, <1>a, <2>1 DEF QksIssued, PvDone, PvBegun, OCommits, If1, MmTo
  <2>3. MmBits'
    BY <1>8, <1>a, <2>1 DEF MmHere, MmBits, If1, Flips, Flip
  <2> QED
    BY <1>3, <1>8, <2>2, <2>3 DEF MmTo
<1> QED
  BY <1>4, <1>5, <1>6, <1>7, <1>8, MmaIssueQKCases DEF MmHere

\* The first part of a PV: P_i is there and O_i is rescaled.
LEMMA MmaIssuePVGo == ASSUME MmHere, MmaIssuePV PROVE MmGo({<<"P_full_O", mm.st>>}, {})
<1> DEFINE w == {<<"P_full_O", mm.st>>}
<1>0. mm \in MmRecord /\ MmWhere /\ MmStarts
  BY MmIsSomewhere, MmStartsIs DEF MmHere, MmType
<1>1. Moves(w, {}) /\ Passes(bar[<<"P_full_O", mm.st>>], mm.pPh)
  <2>1. WaitThenArrive(<<"P_full_O", mm.st>>, mm.pPh, {})
    BY DEF MmaIssuePV
  <2>2. Moves(w, {})
    BY <2>1, WaitMoves DEF MmHere
  <2> QED
    BY <2>1, <2>2 DEF WaitThenArrive
<1>2. /\ mm.at = "p" /\ mm'.at = "p2" /\ mm'.t = mm.t /\ mm'.k = mm.k /\ mm'.st = mm.st
      /\ mm'.fPh = mm.fPh /\ mm'.pPh = mm.pPh
  <2>1. mm.at = "p" /\ mm' = [mm EXCEPT !.at = "p2"]
    BY DEF MmaIssuePV
  <2> QED
    BY <1>0, <2>1 DEF MmRecord
<1>3. UNCHANGED <<tma, ld, sm, co, ep>> /\ mm.k > 0
  BY <1>0, <1>2 DEF MmaIssuePV, MmHere, MmPlace, MmWhere, MmOver
<1>4. MmBlocks' = MmBlocks /\ MmBlocks \in Int /\ Last' = Last
  BY <1>0, <1>2 DEF MmBlocks, MmWhere, MmStarts, Last
<1>5. ASSUME NEW i \in {0, 1}
      PROVE  /\ QksIssued(i)' = QksIssued(i) /\ PvDone(i)' = PvDone(i)
             /\ PvBegun(i)' = PvBegun(i) + If1(i = mm.st) /\ OCommits(i)' = OCommits(i)
  <2>1. PvDone(i)' = PvDone(i) /\ PvDone(i) \in Int
    BY <1>0, <1>2, <1>3, <1>4 DEF PvDone, If1, MmWhere
  <2>2. QksIssued(i)' = QksIssued(i)
    BY <1>0, <1>2, <1>4 DEF QksIssued, If1
  <2>3. PvBegun(i)' = PvBegun(i) + If1(i = mm.st)
    BY <1>0, <1>2, <2>1 DEF PvBegun, If1
  <2>4. OCommits(i)' = OCommits(i)
    BY <1>2, <1>4, <2>1 DEF OCommits, If1
  <2> QED
    BY <2>1, <2>2, <2>3, <2>4
<1>6. MmDelta(w, {})
  <2>1. \A i \in {0, 1} : MmNumbers(i)
    BY <1>0, MmNumbersAre
  <2>2. If1(mm.at = "end") = 0 /\ If1(mm'.at = "end") = 0
    BY <1>2 DEF If1
  <2>3. \A i : /\ If1(<<"S_full", i>> \in {}) = 0 /\ If1(<<"sfqk", i>> \in w) = 0
               /\ If1(<<"P_full_O", i>> \in w) = If1(i = mm.st) /\ If1(<<"P_full_2", i>> \in w) = 0
               /\ If1(<<"O_full", i>> \in {}) = 0 /\ If1(<<"dealloc", i>> \in w) = 0
    BY DEF If1
  <2> HIDE DEF w
  <2> QED
    BY <1>5, <2>1, <2>2, <2>3 DEF MmDelta, MmNumbers
<1>7. MmBits'
  <2>1. If1(mm'.k > 0) = If1(mm.k > 0)
    BY <1>2 DEF If1
  <2> QED
    BY <1>2, <1>4, <2>1 DEF MmHere, MmBits
<1>8. InTurn(w)
  <2>1. PvBegun(mm.st) + Free(<<"P_full_O", mm.st>>) = MmBlocks - If1(mm.k > 0)
    BY <1>0, <1>2, <1>3, <1>4 DEF PvBegun, PvDone, Free, StartsFree, If1, MmWhere
  <2> QED
    BY <1>1, <2>1, AccountsAre DEF InTurn, MmHere, MmBits
<1> QED
  BY <1>0, <1>1, <1>3, <1>6, <1>7, <1>8, StageIs DEF MmGo, MmWhere

\* Its second part, and the commits of O_i.
LEMMA MmaIssuePV2Go == ASSUME MmHere, MmaIssuePV2 PROVE MmGo({<<"P_full_2", mm.st>>}, PVSignals)
<1> DEFINE w == {<<"P_full_2", mm.st>>}
<1>0. mm \in MmRecord /\ MmWhere /\ MmStarts
  BY MmIsSomewhere, MmStartsIs DEF MmHere, MmType
<1>1. Moves(w, {}) /\ Passes(bar[<<"P_full_2", mm.st>>], mm.pPh)
  <2>1. WaitThenArrive(<<"P_full_2", mm.st>>, mm.pPh, {})
    BY DEF MmaIssuePV2
  <2>2. Moves(w, {})
    BY <2>1, WaitMoves DEF MmHere
  <2> QED
    BY <2>1, <2>2 DEF WaitThenArrive
<1>2. /\ mm.at = "p2" /\ ~MmOver /\ mm.k > 0 /\ (Last <=> LastBlock) /\ N = Blocks[mm.t]
      /\ UNCHANGED <<tma, ld, sm, co, ep>>
  BY <1>0 DEF MmaIssuePV2, MmHere, MmPlace, MmOver, MmWhere, Last, LastBlock, N
<1>a. MmBlocks \in Int
  BY <1>0 DEF MmWhere, MmBlocks, MmStarts
<1>b. PvDone(mm.st) + Free(<<"P_full_2", mm.st>>) = MmBlocks - If1(mm.k > 0)
  BY <1>0, <1>2, <1>a DEF PvDone, Free, StartsFree, If1, MmWhere
<1>c. mm.pPh = (MmBlocks - 1) % 2 /\ (QuantQK => mm.fPh = MmBlocks % 2)
  <2>1. MmBlocks - If1(mm.k > 0) = MmBlocks - 1
    BY <1>2 DEF If1
  <2> QED
    BY <2>1 DEF MmHere, MmBits
<1>d. \A n \in Int : 1 - ((n - 1) % 2) = n % 2 /\ 1 - (n % 2) = (n + 1) % 2 /\ n + 1 - 1 = n
  OBVIOUS
\* What is to be shown, in terms of the places before and after.
<1>3. ASSUME \A i \in {0, 1} : /\ QksIssued(i)' = QksIssued(i) /\ PvDone(i)' = PvDone(i) + If1(i = mm.st)
                               /\ PvBegun(i)' = PvBegun(i)
                               /\ OCommits(i)' = OCommits(i) + If1(i = mm.st /\ (LastBlock \/ Decoupled)),
             MmBits', mm'.at # "end"
      PROVE  MmGo(w, PVSignals)
  <2>1. \A i \in {0, 1} : MmNumbers(i)
    BY <1>0, MmNumbersAre
  <2>2. If1(mm.at = "end") = 0 /\ If1(mm'.at = "end") = 0
    BY <1>2, <1>3 DEF If1
  <2>3. \A i \in {0, 1} :
            /\ If1(<<"S_full", i>> \in PVSignals) = 0 /\ If1(<<"sfqk", i>> \in w) = 0
            /\ If1(<<"P_full_O", i>> \in w) = 0 /\ If1(<<"P_full_2", i>> \in w) = If1(i = mm.st)
            /\ If1(<<"O_full", i>> \in PVSignals) = If1(i = mm.st /\ (LastBlock \/ Decoupled))
            /\ If1(<<"dealloc", i>> \in w) = 0
    BY MmSignalsAre DEF If1
  <2>4. MmDelta(w, PVSignals)
    <3> HIDE DEF w
    <3> QED
      BY <1>3, <2>1, <2>2, <2>3 DEF MmDelta, MmNumbers
  <2>5. InTurn(w)
    BY <1>1, <1>b, AccountsAre DEF InTurn, MmHere, MmBits
  <2> QED
    BY <1>0, <1>1, <1>2, <1>3, <2>4, <2>5, StageIs DEF MmGo, MmWhere
<1>4. CASE /\ LastBlock /\ mm.st = 0 /\ Keeps /\ Flips(FALSE, FALSE, FALSE)
           /\ MmTo("p", mm.t, mm.k, 1, mm.v)
  <2>1. MmBlocks' = MmBlocks /\ Last' /\ Last /\ mm'.k = mm.k /\ mm.k # 0 /\ If1(mm'.k > 0) = If1(mm.k > 0)
    BY <1>0, <1>2, <1>4 DEF MmBlocks, MmWhere, MmStarts, Last, MmTo, If1
  <2>2. ASSUME NEW i \in {0, 1}
        PROVE  /\ QksIssued(i)' = QksIssued(i) /\ PvDone(i)' = PvDone(i) + If1(i = mm.st)
               /\ PvBegun(i)' = PvBegun(i)
               /\ OCommits(i)' = OCommits(i) + If1(i = mm.st /\ (LastBlock \/ Decoupled))
    BY <1>0, <1>2, <1>4, <1>a, <2>1 DEF QksIssued, PvDone, PvBegun, OCommits, If1, MmTo, MmWhere
  <2>3. MmBits'
    BY <1>4, <2>1 DEF MmHere, MmBits, Flips, Flip
  <2> QED
    BY <1>3, <1>4, <2>2, <2>3 DEF MmTo
<1>5. CASE /\ LastBlock /\ mm.st = 1 /\ Turns /\ Flips(FALSE, TRUE, FALSE)
           /\ MmTo(IF mm.t + 1 \in Tile THEN "q" ELSE "dealloc", mm.t + 1, 0, 0, mm.v)
  <2>1. MmBlocks' = MmBlocks /\ Last /\ mm'.k = 0 /\ mm.k # 0 /\ mm'.t = mm.t + 1 /\ mm'.st = 0
    BY <1>0, <1>2, <1>5 DEF MmBlocks, MmWhere, MmStarts, LastBlock, MmTo
  <2>2. ~Last'
    <3>1. mm.t + 1 \in Tile => 1 <= Blocks[mm.t + 1]
      BY TilesAre
    <3> QED
      BY <2>1, <3>1 DEF Last
  <2>3. mm'.at \in {"q", "dealloc"}
    BY <1>5 DEF MmTo
  <2>4. ASSUME NEW i \in {0, 1}
        PROVE  /\ QksIssued(i)' = QksIssued(i) /\ PvDone(i)' = PvDone(i) + If1(i = mm.st)
               /\ PvBegun(i)' = PvBegun(i)
               /\ OCommits(i)' = OCommits(i) + If1(i = mm.st /\ (LastBlock \/ Decoupled))
    <3>1. QksIssued(i)' = QksIssued(i)
      BY <1>2, <1>a, <2>1, <2>2, <2>3 DEF QksIssued, If1
    <3>2. PvDone(i)' = PvDone(i) + If1(i = mm.st) /\ PvDone(i) \in Int
      BY <1>2, <1>5, <1>a, <2>1 DEF PvDone, If1
    <3>3. PvBegun(i)' = PvBegun(i)
      BY <1>2, <1>5, <2>1, <2>3, <3>2 DEF PvBegun, If1
    <3>4. OCommits(i)' = OCommits(i) + If1(i = mm.st /\ (LastBlock \/ Decoupled))
      BY <1>0, <1>2, <1>5, <2>1, <2>2, <3>2 DEF OCommits, If1, MmWhere
    <3> QED
      BY <3>1, <3>2, <3>3, <3>4
  <2>5. MmBits'
    <3>1. MmBlocks' - If1(mm'.k > 0) = MmBlocks
      BY <1>a, <2>1 DEF If1
    <3>2. mm'.pPh = 1 - mm.pPh /\ mm'.fPh = mm.fPh
      BY <1>5 DEF Flips, Flip
    <3> QED
      BY <1>a, <1>c, <1>d, <2>1, <3>1, <3>2 DEF MmBits
  <2> QED
    BY <1>3, <2>3, <2>4, <2>5
<1>6. CASE /\ ~LastBlock /\ Decoupled /\ mm.st = 0 /\ Keeps /\ Flips(FALSE, FALSE, FALSE)
           /\ MmTo("qk", mm.t, mm.k, 1, mm.v)
  <2>1. MmBlocks' = MmBlocks /\ ~Last' /\ ~Last /\ mm'.k = mm.k /\ mm.k # 0 /\ If1(mm'.k > 0) = If1(mm.k > 0)
    BY <1>0, <1>2, <1>6 DEF MmBlocks, MmWhere, MmStarts, Last, MmTo, If1
  <2>2. ASSUME NEW i \in {0, 1}
        PROVE  /\ QksIssued(i)' = QksIssued(i) /\ PvDone(i)' = PvDone(i) + If1(i = mm.st)
               /\ PvBegun(i)' = PvBegun(i)
               /\ OCommits(i)' = OCommits(i) + If1(i = mm.st /\ (LastBlock \/ Decoupled))
    BY <1>0, <1>2, <1>6, <1>a, <2>1 DEF QksIssued, PvDone, PvBegun, OCommits, If1, MmTo, MmWhere
  <2>3. MmBits'
    BY <1>6, <2>1 DEF MmHere, MmBits, Flips, Flip
  <2> QED
    BY <1>3, <1>6, <2>2, <2>3 DEF MmTo
<1>7. CASE /\ ~LastBlock /\ Decoupled /\ mm.st = 1 /\ Turns /\ Flips(FALSE, TRUE, TRUE)
           /\ MmTo("v", mm.t, mm.k + 1, 0, mm.v)
  <2>1. MmBlocks' = MmBlocks + 1 /\ ~Last /\ mm'.k = mm.k + 1 /\ mm.k # 0 /\ mm'.k # 0 /\ mm'.k > 0
    BY <1>0, <1>2, <1>7 DEF MmBlocks, MmWhere, MmStarts, Last, MmTo
  <2>2. ASSUME NEW i \in {0, 1}
        PROVE  /\ QksIssued(i)' = QksIssued(i) /\ PvDone(i)' = PvDone(i) + If1(i = mm.st)
               /\ PvBegun(i)' = PvBegun(i)
               /\ OCommits(i)' = OCommits(i) + If1(i = mm.st /\ (LastBlock \/ Decoupled))
    BY <1>0, <1>2, <1>7, <1>a, <2>1 DEF QksIssued, PvDone, PvBegun, OCommits, If1, MmTo, MmWhere
  <2>3. MmBits'
    <3>1. MmBlocks' - If1(mm'.k > 0) = MmBlocks
      BY <1>a, <2>1 DEF If1
    <3>2. mm'.pPh = 1 - mm.pPh /\ mm'.fPh = 1 - mm.fPh
      BY <1>7 DEF Flips, Flip
    <3> QED
      BY <1>a, <1>c, <1>d, <2>1, <3>1, <3>2 DEF MmBits
  <2> QED
    BY <1>3, <1>7, <2>2, <2>3 DEF MmTo
<1>8. CASE \/ /\ ~LastBlock /\ ~Decoupled /\ mm.st = 0 /\ Turns /\ Flips(FALSE, FALSE, FALSE)
              /\ MmTo("k", mm.t, mm.k, 0, mm.v)
           \/ /\ ~LastBlock /\ ~Decoupled /\ mm.st = 1 /\ Keeps /\ Flips(FALSE, FALSE, FALSE)
              /\ MmTo("qk", mm.t, mm.k, 1, mm.v)
  <2>1. mm'.st = mm.st /\ mm'.t = mm.t /\ mm'.k = mm.k /\ mm'.at \in {"k", "qk"} /\ ~LastBlock /\ ~Decoupled
    BY <1>8 DEF MmTo
  <2>2. MmBlocks' = MmBlocks /\ ~Last' /\ ~Last /\ mm'.k = mm.k /\ mm.k # 0 /\ If1(mm'.k > 0) = If1(mm.k > 0)
    BY <1>0, <1>2, <2>1 DEF MmBlocks, MmWhere, MmStarts, Last, If1
  <2>3. ASSUME NEW i \in {0, 1}
        PROVE  /\ QksIssued(i)' = QksIssued(i) /\ PvDone(i)' = PvDone(i) + If1(i = mm.st)
               /\ PvBegun(i)' = PvBegun(i)
               /\ OCommits(i)' = OCommits(i) + If1(i = mm.st /\ (LastBlock \/ Decoupled))
    <3>1. QksIssued(i)' = QksIssued(i)
      BY <1>0, <1>a, <2>1, <2>2 DEF QksIssued, If1, MmWhere
    <3>2. PvDone(i)' = PvDone(i) + If1(i = mm.st) /\ PvDone(i) \in Int
      BY <1>0, <1>2, <1>a, <2>1, <2>2 DEF PvDone, If1, MmWhere
    <3>3. PvBegun(i)' = PvBegun(i)
      BY <1>2, <2>1, <2>2, <3>2 DEF PvBegun, If1
    <3>4. OCommits(i)' = OCommits(i) + If1(i = mm.st /\ (LastBlock \/ Decoupled))
      BY <1>0, <1>2, <2>1, <2>2 DEF OCommits, If1, MmWhere
    <3> QED
      BY <3>1, <3>2, <3>3, <3>4
  <2>4. MmBits'
    <3>1. mm'.pPh = mm.pPh /\ mm'.fPh = mm.fPh
      BY <1>8 DEF Flips, Flip
    <3> QED
      BY <2>1, <2>2, <3>1 DEF MmHere, MmBits
  <2> QED
    BY <1>3, <2>1, <2>3, <2>4
<1> QED
  BY <1>4, <1>5, <1>6, <1>7, <1>8, MmaIssuePV2Cases DEF MmHere

LEMMA MmaDeallocGo == ASSUME MmHere, MmaDealloc PROVE MmGo({<<"dealloc", 0>>}, {}) /\ UNCHANGED tc
<1> DEFINE w == {<<"dealloc", 0>>}
<1>0. mm \in MmRecord /\ MmWhere /\ MmStarts
  BY MmIsSomewhere, MmStartsIs DEF MmHere, MmType
<1>1. Moves(w, {}) /\ Passes(bar[<<"dealloc", 0>>], 0)
  <2>1. WaitThenArrive(<<"dealloc", 0>>, 0, {})
    BY DEF MmaDealloc
  <2>2. Moves(w, {})
    BY <2>1, WaitMoves DEF MmHere
  <2> QED
    BY <2>1, <2>2 DEF WaitThenArrive
<1>2. /\ mm.at = "dealloc" /\ mm'.at = "end" /\ mm'.t = mm.t /\ mm'.k = mm.k /\ mm'.st = mm.st
      /\ mm'.fPh = mm.fPh /\ mm'.pPh = mm.pPh
  <2>1. mm.at = "dealloc" /\ mm' = [mm EXCEPT !.at = "end"]
    BY DEF MmaDealloc
  <2> QED
    BY <1>0, <2>1 DEF MmRecord
<1>3. UNCHANGED <<tma, tc, ld, sm, co, ep>>
  BY DEF MmaDealloc
<1>4. MmBlocks' = MmBlocks /\ MmBlocks \in Int /\ Last' = Last
  BY <1>0, <1>2 DEF MmBlocks, MmWhere, MmStarts, Last
<1>5. ASSUME NEW i \in {0, 1}
      PROVE  /\ QksIssued(i)' = QksIssued(i) /\ PvDone(i)' = PvDone(i)
             /\ PvBegun(i)' = PvBegun(i) /\ OCommits(i)' = OCommits(i)
  BY <1>2, <1>4 DEF QksIssued, PvDone, PvBegun, OCommits, If1
<1>6. MmDelta(w, {})
  <2>1. \A i \in {0, 1} : MmNumbers(i)
    BY <1>0, MmNumbersAre
  <2>2. If1(mm.at = "end") = 0 /\ If1(mm'.at = "end") = 1
    BY <1>2 DEF If1
  <2>3. \A i : /\ If1(<<"S_full", i>> \in {}) = 0 /\ If1(<<"sfqk", i>> \in w) = 0
               /\ If1(<<"P_full_O", i>> \in w) = 0 /\ If1(<<"P_full_2", i>> \in w) = 0
               /\ If1(<<"O_full", i>> \in {}) = 0 /\ If1(<<"dealloc", 0>> \in w) = 1
    BY DEF If1
  <2> HIDE DEF w
  <2> QED
    BY <1>5, <2>1, <2>2, <2>3 DEF MmDelta, MmNumbers
<1>7. MmBits'
  <2>1. If1(mm'.k > 0) = If1(mm.k > 0)
    BY <1>2 DEF If1
  <2> QED
    BY <1>2, <1>4, <2>1 DEF MmHere, MmBits
<1>8. InTurn(w)
  <2>1. If1(mm.at = "end") + Free(<<"dealloc", 0>>) = 0
    BY <1>2 DEF Free, StartsFree, If1
  <2> QED
    BY <1>1, <2>1, AccountsAre DEF InTurn
<1> QED
  BY <1>1, <1>3, <1>6, <1>7, <1>8 DEF MmGo

-----------------------------------------------------------------------------
(* The epilogue warp.                                                      *)

EpPlace == IF CorrStoresO THEN ep.at = "end" ELSE EpBits

EpDelta(w, a) ==
    \A i \in {0, 1} : /\ EpRead(i)' = EpRead(i) + If1(<<"epi_full", i>> \in w)
                      /\ EpFreed(i)' = EpFreed(i) + If1(<<"epi_empty", i>> \in a)

EpStep(w, a) ==
    /\ Moves(w, a) /\ EpDelta(w, a) /\ InTurn(w) /\ EpPlace' /\ ~CorrStoresO
    /\ w \subseteq {"epi_full"} \X Stage /\ a \subseteq {"epi_empty"} \X Stage
    /\ UNCHANGED <<tma, tc, ld, mm, sm, co>>

EpHere == BarType /\ BarOK /\ EpType /\ EpPlace

LEMMA EpiStoreStep == ASSUME EpHere, EpiStore PROVE \E w, a : EpStep(w, a)
<1> DEFINE w == {<<"epi_full", ep.st>>}
<1>0. ep \in [at : {"store", "free", "end"}, t : Int, st : Stage, ph : Bit] /\ ep.st \in {0, 1} /\ ep.t \in Int
  BY StageIs DEF EpHere, EpType
<1>1. Moves(w, {}) /\ Passes(bar[<<"epi_full", ep.st>>], ep.ph)
  <2>1. WaitThenArrive(<<"epi_full", ep.st>>, ep.ph, {})
    BY DEF EpiStore
  <2>2. Moves(w, {})
    BY <2>1, WaitMoves DEF EpHere
  <2> QED
    BY <2>1, <2>2 DEF WaitThenArrive
<1>2. /\ ep.at = "store" /\ ep'.t = ep.t /\ ep'.ph = ep.ph
      /\ IF ep.st = 0 THEN ep'.at = "store" /\ ep'.st = 1 ELSE ep'.at = "free" /\ ep'.st = 0
  <2>1. /\ ep.at = "store"
        /\ ep' = IF ep.st = 0 THEN [ep EXCEPT !.st = 1] ELSE [ep EXCEPT !.at = "free", !.st = 0]
    BY DEF EpiStore
  <2> QED
    BY <1>0, <2>1
<1>3. ~CorrStoresO /\ ep.ph = (ep.t + 1) % 2 /\ UNCHANGED <<tma, tc, ld, mm, sm, co>>
  BY <1>2 DEF EpHere, EpPlace, EpBits, EpiStore
<1>4. EpDelta(w, {})
  <2>1. ASSUME NEW i \in {0, 1}
        PROVE  EpRead(i)' = EpRead(i) + If1(i = ep.st) /\ EpFreed(i)' = EpFreed(i) /\ EpFreed(i) \in Int
    BY <1>0, <1>2, <2>1 DEF EpRead, EpFreed, If1
  <2>2. \A i : If1(<<"epi_full", i>> \in w) = If1(i = ep.st) /\ If1(<<"epi_empty", i>> \in {}) = 0
    BY DEF If1
  <2> HIDE DEF w
  <2>3. ASSUME NEW i \in {0, 1}
        PROVE  /\ EpRead(i)' = EpRead(i) + If1(<<"epi_full", i>> \in w)
               /\ EpFreed(i)' = EpFreed(i) + If1(<<"epi_empty", i>> \in {})
    BY <2>1, <2>2
  <2> QED
    BY <2>3 DEF EpDelta
<1>5. EpPlace'
  BY <1>2, <1>3 DEF EpPlace, EpBits
<1>6. InTurn(w)
  <2>1. EpRead(ep.st) + Free(<<"epi_full", ep.st>>) = ep.t - 1
    BY <1>0, <1>2 DEF EpRead, Free, StartsFree, If1
  <2>2. (ep.t + 1) % 2 = (ep.t - 1) % 2
    BY <1>0
  <2> QED
    BY <1>1, <1>3, <2>1, <2>2, AccountsAre DEF InTurn
<1> QED
  BY <1>0, <1>1, <1>3, <1>4, <1>5, <1>6, StageIs DEF EpStep

LEMMA EpiFreeStep == ASSUME EpHere, EpiFree PROVE \E w, a : EpStep(w, a)
<1> DEFINE a == {<<"epi_empty", ep.st>>}
<1>0. ep \in [at : {"store", "free", "end"}, t : Int, st : Stage, ph : Bit] /\ ep.st \in {0, 1} /\ ep.t \in Int
  BY StageIs DEF EpHere, EpType
<1>1. Moves({}, a)
  <2>1. Arrive(a)
    BY DEF EpiFree, Frees
  <2> QED
    BY <2>1, ArriveMoves DEF EpHere
<1>2. /\ ep.at = "free"
      /\ \/ ep.st = 0 /\ ep'.at = "free" /\ ep'.st = 1 /\ ep'.t = ep.t /\ ep'.ph = ep.ph
         \/ ep.st = 1 /\ ep'.at \in {"store", "end"} /\ ep'.st = 0 /\ ep'.t = ep.t + 1 /\ ep'.ph = 1 - ep.ph
  <2>1. ep.at = "free"
    BY DEF EpiFree
  <2>2. CASE ep.st = 0
    <3>1. ep' = [ep EXCEPT !.st = 1]
      BY <2>2 DEF EpiFree
    <3> QED
      BY <1>0, <2>1, <2>2, <3>1
  <2>3. CASE ep.st = 1
    <3>1. PICK at \in {"store", "end"} : ep' = [ep EXCEPT !.at = at, !.t = @ + 1, !.st = 0, !.ph = 1 - @]
      <4>1. ep' = [ep EXCEPT !.at = IF ep.t + 1 \in Tile THEN "store" ELSE "end", !.t = @ + 1, !.st = 0, !.ph = 1 - @]
        BY <2>3 DEF EpiFree
      <4> QED
        BY <4>1
    <3> QED
      BY <1>0, <2>1, <2>3, <3>1
  <2> QED
    BY <1>0, <2>2, <2>3
<1>3. ~CorrStoresO /\ ep.ph = (ep.t + 1) % 2 /\ UNCHANGED <<tma, tc, ld, mm, sm, co>>
  BY <1>2 DEF EpHere, EpPlace, EpBits, EpiFree
<1>4. EpDelta({}, a)
  <2>1. ASSUME NEW i \in {0, 1}
        PROVE  EpRead(i)' = EpRead(i) /\ EpFreed(i)' = EpFreed(i) + If1(i = ep.st) /\ EpRead(i) \in Int
    BY <1>0, <1>2, <2>1 DEF EpRead, EpFreed, If1
  <2>2. \A i : If1(<<"epi_full", i>> \in {}) = 0 /\ If1(<<"epi_empty", i>> \in a) = If1(i = ep.st)
    BY DEF If1
  <2> HIDE DEF a
  <2>3. ASSUME NEW i \in {0, 1}
        PROVE  /\ EpRead(i)' = EpRead(i) + If1(<<"epi_full", i>> \in {})
               /\ EpFreed(i)' = EpFreed(i) + If1(<<"epi_empty", i>> \in a)
    BY <2>1, <2>2
  <2> QED
    BY <2>3 DEF EpDelta
<1>5. EpPlace'
  BY <1>0, <1>2, <1>3 DEF EpPlace, EpBits
<1> QED
  BY <1>0, <1>1, <1>3, <1>4, <1>5, StageIs DEF EpStep, InTurn

LEMMA EpilogueStep == ASSUME EpHere, Epilogue PROVE \E w, a : EpStep(w, a)
BY EpiStoreStep, EpiFreeStep DEF Epilogue

-----------------------------------------------------------------------------
(* All accounts after a step of one role.                                  *)

\* Accounts is what the roles' own accounts say, barrier by barrier.
LEMMA AccountsByName ==
    ASSUME NEW w, NEW a, NEW sig,
           \A i \in {0, 1} :
             /\ SLoaded(i)' = SLoaded(i) + If1(<<"S_full", i>> \in w)
             /\ QksIssued(i)' = QksIssued(i) + If1(<<"S_full", i>> \in a) + If1(<<"S_full", i>> \in sig)
             /\ PvBegun(i)' = PvBegun(i) + If1(<<"P_full_O", i>> \in w)
             /\ PStored(i)' + ORescaled(i)' = PStored(i) + ORescaled(i) + If1(<<"P_full_O", i>> \in a)
                                              + If1(<<"P_full_O", i>> \in sig)
             /\ PvDone(i)' = PvDone(i) + If1(<<"P_full_2", i>> \in w)
             /\ P2Stored(i)' = P2Stored(i) + If1(<<"P_full_2", i>> \in a) + If1(<<"P_full_2", i>> \in sig)
             /\ OTaken(i)' = OTaken(i) + If1(<<"O_full", i>> \in w)
             /\ OCommits(i)' = OCommits(i) + If1(<<"O_full", i>> \in a) + If1(<<"O_full", i>> \in sig)
             /\ ScalesTaken(i)' = ScalesTaken(i) + If1(<<"corr_full", i>> \in w)
             /\ ScalesOut(i)' = ScalesOut(i) + If1(<<"corr_full", i>> \in a) + If1(<<"corr_full", i>> \in sig)
             /\ ScalesFree(i)' = ScalesFree(i) + If1(<<"corr_empty", i>> \in w)
             /\ ScalesBack(i)' = ScalesBack(i) + If1(<<"corr_empty", i>> \in a) + If1(<<"corr_empty", i>> \in sig)
             /\ QuantQK => /\ QksIssued(i)' = QksIssued(i) + If1(<<"sfqk", i>> \in w)
                           /\ QksLet(1 - i)' = QksLet(1 - i) + If1(<<"sfqk", i>> \in a) + If1(<<"sfqk", i>> \in sig)
             /\ ~CorrStoresO =>
                  /\ EpRead(i)' = EpRead(i) + If1(<<"epi_full", i>> \in w)
                  /\ OWritten(i)' = OWritten(i) + If1(<<"epi_full", i>> \in a) + If1(<<"epi_full", i>> \in sig)
                  /\ BuffersHad(i)' = BuffersHad(i) + If1(<<"epi_empty", i>> \in w)
                  /\ EpFreed(i)' = EpFreed(i) + If1(<<"epi_empty", i>> \in a) + If1(<<"epi_empty", i>> \in sig),
           If1(mm.at = "end")' = If1(mm.at = "end") + If1(<<"dealloc", 0>> \in w),
           (If1(sm[0].at = "end") + If1(sm[1].at = "end") + If1(co.at = "end"))'
             = If1(sm[0].at = "end") + If1(sm[1].at = "end") + If1(co.at = "end")
               + If1(<<"dealloc", 0>> \in a) + If1(<<"dealloc", 0>> \in sig)
    PROVE  Accounts(w, a, sig)
<1> SUFFICES ASSUME NEW b \in HandBarrier
             PROVE  /\ Waited(b)' = Waited(b) + If1(b \in w)
                    /\ Given(b)' = Given(b) + If1(b \in a) + If1(b \in sig)
  BY DEF Accounts, HandBarrier, HandNames, Unwaited
<1>0. \A i \in Stage : <<"sfqk", i>> \in HandBarrier => QuantQK
  BY DEF HandBarrier, HandNames, Unwaited
<1>00. \A i \in Stage : <<"epi_full", i>> \in HandBarrier \/ <<"epi_empty", i>> \in HandBarrier => ~CorrStoresO
  BY DEF HandBarrier, HandNames, Unwaited
<1>1. CASE b = <<"dealloc", 0>>
  <2>1. Waited(b) = If1(mm.at = "end")
        /\ Given(b) = If1(sm[0].at = "end") + If1(sm[1].at = "end") + If1(co.at = "end")
    BY <1>1, AccountsAre
  <2>2. Waited(b)' = If1(mm.at = "end")'
        /\ Given(b)' = (If1(sm[0].at = "end") + If1(sm[1].at = "end") + If1(co.at = "end"))'
    BY <1>1 DEF Waited, Given
  <2> QED
    BY <1>1, <2>1, <2>2
<1>2. CASE \E i \in Stage : Named(b, i)
  <2>1. PICK i \in {0, 1} : Named(b, i)
    BY <1>2, StageIs
  <2>2. CASE b \in {<<"S_full", i>>, <<"P_full_O", i>>, <<"P_full_2", i>>, <<"O_full", i>>}
    BY <2>2 DEF Waited, Given
  <2>3. CASE b \in {<<"corr_full", i>>, <<"corr_empty", i>>}
    BY <2>3 DEF Waited, Given
  <2>4. CASE b = <<"sfqk", i>>
    BY <1>0, <2>4, StageIs DEF Waited, Given
  <2>5. CASE b \in {<<"epi_full", i>>, <<"epi_empty", i>>}
    BY <1>00, <2>5, StageIs DEF Waited, Given
  <2> QED
    BY <2>1, <2>2, <2>3, <2>4, <2>5 DEF Named
<1> QED
  BY <1>1, <1>2, HandBarrierIs

LEMMA SmSame ==
    ASSUME NEW i, sm'[i] = sm[i]
    PROVE  /\ SLoaded(i)' = SLoaded(i) /\ PBegun(i)' = PBegun(i) /\ PStored(i)' = PStored(i)
           /\ P2Stored(i)' = P2Stored(i) /\ ScalesFree(i)' = ScalesFree(i) /\ ScalesOut(i)' = ScalesOut(i)
           /\ QksLet(i)' = QksLet(i) /\ If1(sm[i].at = "end")' = If1(sm[i].at = "end")
           /\ SmPlace(i) => SmPlace(i)'
           /\ SmBits(i) => SmBits(i)'
BY DEF SLoaded, PBegun, PStored, P2Stored, ScalesFree, ScalesOut, QksLet, SmBlocks, SmPlace, SmBits, If1

LEMMA CoSame ==
    ASSUME UNCHANGED co
    PROVE  /\ \A i : /\ ScalesTaken(i)' = ScalesTaken(i) /\ ScalesBack(i)' = ScalesBack(i)
                     /\ ORescaled(i)' = ORescaled(i) /\ OTaken(i)' = OTaken(i)
                     /\ OWritten(i)' = OWritten(i) /\ BuffersHad(i)' = BuffersHad(i)
           /\ If1(co.at = "end")' = If1(co.at = "end")
           /\ CoPlace => CoPlace'
           /\ CoBits => CoBits'
BY DEF ScalesTaken, ScalesBack, ORescaled, OTaken, OWritten, BuffersHad, CoRounds, CoIn, CoEnding, CoPlace, CoBits, If1

LEMMA MmSame ==
    ASSUME UNCHANGED mm
    PROVE  /\ \A i : /\ QksIssued(i)' = QksIssued(i) /\ PvDone(i)' = PvDone(i)
                     /\ PvBegun(i)' = PvBegun(i) /\ OCommits(i)' = OCommits(i)
           /\ If1(mm.at = "end")' = If1(mm.at = "end")
           /\ MmBits => MmBits'
BY DEF QksIssued, PvDone, PvBegun, OCommits, MmBlocks, Last, MmBits, If1

LEMMA EpSame ==
    ASSUME UNCHANGED ep
    PROVE  /\ \A i : EpRead(i)' = EpRead(i) /\ EpFreed(i)' = EpFreed(i)
           /\ EpPlace => EpPlace'
BY DEF EpRead, EpFreed, EpPlace, EpBits, If1

AllNumbers == /\ \A i \in {0, 1} : SmNumbers(i) /\ CoNumbers(i) /\ MmNumbers(i)
                                   /\ EpRead(i) \in Int /\ EpFreed(i) \in Int
              /\ \A p : If1(p) \in Int

LEMMA AllNumbersAre ==
    ASSUME Types, MmPlace, CoPlace, \A i \in Stage : SmPlace(i)
    PROVE  AllNumbers /\ Numbers
<1>1. \A i \in {0, 1} : SmNumbers(i) /\ CoNumbers(i) /\ MmNumbers(i)
  BY SmIsSomewhere, SmNumbersAre, CoIsSomewhere, CoNumbersAre, MmIsSomewhere, MmStartsIs, MmNumbersAre, StageIs
     DEF Types
<1>2. \A i \in {0, 1} : EpRead(i) \in Int /\ EpFreed(i) \in Int
  BY EpNumbersAre DEF Types
<1>3. \A p : If1(p) \in Int
  BY DEF If1
<1> QED
  BY <1>1, <1>2, <1>3, NumbersAre DEF AllNumbers

\* Arrivals on, and waits for, barriers that are not in a set are none.
LEMMA NotIn == \A b, s : b \notin s => If1(b \in s) = 0
BY DEF If1

LEMMA SmAccounts ==
    ASSUME AllNumbers, NEW i \in Stage, NEW w, NEW a, SmStep(i, w, a) PROVE Accounts(w, a, {})
<1>0. i \in {0, 1} /\ 1 - i \in {0, 1} /\ i # 1 - i /\ 1 - (1 - i) = i /\ \A j \in {0, 1} : j = i \/ j = 1 - i
  BY StageIs
<1>1. UNCHANGED <<mm, co, ep>> /\ sm'[1 - i] = sm[1 - i] /\ SmDelta(i, w, a)
  BY DEF SmStep
<1>2. /\ \A b \in w : b = <<"S_full", i>> \/ b = <<"corr_empty", i>>
      /\ \A b \in a : b \in {<<"corr_full", i>>, <<"P_full_O", i>>, <<"P_full_2", i>>, <<"sfqk", 1 - i>>, <<"dealloc", 0>>}
  BY DEF SmStep
<1>3. \A j : /\ If1(<<"P_full_O", j>> \in w) = 0 /\ If1(<<"P_full_2", j>> \in w) = 0
             /\ If1(<<"O_full", j>> \in w) = 0 /\ If1(<<"corr_full", j>> \in w) = 0
             /\ If1(<<"sfqk", j>> \in w) = 0 /\ If1(<<"epi_full", j>> \in w) = 0
             /\ If1(<<"epi_empty", j>> \in w) = 0 /\ If1(<<"dealloc", j>> \in w) = 0
             /\ If1(<<"S_full", j>> \in a) = 0 /\ If1(<<"O_full", j>> \in a) = 0
             /\ If1(<<"corr_empty", j>> \in a) = 0 /\ If1(<<"epi_full", j>> \in a) = 0
             /\ If1(<<"epi_empty", j>> \in a) = 0
  BY <1>2 DEF If1
<1>4. \A j : j # i => /\ If1(<<"S_full", j>> \in w) = 0 /\ If1(<<"corr_empty", j>> \in w) = 0
                      /\ If1(<<"corr_full", j>> \in a) = 0 /\ If1(<<"P_full_O", j>> \in a) = 0
                      /\ If1(<<"P_full_2", j>> \in a) = 0
  BY <1>2 DEF If1
<1>5. If1(<<"sfqk", i>> \in a) = 0
  BY <1>0, <1>2 DEF If1
<1>6. \A b : If1(b \in {}) = 0
  BY DEF If1
<1>7. SmNumbers(0) /\ SmNumbers(1) /\ CoNumbers(0) /\ CoNumbers(1) /\ MmNumbers(0) /\ MmNumbers(1)
      /\ EpFreed(0) \in Int /\ EpFreed(1) \in Int /\ EpRead(0) \in Int /\ EpRead(1) \in Int /\ \A p : If1(p) \in Int
  BY DEF AllNumbers
<1>8. /\ SLoaded(1 - i)' = SLoaded(1 - i) /\ PStored(1 - i)' = PStored(1 - i)
      /\ P2Stored(1 - i)' = P2Stored(1 - i) /\ ScalesFree(1 - i)' = ScalesFree(1 - i)
      /\ ScalesOut(1 - i)' = ScalesOut(1 - i) /\ QksLet(1 - i)' = QksLet(1 - i)
      /\ If1(sm[1 - i].at = "end")' = If1(sm[1 - i].at = "end")
  BY <1>1, SmSame
<1>9. ASSUME NEW j \in {0, 1}
      PROVE  /\ SLoaded(j)' = SLoaded(j) + If1(<<"S_full", j>> \in w)
             /\ PStored(j)' = PStored(j) + If1(<<"P_full_O", j>> \in a)
             /\ P2Stored(j)' = P2Stored(j) + If1(<<"P_full_2", j>> \in a)
             /\ ScalesOut(j)' = ScalesOut(j) + If1(<<"corr_full", j>> \in a)
             /\ ScalesFree(j)' = ScalesFree(j) + If1(<<"corr_empty", j>> \in w)
             /\ QksLet(1 - j)' = QksLet(1 - j) + If1(<<"sfqk", j>> \in a)
  <2>1. CASE j = i
    <3>1. /\ SLoaded(i)' = SLoaded(i) + If1(<<"S_full", i>> \in w)
          /\ PStored(i)' = PStored(i) + If1(<<"P_full_O", i>> \in a)
          /\ P2Stored(i)' = P2Stored(i) + If1(<<"P_full_2", i>> \in a)
          /\ ScalesOut(i)' = ScalesOut(i) + If1(<<"corr_full", i>> \in a)
          /\ ScalesFree(i)' = ScalesFree(i) + If1(<<"corr_empty", i>> \in w)
      BY <1>1 DEF SmDelta
    <3>2. QksLet(1 - i)' = QksLet(1 - i) + If1(<<"sfqk", i>> \in a)
      <4>1. QksLet(1 - i) \in Int
        BY <1>0, <1>7 DEF SmNumbers
      <4> QED
        BY <1>5, <1>8, <4>1
    <3> QED
      BY <2>1, <3>1, <3>2
  <2>2. CASE j = 1 - i
    <3>1. 1 - j = i /\ j # i
      BY <1>0, <2>2
    <3>2. /\ SLoaded(j)' = SLoaded(j) /\ PStored(j)' = PStored(j) /\ P2Stored(j)' = P2Stored(j)
          /\ ScalesFree(j)' = ScalesFree(j) /\ ScalesOut(j)' = ScalesOut(j)
      BY <1>8, <2>2
    <3>3. QksLet(1 - j)' = QksLet(1 - j) + If1(<<"sfqk", j>> \in a)
      <4>1. QksLet(i)' = QksLet(i) + If1(<<"sfqk", 1 - i>> \in a)
        BY <1>1 DEF SmDelta
      <4> QED
        BY <2>2, <3>1, <4>1
    <3>4. /\ SLoaded(j) \in Int /\ PStored(j) \in Int /\ P2Stored(j) \in Int
          /\ ScalesFree(j) \in Int /\ ScalesOut(j) \in Int
      BY <1>7 DEF SmNumbers
    <3>5. /\ If1(<<"S_full", j>> \in w) = 0 /\ If1(<<"corr_empty", j>> \in w) = 0
          /\ If1(<<"corr_full", j>> \in a) = 0 /\ If1(<<"P_full_O", j>> \in a) = 0
          /\ If1(<<"P_full_2", j>> \in a) = 0
      BY <1>4, <3>1
    <3> QED
      BY <3>2, <3>3, <3>4, <3>5
  <2> QED
    BY <1>0, <2>1, <2>2
<1>10. (If1(sm[0].at = "end") + If1(sm[1].at = "end") + If1(co.at = "end"))'
             = If1(sm[0].at = "end") + If1(sm[1].at = "end") + If1(co.at = "end") + If1(<<"dealloc", 0>> \in a)
  <2>1. If1(co.at = "end")' = If1(co.at = "end")
    BY <1>1, CoSame
  <2>2. CASE i = 0
    BY <1>1, <1>7, <1>8, <2>1, <2>2 DEF SmDelta
  <2>3. CASE i = 1
    BY <1>1, <1>7, <1>8, <2>1, <2>3 DEF SmDelta
  <2> QED
    BY <1>0, <2>2, <2>3
<1>11. ASSUME NEW j \in {0, 1}
       PROVE  PStored(j)' + ORescaled(j)' = PStored(j) + ORescaled(j) + If1(<<"P_full_O", j>> \in a)
  BY <1>1, <1>7, <1>9, CoSame DEF SmNumbers, CoNumbers
<1>12. /\ \A j : /\ QksIssued(j)' = QksIssued(j) /\ PvBegun(j)' = PvBegun(j) /\ PvDone(j)' = PvDone(j)
                 /\ OTaken(j)' = OTaken(j) /\ OCommits(j)' = OCommits(j) /\ ScalesTaken(j)' = ScalesTaken(j)
                 /\ ScalesBack(j)' = ScalesBack(j) /\ EpRead(j)' = EpRead(j) /\ OWritten(j)' = OWritten(j)
                 /\ BuffersHad(j)' = BuffersHad(j) /\ EpFreed(j)' = EpFreed(j)
       /\ If1(mm.at = "end")' = If1(mm.at = "end")
  BY <1>1, CoSame, MmSame, EpSame
<1>13. /\ \A j \in {0, 1} : \A b : /\ QksIssued(j) + 0 = QksIssued(j) /\ PvBegun(j) + 0 = PvBegun(j)
           /\ PvDone(j) + 0 = PvDone(j) /\ OTaken(j) + 0 = OTaken(j) /\ OCommits(j) + 0 = OCommits(j)
           /\ ScalesTaken(j) + 0 = ScalesTaken(j) /\ ScalesBack(j) + 0 = ScalesBack(j) /\ EpRead(j) + 0 = EpRead(j)
           /\ OWritten(j) + 0 = OWritten(j) /\ BuffersHad(j) + 0 = BuffersHad(j) /\ EpFreed(j) + 0 = EpFreed(j)
       /\ \A x \in Int : x + 0 = x
  BY <1>7 DEF CoNumbers, MmNumbers
<1>14. ASSUME NEW j \in {0, 1}
       PROVE  /\ If1(<<"P_full_O", j>> \in w) = 0 /\ If1(<<"P_full_2", j>> \in w) = 0
              /\ PStored(j)' + ORescaled(j)' = PStored(j) + ORescaled(j) + If1(<<"P_full_O", j>> \in a) + 0
              /\ P2Stored(j)' = P2Stored(j) + If1(<<"P_full_2", j>> \in a) + 0
              /\ ScalesOut(j)' = ScalesOut(j) + If1(<<"corr_full", j>> \in a) + 0
              /\ QksLet(1 - j)' = QksLet(1 - j) + If1(<<"sfqk", j>> \in a) + 0
              /\ (If1(sm[0].at = "end") + If1(sm[1].at = "end") + If1(co.at = "end"))'
                   = If1(sm[0].at = "end") + If1(sm[1].at = "end") + If1(co.at = "end")
                     + If1(<<"dealloc", 0>> \in a) + 0
  <2>1. /\ PStored(j) + ORescaled(j) + If1(<<"P_full_O", j>> \in a) \in Int
        /\ P2Stored(j) + If1(<<"P_full_2", j>> \in a) \in Int
        /\ ScalesOut(j) + If1(<<"corr_full", j>> \in a) \in Int
        /\ QksLet(1 - j) + If1(<<"sfqk", j>> \in a) \in Int
        /\ If1(sm[0].at = "end") + If1(sm[1].at = "end") + If1(co.at = "end") + If1(<<"dealloc", 0>> \in a) \in Int
    BY <1>7 DEF SmNumbers, CoNumbers
  <2> QED
    BY <1>3, <1>9, <1>10, <1>11, <1>13, <2>1
<1>15. If1(mm.at = "end")' = If1(mm.at = "end") + 0 /\ If1(<<"dealloc", 0>> \in w) = 0
  BY <1>3, <1>7, <1>12, <1>13
<1> QED
  BY <1>3, <1>6, <1>9, <1>12, <1>13, <1>14, <1>15, AccountsByName

LEMMA CoAccounts == ASSUME AllNumbers, NEW w, NEW a, CoStep(w, a) PROVE Accounts(w, a, {})
<1>1. UNCHANGED <<mm, sm, ep>> /\ CoDelta(w, a)
  BY DEF CoStep
<1>2. w \subseteq {"corr_full", "O_full", "epi_empty"} \X Stage
      /\ a \subseteq ({"corr_empty", "P_full_O", "epi_full"} \X Stage) \cup {<<"dealloc", 0>>}
  BY DEF CoStep
<1>3. \A j : /\ If1(<<"S_full", j>> \in w) = 0 /\ If1(<<"P_full_O", j>> \in w) = 0
             /\ If1(<<"P_full_2", j>> \in w) = 0 /\ If1(<<"corr_empty", j>> \in w) = 0
             /\ If1(<<"sfqk", j>> \in w) = 0 /\ If1(<<"epi_full", j>> \in w) = 0
             /\ If1(<<"dealloc", j>> \in w) = 0
             /\ If1(<<"S_full", j>> \in a) = 0 /\ If1(<<"O_full", j>> \in a) = 0
             /\ If1(<<"P_full_2", j>> \in a) = 0 /\ If1(<<"corr_full", j>> \in a) = 0
             /\ If1(<<"sfqk", j>> \in a) = 0 /\ If1(<<"epi_empty", j>> \in a) = 0
  BY <1>2 DEF If1
<1>4. \A b : If1(b \in {}) = 0
  BY DEF If1
<1>5. \A j \in {0, 1} : /\ SmNumbers(j) /\ CoNumbers(j) /\ MmNumbers(j)
                        /\ EpRead(j) \in Int /\ EpFreed(j) \in Int /\ 1 - j \in {0, 1}
  BY DEF AllNumbers
<1>6. \A p : If1(p) \in Int
  BY DEF AllNumbers
<1>7. \A j : /\ SLoaded(j)' = SLoaded(j) /\ PStored(j)' = PStored(j) /\ P2Stored(j)' = P2Stored(j)
             /\ ScalesFree(j)' = ScalesFree(j) /\ ScalesOut(j)' = ScalesOut(j)
             /\ QksLet(j)' = QksLet(j) /\ If1(sm[j].at = "end")' = If1(sm[j].at = "end")
             /\ QksIssued(j)' = QksIssued(j) /\ PvBegun(j)' = PvBegun(j) /\ PvDone(j)' = PvDone(j)
             /\ OCommits(j)' = OCommits(j) /\ EpRead(j)' = EpRead(j) /\ EpFreed(j)' = EpFreed(j)
             /\ If1(mm.at = "end")' = If1(mm.at = "end")
  BY <1>1, SmSame, MmSame, EpSame
<1>8. ASSUME NEW j \in {0, 1}
      PROVE  /\ ScalesTaken(j)' = ScalesTaken(j) + If1(<<"corr_full", j>> \in w)
             /\ ScalesBack(j)' = ScalesBack(j) + If1(<<"corr_empty", j>> \in a) + 0
             /\ PStored(j)' + ORescaled(j)' = PStored(j) + ORescaled(j) + If1(<<"P_full_O", j>> \in a) + 0
             /\ OTaken(j)' = OTaken(j) + If1(<<"O_full", j>> \in w)
             /\ ~CorrStoresO => /\ OWritten(j)' = OWritten(j) + If1(<<"epi_full", j>> \in a) + 0
                                /\ BuffersHad(j)' = BuffersHad(j) + If1(<<"epi_empty", j>> \in w)
  <2>1. /\ ScalesTaken(j)' = ScalesTaken(j) + If1(<<"corr_full", j>> \in w)
        /\ ScalesBack(j)' = ScalesBack(j) + If1(<<"corr_empty", j>> \in a)
        /\ ORescaled(j)' = ORescaled(j) + If1(<<"P_full_O", j>> \in a)
        /\ OTaken(j)' = OTaken(j) + If1(<<"O_full", j>> \in w)
        /\ ~CorrStoresO => /\ OWritten(j)' = OWritten(j) + If1(<<"epi_full", j>> \in a)
                           /\ BuffersHad(j)' = BuffersHad(j) + If1(<<"epi_empty", j>> \in w)
    BY <1>1 DEF CoDelta
  <2>2. /\ ScalesBack(j) + If1(<<"corr_empty", j>> \in a) \in Int /\ PStored(j) \in Int /\ ORescaled(j) \in Int
        /\ OWritten(j) + If1(<<"epi_full", j>> \in a) \in Int /\ If1(<<"P_full_O", j>> \in a) \in Int
    BY <1>5, <1>6 DEF CoNumbers, SmNumbers
  <2> QED
    BY <1>7, <2>1, <2>2
<1>9. ASSUME NEW j \in {0, 1}
      PROVE  /\ SLoaded(j) + 0 = SLoaded(j) /\ QksIssued(j) + 0 = QksIssued(j) /\ QksIssued(j) + 0 + 0 = QksIssued(j)
             /\ PvBegun(j) + 0 = PvBegun(j) /\ PvDone(j) + 0 = PvDone(j) /\ P2Stored(j) + 0 + 0 = P2Stored(j)
             /\ OCommits(j) + 0 + 0 = OCommits(j) /\ ScalesOut(j) + 0 + 0 = ScalesOut(j)
             /\ ScalesFree(j) + 0 = ScalesFree(j) /\ QksLet(1 - j) + 0 + 0 = QksLet(1 - j)
             /\ EpRead(j) + 0 = EpRead(j) /\ EpFreed(j) + 0 + 0 = EpFreed(j)
  BY <1>5 DEF SmNumbers, MmNumbers
<1>10. (If1(sm[0].at = "end") + If1(sm[1].at = "end") + If1(co.at = "end"))'
             = If1(sm[0].at = "end") + If1(sm[1].at = "end") + If1(co.at = "end") + If1(<<"dealloc", 0>> \in a) + 0
  <2>1. If1(co.at = "end")' = If1(co.at = "end") + If1(<<"dealloc", 0>> \in a)
    BY <1>1 DEF CoDelta
  <2>2. /\ If1(sm[0].at = "end")' = If1(sm[0].at = "end") /\ If1(sm[1].at = "end")' = If1(sm[1].at = "end")
    BY <1>7
  <2> QED
    BY <1>6, <2>1, <2>2
<1>11. If1(mm.at = "end")' = If1(mm.at = "end") + 0
  BY <1>6, <1>7
<1> QED
  BY <1>3, <1>4, <1>7, <1>8, <1>9, <1>10, <1>11, AccountsByName

LEMMA EpAccounts == ASSUME AllNumbers, NEW w, NEW a, EpStep(w, a) PROVE Accounts(w, a, {})
<1>1. UNCHANGED <<mm, sm, co>> /\ EpDelta(w, a)
  BY DEF EpStep
<1>2. w \subseteq {"epi_full"} \X Stage /\ a \subseteq {"epi_empty"} \X Stage
  BY DEF EpStep
<1>3. \A j : /\ If1(<<"S_full", j>> \in w) = 0 /\ If1(<<"P_full_O", j>> \in w) = 0
             /\ If1(<<"P_full_2", j>> \in w) = 0 /\ If1(<<"corr_empty", j>> \in w) = 0
             /\ If1(<<"sfqk", j>> \in w) = 0 /\ If1(<<"epi_empty", j>> \in w) = 0
             /\ If1(<<"dealloc", j>> \in w) = 0 /\ If1(<<"O_full", j>> \in w) = 0
             /\ If1(<<"corr_full", j>> \in w) = 0 /\ If1(<<"P_full_O", j>> \in a) = 0
             /\ If1(<<"S_full", j>> \in a) = 0 /\ If1(<<"O_full", j>> \in a) = 0
             /\ If1(<<"P_full_2", j>> \in a) = 0 /\ If1(<<"corr_full", j>> \in a) = 0
             /\ If1(<<"sfqk", j>> \in a) = 0 /\ If1(<<"epi_full", j>> \in a) = 0
             /\ If1(<<"corr_empty", j>> \in a) = 0 /\ If1(<<"dealloc", j>> \in a) = 0
  BY <1>2 DEF If1
<1>4. \A b : If1(b \in {}) = 0
  BY DEF If1
<1>5. \A j \in {0, 1} : /\ SmNumbers(j) /\ CoNumbers(j) /\ MmNumbers(j)
                        /\ EpRead(j) \in Int /\ EpFreed(j) \in Int /\ 1 - j \in {0, 1}
  BY DEF AllNumbers
<1>6. \A p : If1(p) \in Int
  BY DEF AllNumbers
<1>7. /\ \A j : /\ SLoaded(j)' = SLoaded(j) /\ PStored(j)' = PStored(j) /\ P2Stored(j)' = P2Stored(j)
                /\ ScalesFree(j)' = ScalesFree(j) /\ ScalesOut(j)' = ScalesOut(j)
                /\ QksLet(j)' = QksLet(j) /\ If1(sm[j].at = "end")' = If1(sm[j].at = "end")
                /\ QksIssued(j)' = QksIssued(j) /\ PvBegun(j)' = PvBegun(j) /\ PvDone(j)' = PvDone(j)
                /\ OCommits(j)' = OCommits(j) /\ ScalesTaken(j)' = ScalesTaken(j)
                /\ ScalesBack(j)' = ScalesBack(j) /\ ORescaled(j)' = ORescaled(j) /\ OTaken(j)' = OTaken(j)
                /\ OWritten(j)' = OWritten(j) /\ BuffersHad(j)' = BuffersHad(j)
      /\ If1(mm.at = "end")' = If1(mm.at = "end") /\ If1(co.at = "end")' = If1(co.at = "end")
  BY <1>1, SmSame, MmSame, CoSame
<1>8. ASSUME NEW j \in {0, 1}
      PROVE  /\ EpRead(j)' = EpRead(j) + If1(<<"epi_full", j>> \in w)
             /\ EpFreed(j)' = EpFreed(j) + If1(<<"epi_empty", j>> \in a) + 0
  <2>1. /\ EpRead(j)' = EpRead(j) + If1(<<"epi_full", j>> \in w)
        /\ EpFreed(j)' = EpFreed(j) + If1(<<"epi_empty", j>> \in a)
    BY <1>1 DEF EpDelta
  <2>2. EpFreed(j) + If1(<<"epi_empty", j>> \in a) \in Int
    BY <1>5, <1>6
  <2> QED
    BY <2>1, <2>2
<1>9. ASSUME NEW j \in {0, 1}
      PROVE  /\ SLoaded(j) + 0 = SLoaded(j) /\ QksIssued(j) + 0 = QksIssued(j) /\ QksIssued(j) + 0 + 0 = QksIssued(j)
             /\ PvBegun(j) + 0 = PvBegun(j) /\ PvDone(j) + 0 = PvDone(j) /\ P2Stored(j) + 0 + 0 = P2Stored(j)
             /\ OCommits(j) + 0 + 0 = OCommits(j) /\ ScalesOut(j) + 0 + 0 = ScalesOut(j)
             /\ ScalesFree(j) + 0 = ScalesFree(j) /\ QksLet(1 - j) + 0 + 0 = QksLet(1 - j)
             /\ PStored(j) + ORescaled(j) + 0 + 0 = PStored(j) + ORescaled(j)
             /\ ScalesTaken(j) + 0 = ScalesTaken(j) /\ ScalesBack(j) + 0 + 0 = ScalesBack(j)
             /\ OTaken(j) + 0 = OTaken(j) /\ OWritten(j) + 0 + 0 = OWritten(j) /\ BuffersHad(j) + 0 = BuffersHad(j)
  BY <1>5 DEF SmNumbers, CoNumbers, MmNumbers
<1>10. (If1(sm[0].at = "end") + If1(sm[1].at = "end") + If1(co.at = "end"))'
             = If1(sm[0].at = "end") + If1(sm[1].at = "end") + If1(co.at = "end") + 0 + 0
  BY <1>6, <1>7
<1>11. If1(mm.at = "end")' = If1(mm.at = "end") + 0
  BY <1>6, <1>7
<1> QED
  BY <1>3, <1>4, <1>7, <1>8, <1>9, <1>10, <1>11, AccountsByName

LEMMA MmAccounts ==
    ASSUME AllNumbers, NEW w, NEW sig, MmGo(w, sig), sig \subseteq CommitBarriers
    PROVE  Accounts(w, {}, sig)
<1>1. UNCHANGED <<ep, sm, co>> /\ MmDelta(w, sig)
  BY DEF MmGo
<1>2. w \subseteq ({"q_full", "P_full_O", "P_full_2", "sfqk"} \X Stage) \cup ({"kv_full"} \X Slot)
                   \cup {<<"dealloc", 0>>}
      /\ sig \subseteq ({"S_full", "O_full", "q_empty"} \X Stage) \cup ({"kv_empty"} \X Slot)
  BY DEF MmGo, CommitBarriers
<1>3. \A j : /\ If1(<<"S_full", j>> \in w) = 0 /\ If1(<<"corr_empty", j>> \in w) = 0
             /\ If1(<<"epi_empty", j>> \in w) = 0 /\ If1(<<"epi_full", j>> \in w) = 0
             /\ If1(<<"O_full", j>> \in w) = 0 /\ If1(<<"corr_full", j>> \in w) = 0
             /\ If1(<<"P_full_O", j>> \in sig) = 0 /\ If1(<<"P_full_2", j>> \in sig) = 0
             /\ If1(<<"corr_full", j>> \in sig) = 0 /\ If1(<<"epi_empty", j>> \in sig) = 0
             /\ If1(<<"sfqk", j>> \in sig) = 0 /\ If1(<<"epi_full", j>> \in sig) = 0
             /\ If1(<<"corr_empty", j>> \in sig) = 0 /\ If1(<<"dealloc", j>> \in sig) = 0
  BY <1>2 DEF If1
<1>4. \A b : If1(b \in {}) = 0
  BY DEF If1
<1>5. \A j \in {0, 1} : /\ SmNumbers(j) /\ CoNumbers(j) /\ MmNumbers(j)
                        /\ EpRead(j) \in Int /\ EpFreed(j) \in Int /\ 1 - j \in {0, 1}
  BY DEF AllNumbers
<1>6. \A p : If1(p) \in Int
  BY DEF AllNumbers
<1>7. /\ \A j : /\ SLoaded(j)' = SLoaded(j) /\ PStored(j)' = PStored(j) /\ P2Stored(j)' = P2Stored(j)
                /\ ScalesFree(j)' = ScalesFree(j) /\ ScalesOut(j)' = ScalesOut(j)
                /\ QksLet(j)' = QksLet(j) /\ If1(sm[j].at = "end")' = If1(sm[j].at = "end")
                /\ EpRead(j)' = EpRead(j) /\ EpFreed(j)' = EpFreed(j) /\ ScalesTaken(j)' = ScalesTaken(j)
                /\ ScalesBack(j)' = ScalesBack(j) /\ ORescaled(j)' = ORescaled(j) /\ OTaken(j)' = OTaken(j)
                /\ OWritten(j)' = OWritten(j) /\ BuffersHad(j)' = BuffersHad(j)
      /\ If1(co.at = "end")' = If1(co.at = "end")
  BY <1>1, SmSame, EpSame, CoSame
<1>8. ASSUME NEW j \in {0, 1}
      PROVE  /\ QksIssued(j)' = QksIssued(j) + 0 + If1(<<"S_full", j>> \in sig)
             /\ QuantQK => QksIssued(j)' = QksIssued(j) + If1(<<"sfqk", j>> \in w)
             /\ PvBegun(j)' = PvBegun(j) + If1(<<"P_full_O", j>> \in w)
             /\ PvDone(j)' = PvDone(j) + If1(<<"P_full_2", j>> \in w)
             /\ OCommits(j)' = OCommits(j) + 0 + If1(<<"O_full", j>> \in sig)
  <2>1. /\ QksIssued(j)' = QksIssued(j) + If1(<<"S_full", j>> \in sig)
        /\ QuantQK => If1(<<"sfqk", j>> \in w) = If1(<<"S_full", j>> \in sig)
        /\ PvBegun(j)' = PvBegun(j) + If1(<<"P_full_O", j>> \in w)
        /\ PvDone(j)' = PvDone(j) + If1(<<"P_full_2", j>> \in w)
        /\ OCommits(j)' = OCommits(j) + If1(<<"O_full", j>> \in sig)
    BY <1>1 DEF MmDelta
  <2>2. QksIssued(j) \in Int /\ OCommits(j) \in Int
    BY <1>5 DEF MmNumbers
  <2> QED
    BY <2>1, <2>2
<1>9. ASSUME NEW j \in {0, 1}
      PROVE  /\ SLoaded(j) + 0 = SLoaded(j) /\ P2Stored(j) + 0 + 0 = P2Stored(j)
             /\ ScalesOut(j) + 0 + 0 = ScalesOut(j)
             /\ ScalesFree(j) + 0 = ScalesFree(j) /\ QksLet(1 - j) + 0 + 0 = QksLet(1 - j)
             /\ PStored(j) + ORescaled(j) + 0 + 0 = PStored(j) + ORescaled(j)
             /\ ScalesTaken(j) + 0 = ScalesTaken(j) /\ ScalesBack(j) + 0 + 0 = ScalesBack(j)
             /\ OTaken(j) + 0 = OTaken(j) /\ OWritten(j) + 0 + 0 = OWritten(j) /\ BuffersHad(j) + 0 = BuffersHad(j)
             /\ EpRead(j) + 0 = EpRead(j) /\ EpFreed(j) + 0 + 0 = EpFreed(j)
  BY <1>5 DEF SmNumbers, CoNumbers
<1>10. (If1(sm[0].at = "end") + If1(sm[1].at = "end") + If1(co.at = "end"))'
             = If1(sm[0].at = "end") + If1(sm[1].at = "end") + If1(co.at = "end") + 0 + 0
  BY <1>6, <1>7
<1>11. If1(mm.at = "end")' = If1(mm.at = "end") + If1(<<"dealloc", 0>> \in w)
  BY <1>1 DEF MmDelta
<1> QED
  BY <1>3, <1>4, <1>7, <1>8, <1>9, <1>10, <1>11, AccountsByName

===============================================================================
