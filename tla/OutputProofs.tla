----------------------------- MODULE OutputProofs -----------------------------
(***************************************************************************)
(* The output of Fp4Forward is exact, for any tiles, ring slots and build. *)
(* HandOverProofs says which block, scale or tile each buffer holds, given *)
(* where the roles are in their loops; the loads, the MMA warp and the     *)
(* tensor core keep this too, one lemma per action (...Contents), so every *)
(* product is made of the operands it needs.  From the same invariant      *)
(* every step folds the next block into a tile of AttentionTiles, stores a *)
(* finished one, or changes neither.                                       *)
(***************************************************************************)
EXTENDS HandOverProofs

-----------------------------------------------------------------------------
(* The load warp and the bulk-copy engine: nobody uses what they write.      *)

QIdle(i)  == HoldsQ(i) = 0 /\ ~Committed(<<"q_empty", i>>)
KvIdle(s) == Holds(s) = 0 /\ ~Committed(<<"kv_empty", s>>)

LEMMA IdleOps ==
    ASSUME OperandInv, Covered
    PROVE  /\ \A i \in {0, 1} : QIdle(i) => \A m \in DOMAIN tc : tc[m].kind = "QK" => tc[m].st # i
           /\ \A s \in Slot : KvIdle(s) => \A m \in DOMAIN tc : tc[m].slot # s
<1>1. ASSUME NEW i \in {0, 1}, QIdle(i), NEW m \in DOMAIN tc, tc[m].kind = "QK", tc[m].st = i PROVE FALSE
  <2>1. HoldsQ(i) > 0 \/ Committed(<<"q_empty", i>>)
    BY <1>1 DEF Covered, Committed
  <2> QED
    BY <1>1, <2>1 DEF QIdle
<1>2. ASSUME NEW s \in Slot, KvIdle(s), NEW m \in DOMAIN tc, tc[m].slot = s PROVE FALSE
  <2>1. Holds(s) > 0 \/ Committed(<<"kv_empty", s>>)
    BY <1>2 DEF Covered, Committed
  <2> QED
    BY <1>2, <2>1 DEF KvIdle
<1> QED
  BY <1>1, <1>2

\* A load is on its way, or may start.
LEMMA QIdleIs ==
    ASSUME OperandInv, NEW i \in {0, 1}, Landing(<<"q_full", i>>) \/ Done("q_empty", i) = Seen("q_empty", i)
    PROVE  QIdle(i)
<1>1. /\ Done("q_full", i) = Seen("q_empty", i) - If1(Landing(<<"q_full", i>>))
      /\ Done("q_empty", i) = QGiven - If1(Committed(<<"q_empty", i>>))
      /\ Seen("q_full", i) = QTaken(i) /\ Seen("q_full", i) <= Done("q_full", i)
      /\ QTaken(i) \in Int /\ QGiven \in Int /\ HoldsQ(i) \in {0, 1}
      /\ Done("q_full", i) \in Int /\ Seen("q_full", i) \in Int /\ Done("q_empty", i) \in Int /\ Seen("q_empty", i) \in Int
  BY QFacts, StageIs
<1>2. HoldsQ(i) + If1(Committed(<<"q_empty", i>>)) + If1(Landing(<<"q_full", i>>)) <= 1
  BY OneHandQ, StageIs
<1>3. /\ If1(Committed(<<"q_empty", i>>)) \in {0, 1} /\ (If1(Committed(<<"q_empty", i>>)) = 1 <=> Committed(<<"q_empty", i>>))
      /\ If1(Landing(<<"q_full", i>>)) \in {0, 1} /\ (Landing(<<"q_full", i>>) => If1(Landing(<<"q_full", i>>)) = 1)
  BY DEF If1
<1>4. HoldsQ(i) = QTaken(i) - QGiven
  BY DEF HoldsQ
<1>5. HoldsQ(i) = 0 /\ If1(Committed(<<"q_empty", i>>)) = 0
  <2>1. CASE Landing(<<"q_full", i>>)
    BY <1>1, <1>2, <1>3, <2>1
  <2>2. CASE Done("q_empty", i) = Seen("q_empty", i)
    BY <1>1, <1>3, <1>4, <2>2
  <2> QED
    BY <2>1, <2>2
<1> QED
  BY <1>3, <1>5 DEF QIdle

LEMMA KvIdleIs ==
    ASSUME OperandInv, NEW s \in Slot, Landing(<<"kv_full", s>>) \/ Done("kv_empty", s) = Seen("kv_empty", s)
    PROVE  KvIdle(s)
<1>1. /\ Done("kv_full", s) = Seen("kv_empty", s) - If1(Landing(<<"kv_full", s>>))
      /\ Done("kv_empty", s) = Seen("kv_full", s) - Holds(s) - If1(Committed(<<"kv_empty", s>>))
      /\ Seen("kv_full", s) <= Done("kv_full", s) /\ Holds(s) \in 0..2
      /\ Done("kv_full", s) \in Int /\ Seen("kv_full", s) \in Int /\ Done("kv_empty", s) \in Int /\ Seen("kv_empty", s) \in Int
  BY SlotFacts
<1>2. Holds(s) + If1(Committed(<<"kv_empty", s>>)) + If1(Landing(<<"kv_full", s>>)) <= 1
  BY OneHand
<1>3. /\ If1(Committed(<<"kv_empty", s>>)) \in {0, 1} /\ (If1(Committed(<<"kv_empty", s>>)) = 1 <=> Committed(<<"kv_empty", s>>))
      /\ If1(Landing(<<"kv_full", s>>)) \in {0, 1} /\ (Landing(<<"kv_full", s>>) => If1(Landing(<<"kv_full", s>>)) = 1)
  BY DEF If1
<1>5. Holds(s) = 0 /\ If1(Committed(<<"kv_empty", s>>)) = 0
  <2>1. CASE Landing(<<"kv_full", s>>)
    BY <1>1, <1>2, <1>3, <2>1
  <2>2. CASE Done("kv_empty", s) = Seen("kv_empty", s)
    BY <1>1, <1>3, <2>2
  <2> QED
    BY <2>1, <2>2
<1> QED
  BY <1>3, <1>5 DEF KvIdle

\* Idle buffers: counted as often as waited for, unless a load is just landing.
LEMMA IdleCounts ==
    ASSUME OperandInv
    PROVE  /\ \A i \in {0, 1} : QIdle(i) /\ ~Landing(<<"q_full", i>>) /\ Done("q_empty", i) = Seen("q_empty", i)
                                  => Done("q_full", i) = Seen("q_full", i) /\ Done("q_full", i) = Seen("q_empty", i)
           /\ \A s \in Slot : KvIdle(s) /\ ~Landing(<<"kv_full", s>>) /\ Done("kv_empty", s) = Seen("kv_empty", s)
                                  => Done("kv_full", s) = Seen("kv_full", s) /\ Done("kv_full", s) = Seen("kv_empty", s)
<1>1. ASSUME NEW i \in {0, 1}, QIdle(i), ~Landing(<<"q_full", i>>), Done("q_empty", i) = Seen("q_empty", i)
      PROVE  Done("q_full", i) = Seen("q_full", i) /\ Done("q_full", i) = Seen("q_empty", i)
  <2>1. /\ Done("q_full", i) = Seen("q_empty", i) - If1(Landing(<<"q_full", i>>))
        /\ Done("q_empty", i) = QGiven - If1(Committed(<<"q_empty", i>>))
        /\ Seen("q_full", i) = QTaken(i) /\ HoldsQ(i) = QTaken(i) - QGiven
        /\ QTaken(i) \in Int /\ QGiven \in Int /\ Seen("q_empty", i) \in Int
    BY QFacts, StageIs DEF HoldsQ
  <2>2. If1(Committed(<<"q_empty", i>>)) = 0 /\ If1(Landing(<<"q_full", i>>)) = 0 /\ HoldsQ(i) = 0
    BY <1>1 DEF If1, QIdle
  <2>3. Done("q_full", i) = Seen("q_empty", i)
    BY <2>1, <2>2
  <2>4. Seen("q_full", i) = QGiven
    BY <2>1, <2>2
  <2>5. Done("q_empty", i) = QGiven
    BY <2>1, <2>2
  <2> QED
    BY <1>1, <2>3, <2>4, <2>5
<1>2. ASSUME NEW s \in Slot, KvIdle(s), ~Landing(<<"kv_full", s>>), Done("kv_empty", s) = Seen("kv_empty", s)
      PROVE  Done("kv_full", s) = Seen("kv_full", s) /\ Done("kv_full", s) = Seen("kv_empty", s)
  <2>1. /\ Done("kv_full", s) = Seen("kv_empty", s) - If1(Landing(<<"kv_full", s>>))
        /\ Done("kv_empty", s) = Seen("kv_full", s) - Holds(s) - If1(Committed(<<"kv_empty", s>>))
        /\ Seen("kv_full", s) \in Int /\ Seen("kv_empty", s) \in Int
    BY SlotFacts
  <2>2. If1(Committed(<<"kv_empty", s>>)) = 0 /\ If1(Landing(<<"kv_full", s>>)) = 0 /\ Holds(s) = 0
    BY <1>2 DEF If1, KvIdle
  <2> QED
    BY <1>2, <2>1, <2>2
<1> QED
  BY <1>1, <1>2

\* The buffer a load writes.
LEMMA PutLoads ==
    ASSUME NEW r, r \in Region, r[1] \in {"Q", "KV"}, NEW tag, mem' = Put(mem, r, tag)
    PROVE  LoadTouches(r) /\ mem'[r] = tag
<1>1. mem'[r] = tag
  BY PutAt
<1>2. ASSUME NEW q \in Region, q # r, mem'[q] # mem[q] PROVE OverlapSOSQ /\ r[1] = "Q" /\ q[1] = "sO"
  <2>1. Clash(r, q)
    BY <1>2, PutKeeps
  <2>2. r[1] # "KV"
    BY <1>2, <2>1, ClashNone
  <2> QED
    BY <1>2, <2>1, <2>2, ClashOut
<1> QED
  BY <1>1, <1>2 DEF LoadTouches

\* All but the loads themselves, and what they load.
LoadKept == /\ TcHolds' /\ PvOnce' /\ SfHolds' /\ OksHold'
            /\ \A j \in {0, 1} : SHolds(j)' /\ PHolds(j)' /\ ScaleHolds(j)' /\ OHolds(j)' /\ OutHolds(j)'

LEMMA LoadOthers ==
    ASSUME FlightInv, Contents, UNCHANGED <<tc, mm, sm, co, ep, out>>, SameCount({"S_full"}),
           NEW r, r \in Region, r[1] \in {"Q", "KV"}, LoadTouches(r),
           \A m \in DOMAIN tc : r # <<"KV", tc[m].slot>> /\ (tc[m].kind = "QK" => r # <<"Q", tc[m].st>>),
           r[1] = "Q" /\ OverlapSOSQ => ~(CoEnding \/ co.t # 1)
    PROVE  LoadKept
<1>0. TcType /\ CoPlace /\ Contents
  BY DEF FlightInv, HandInv, OperandInv, Types, Places
<1>1. \A q \in Region : q[1] \notin {"Q", "KV", "sO"} => mem'[q] = mem[q]
  BY DEF LoadTouches
<1>2. \A n \in {"S", "Plo", "Phi", "sSFP", "sScale", "O"} : \A j \in {0, 1} : mem'[<<n, j>>] = mem[<<n, j>>]
  BY <1>1, NamesIn
<1>3. SameAt(ScaleNames)
  BY <1>1 DEF SameAt, ScaleNames
<1>4. PvOnce' /\ SfHolds' /\ OksHold'
  BY <1>0, <1>3, PvsSame, SfKept DEF Contents, OksHold
<1>5. TcHolds'
  <2> SUFFICES ASSUME NEW j \in DOMAIN tc PROVE OpHolds(tc[j])' /\ RunHolds(j, tc[j])' /\ Waits(tc[j])'
    BY DEF TcHolds
  <2>1. OpHolds(tc[j]) /\ RunHolds(j, tc[j]) /\ Waits(tc[j])
    BY <1>0 DEF Contents, TcHolds
  <2>2. /\ mem'[<<"KV", tc[j].slot>>] = mem[<<"KV", tc[j].slot>>]
        /\ tc[j].kind = "QK" => mem'[<<"Q", tc[j].st>>] = mem[<<"Q", tc[j].st>>]
    BY <1>0, OpIs DEF LoadTouches
  <2>3. \A q \in Operands(tc[j]) : q[1] \in ScaleNames => mem'[q] = mem[q]
    BY <1>0, <1>3, OpIs DEF SameAt
  <2>4. UNCHANGED <<QksIssued(0), QksIssued(1)>> /\ tc[j].st \in {0, 1}
    BY <1>0, OpIs DEF QksIssued, MmBlocks, Last
  <2>5. OpHolds(tc[j])'
    BY <2>1, <2>2, <2>4 DEF OpHolds
  <2>6. Scaled(tc[j]) => Scaled(tc[j])'
    BY <2>3 DEF Scaled
  <2>7. mem'[<<"O", tc[j].st>>] = mem[<<"O", tc[j].st>>]
    BY <1>2, <2>4
  <2> QED
    BY <2>1, <2>5, <2>6, <2>7 DEF RunHolds, Waits
<1>6. ASSUME NEW j \in {0, 1}
      PROVE  SHolds(j)' /\ PHolds(j)' /\ ScaleHolds(j)' /\ OHolds(j)' /\ OutHolds(j)'
  <2>1. StageHolds(j)
    BY <1>0 DEF Contents
  <2>2. UNCHANGED <<SLoaded(j), PStored(j), P2Stored(j), ScalesOut(j), PvBegun(j), PvDone(j), ScalesTaken(j),
                    ORescaled(j), OWritten(j), EpFreed(j)>>
        /\ (PvIn(j)' <=> PvIn(j)) /\ (PvClosed(j)' <=> PvClosed(j)) /\ (Rescaling(j)' <=> Rescaling(j))
    BY SmSame, MmSame, PvsSame, CoSame, EpSame DEF Rescaling
  <2>3. Done("S_full", j)' = Done("S_full", j)
    BY NamesAre, StageIs DEF SameCount, Done
  <2>4. SHolds(j)'
    BY <1>2, <2>1, <2>2, <2>3, SKept DEF StageHolds
  <2>5. PHolds(j)'
    BY <1>2, <2>1, <2>2, PKept DEF StageHolds
  <2>6. ScaleHolds(j)'
    BY <1>2, <2>1, <2>2, ScaleKept DEF StageHolds
  <2>7. OHolds(j)'
    BY <1>2, <2>1, <2>2, OKept DEF StageHolds
  <2>8. OutHolds(j)'
    <3>1. CASE mem'[<<"sO", j>>] = mem[<<"sO", j>>]
      BY <2>1, <2>2, <3>1, OutKept DEF StageHolds
    <3>2. CASE r[1] = "Q" /\ OverlapSOSQ
      <4>1. OWritten(j) = 0
        BY <1>0, <3>2 DEF OWritten, If1
      <4>2. \A t \in Tile : t # OWritten(j)
        BY <4>1, StartIs, TileIs
      <4> QED
        BY <2>1, <2>2, <4>2 DEF StageHolds, OutHolds, Stored
    <3> QED
      BY <3>1, <3>2, NamesIn DEF LoadTouches
  <2> QED
    BY <2>4, <2>5, <2>6, <2>7, <2>8
<1> QED
  BY <1>4, <1>5, <1>6 DEF LoadKept

\* The load warp turns to the next item of the ring, or to none.
LEMMA LoadQContents == ASSUME CInv, LoadQ PROVE Contents'
<1>0. /\ FlightInv /\ Contents /\ OperandInv /\ Covered /\ BarType /\ BarOK /\ LdPlaced /\ MmPlaced /\ KvHolds
      /\ ld.idx \in Slot /\ mm.idx \in Slot /\ mm.v \in Slot /\ ld.t \in Int /\ ld.k \in Int
  BY DEF CInv, FlightInv, HandInv, OperandInv, Types, Contents, LdType, MmType, MmRecord
<1>1. PICK i \in {0, 1} :
          /\ ld.at = (IF i = 0 THEN "q0" ELSE "q1")
          /\ WaitThenArrive(<<"q_empty", i>>, ld.qPh, {})
          /\ StartLoad(<<"Q", i>>, QTag(ld.t), <<"q_full", i>>)
          /\ ld' = IF i = 0 THEN [ld EXCEPT !.at = "k"] ELSE [ld EXCEPT !.at = "v", !.qPh = 1 - @]
  BY DEF LoadQ
<1>2. UNCHANGED <<tc, mm, sm, co, ep, out>> /\ Moves({<<"q_empty", i>>}, {})
  BY <1>0, <1>1, WaitMoves DEF LoadQ
<1>3. /\ ld'.t = ld.t /\ ld'.k = ld.k /\ ld'.idx = ld.idx /\ ld'.at = (IF i = 0 THEN "k" ELSE "v")
      /\ ld.k = 1 /\ ld.t \in Tile
  <2>1. ld \in [at : {"q0", "k", "q1", "v", "end"}, t : Int, k : Int, qPh : Bit, idx : Slot, ph : Bit]
    BY <1>0 DEF OperandInv, Types, LdType
  <2> QED
    BY <1>0, <1>1, <2>1 DEF OperandInv, LdInv, LdPlace
<1>4. ld.qPh = (QLoaded(i) + 1) % 2 /\ QLoaded(i) = ld.t - 1
  <2>1. ld.qPh = (QLoaded(1) + 1) % 2
    BY <1>0 DEF OperandInv, LdInv, LdQ
  <2>2. QLoaded(1) = ld.t - 1 /\ QLoaded(i) = ld.t - 1
    <3>1. CASE i = 0
      BY <1>0, <1>1, <3>1 DEF QLoaded, If1
    <3>2. CASE i = 1
      BY <1>0, <1>1, <3>2 DEF QLoaded, If1
    <3> QED
      BY <3>1, <3>2
  <2> QED
    BY <2>1, <2>2
<1>5. Done("q_empty", i) = Seen("q_empty", i) /\ ~Landing(<<"q_full", i>>)
  BY <1>0, <1>1, <1>4, LoadQFree, StageIs DEF Done, Seen
<1>6. QIdle(i) /\ Done("q_full", i) = Seen("q_full", i) /\ Done("q_full", i) = Seen("q_empty", i)
  BY <1>0, <1>5, QIdleIs, IdleCounts
<1>7. Seen("q_empty", i) = ld.t - 1
  BY <1>0, <1>4, StageIs DEF OperandInv, LdInv, LdQ
<1>8. <<"Q", i>> \in Region /\ mem' = Put(mem, <<"Q", i>>, Garbage)
      /\ tma' = tma \cup {[dst |-> <<"Q", i>>, tag |-> QTag(ld.t), full |-> <<"q_full", i>>]}
  BY <1>1, NamesIn DEF StartLoad
<1>9. LoadTouches(<<"Q", i>>)
  BY <1>8, PutLoads
<1>10. SameCount({"kv_full", "q_full", "S_full", "kv_empty"})
  BY <1>0, <1>2, CountsSame
<1>11. /\ SameCount({"S_full"})
       /\ \A s \in Slot : /\ Done("kv_full", s)' = Done("kv_full", s) /\ Seen("kv_full", s)' = Seen("kv_full", s)
                          /\ Seen("kv_empty", s)' = Seen("kv_empty", s)
       /\ \A j \in {0, 1} : Done("q_full", j)' = Done("q_full", j) /\ Seen("q_full", j)' = Seen("q_full", j)
  BY <1>10, NamesAre, StageIs DEF SameCount, Done, Seen
<1>12. LoadKept
  <2>1. \A m \in DOMAIN tc : tc[m].kind = "QK" => tc[m].st # i
    BY <1>0, <1>6, IdleOps
  <2>2. OverlapSOSQ => ~(CoEnding \/ co.t # 1)
    BY <1>0, <1>1, OverlapOver DEF QOver
  <2> QED
    BY <1>0, <1>2, <1>8, <1>9, <1>11, <2>1, <2>2, LoadOthers
<1>13. LdPlaced' /\ MmPlaced'
  <2>1. LdNext' = LdNext
    BY <1>0, <1>1, <1>3 DEF LdNext, If1
  <2>2. LdPlaced'
    <3>1. ld'.at \notin {"end", "q1"} /\ ld.at # "end"
      BY <1>1, <1>3
    <3>2. ld'.k \in 1..Blocks[ld'.t] /\ ld'.t \in 1..(Tiles + 1)
      BY <1>0, <1>3, <3>1 DEF LdPlaced
    <3>4. Seen("kv_empty", ld.idx)' = bar'[<<"kv_empty", ld'.idx>>].seen /\ Seen("kv_empty", ld.idx) = bar[<<"kv_empty", ld.idx>>].seen
      BY <1>3 DEF Seen
    <3>5. LdNext' = KvStages * bar'[<<"kv_empty", ld'.idx>>].seen + ld'.idx
      BY <1>0, <1>3, <1>11, <2>1, <3>4 DEF LdPlaced, Seen
    <3> QED
      BY <3>1, <3>2, <3>5 DEF LdPlaced, Seen
  <2>3. MmPlaced'
    BY <1>0, <1>2, <1>11 DEF MmPlaced, MmNext, MmBlocks, HoldsV, HoldsNext, Last, Before
  <2> QED
    BY <2>2, <2>3
<1>14. KvHolds'
  <2>1. \A s \in Slot : mem'[<<"KV", s>>] = mem[<<"KV", s>>]
    BY <1>9, NamesIn DEF LoadTouches
  <2>2. \A x \in tma' : \A s \in Slot : x.full = <<"kv_full", s>> => x \in tma
    BY <1>8
  <2>3. UNCHANGED <<HoldsNext, HoldsV, MmNext, MmBlocks>>
    BY <1>2 DEF HoldsNext, HoldsV, MmNext, MmBlocks, Last
  <2> QED
    BY <1>0, <1>2, <1>11, <2>1, <2>2, <2>3 DEF KvHolds
<1>15. ASSUME NEW j \in {0, 1} PROVE QHolds(j)'
  <2>1. HoldsQ(j)' = HoldsQ(j) /\ QHolds(j)
    BY <1>0, <1>2 DEF HoldsQ, QTaken, QGiven, Last, MmOver, Contents, StageHolds
  <2>2. CASE j # i
    <3>1. mem'[<<"Q", j>>] = mem[<<"Q", j>>]
      BY <1>9, <2>2, NamesIn DEF LoadTouches
    <3>2. \A x \in tma' : x.full = <<"q_full", j>> => x \in tma
      BY <1>8, <2>2
    <3> QED
      BY <1>2, <1>11, <2>1, <3>1, <3>2 DEF QHolds
  <2>3. CASE j = i
    <3>1. HoldsQ(i)' = 0 /\ Done("q_full", i)' = ld.t - 1 /\ Seen("q_full", i)' = ld.t - 1
      BY <1>6, <1>7, <1>11, <2>1, <2>3 DEF QIdle
    <3>2. \A x \in tma' : x.full = <<"q_full", i>> => x.tag = QTag(ld.t)
      BY <1>5, <1>8 DEF Landing
    <3>3. ld.t = ld.t - 1 + 1 /\ ld.t - 1 # ld.t - 1 + 1
      BY <1>0
    <3> QED
      BY <2>3, <3>1, <3>2, <3>3 DEF QHolds
  <2> QED
    BY <2>2, <2>3
<1> QED
  BY <1>12, <1>13, <1>14, <1>15 DEF Contents, LoadKept, StageHolds

\* Where the load warp goes with an item of the ring.
LEMMA LoadKVGo ==
    ASSUME LdType, LdPlace, LdPlaced, LoadKV
    PROVE  /\ ld'.idx = (IF ld.idx = KvStages - 1 THEN 0 ELSE ld.idx + 1)
           /\ \/ ld.at = "k" /\ ld.k = 1 /\ ld'.at = "q1" /\ ld'.t = ld.t /\ ld'.k = ld.k
              \/ ld.at = "k" /\ ld.k # 1 /\ ld'.at = "v" /\ ld'.t = ld.t /\ ld'.k = ld.k
              \/ ld.at = "v" /\ ld.k < Blocks[ld.t] /\ ld'.at = "k" /\ ld'.t = ld.t /\ ld'.k = ld.k + 1
              \/ ld.at = "v" /\ ~(ld.k < Blocks[ld.t]) /\ ld'.at = "q0" /\ ld.t + 1 \in Tile /\ ld'.t = ld.t + 1 /\ ld'.k = 1
              \/ ld.at = "v" /\ ~(ld.k < Blocks[ld.t]) /\ ld'.at = "end" /\ ~(ld.t + 1 \in Tile) /\ ld'.t = ld.t + 1 /\ ld'.k = 1
<1> DEFINE m == ld.idx
           a == [ld EXCEPT !.idx = (m + 1) % KvStages,
                           !.ph = IF m = KvStages - 1 THEN 1 - ld.ph ELSE ld.ph]
<1>1. ld \in [at : {"q0", "k", "q1", "v", "end"}, t : Int, k : Int, qPh : Bit, idx : Slot, ph : Bit] /\ m \in Slot
      /\ ld.at \in {"k", "v"} /\ ld' = NextLoad(Advance(ld))
  BY DEF LdType, LoadKV
<1>2. (m + 1) % KvStages = IF m = KvStages - 1 THEN 0 ELSE m + 1
  BY <1>1, NextSlot
<1>3. /\ a.t = ld.t /\ a.k = ld.k /\ a.at = ld.at
      /\ a.idx = (IF m = KvStages - 1 THEN 0 ELSE m + 1)
      /\ DOMAIN a = {"at", "t", "k", "qPh", "idx", "ph"}
  BY <1>1, <1>2
<1>4. ld' = NextLoad(a)
  BY <1>1 DEF Advance
<1> HIDE DEF a
<1>5. CASE ld.at = "k"
  <2>1. ld' = [a EXCEPT !.at = IF ld.k = 1 THEN "q1" ELSE "v"]
    BY <1>4, <1>5 DEF NextLoad
  <2> QED
    BY <1>3, <1>5, <2>1
<1>6. CASE ld.at = "v" /\ ld.k < Blocks[ld.t]
  <2>1. ld' = [a EXCEPT !.at = "k", !.k = @ + 1]
    BY <1>4, <1>6 DEF NextLoad
  <2> QED
    BY <1>3, <1>6, <2>1
<1>7. CASE ld.at = "v" /\ ~(ld.k < Blocks[ld.t])
  <2>1. ld' = [a EXCEPT !.at = IF ld.t + 1 \in Tile THEN "q0" ELSE "end", !.t = @ + 1, !.k = 1]
    BY <1>4, <1>7 DEF NextLoad
  <2> QED
    BY <1>3, <1>7, <2>1
<1> QED
  BY <1>1, <1>5, <1>6, <1>7

\* ... one item further.
LEMMA LoadKVPlaced ==
    ASSUME OperandInv, LdPlaced, LoadKV, Moves({<<"kv_empty", ld.idx>>}, {})
    PROVE  LdPlaced' /\ \E b : /\ IsBlock(ld.t, ld.k, b) /\ b \in Int
                               /\ KvStages * Seen("kv_empty", ld.idx) + ld.idx
                                    = 2 * (b - 1) + (IF ld.at = "k" THEN 0 ELSE 1)
<1>1. /\ ld.idx \in Slot /\ ld.t \in Int /\ ld.k \in Int /\ LdType /\ LdPlace /\ ld.at \in {"k", "v"}
      /\ KvStages \in Int /\ 1 <= KvStages /\ BarType /\ BarOK
      /\ Seen("kv_empty", ld.idx) \in Int /\ ld.idx \in Int
      /\ \A s \in Slot : Seen("kv_empty", s) = Seen("kv_empty", ld.idx) + If1(s < ld.idx)
  <2>1. LdType /\ LdPlace /\ BarType /\ BarOK /\ \A s \in Slot : Seen("kv_empty", s) = Seen("kv_empty", ld.idx) + If1(s < ld.idx)
    BY DEF OperandInv, Types, LdInv, LdRing
  <2>2. ld.idx \in Slot /\ ld.t \in Int /\ ld.k \in Int
    BY <2>1 DEF LdType
  <2>3. ld.at \in {"k", "v"}
    BY DEF LoadKV
  <2>4. KvStages \in Int /\ 1 <= KvStages
    BY ConfigAssumption
  <2>5. Seen("kv_empty", ld.idx) \in Int
    BY <2>1, <2>2, SlotFacts
  <2>6. ld.idx \in Int
    BY <2>2 DEF Slot
  <2> QED
    BY <2>1, <2>2, <2>3, <2>4, <2>5, <2>6
<1>2. PICK t \in Int, k \in Int, m \in Int, n \in Int : t = ld.t /\ k = ld.k /\ m = ld.idx /\ n = Seen("kv_empty", ld.idx)
  BY <1>1
<1>3. /\ t \in Tile /\ 1 <= t /\ t <= Tiles /\ k \in 1..Blocks[t] /\ Blocks[t] \in Int /\ Start[t] \in Int
      /\ Start[t + 1] = Start[t] + Blocks[t] /\ Tiles \in Int /\ 1 <= Blocks[t]
  <2>1. t \in Tile /\ k \in 1..Blocks[t]
    BY <1>1, <1>2 DEF LdPlace, LdPlaced
  <2> QED
    BY <2>1, StartIs, TileIs
<1>4. LdNext = KvStages * n + m /\ LdNext = 2 * (Start[t] + k - 1) + (IF ld.at = "k" THEN 0 ELSE 1)
      /\ 0 <= m /\ m <= KvStages - 1
  <2>1. LdNext = KvStages * n + m
    BY <1>2 DEF LdPlaced
  <2>2. LdNext = 2 * (Start[t] + k - 1) + (IF ld.at = "k" THEN 0 ELSE 1)
    BY <1>1, <1>2 DEF LdNext, If1
  <2> QED
    BY <1>1, <1>2, <2>1, <2>2 DEF Slot
<1>5. /\ ld'.idx = (IF m = KvStages - 1 THEN 0 ELSE m + 1)
      /\ \/ ld.at = "k" /\ k = 1 /\ ld'.at = "q1" /\ ld'.t = t /\ ld'.k = k
         \/ ld.at = "k" /\ k # 1 /\ ld'.at = "v" /\ ld'.t = t /\ ld'.k = k
         \/ ld.at = "v" /\ k < Blocks[t] /\ ld'.at = "k" /\ ld'.t = t /\ ld'.k = k + 1
         \/ ld.at = "v" /\ ~(k < Blocks[t]) /\ ld'.at = "q0" /\ t + 1 \in Tile /\ ld'.t = t + 1 /\ ld'.k = 1
         \/ ld.at = "v" /\ ~(k < Blocks[t]) /\ ld'.at = "end" /\ ~(t + 1 \in Tile) /\ ld'.t = t + 1 /\ ld'.k = 1
  BY <1>1, <1>2, LoadKVGo
<1>6. LdNext' = LdNext + 1
  <2>1. LdNext' = 2 * (Start[ld'.t] + ld'.k - 1) + If1(ld'.at \in {"q1", "v"})
    BY DEF LdNext, If1
  <2>2. CASE ld.at = "k"
    <3>1. ld'.t = t /\ ld'.k = k /\ If1(ld'.at \in {"q1", "v"}) = 1
      BY <1>5, <2>2 DEF If1
    <3> QED
      BY <1>3, <1>4, <2>1, <2>2, <3>1
  <2>3. CASE ld.at = "v" /\ k < Blocks[t]
    <3>1. ld'.t = t /\ ld'.k = k + 1 /\ If1(ld'.at \in {"q1", "v"}) = 0
      BY <1>5, <2>3 DEF If1
    <3> QED
      BY <1>3, <1>4, <2>1, <2>3, <3>1
  <2>4. CASE ld.at = "v" /\ ~(k < Blocks[t])
    <3>1. ld'.t = t + 1 /\ ld'.k = 1 /\ If1(ld'.at \in {"q1", "v"}) = 0
      BY <1>5, <2>4 DEF If1
    <3>2. k = Blocks[t]
      BY <1>3, <2>4
    <3> QED
      BY <1>3, <1>4, <2>1, <2>4, <3>1, <3>2
  <2> QED
    BY <1>1, <2>2, <2>3, <2>4
<1>7. \A s \in Slot : bar'[<<"kv_empty", s>>].seen = bar[<<"kv_empty", s>>].seen + If1(s = m)
  <2> SUFFICES ASSUME NEW s \in Slot PROVE bar'[<<"kv_empty", s>>].seen = bar[<<"kv_empty", s>>].seen + If1(s = m)
    OBVIOUS
  <2>1. <<"kv_empty", s>> \in Barrier
    BY NamesAre
  <2>2. <<"kv_empty", s>> \in {<<"kv_empty", ld.idx>>} <=> s = m
    BY <1>2
  <2> QED
    BY <1>1, <2>1, <2>2, DoneKept DEF If1
<1>8. LdNext' = KvStages * bar'[<<"kv_empty", ld'.idx>>].seen + ld'.idx
  <2>1. CASE m = KvStages - 1
    <3>1. ld'.idx = 0 /\ 0 \in Slot
      BY <1>1, <1>5, <2>1 DEF Slot
    <3>2. bar'[<<"kv_empty", 0>>].seen = n + 1
      <4>1. bar[<<"kv_empty", 0>>].seen = n + If1(0 < m)
        BY <1>1, <1>2, <3>1 DEF Seen
      <4>2. bar'[<<"kv_empty", 0>>].seen = bar[<<"kv_empty", 0>>].seen + If1(0 = m)
        BY <1>7, <3>1
      <4>3. If1(0 < m) + If1(0 = m) = 1 /\ If1(0 < m) \in Int /\ If1(0 = m) \in Int
        BY <1>4 DEF If1
      <4> QED
        BY <4>1, <4>2, <4>3
    <3>3. KvStages * (n + 1) + 0 = KvStages * n + m + 1
      BY <1>1, <2>1
    <3> QED
      BY <1>4, <1>6, <3>1, <3>2, <3>3
  <2>2. CASE m # KvStages - 1
    <3>1. ld'.idx = m + 1 /\ m + 1 \in Slot
      BY <1>1, <1>4, <1>5, <2>2 DEF Slot
    <3>2. bar'[<<"kv_empty", m + 1>>].seen = n
      <4>1. bar[<<"kv_empty", m + 1>>].seen = n + If1(m + 1 < m)
        BY <1>1, <1>2, <3>1 DEF Seen
      <4>2. bar'[<<"kv_empty", m + 1>>].seen = bar[<<"kv_empty", m + 1>>].seen + If1(m + 1 = m)
        BY <1>7, <3>1
      <4>3. If1(m + 1 < m) = 0 /\ If1(m + 1 = m) = 0
        BY <1>4 DEF If1
      <4> QED
        BY <4>1, <4>2, <4>3
    <3> QED
      BY <1>1, <1>4, <1>6, <3>1, <3>2
  <2> QED
    BY <2>1, <2>2
<1>9. LdPlaced'
  <2>1. ld'.t \in 1..(Tiles + 1) /\ (ld'.at # "end" => ld'.k \in 1..Blocks[ld'.t])
    <3>1. CASE ld'.t = t
      BY <1>3, <1>5, <3>1
    <3>2. CASE ld'.t = t + 1 /\ ld'.at = "q0" /\ t + 1 \in Tile /\ ld'.k = 1
      <4>1. Blocks[t + 1] \in Int /\ 1 <= Blocks[t + 1]
        BY <3>2, StartIs, TileIs
      <4> QED
        BY <1>3, <3>2, <4>1
    <3>3. CASE ld'.t = t + 1 /\ ld'.at = "end"
      BY <1>3, <3>3
    <3> QED
      BY <1>5, <3>1, <3>2, <3>3
  <2>2. ld'.at = "end" => ld'.t = Tiles + 1
    BY <1>3, <1>5, TileIs
  <2>3. ld'.at = "q1" => ld'.k = 1
    BY <1>5
  <2> QED
    BY <1>8, <2>1, <2>2, <2>3 DEF LdPlaced, Seen
<1>10. PICK b : b = Start[t] + k
  OBVIOUS
<1>11. IsBlock(ld.t, ld.k, b) /\ b \in Int
       /\ KvStages * Seen("kv_empty", ld.idx) + ld.idx = 2 * (b - 1) + (IF ld.at = "k" THEN 0 ELSE 1)
  <2>1. IsBlock(ld.t, ld.k, b)
    BY <1>2, <1>3, <1>10 DEF IsBlock
  <2> QED
    BY <1>2, <1>3, <1>4, <1>10, <2>1
<1> QED
  BY <1>9, <1>11

LEMMA LoadKVContents == ASSUME CInv, LoadKV PROVE Contents'
<1>0. /\ FlightInv /\ Contents /\ OperandInv /\ Covered /\ BarType /\ BarOK /\ LdPlaced /\ MmPlaced /\ KvHolds
      /\ ld.idx \in Slot /\ mm.idx \in Slot /\ mm.v \in Slot
  BY DEF CInv, FlightInv, HandInv, OperandInv, Types, Contents, LdType, MmType, MmRecord
<1> DEFINE tag == IF ld.at = "k" THEN KTag(ld.t, ld.k) ELSE VTag(ld.t, ld.k)
<1>1. PICK m : m = ld.idx
  OBVIOUS
<1>2. /\ WaitThenArrive(<<"kv_empty", m>>, ld.ph, {}) /\ UNCHANGED <<tc, mm, sm, co, ep, out>>
      /\ StartLoad(<<"KV", m>>, tag, <<"kv_full", m>>) /\ ld.at \in {"k", "v"}
  BY <1>1 DEF LoadKV
<1>3. Moves({<<"kv_empty", m>>}, {}) /\ m \in Slot
  BY <1>0, <1>1, <1>2, WaitMoves
<1>4. PICK b : IsBlock(ld.t, ld.k, b) /\ b \in Int /\ KvStages * Seen("kv_empty", m) + m = 2 * (b - 1) + (IF ld.at = "k" THEN 0 ELSE 1)
  BY <1>0, <1>1, <1>3, LoadKVPlaced
<1>5. LdPlaced'
  BY <1>0, <1>1, <1>3, LoadKVPlaced
<1>6. Done("kv_empty", m) = Seen("kv_empty", m) /\ ~Landing(<<"kv_full", m>>)
  BY <1>0, <1>1, <1>2, LoadKVFree DEF Done, Seen
<1>7. KvIdle(m) /\ Done("kv_full", m) = Seen("kv_full", m) /\ Done("kv_full", m) = Seen("kv_empty", m)
  BY <1>0, <1>3, <1>6, KvIdleIs, IdleCounts
<1>8. IsItem(tag, KvStages * Done("kv_full", m) + m)
  <2>0. PICK n : n = KvStages * Done("kv_full", m) + m
    OBVIOUS
  <2>00. PICK t, k : t = ld.t /\ k = ld.k
    OBVIOUS
  <2>01. IsBlock(t, k, b) /\ n = 2 * (b - 1) + (IF ld.at = "k" THEN 0 ELSE 1)
    BY <1>4, <1>7, <2>0, <2>00
  <2>1. CASE ld.at = "k"
    <3>1. PICK v \in 0..1 : v = 0
      OBVIOUS
    <3>2. IsBlock(t, k, b) /\ n = 2 * (b - 1) + v
      BY <2>01, <2>1, <3>1
    <3>3. IsItem(<<t, k, v>>, n)
      BY <3>2, ItemMade
    <3> QED
      BY <2>0, <2>00, <2>1, <3>1, <3>3 DEF KTag
  <2>2. CASE ld.at = "v"
    <3>1. PICK v \in 0..1 : v = 1
      OBVIOUS
    <3>2. IsBlock(t, k, b) /\ n = 2 * (b - 1) + v
      BY <2>01, <2>2, <3>1
    <3>3. IsItem(<<t, k, v>>, n)
      BY <3>2, ItemMade
    <3> QED
      BY <2>0, <2>00, <2>2, <3>1, <3>3 DEF VTag
  <2> QED
    BY <1>2, <2>1, <2>2
<1> HIDE DEF tag
<1>9. <<"KV", m>> \in Region /\ mem' = Put(mem, <<"KV", m>>, Garbage)
      /\ tma' = tma \cup {[dst |-> <<"KV", m>>, tag |-> tag, full |-> <<"kv_full", m>>]}
  BY <1>2, <1>3, NamesIn DEF StartLoad
<1>10. \A q \in Region : q # <<"KV", m>> => mem'[q] = mem[q]
  <2>1. LoadTouches(<<"KV", m>>)
    BY <1>9, PutLoads
  <2> QED
    BY <2>1 DEF LoadTouches
<1>11. SameCount({"kv_full", "q_full", "S_full"})
  BY <1>0, <1>3, CountsSame
<1>12. /\ SameCount({"S_full"}) /\ SameCount({"q_full"})
       /\ \A s \in Slot : Done("kv_full", s)' = Done("kv_full", s) /\ Seen("kv_full", s)' = Seen("kv_full", s)
       /\ \A j \in {0, 1} : Done("q_full", j)' = Done("q_full", j) /\ Seen("q_full", j)' = Seen("q_full", j)
  BY <1>11, NamesAre, StageIs DEF SameCount, Done, Seen
<1>13. LoadKept
  <2>1. \A x \in DOMAIN tc : tc[x].slot # m
    BY <1>0, <1>3, <1>7, IdleOps
  <2>2. LoadTouches(<<"KV", m>>)
    BY <1>9, PutLoads
  <2> QED
    BY <1>0, <1>2, <1>9, <1>12, <2>1, <2>2, LoadOthers
<1>14. MmPlaced'
  BY <1>0, <1>2, <1>12 DEF MmPlaced, MmNext, MmBlocks, HoldsV, HoldsNext, Last, Before
<1>15. KvHolds'
  <2>1. UNCHANGED <<HoldsNext, HoldsV, MmNext, MmBlocks>>
    BY <1>2 DEF HoldsNext, HoldsV, MmNext, MmBlocks, Last
  <2>2. \A s \in Slot : s # m => mem'[<<"KV", s>>] = mem[<<"KV", s>>]
    BY <1>10, NamesIn
  <2>3. (HoldsNext => mm.idx # m) /\ (HoldsV => mm.v # m)
    <3>1. Holds(m) = 0
      BY <1>7 DEF KvIdle
    <3> QED
      BY <3>1 DEF Holds, If1
  <2>4. ASSUME NEW x \in tma', NEW s \in Slot, x.full = <<"kv_full", s>>
        PROVE  IsItem(x.tag, KvStages * Done("kv_full", s)' + s)
    <3>1. CASE x \in tma
      BY <1>0, <1>12, <2>4, <3>1 DEF KvHolds
    <3>2. CASE x = [dst |-> <<"KV", m>>, tag |-> tag, full |-> <<"kv_full", m>>]
      BY <1>8, <1>12, <2>4, <3>2
    <3> QED
      BY <1>9, <3>1, <3>2
  <2>5. ASSUME NEW s \in Slot, Done("kv_full", s)' = Seen("kv_full", s)' + 1
        PROVE  IsItem(mem'[<<"KV", s>>], KvStages * Seen("kv_full", s)' + s)
    <3>1. s # m
      <4>1. Seen("kv_full", m) \in Int
        BY <1>0, <1>3, SlotFacts
      <4> QED
        BY <1>7, <1>12, <2>5, <4>1
    <3> QED
      BY <1>0, <1>12, <2>2, <2>5, <3>1 DEF KvHolds
  <2>6. (HoldsNext => IsItem(mem[<<"KV", mm.idx>>], MmNext))' /\ (HoldsV => IsItem(mem[<<"KV", mm.v>>], 2 * MmBlocks - 1))'
    BY <1>0, <1>2, <2>1, <2>2, <2>3 DEF KvHolds
  <2> QED
    BY <2>4, <2>5, <2>6 DEF KvHolds
<1>16. ASSUME NEW j \in {0, 1} PROVE QHolds(j)'
  <2>1. QHolds(j) /\ HoldsQ(j)' = HoldsQ(j) /\ mem'[<<"Q", j>>] = mem[<<"Q", j>>]
    BY <1>0, <1>2, <1>10, NamesIn DEF HoldsQ, QTaken, QGiven, Last, MmOver, Contents, StageHolds
  <2>2. \A x \in tma' : x.full = <<"q_full", j>> => x \in tma
    BY <1>9
  <2> QED
    BY <1>2, <1>12, <2>1, <2>2 DEF QHolds
<1> QED
  BY <1>5, <1>13, <1>14, <1>15, <1>16 DEF Contents, LoadKept, StageHolds

\* A bulk load lands: what it brought is what was due.
LEMMA LandRing ==
    ASSUME OperandInv, Contents, NEW x \in tma, NEW m \in Slot, x.full = <<"kv_full", m>>, x.dst = <<"KV", m>>,
           tma' = tma \ {x}, UNCHANGED mm, Moves({}, {x.full}), mem'[x.dst] = x.tag,
           \A s \in Slot : s # m => mem'[<<"KV", s>>] = mem[<<"KV", s>>]
    PROVE  KvHolds'
<1>0. /\ KvHolds /\ BarType /\ BarOK /\ mm.idx \in Slot /\ mm.v \in Slot
      /\ \A y, z \in tma : y.full = z.full => y = z
  BY DEF Contents, OperandInv, Types, MmType, MmRecord, LdInv, TmaApart
<1>1. Landing(<<"kv_full", m>>)
  BY DEF Landing
<1>2. (HoldsNext => mm.idx # m) /\ (HoldsV => mm.v # m)
  <2>1. KvIdle(m)
    BY <1>1, KvIdleIs
  <2> QED
    BY <2>1 DEF KvIdle, Holds, If1
<1>3. UNCHANGED <<HoldsNext, HoldsV, MmNext, MmBlocks>>
  BY DEF HoldsNext, HoldsV, MmNext, MmBlocks, Last
<1>4. \A s \in Slot : /\ Seen("kv_full", s)' = Seen("kv_full", s) /\ Done("kv_full", s) \in Int /\ Seen("kv_full", s) \in Int
                      /\ s # m => Done("kv_full", s)' = Done("kv_full", s)
                      /\ Done("kv_full", m)' = Done("kv_full", m) + 1
  <2> SUFFICES ASSUME NEW s \in Slot
               PROVE  /\ Seen("kv_full", s)' = Seen("kv_full", s) /\ Done("kv_full", s) \in Int /\ Seen("kv_full", s) \in Int
                      /\ s # m => Done("kv_full", s)' = Done("kv_full", s)
                      /\ Done("kv_full", m)' = Done("kv_full", m) + 1
    OBVIOUS
  <2>0. <<"kv_full", s>> \in Barrier /\ <<"kv_full", m>> \in Barrier
    BY NamesAre
  <2>1. <<"kv_full", s>> \in Barrier /\ <<"kv_full", m>> \in Barrier /\ (s # m => <<"kv_full", s>> \notin {x.full})
    <3>1. s # m => <<"kv_full", s>> # <<"kv_full", m>>
      OBVIOUS
    <3> QED
      BY <2>0, <3>1
  <2>2. /\ bar'[<<"kv_full", s>>].seen = bar[<<"kv_full", s>>].seen + 0
        /\ bar[<<"kv_full", s>>].done \in Int /\ bar[<<"kv_full", s>>].seen \in Int
        /\ s # m => bar'[<<"kv_full", s>>].done = bar[<<"kv_full", s>>].done
        /\ bar'[<<"kv_full", m>>].done = bar[<<"kv_full", m>>].done + 1
    BY <1>0, <2>1, DoneKept DEF If1
  <2> QED
    BY <2>2 DEF Done, Seen
<1>5. ASSUME NEW y \in tma', NEW s \in Slot, y.full = <<"kv_full", s>>
      PROVE  IsItem(y.tag, KvStages * Done("kv_full", s)' + s)
  <2>1. y \in tma /\ y # x
    OBVIOUS
  <2>2. s # m
    BY <1>0, <1>5, <2>1
  <2> QED
    BY <1>0, <1>4, <1>5, <2>1, <2>2 DEF KvHolds
<1>6. ASSUME NEW s \in Slot, Done("kv_full", s)' = Seen("kv_full", s)' + 1
      PROVE  IsItem(mem'[<<"KV", s>>], KvStages * Seen("kv_full", s)' + s)
  <2>1. CASE s = m
    <3>1. Seen("kv_full", m)' = Done("kv_full", m)
      BY <1>4, <1>6, <2>1
    <3>2. IsItem(x.tag, KvStages * Done("kv_full", m) + m)
      BY <1>0 DEF KvHolds
    <3> QED
      BY <2>1, <3>1, <3>2
  <2>2. CASE s # m
    BY <1>0, <1>4, <1>6, <2>2 DEF KvHolds
  <2> QED
    BY <2>1, <2>2
<1>7. (HoldsNext => IsItem(mem[<<"KV", mm.idx>>], MmNext))' /\ (HoldsV => IsItem(mem[<<"KV", mm.v>>], 2 * MmBlocks - 1))'
  BY <1>0, <1>2, <1>3 DEF KvHolds
<1> QED
  BY <1>5, <1>6, <1>7 DEF KvHolds

LEMMA LandQ ==
    ASSUME OperandInv, NEW i \in {0, 1}, QHolds(i), NEW x \in tma, x.full = <<"q_full", i>>, x.dst = <<"Q", i>>,
           tma' = tma \ {x}, UNCHANGED mm, Moves({}, {x.full}), mem'[x.dst] = x.tag
    PROVE  QHolds(i)'
<1>0. /\ BarType /\ BarOK /\ \A y, z \in tma : y.full = z.full => y = z
  BY DEF OperandInv, Types, LdInv, TmaApart
<1>1. Landing(<<"q_full", i>>)
  BY DEF Landing
<1>2. HoldsQ(i)' = HoldsQ(i) /\ HoldsQ(i) = 0
  <2>1. QIdle(i)
    BY <1>1, QIdleIs
  <2> QED
    BY <2>1 DEF QIdle, HoldsQ, QTaken, QGiven, Last, MmOver
<1>3. /\ Seen("q_full", i)' = Seen("q_full", i) /\ Done("q_full", i) \in Int /\ Seen("q_full", i) \in Int
      /\ Done("q_full", i)' = Done("q_full", i) + 1
  <2>1. <<"q_full", i>> \in Barrier
    BY NamesAre, StageIs
  <2>2. /\ bar'[<<"q_full", i>>].seen = bar[<<"q_full", i>>].seen + 0
        /\ bar[<<"q_full", i>>].done \in Int /\ bar[<<"q_full", i>>].seen \in Int
        /\ bar'[<<"q_full", i>>].done = bar[<<"q_full", i>>].done + 1
    BY <1>0, <2>1, DoneKept DEF If1
  <2> QED
    BY <2>2 DEF Done, Seen
<1>4. \A y \in tma' : y.full # <<"q_full", i>>
  BY <1>0
<1>5. x.tag = QTag(Done("q_full", i) + 1)
  BY DEF QHolds
<1> QED
  BY <1>2, <1>3, <1>4, <1>5 DEF QHolds

LEMMA TmaLandContents == ASSUME CInv, TmaLand PROVE Contents'
<1>0. /\ FlightInv /\ Contents /\ OperandInv /\ Covered /\ BarType /\ BarOK /\ LdPlaced /\ MmPlaced /\ KvHolds
      /\ ld.idx \in Slot /\ mm.idx \in Slot /\ mm.v \in Slot /\ TmaApart
  BY DEF CInv, FlightInv, HandInv, OperandInv, Types, Contents, LdType, MmType, MmRecord, LdInv
<1>1. PICK x \in tma : /\ tma' = tma \ {x} /\ mem' = Put(mem, x.dst, x.tag) /\ Arrive({x.full})
                       /\ UNCHANGED <<tc, ld, mm, sm, co, ep, out>>
  BY DEF TmaLand
<1>2. Moves({}, {x.full})
  BY <1>0, <1>1, ArriveMoves
<1>3. \/ \E i \in {0, 1} : x.full = <<"q_full", i>> /\ x.dst = <<"Q", i>>
      \/ \E s \in Slot : x.full = <<"kv_full", s>> /\ x.dst = <<"KV", s>>
  BY <1>0, StageIs DEF TmaApart
<1>4. x.dst \in Region /\ x.dst[1] \in {"Q", "KV"}
  BY <1>3, NamesIn
<1>5. LoadTouches(x.dst) /\ mem'[x.dst] = x.tag
  BY <1>1, <1>4, PutLoads
<1>6. SameCount({"S_full", "kv_empty"})
  <2>1. x.full[1] \notin {"S_full", "kv_empty"}
    BY <1>3
  <2> QED
    BY <1>0, <1>2, <2>1, CountsSame
<1>7. SameCount({"S_full"}) /\ \A s \in Slot : Seen("kv_empty", s)' = Seen("kv_empty", s)
  BY <1>6, NamesAre DEF SameCount, Seen
<1>8. LdPlaced'
  <2>1. Seen("kv_empty", ld.idx)' = Seen("kv_empty", ld.idx)
    <3>1. bar'[<<"kv_empty", ld.idx>>].seen = bar[<<"kv_empty", ld.idx>>].seen
      BY <1>0, <1>7 DEF Seen
    <3> QED
      BY <1>1, <3>1 DEF Seen
  <2> QED
    BY <1>0, <1>1, <2>1 DEF LdPlaced, LdNext, If1
<1>9. \A s \in Slot : Seen("kv_full", s)' = Seen("kv_full", s)
  <2> SUFFICES ASSUME NEW s \in Slot PROVE bar'[<<"kv_full", s>>].seen = bar[<<"kv_full", s>>].seen
    BY DEF Seen
  <2>1. <<"kv_full", s>> \in Barrier
    BY NamesAre
  <2>2. bar'[<<"kv_full", s>>].seen = bar[<<"kv_full", s>>].seen + 0 /\ bar[<<"kv_full", s>>].seen \in Int
    BY <1>0, <1>2, <2>1, DoneKept DEF If1
  <2> QED
    BY <2>2
<1>10. MmPlaced'
  <2>1. Seen("kv_full", mm.idx)' = Seen("kv_full", mm.idx)
    <3>1. bar'[<<"kv_full", mm.idx>>].seen = bar[<<"kv_full", mm.idx>>].seen
      BY <1>0, <1>9 DEF Seen
    <3> QED
      BY <1>1, <3>1 DEF Seen
  <2> QED
    BY <1>0, <1>1, <2>1 DEF MmPlaced, MmNext, MmBlocks, HoldsV, HoldsNext, Last, Before
<1>11. ASSUME NEW i \in {0, 1}, x.full # <<"q_full", i>>, x.dst # <<"Q", i>> PROVE QHolds(i)'
  <2>1. QHolds(i) /\ HoldsQ(i)' = HoldsQ(i)
    BY <1>0, <1>1 DEF HoldsQ, QTaken, QGiven, Last, MmOver, Contents, StageHolds
  <2>2. mem'[<<"Q", i>>] = mem[<<"Q", i>>]
    <3>1. <<"Q", i>> \in Region
      BY NamesIn
    <3> QED
      BY <1>5, <1>11, <3>1 DEF LoadTouches
  <2>3. Done("q_full", i)' = Done("q_full", i) /\ Seen("q_full", i)' = Seen("q_full", i)
    <3>1. <<"q_full", i>> \in Barrier /\ <<"q_full", i>> \notin {x.full}
      BY <1>11, NamesAre, StageIs
    <3>2. bar'[<<"q_full", i>>].seen = bar[<<"q_full", i>>].seen + 0 /\ bar[<<"q_full", i>>].seen \in Int
          /\ bar'[<<"q_full", i>>].done = bar[<<"q_full", i>>].done
      BY <1>0, <1>2, <3>1, DoneKept DEF If1
    <3> QED
      BY <3>2 DEF Done, Seen
  <2> QED
    BY <1>1, <2>1, <2>2, <2>3 DEF QHolds
<1>12. CASE \E i \in {0, 1} : x.full = <<"q_full", i>> /\ x.dst = <<"Q", i>>
  <2>1. PICK i \in {0, 1} : x.full = <<"q_full", i>> /\ x.dst = <<"Q", i>>
    BY <1>12
  <2>2. Landing(<<"q_full", i>>) /\ QIdle(i)
    <3>1. Landing(<<"q_full", i>>)
      BY <2>1 DEF Landing
    <3> QED
      BY <1>0, <3>1, QIdleIs
  <2>3. LoadKept
    <3>1. \A m \in DOMAIN tc : tc[m].kind = "QK" => tc[m].st # i
      BY <1>0, <2>2, IdleOps
    <3>2. OverlapSOSQ => ~(CoEnding \/ co.t # 1)
      BY <1>0, <2>2, OverlapOver DEF QOver
    <3> QED
      BY <1>0, <1>1, <1>4, <1>5, <1>7, <2>1, <3>1, <3>2, LoadOthers
  <2>4. QHolds(i)'
    <3>1. QHolds(i)
      BY <1>0 DEF Contents, StageHolds
    <3> QED
      BY <1>0, <1>1, <1>2, <1>5, <2>1, <3>1, LandQ
  <2>5. \A j \in {0, 1} : QHolds(j)'
    BY <1>11, <2>1, <2>4
  <2>6. KvHolds'
    <3>1. \A s \in Slot : mem'[<<"KV", s>>] = mem[<<"KV", s>>]
      <4> SUFFICES ASSUME NEW s \in Slot PROVE mem'[<<"KV", s>>] = mem[<<"KV", s>>]
        OBVIOUS
      <4>1. <<"KV", s>> \in Region
        BY NamesIn
      <4>2. <<"KV", s>> # <<"Q", i>> /\ <<"KV", s>>[1] = "KV"
        OBVIOUS
      <4> QED
        BY <1>5, <2>1, <4>1, <4>2 DEF LoadTouches
    <3>2. \A s \in Slot : Done("kv_full", s)' = Done("kv_full", s)
      <4> SUFFICES ASSUME NEW s \in Slot PROVE bar'[<<"kv_full", s>>].done = bar[<<"kv_full", s>>].done
        BY DEF Done
      <4>1. <<"kv_full", s>> \in Barrier
        BY NamesAre
      <4>2. <<"kv_full", s>> # <<"q_full", i>>
        OBVIOUS
      <4> QED
        BY <1>0, <1>2, <2>1, <4>1, <4>2, DoneKept
    <3>3. UNCHANGED <<HoldsNext, HoldsV, MmNext, MmBlocks>>
      BY <1>1 DEF HoldsNext, HoldsV, MmNext, MmBlocks, Last
    <3> QED
      BY <1>0, <1>1, <1>9, <3>1, <3>2, <3>3 DEF KvHolds
  <2> QED
    BY <1>8, <1>10, <2>3, <2>5, <2>6 DEF Contents, LoadKept, StageHolds
<1>13. CASE \E s \in Slot : x.full = <<"kv_full", s>> /\ x.dst = <<"KV", s>>
  <2>1. PICK s \in Slot : x.full = <<"kv_full", s>> /\ x.dst = <<"KV", s>>
    BY <1>13
  <2>2. Landing(<<"kv_full", s>>) /\ KvIdle(s)
    <3>1. Landing(<<"kv_full", s>>)
      BY <2>1 DEF Landing
    <3> QED
      BY <1>0, <3>1, KvIdleIs
  <2>3. LoadKept
    <3>1. \A m \in DOMAIN tc : tc[m].slot # s
      BY <1>0, <2>2, IdleOps
    <3> QED
      BY <1>0, <1>1, <1>4, <1>5, <1>7, <2>1, <3>1, LoadOthers
  <2>4. \A j \in {0, 1} : QHolds(j)'
    BY <1>11, <2>1
  <2>5. KvHolds'
    <3>1. \A n \in Slot : n # s => mem'[<<"KV", n>>] = mem[<<"KV", n>>]
      <4>1. \A n \in Slot : <<"KV", n>> \in Region
        BY NamesIn
      <4> QED
        BY <1>5, <2>1, <4>1 DEF LoadTouches
    <3> QED
      BY <1>0, <1>1, <1>2, <1>5, <2>1, <3>1, LandRing
  <2> QED
    BY <1>8, <1>10, <2>3, <2>4, <2>5 DEF Contents, LoadKept, StageHolds
<1> QED
  BY <1>3, <1>12, <1>13

-----------------------------------------------------------------------------
(* The MMA warp in the order of items. *)

\* Where a step takes it: it stays at its item or goes on to the next, V in hand was in hand
\* before, was at its index, or was just taken; Q is of its tile.
MmOrder(w) ==
    /\ \/ Keeps /\ MmNext' = MmNext
       \/ Turns /\ MmNext' = MmNext + 1
    /\ HoldsV' => \/ HoldsV /\ mm'.v = mm.v /\ MmBlocks' = MmBlocks
                  \/ /\ HoldsNext \/ <<"kv_full", mm.idx>> \in w
                     /\ mm'.v = mm.idx /\ 2 * MmBlocks' - 1 = MmNext
    /\ \A i \in {0, 1} : HoldsQ(i)' > 0 => mm'.t = mm.t
    /\ mm.at = "end" => mm'.at = "end"

MmThere == /\ MmWhere /\ MmStarts /\ MmPlace /\ VIsNext /\ MmBlocks \in Int /\ MmBlocks = Start[mm.t] + mm.k

LEMMA MmThereIs == ASSUME OperandInv PROVE MmThere
<1>1. MmType /\ MmPlace /\ VIsNext
  BY DEF OperandInv, Types, MmInv
<1>2. MmWhere /\ MmStarts
  BY <1>1, MmIsSomewhere, MmStartsIs
<1>3. MmBlocks \in Int
  BY <1>2 DEF MmWhere, MmStarts, MmBlocks
<1> QED
  BY <1>1, <1>2, <1>3 DEF MmThere, MmBlocks

\* At its index, before and after.
LEMMA MmTurnsOn ==
    ASSUME OperandInv, NEW w, NEW sig, MmStep(w, sig), Moves(w, {}), MmPlaced, MmOrder(w)
    PROVE  /\ MmPlaced'
           /\ HoldsNext' => Keeps /\ MmNext' = MmNext /\ (HoldsNext \/ <<"kv_full", mm.idx>> \in w)
<1>1. PICK m \in Slot : m = mm.idx /\ mm.idx \in Slot /\ mm.ph \in Bit
  BY DEF OperandInv, Types, MmType, MmRecord
<1>2. KvStages \in Int /\ 1 <= KvStages /\ m \in Int /\ 0 <= m /\ m <= KvStages - 1
  BY <1>1, ConfigAssumption DEF Slot
<1>3. \A s \in Slot : Seen("kv_full", s) \in Int /\ Seen("kv_full", s) = Before + If1(s < m) + If1(HoldsNext /\ s = m)
  BY <1>1, SlotFacts DEF OperandInv, MmInv, MmRing
<1>4. \A s \in Slot : bar'[<<"kv_full", s>>].seen = Seen("kv_full", s) + If1(<<"kv_full", s>> \in w)
  <2>1. \A s \in Slot : <<"kv_full", s>> \in Barrier
    BY NamesAre
  <2> QED
    BY <2>1 DEF Moves, Seen
<1>5. Before \in Int /\ If1(HoldsNext) \in Int /\ If1(<<"kv_full", m>> \in w) \in Int /\ Before = Seen("kv_full", m) - If1(HoldsNext)
  BY <1>1, <1>3 DEF Before, If1
<1>6. PICK n \in Int, h \in Int, g \in Int : n = Before /\ h = If1(HoldsNext) /\ g = If1(<<"kv_full", m>> \in w)
  BY <1>5
<1>7. Before' = bar'[<<"kv_full", mm'.idx>>].seen - If1(HoldsNext)'
  BY DEF Before, Seen
<1>8. \A s \in Slot : s # m => <<"kv_full", s>> \notin w
  <2> SUFFICES ASSUME NEW s \in Slot, s # m, <<"kv_full", s>> \in w PROVE FALSE
    OBVIOUS
  <2>1. <<"kv_full", s>> = <<"kv_full", mm.idx>>
    BY DEF MmStep
  <2> QED
    BY <1>1, <2>1
<1>9. ~(Keeps /\ Turns)
  <2>1. mm.ph # 1 - mm.ph
    BY <1>1 DEF Bit
  <2>2. m # m + 1 /\ m # KvStages - 1 => mm.idx # mm.idx + 1
    BY <1>1, <1>2
  <2> QED
    BY <1>1, <1>2, <2>1, <2>2 DEF Keeps, Turns
<1>10. MmNext = KvStages * n + m
  BY <1>1, <1>6 DEF MmPlaced
<1>11. CASE Keeps
  <2>1. MmNext' = MmNext /\ If1(HoldsNext)' = h + g /\ mm'.idx = m
    BY <1>1, <1>6, <1>9, <1>11 DEF MmOrder, MmStep, MmHand, Keeps
  <2>2. Before' = n
    <3>1. bar'[<<"kv_full", mm'.idx>>].seen = Seen("kv_full", m) + g /\ Seen("kv_full", m) \in Int
      BY <1>1, <1>3, <1>4, <1>6, <2>1
    <3>2. Seen("kv_full", m) = n + h
      BY <1>1, <1>3, <1>5, <1>6
    <3> QED
      BY <1>7, <2>1, <3>1, <3>2
  <2>3. MmPlaced'
    BY <1>10, <2>1, <2>2 DEF MmPlaced
  <2>4. HoldsNext' => HoldsNext \/ <<"kv_full", mm.idx>> \in w
    <3>1. HoldsNext' => If1(HoldsNext)' = 1
      BY DEF If1
    <3>2. h + g = 1 => HoldsNext \/ <<"kv_full", m>> \in w
      BY <1>6 DEF If1
    <3> QED
      BY <1>1, <2>1, <3>1, <3>2
  <2> QED
    BY <1>11, <2>1, <2>3, <2>4
<1>12. CASE Turns
  <2>1. MmNext' = MmNext + 1 /\ If1(HoldsNext)' = 0 /\ h + g = 1
    BY <1>1, <1>6, <1>9, <1>12 DEF MmOrder, MmStep, MmHand
  <2>2. ~HoldsNext'
    BY <2>1 DEF If1
  <2>3. MmPlaced'
    <3>1. CASE m = KvStages - 1
      <4>1. mm'.idx = 0 /\ 0 \in Slot
        BY <1>1, <1>2, <1>12, <3>1 DEF Turns, Slot
      <4>2. bar'[<<"kv_full", 0>>].seen = n + 1
        <5>1. CASE m = 0
          <6>1. Seen("kv_full", m) = n + h
            BY <1>1, <1>3, <1>5, <1>6
          <6>2. bar'[<<"kv_full", m>>].seen = Seen("kv_full", m) + g
            BY <1>1, <1>4, <1>6
          <6> QED
            BY <2>1, <5>1, <6>1, <6>2
        <5>2. CASE m # 0
          <6>1. Seen("kv_full", 0) = n + If1(0 < m) + If1(HoldsNext /\ 0 = m) /\ Seen("kv_full", 0) \in Int
            BY <1>3, <1>6, <4>1
          <6>2. If1(0 < m) = 1 /\ If1(HoldsNext /\ 0 = m) = 0
            BY <1>2, <5>2 DEF If1
          <6>3. bar'[<<"kv_full", 0>>].seen = Seen("kv_full", 0) + 0
            BY <1>4, <1>8, <4>1, <5>2 DEF If1
          <6> QED
            BY <6>1, <6>2, <6>3
        <5> QED
          BY <5>1, <5>2
      <4>3. Before' = n + 1
        BY <1>7, <2>1, <4>1, <4>2
      <4>4. MmNext + 1 = KvStages * (n + 1) + 0
        BY <1>2, <1>10, <3>1
      <4> QED
        BY <2>1, <4>1, <4>3, <4>4 DEF MmPlaced
    <3>2. CASE m # KvStages - 1
      <4>1. mm'.idx = m + 1 /\ m + 1 \in Slot
        BY <1>1, <1>2, <1>12, <3>2 DEF Turns, Slot
      <4>2. bar'[<<"kv_full", m + 1>>].seen = n
        <5>1. Seen("kv_full", m + 1) = n + If1(m + 1 < m) + If1(HoldsNext /\ m + 1 = m) /\ Seen("kv_full", m + 1) \in Int
          BY <1>3, <1>6, <4>1
        <5>2. If1(m + 1 < m) = 0 /\ If1(HoldsNext /\ m + 1 = m) = 0 /\ m + 1 # m
          BY <1>2 DEF If1
        <5>3. bar'[<<"kv_full", m + 1>>].seen = Seen("kv_full", m + 1) + 0
          BY <1>4, <1>8, <4>1, <5>2 DEF If1
        <5> QED
          BY <5>1, <5>2, <5>3
      <4>3. Before' = n
        BY <1>7, <2>1, <4>1, <4>2
      <4>4. MmNext + 1 = KvStages * n + (m + 1)
        BY <1>2, <1>10
      <4> QED
        BY <2>1, <4>1, <4>3, <4>4 DEF MmPlaced
    <3> QED
      BY <3>1, <3>2
  <2> QED
    BY <2>2, <2>3
<1> QED
  BY <1>11, <1>12 DEF MmOrder

-----------------------------------------------------------------------------
(* Step by step. *)

LEMMA MmaWaitOrder ==
    ASSUME OperandInv, NEW w, MmaWaitQ \/ MmaWaitK \/ MmaIssuePV \/ MmaDealloc
    PROVE  MmOrder(w)
<1>1. MmThere /\ mm \in MmRecord
  BY MmThereIs DEF MmThere, MmWhere
<1>2. /\ mm'.t = mm.t /\ mm'.k = mm.k /\ mm'.st = mm.st /\ mm'.v = mm.v /\ Keeps
      /\ \/ mm.at = "q" /\ mm'.at = (IF mm.st = 0 THEN "k" ELSE "qk")
         \/ mm.at = "k" /\ mm'.at = "qk"
         \/ mm.at = "p" /\ mm'.at = "p2"
         \/ mm.at = "dealloc" /\ mm'.at = "end"
  <2>1. CASE MmaWaitQ
    BY <1>1, <2>1 DEF MmaWaitQ, MmRecord, Keeps
  <2>2. CASE MmaWaitK
    BY <1>1, <2>2 DEF MmaWaitK, MmRecord, Keeps
  <2>3. CASE MmaIssuePV
    BY <1>1, <2>3 DEF MmaIssuePV, MmRecord, Keeps
  <2>4. CASE MmaDealloc
    BY <1>1, <2>4 DEF MmaDealloc, MmRecord, Keeps
  <2> QED
    BY <2>1, <2>2, <2>3, <2>4
<1>3. (mm.at = "q" => mm.k = 0) /\ (mm.at = "dealloc" => mm.k = 0) /\ (mm.at \in {"v", "k"} => mm.st = 0) /\ (mm.at = "p" => mm.k # 0)
  BY <1>1 DEF MmThere, MmPlace, MmOver
<1>4. MmBlocks' = MmBlocks /\ (Last' <=> Last)
  BY <1>2 DEF MmBlocks, Last
<1>5. HoldsV' <=> HoldsV
  BY <1>2, <1>3, <1>4 DEF HoldsV
<1>6. MmNext' = MmNext
  <2>1. (mm.k > 0 /\ (mm.at = "v" \/ (mm.at \in {"p", "p2"} /\ ~HoldsV)))' <=> (mm.k > 0 /\ (mm.at = "v" \/ (mm.at \in {"p", "p2"} /\ ~HoldsV)))
    BY <1>2, <1>3, <1>5
  <2> QED
    BY <1>4, <2>1 DEF MmNext, If1
<1> QED
  BY <1>2, <1>4, <1>5, <1>6 DEF MmOrder

LEMMA MmaWaitVOrder == ASSUME OperandInv, MmaWaitV PROVE MmOrder({<<"kv_full", mm.idx>>})
<1>1. MmThere /\ MmType /\ mm.at = "v"
  BY MmThereIs DEF OperandInv, Types, MmaWaitV
<1>2. mm.st = 0 /\ mm.k > 0 /\ mm.t \in Tile /\ mm.k \in Int /\ MmBlocks \in Int
  BY <1>1 DEF MmThere, MmWhere, MmPlace, MmOver
<1>3. MmNext = 2 * MmBlocks - 1
  BY <1>1, <1>2 DEF MmNext, If1
<1>4. mm'.t = mm.t /\ mm'.k = mm.k /\ mm'.st = 0 /\ mm'.v = mm.idx
  BY <1>1, <1>2, MmaWaitVCases DEF MmTo
<1>5. MmBlocks' = MmBlocks /\ (Last' <=> LastBlock)
  BY <1>2, <1>4 DEF MmBlocks, Last, LastBlock, N
<1>6. CASE Decoupled /\ ~LastBlock /\ Turns /\ mm'.at = "k"
  <2>1. MmNext' = 2 * MmBlocks
    BY <1>2, <1>5, <1>6 DEF MmNext, If1
  <2> QED
    BY <1>1, <1>2, <1>3, <1>4, <1>5, <1>6, <2>1 DEF MmOrder
<1>7. CASE ~(Decoupled /\ ~LastBlock) /\ Keeps /\ mm'.at = "p"
  <2>1. ~HoldsV'
    BY <1>4, <1>5, <1>7 DEF HoldsV
  <2>2. MmNext' = 2 * MmBlocks - 1
    BY <1>2, <1>4, <1>5, <1>7, <2>1 DEF MmNext, If1
  <2> QED
    BY <1>1, <1>2, <1>3, <1>4, <1>7, <2>1, <2>2 DEF MmOrder
<1> QED
  BY <1>1, <1>6, <1>7, MmaWaitVCases DEF MmTo

LEMMA MmaIssueQKOrder == ASSUME OperandInv, NEW w, MmaIssueQK PROVE MmOrder(w)
<1>1. MmThere /\ MmType /\ mm.at = "qk"
  BY MmThereIs DEF OperandInv, Types, MmaIssueQK
<1>2. mm.t \in Tile /\ mm.k \in Int /\ 0 <= mm.k /\ MmBlocks \in Int /\ ~Last /\ mm.st \in {0, 1} /\ Start[mm.t] \in Int /\ MmBlocks = Start[mm.t] + mm.k
  BY <1>1 DEF MmThere, MmWhere, MmPlace, MmOver, MmStarts
<1>3. MmNext = 2 * MmBlocks
  BY <1>1, <1>2 DEF MmNext, If1
<1>4. mm'.t = mm.t /\ mm'.v = mm.v
  BY <1>1, MmaIssueQKCases DEF MmTo
<1>5. CASE Keeps /\ mm'.at = "q" /\ mm.k = 0 /\ mm'.k = 0
  <2>1. ~HoldsV' /\ MmBlocks' = MmBlocks
    BY <1>4, <1>5 DEF HoldsV, MmBlocks
  <2>2. MmNext' = 2 * MmBlocks
    BY <1>2, <1>5, <2>1 DEF MmNext, If1
  <2> QED
    BY <1>1, <1>3, <1>4, <1>5, <2>1, <2>2 DEF MmOrder
<1>6. CASE Turns /\ mm'.at = "v" /\ mm'.k = mm.k + 1
  <2>1. ~HoldsV' /\ MmBlocks' = MmBlocks + 1 /\ mm'.k > 0
    BY <1>2, <1>4, <1>6 DEF HoldsV, MmBlocks
  <2>2. MmNext' = 2 * (MmBlocks + 1) - 1
    BY <1>6, <2>1 DEF MmNext, If1
  <2>3. MmNext' = MmNext + 1
    BY <1>2, <1>3, <2>2
  <2> QED
    BY <1>1, <1>4, <1>6, <2>1, <2>3 DEF MmOrder
<1>7. CASE Keeps /\ mm'.at = "p" /\ mm'.k = mm.k /\ mm.k > 0 /\ HoldsV /\ HoldsV'
  <2>1. MmBlocks' = MmBlocks
    BY <1>4, <1>7 DEF MmBlocks
  <2>2. MmNext' = 2 * MmBlocks
    BY <1>2, <1>7, <2>1 DEF MmNext, If1
  <2> QED
    BY <1>1, <1>3, <1>4, <1>7, <2>1, <2>2 DEF MmOrder
<1>8. Last' <=> (mm'.t \in Tile /\ mm'.k = Blocks[mm'.t])
  BY DEF Last
<1>9. CASE Prologue /\ mm.st = 0 /\ Keeps /\ MmTo("q", mm.t, mm.k, 1, mm.v)
  BY <1>5, <1>9 DEF MmTo, Prologue
<1>10. CASE Turns /\ MmTo("v", mm.t, mm.k + 1, 0, mm.v)
  BY <1>6, <1>10 DEF MmTo
<1>11. CASE ~Prologue /\ Keeps /\ Decoupled /\ MmTo("p", mm.t, mm.k, mm.st, mm.v)
  <2>1. mm.k > 0 /\ mm'.k = mm.k /\ mm'.at = "p" /\ mm'.t = mm.t /\ ~Last'
    BY <1>2, <1>8, <1>11 DEF MmTo, Prologue, Last
  <2>2. HoldsV /\ HoldsV'
    BY <1>1, <1>2, <1>11, <2>1 DEF HoldsV
  <2> QED
    BY <1>7, <1>11, <2>1, <2>2
<1>12. CASE ~Prologue /\ Keeps /\ ~Decoupled /\ mm.st = 0 /\ MmTo("p", mm.t, mm.k, 1, mm.v)
  <2>1. mm.k > 0 /\ mm'.k = mm.k /\ mm'.at = "p" /\ mm'.t = mm.t /\ mm'.st = 1 /\ ~Last'
    BY <1>2, <1>8, <1>12 DEF MmTo, Prologue, Last
  <2>2. HoldsV /\ HoldsV'
    BY <1>1, <1>2, <1>12, <2>1 DEF HoldsV
  <2> QED
    BY <1>7, <1>12, <2>1, <2>2
<1> QED
  BY <1>1, <1>9, <1>10, <1>11, <1>12, MmaIssueQKCases

LEMMA MmaIssuePV2Order == ASSUME OperandInv, NEW w, MmaIssuePV2 PROVE MmOrder(w)
<1>1. MmThere /\ MmType /\ mm.at = "p2"
  BY MmThereIs DEF OperandInv, Types, MmaIssuePV2
<1>2. /\ mm.t \in Tile /\ mm.k \in Int /\ 0 < mm.k /\ MmBlocks \in Int /\ mm.st \in {0, 1} /\ Start[mm.t] \in Int
      /\ MmBlocks = Start[mm.t] + mm.k /\ HoldsNext /\ (~HoldsV => mm.v = mm.idx) /\ (Last <=> LastBlock)
      /\ Start[mm.t + 1] = Start[mm.t] + Blocks[mm.t] /\ mm.t \in Int
  BY <1>1 DEF MmThere, MmWhere, MmPlace, MmOver, MmStarts, HoldsNext, VIsNext, Last, LastBlock, N
<1>3. MmNext = 2 * MmBlocks - If1(~HoldsV)
  BY <1>1, <1>2 DEF MmNext, If1
<1>4. mm'.v = mm.v
  BY <1>1, MmaIssuePV2Cases DEF MmTo
<1>5. CASE LastBlock /\ mm.st = 0 /\ Keeps /\ MmTo("p", mm.t, mm.k, 1, mm.v)
  <2>1. mm'.at = "p" /\ mm'.t = mm.t /\ mm'.k = mm.k /\ MmBlocks' = MmBlocks /\ Last' /\ Last
    BY <1>2, <1>5 DEF MmTo, MmBlocks, Last
  <2>2. ~HoldsV' /\ ~HoldsV
    BY <2>1 DEF HoldsV
  <2>3. MmNext' = MmNext
    BY <1>2, <1>3, <2>1, <2>2 DEF MmNext, If1
  <2> QED
    BY <1>1, <1>5, <2>1, <2>2, <2>3 DEF MmOrder
<1>6. CASE LastBlock /\ Turns /\ MmTo(IF mm.t + 1 \in Tile THEN "q" ELSE "dealloc", mm.t + 1, 0, 0, mm.v)
  <2>1. /\ mm'.t = mm.t + 1 /\ mm'.k = 0 /\ mm'.st = 0 /\ Last /\ (mm'.at = "q" \/ mm'.at = "dealloc")
        /\ MmBlocks' = MmBlocks
    BY <1>2, <1>6 DEF MmTo, MmBlocks, LastBlock, N
  <2>2. ~HoldsV' /\ ~HoldsV
    BY <2>1 DEF HoldsV
  <2>3. MmNext' = MmNext + 1
    <3>1. MmNext' = 2 * MmBlocks
      BY <1>2, <2>1, <2>2 DEF MmNext, If1
    <3>2. MmNext = 2 * MmBlocks - 1
      BY <1>3, <2>2 DEF If1
    <3> QED
      BY <1>2, <3>1, <3>2
  <2>4. \A i \in {0, 1} : HoldsQ(i)' = 0
    <3> SUFFICES ASSUME NEW i \in {0, 1} PROVE HoldsQ(i)' = 0
      OBVIOUS
    <3>1. ~Last'
      <4>1. mm.t + 1 \in Tile => Blocks[mm.t + 1] # 0
        BY TilesAre
      <4> QED
        BY <2>1, <4>1 DEF Last
    <3>2. QGiven' = mm.t
      BY <1>2, <2>1, <3>1 DEF QGiven, If1
    <3>3. QTaken(i)' = mm.t
      BY <1>2, <2>1 DEF QTaken, If1, MmOver
    <3> QED
      BY <1>2, <3>2, <3>3 DEF HoldsQ
  <2> QED
    BY <1>1, <1>6, <2>2, <2>3, <2>4 DEF MmOrder
<1>7. CASE ~LastBlock /\ Decoupled /\ mm.st = 0 /\ Keeps /\ MmTo("qk", mm.t, mm.k, 1, mm.v)
  <2>1. mm'.at = "qk" /\ mm'.t = mm.t /\ mm'.k = mm.k /\ MmBlocks' = MmBlocks /\ ~Last
    BY <1>2, <1>7 DEF MmTo, MmBlocks
  <2>2. HoldsV
    BY <1>1, <1>2, <1>7, <2>1 DEF HoldsV
  <2>3. MmNext' = MmNext
    BY <1>2, <1>3, <2>1, <2>2 DEF MmNext, If1
  <2> QED
    BY <1>1, <1>4, <1>7, <2>1, <2>2, <2>3 DEF MmOrder
<1>8. CASE ~LastBlock /\ Decoupled /\ Turns /\ MmTo("v", mm.t, mm.k + 1, 0, mm.v)
  <2>1. mm'.at = "v" /\ mm'.t = mm.t /\ mm'.k = mm.k + 1 /\ MmBlocks' = MmBlocks + 1 /\ ~Last
    BY <1>2, <1>8 DEF MmTo, MmBlocks
  <2>2. HoldsV /\ ~HoldsV'
    BY <1>1, <1>2, <1>8, <2>1 DEF HoldsV
  <2>3. MmNext' = MmNext + 1
    <3>1. MmNext' = 2 * (MmBlocks + 1) - 1
      BY <1>2, <2>1 DEF MmNext, If1
    <3>2. MmNext = 2 * MmBlocks
      BY <1>2, <1>3, <2>2 DEF If1
    <3> QED
      BY <1>2, <3>1, <3>2
  <2> QED
    BY <1>1, <1>8, <2>1, <2>2, <2>3 DEF MmOrder
<1>9. CASE ~LastBlock /\ ~Decoupled /\ mm.st = 0 /\ Turns /\ MmTo("k", mm.t, mm.k, 0, mm.v)
  <2>1. mm'.at = "k" /\ mm'.t = mm.t /\ mm'.k = mm.k /\ MmBlocks' = MmBlocks /\ ~Last
    BY <1>2, <1>9 DEF MmTo, MmBlocks
  <2>2. ~HoldsV
    BY <1>1, <1>9 DEF HoldsV
  <2>3. MmNext' = 2 * MmBlocks /\ MmNext = 2 * MmBlocks - 1
    BY <1>2, <1>3, <2>1, <2>2 DEF MmNext, If1
  <2>4. mm'.v = mm.idx
    BY <1>2, <1>4, <2>2
  <2>5. 2 * MmBlocks' - 1 = MmNext /\ MmNext' = MmNext + 1
    BY <1>2, <2>1, <2>3
  <2> QED
    BY <1>1, <1>2, <1>9, <2>1, <2>4, <2>5 DEF MmOrder
<1>10. CASE ~LastBlock /\ ~Decoupled /\ mm.st = 1 /\ Keeps /\ MmTo("qk", mm.t, mm.k, 1, mm.v)
  <2>1. mm'.at = "qk" /\ mm'.t = mm.t /\ mm'.k = mm.k /\ mm'.st = 1 /\ MmBlocks' = MmBlocks /\ ~Last
    BY <1>2, <1>10 DEF MmTo, MmBlocks
  <2>2. HoldsV /\ ~HoldsV'
    BY <1>1, <1>2, <1>10, <2>1 DEF HoldsV
  <2>3. MmNext' = MmNext
    BY <1>2, <1>3, <2>1, <2>2 DEF MmNext, If1
  <2> QED
    BY <1>1, <1>10, <2>1, <2>2, <2>3 DEF MmOrder
<1> QED
  BY <1>1, <1>5, <1>6, <1>7, <1>8, <1>9, <1>10, MmaIssuePV2Cases

-----------------------------------------------------------------------------
(* The MMA warp: what its steps leave as it was. *)

MmaWaits == {"q_full", "kv_full", "P_full_O", "P_full_2", "sfqk", "dealloc"}

\* A step of the MMA warp, as far as the ring and Q go.
MmaRuns(w, sig) ==
    /\ Moves(w, {}) /\ MmStep(w, sig) /\ MmOrder(w)
    /\ \A b \in w : b[1] \in MmaWaits /\ (b[1] \in {"q_full", "kv_full"} => bar[b].done = bar[b].seen + 1)
    /\ UNCHANGED <<tma, ld, sm, co, ep, out>>
    /\ SameAt({"KV", "Q"})

LEMMA MmaCounts ==
    ASSUME BarType, BarOK, NEW w, Moves(w, {}), \A b \in w : b[1] \in MmaWaits
    PROVE  /\ SameCount({"kv_empty", "S_full"})
           /\ \A b \in Barrier : b[1] \in {"q_full", "kv_full"} =>
                  /\ bar'[b].done = bar[b].done /\ bar'[b].seen = bar[b].seen + If1(b \in w)
                  /\ bar[b].seen \in Int /\ bar[b].done \in Int
<1>1. SameCount({"kv_empty", "S_full"})
  <2>1. \A b \in w : b[1] \notin {"kv_empty", "S_full"}
    BY DEF MmaWaits
  <2> QED
    BY <2>1, CountsSame
<1>2. ASSUME NEW b \in Barrier, b[1] \in {"q_full", "kv_full"}
      PROVE  /\ bar'[b].done = bar[b].done /\ bar'[b].seen = bar[b].seen + If1(b \in w)
             /\ bar[b].seen \in Int /\ bar[b].done \in Int
  BY <1>2, DoneKept
<1> QED
  BY <1>1, <1>2

LEMMA MmaKv ==
    ASSUME OperandInv, Contents, NEW w, NEW sig, MmaRuns(w, sig)
    PROVE  LdPlaced' /\ MmPlaced' /\ KvHolds'
<1>0. /\ BarType /\ BarOK /\ LdPlaced /\ MmPlaced /\ KvHolds /\ ld.idx \in Slot /\ mm.idx \in Slot /\ mm.v \in Slot
  BY DEF OperandInv, Types, Contents, LdType, MmType, MmRecord
<1>1. /\ Moves(w, {}) /\ MmStep(w, sig) /\ MmOrder(w) /\ UNCHANGED <<tma, ld, sm, co, ep, out>> /\ SameAt({"KV", "Q"})
      /\ \A b \in w : b[1] \in MmaWaits
      /\ \A b \in w : b[1] = "kv_full" => bar[b].done = bar[b].seen + 1
  BY DEF MmaRuns
<1>2. SameCount({"kv_empty", "S_full"})
  BY <1>0, <1>1, MmaCounts
<1>3. LdPlaced'
  <2>1. Seen("kv_empty", ld.idx)' = Seen("kv_empty", ld.idx)
    <3>1. <<"kv_empty", ld.idx>> \in Barrier
      BY <1>0, NamesAre
    <3>2. bar'[<<"kv_empty", ld.idx>>].seen = bar[<<"kv_empty", ld.idx>>].seen
      BY <1>2, <3>1 DEF SameCount
    <3> QED
      BY <1>1, <3>2 DEF Seen
  <2> QED
    BY <1>0, <1>1, <2>1 DEF LdPlaced, LdNext, If1
<1>4. /\ MmPlaced'
      /\ HoldsNext' => Keeps /\ MmNext' = MmNext /\ (HoldsNext \/ <<"kv_full", mm.idx>> \in w)
  BY <1>0, <1>1, MmTurnsOn
<1>5. \A s \in Slot : /\ mem'[<<"KV", s>>] = mem[<<"KV", s>>]
                      /\ Done("kv_full", s)' = Done("kv_full", s)
                      /\ Seen("kv_full", s)' = Seen("kv_full", s) + If1(<<"kv_full", s>> \in w)
                      /\ Seen("kv_full", s) \in Int /\ Done("kv_full", s) \in Int
                      /\ <<"kv_full", s>> \in w => Done("kv_full", s) = Seen("kv_full", s) + 1
  <2> SUFFICES ASSUME NEW s \in Slot
               PROVE  /\ mem'[<<"KV", s>>] = mem[<<"KV", s>>]
                      /\ bar'[<<"kv_full", s>>].done = bar[<<"kv_full", s>>].done
                      /\ bar'[<<"kv_full", s>>].seen = bar[<<"kv_full", s>>].seen + If1(<<"kv_full", s>> \in w)
                      /\ bar[<<"kv_full", s>>].seen \in Int /\ bar[<<"kv_full", s>>].done \in Int
                      /\ <<"kv_full", s>> \in w => bar[<<"kv_full", s>>].done = bar[<<"kv_full", s>>].seen + 1
    BY DEF Done, Seen
  <2>1. <<"kv_full", s>> \in Barrier /\ <<"KV", s>> \in Region
    BY NamesAre, NamesIn
  <2>2. mem'[<<"KV", s>>] = mem[<<"KV", s>>]
    BY <1>1, <2>1 DEF SameAt
  <2>3. /\ bar'[<<"kv_full", s>>].done = bar[<<"kv_full", s>>].done
        /\ bar'[<<"kv_full", s>>].seen = bar[<<"kv_full", s>>].seen + If1(<<"kv_full", s>> \in w)
        /\ bar[<<"kv_full", s>>].seen \in Int /\ bar[<<"kv_full", s>>].done \in Int
    BY <1>0, <1>1, <2>1, MmaCounts
  <2>4. <<"kv_full", s>> \in w => bar[<<"kv_full", s>>].done = bar[<<"kv_full", s>>].seen + 1
    BY <1>1
  <2> QED
    BY <2>2, <2>3, <2>4
\* The item at its index, taken or being taken.
<1>6. HoldsNext \/ <<"kv_full", mm.idx>> \in w => IsItem(mem[<<"KV", mm.idx>>], MmNext)
  <2>1. CASE HoldsNext
    BY <1>0, <2>1 DEF KvHolds
  <2>2. CASE ~HoldsNext /\ <<"kv_full", mm.idx>> \in w
    <3>1. Done("kv_full", mm.idx) = Seen("kv_full", mm.idx) + 1 /\ Seen("kv_full", mm.idx) \in Int
      BY <1>0, <1>5, <2>2
    <3>2. Before = Seen("kv_full", mm.idx)
      BY <2>2, <3>1 DEF Before, If1
    <3>3. MmNext = KvStages * Seen("kv_full", mm.idx) + mm.idx
      BY <1>0, <3>2 DEF MmPlaced
    <3> QED
      BY <1>0, <3>1, <3>3 DEF KvHolds
  <2> QED
    BY <2>1, <2>2
<1>7. HoldsNext' => IsItem(mem'[<<"KV", mm'.idx>>], MmNext')
  BY <1>0, <1>4, <1>5, <1>6 DEF Keeps
<1>8. HoldsV' => IsItem(mem'[<<"KV", mm'.v>>], 2 * MmBlocks' - 1)
  <2>1. CASE HoldsV /\ mm'.v = mm.v /\ MmBlocks' = MmBlocks
    <3>0. PICK m \in Slot : m = mm.v /\ mm'.v = m
      BY <1>0, <2>1
    <3>00. mem'[<<"KV", m>>] = mem[<<"KV", m>>]
      BY <1>5
    <3>1. mem'[<<"KV", mm'.v>>] = mem[<<"KV", mm.v>>]
      BY <3>0, <3>00
    <3>2. IsItem(mem[<<"KV", mm.v>>], 2 * MmBlocks - 1)
      BY <1>0, <2>1 DEF KvHolds
    <3> QED
      BY <2>1, <3>1, <3>2
  <2>2. CASE (HoldsNext \/ <<"kv_full", mm.idx>> \in w) /\ mm'.v = mm.idx /\ 2 * MmBlocks' - 1 = MmNext
    BY <1>0, <1>5, <1>6, <2>2
  <2> QED
    BY <1>1, <2>1, <2>2 DEF MmOrder
<1>9. ASSUME NEW s \in Slot, Done("kv_full", s)' = Seen("kv_full", s)' + 1
      PROVE  IsItem(mem'[<<"KV", s>>], KvStages * Seen("kv_full", s)' + s)
  <2>1. <<"kv_full", s>> \notin w
    <3> SUFFICES ASSUME <<"kv_full", s>> \in w PROVE FALSE
      OBVIOUS
    <3>1. Seen("kv_full", s)' = Seen("kv_full", s) + 1 /\ Seen("kv_full", s) \in Int
          /\ Done("kv_full", s)' = Seen("kv_full", s) + 1
      BY <1>5 DEF If1
    <3> QED
      BY <1>9, <3>1
  <2>2. Seen("kv_full", s)' = Seen("kv_full", s) /\ Done("kv_full", s)' = Done("kv_full", s)
    <3>1. If1(<<"kv_full", s>> \in w) = 0
      BY <2>1 DEF If1
    <3>2. /\ Seen("kv_full", s)' = Seen("kv_full", s) + If1(<<"kv_full", s>> \in w) /\ Seen("kv_full", s) \in Int
          /\ Done("kv_full", s)' = Done("kv_full", s)
      BY <1>5
    <3> QED
      BY <3>1, <3>2
  <2> QED
    BY <1>0, <1>5, <1>9, <2>2 DEF KvHolds
<1>10. ASSUME NEW x \in tma', NEW s \in Slot, x.full = <<"kv_full", s>>
       PROVE  IsItem(x.tag, KvStages * Done("kv_full", s)' + s)
  BY <1>0, <1>1, <1>5, <1>10 DEF KvHolds
<1> QED
  BY <1>3, <1>4, <1>7, <1>8, <1>9, <1>10 DEF KvHolds

LEMMA MmaQ ==
    ASSUME OperandInv, Contents, NEW w, NEW sig, MmaRuns(w, sig), NEW i \in {0, 1}
    PROVE  QHolds(i)'
<1>0. BarType /\ BarOK /\ QHolds(i) /\ MmType /\ MmPlace /\ mm.t \in Int /\ i \in Stage
  <2>1. BarType /\ BarOK /\ QHolds(i) /\ MmType /\ MmPlace
    BY DEF OperandInv, Types, Contents, StageHolds, MmInv
  <2> QED
    BY <2>1, StageIs DEF MmType, MmRecord
<1>1. /\ Moves(w, {}) /\ MmStep(w, sig) /\ MmOrder(w) /\ UNCHANGED <<tma, ld, sm, co, ep, out>> /\ SameAt({"KV", "Q"})
      /\ \A b \in w : b[1] \in MmaWaits
      /\ \A b \in w : b[1] = "q_full" => bar[b].done = bar[b].seen + 1
  BY DEF MmaRuns
<1>2. /\ mem'[<<"Q", i>>] = mem[<<"Q", i>>]
      /\ Done("q_full", i)' = Done("q_full", i)
      /\ Seen("q_full", i)' = Seen("q_full", i) + If1(<<"q_full", i>> \in w)
      /\ Seen("q_full", i) \in Int /\ Done("q_full", i) \in Int
      /\ <<"q_full", i>> \in w => Done("q_full", i) = Seen("q_full", i) + 1
  <2>1. <<"q_full", i>> \in Barrier /\ <<"Q", i>> \in Region
    BY <1>0, NamesAre, NamesIn
  <2>2. mem'[<<"Q", i>>] = mem[<<"Q", i>>]
    BY <1>1, <2>1 DEF SameAt
  <2>3. /\ bar'[<<"q_full", i>>].done = bar[<<"q_full", i>>].done
        /\ bar'[<<"q_full", i>>].seen = bar[<<"q_full", i>>].seen + If1(<<"q_full", i>> \in w)
        /\ bar[<<"q_full", i>>].seen \in Int /\ bar[<<"q_full", i>>].done \in Int
    BY <1>0, <1>1, <2>1, MmaCounts
  <2>4. <<"q_full", i>> \in w => bar[<<"q_full", i>>].done = bar[<<"q_full", i>>].seen + 1
    BY <1>1
  <2> QED
    BY <2>2, <2>3, <2>4 DEF Done, Seen
<1>3. /\ Seen("q_full", i) = QTaken(i) /\ QTaken(i) \in Int /\ QGiven \in Int /\ HoldsQ(i) = QTaken(i) - QGiven
      /\ QTaken(i)' = QTaken(i) + If1(<<"q_full", i>> \in w)
      /\ QGiven' = QGiven + If1(<<"q_empty", i>> \in sig) /\ HoldsQ(i)' = QTaken(i)' - QGiven'
      /\ If1(<<"q_full", i>> \in w) \in {0, 1} /\ If1(<<"q_empty", i>> \in sig) \in {0, 1}
  <2>1. Seen("q_full", i) = QTaken(i) /\ QTaken(i) \in Int /\ QGiven \in Int
    BY <1>0, QFacts
  <2>2. QTaken(i)' = QTaken(i) + If1(<<"q_full", i>> \in w) /\ QGiven' = QGiven + If1(<<"q_empty", i>> \in sig)
    BY <1>0, <1>1 DEF MmStep, MmHand
  <2> QED
    BY <2>1, <2>2 DEF HoldsQ, If1
<1>4. ASSUME HoldsQ(i)' > 0 PROVE mem'[<<"Q", i>>] = QTag(mm'.t)
  <2>1. mm'.t = mm.t
    BY <1>1, <1>4 DEF MmOrder
  <2>2. CASE HoldsQ(i) > 0
    BY <1>0, <1>2, <2>1, <2>2 DEF QHolds
  <2>3. CASE ~(HoldsQ(i) > 0)
    <3>1. <<"q_full", i>> \in w /\ QTaken(i)' = QTaken(i) + 1
      <4>1. If1(<<"q_full", i>> \in w) = 1
        BY <1>3, <1>4, <2>3
      <4> QED
        BY <1>3, <4>1 DEF If1
    <3>2. QTaken(i)' = mm.t
      <4>1. QGiven' >= mm.t - 1 /\ QGiven' \in Int
        BY <1>0, <2>1 DEF QGiven, If1
      <4>2. QTaken(i)' <= mm.t /\ QTaken(i)' \in Int
        BY <1>0, <2>1 DEF QTaken, If1
      <4>3. QTaken(i)' > QGiven'
        BY <1>3, <1>4, <4>1, <4>2
      <4> QED
        BY <1>0, <4>1, <4>2, <4>3
    <3>3. Done("q_full", i) = mm.t /\ Done("q_full", i) = Seen("q_full", i) + 1
      BY <1>2, <1>3, <3>1, <3>2
    <3> QED
      BY <1>0, <1>2, <2>1, <3>3 DEF QHolds
  <2> QED
    BY <2>2, <2>3
<1>5. ASSUME Done("q_full", i)' = Seen("q_full", i)' + 1 PROVE mem'[<<"Q", i>>] = QTag(Done("q_full", i)')
  <2>1. Seen("q_full", i)' = Seen("q_full", i)
    <3>1. CASE <<"q_full", i>> \in w
      BY <1>2, <1>5, <3>1 DEF If1
    <3>2. CASE <<"q_full", i>> \notin w
      BY <1>2, <3>2 DEF If1
    <3> QED
      BY <3>1, <3>2
  <2> QED
    BY <1>0, <1>2, <1>5, <2>1 DEF QHolds
<1>6. \A x \in tma' : x.full = <<"q_full", i>> => x.tag = QTag(Done("q_full", i)' + 1)
  BY <1>0, <1>1, <1>2 DEF QHolds
<1> QED
  BY <1>4, <1>5, <1>6 DEF QHolds

\* What softmax, the correction warps and the epilogue made and have.
MmaKept(i) == SHolds(i)' /\ ScaleHolds(i)' /\ OutHolds(i)' /\ OksHold'

LEMMA MmaStays ==
    ASSUME OperandInv, Contents, NEW w, NEW sig, MmaRuns(w, sig), UNCHANGED mem, NEW i \in {0, 1}
    PROVE  MmaKept(i)
<1>0. BarType /\ BarOK /\ SHolds(i) /\ ScaleHolds(i) /\ OutHolds(i) /\ OksHold
  BY DEF OperandInv, Types, Contents, StageHolds
<1>1. Moves(w, {}) /\ UNCHANGED <<tma, ld, sm, co, ep, out>> /\ \A b \in w : b[1] \in MmaWaits
  BY DEF MmaRuns
<1>2. Done("S_full", i)' = Done("S_full", i)
  <2>1. SameCount({"kv_empty", "S_full"}) /\ <<"S_full", i>> \in Barrier
    BY <1>0, <1>1, MmaCounts, NamesAre, StageIs
  <2> QED
    BY <2>1 DEF SameCount, Done
<1>3. SLoaded(i)' = SLoaded(i) /\ ScalesOut(i)' = ScalesOut(i)
  BY <1>1, SmSame
<1>4. ScalesTaken(i)' = ScalesTaken(i) /\ OWritten(i)' = OWritten(i)
  BY <1>1, CoSame
<1>5. EpFreed(i)' = EpFreed(i)
  BY <1>1, EpSame
<1>6. SHolds(i)'
  BY <1>0, <1>2, <1>3, SKept
<1>7. ScaleHolds(i)'
  BY <1>0, <1>3, <1>4, ScaleKept
<1>8. OutHolds(i)'
  BY <1>0, <1>1, <1>4, <1>5, OutKept
<1>9. OksHold'
  BY <1>0, <1>1 DEF OksHold
<1> QED
  BY <1>6, <1>7, <1>8, <1>9 DEF MmaKept

\* Nothing issued, no PV begun or over.
LEMMA MmaWaitContents ==
    ASSUME FlightInv, Contents, NEW w, NEW sig, MmaRuns(w, sig), UNCHANGED <<mem, tc>>,
           \A i \in {0, 1} : QksIssued(i)' = QksIssued(i) /\ PvBegun(i)' = PvBegun(i) /\ PvDone(i)' = PvDone(i)
    PROVE  Contents'
<1>0. OperandInv /\ TcType
  BY DEF FlightInv, HandInv, OperandInv, Types
<1>1. UNCHANGED <<sm, co, ep>> /\ (mm.at = "end" => mm'.at = "end")
  BY DEF MmaRuns, MmOrder
<1>2. \A i : (PvIn(i)' <=> PvIn(i)) /\ (PvClosed(i)' <=> PvClosed(i))
  BY DEF PvIn, PvClosed
<1>3. PvOnce'
  BY PvsSame DEF Contents
<1>4. ASSUME NEW i \in {0, 1} PROVE StageHolds(i)'
  <2>1. PStored(i)' = PStored(i) /\ P2Stored(i)' = P2Stored(i) /\ ORescaled(i)' = ORescaled(i) /\ (Rescaling(i)' <=> Rescaling(i))
    BY <1>1, SmSame, CoSame DEF Rescaling
  <2>2. PHolds(i)'
    BY <1>2, <2>1, PKept DEF Contents, StageHolds
  <2>3. OHolds(i)'
    BY <1>2, <2>1, OKept DEF Contents, StageHolds
  <2>4. QHolds(i)' /\ MmaKept(i)
    BY <1>0, MmaQ, MmaStays
  <2> QED
    BY <2>2, <2>3, <2>4 DEF StageHolds, MmaKept
<1>5. TcHolds'
  <2> SUFFICES ASSUME NEW j \in DOMAIN tc PROVE OpHolds(tc[j])' /\ RunHolds(j, tc[j])' /\ Waits(tc[j])'
    BY DEF TcHolds
  <2>1. OpHolds(tc[j]) /\ RunHolds(j, tc[j]) /\ Waits(tc[j]) /\ tc[j].st \in {0, 1}
    BY <1>0, OpIs DEF Contents, TcHolds
  <2>2. QksIssued(tc[j].st)' = QksIssued(tc[j].st)
    <3>1. PICK i \in {0, 1} : i = tc[j].st
      BY <2>1
    <3>2. QksIssued(i)' = QksIssued(i)
      OBVIOUS
    <3> QED
      BY <3>1, <3>2 DEF QksIssued
  <2>3. OpHolds(tc[j])'
    BY <2>1, <2>2 DEF OpHolds
  <2>4. RunHolds(j, tc[j])' /\ Waits(tc[j])'
    BY <2>1 DEF RunHolds, Scaled, Waits
  <2> QED
    BY <2>3, <2>4
<1>6. SfHolds'
  <2>1. \A r : Copying(r)' <=> Copying(r)
    BY DEF Copying
  <2>2. SfHolds
    BY DEF Contents
  <2> QED
    BY <1>1, <2>1, <2>2 DEF SfHolds, SfqHolds, SfkHolds
<1>7. LdPlaced' /\ MmPlaced' /\ KvHolds'
  BY <1>0, MmaKv
<1>8. OksHold'
  BY <1>0, MmaStays DEF MmaKept
<1> QED
  BY <1>3, <1>4, <1>5, <1>6, <1>7, <1>8 DEF Contents

-----------------------------------------------------------------------------
(* The MMA warp, step by step: the waits on the ring and on Q. *)

LEMMA MmaWaitQRuns == ASSUME OperandInv, MmaWaitQ PROVE MmaRuns({<<"q_full", mm.st>>}, {})
<1>1. MmStep({<<"q_full", mm.st>>}, {}) /\ MmOrder({<<"q_full", mm.st>>})
  BY MmaWaitQStep, MmaWaitOrder
<1>2. BarType /\ BarOK /\ WaitThenArrive(<<"q_full", mm.st>>, mm.qPh, {}) /\ UNCHANGED <<mem, tma, ld, sm, co, ep, out>>
  BY DEF OperandInv, Types, MmaWaitQ
<1>3. Moves({<<"q_full", mm.st>>}, {})
  BY <1>2, WaitMoves
<1>4. bar[<<"q_full", mm.st>>].done = bar[<<"q_full", mm.st>>].seen + 1
  BY MmaWaitQDue DEF Done, Seen
<1>5. \A b \in {<<"q_full", mm.st>>} : b[1] \in MmaWaits /\ (b[1] \in {"q_full", "kv_full"} => bar[b].done = bar[b].seen + 1)
  BY <1>4 DEF MmaWaits
<1> QED
  BY <1>1, <1>2, <1>3, <1>5 DEF MmaRuns, SameAt

LEMMA MmaWaitKVRuns ==
    ASSUME OperandInv, MmaWaitK \/ MmaWaitV PROVE MmaRuns({<<"kv_full", mm.idx>>}, {})
<1>1. MmStep({<<"kv_full", mm.idx>>}, {}) /\ MmOrder({<<"kv_full", mm.idx>>})
  BY MmaWaitKStep, MmaWaitVStep, MmaWaitOrder, MmaWaitVOrder
<1>2. BarType /\ BarOK /\ WaitThenArrive(<<"kv_full", mm.idx>>, mm.ph, {}) /\ UNCHANGED <<mem, tma, ld, sm, co, ep, out>>
  BY DEF OperandInv, Types, MmaWaitK, MmaWaitV
<1>3. Moves({<<"kv_full", mm.idx>>}, {})
  BY <1>2, WaitMoves
<1>4. bar[<<"kv_full", mm.idx>>].done = bar[<<"kv_full", mm.idx>>].seen + 1
  BY MmaWaitKVDue DEF Done, Seen
<1>5. \A b \in {<<"kv_full", mm.idx>>} : b[1] \in MmaWaits /\ (b[1] \in {"q_full", "kv_full"} => bar[b].done = bar[b].seen + 1)
  BY <1>4 DEF MmaWaits
<1> QED
  BY <1>1, <1>2, <1>3, <1>5 DEF MmaRuns, SameAt

LEMMA MmaIssueQKRuns == ASSUME OperandInv, MmaIssueQK PROVE \E w : MmaRuns(w, QKSignals)
<1>1. BarType /\ BarOK /\ UNCHANGED <<mem, tma, ld, sm, co, ep, out>>
  BY DEF OperandInv, Types, MmaIssueQK
<1>2. PICK w : Moves(w, {}) /\ \A b \in w : b[1] = "sfqk"
  <2>1. ASSUME QuantQK PROVE Moves({<<"sfqk", mm.st>>}, {})
    <3>1. WaitThenArrive(<<"sfqk", mm.st>>, mm.fPh, {})
      BY <2>1 DEF MmaIssueQK
    <3> QED
      BY <1>1, <3>1, WaitMoves
  <2>2. ASSUME ~QuantQK PROVE Moves({}, {})
    BY <1>1, <2>2, StillMoves DEF MmaIssueQK
  <2> QED
    BY <2>1, <2>2
<1>3. MmStep(w, QKSignals) /\ MmOrder(w)
  BY <1>2, MmaIssueQKStep, MmaIssueQKOrder
<1>4. \A b \in w : b[1] \in MmaWaits /\ (b[1] \in {"q_full", "kv_full"} => bar[b].done = bar[b].seen + 1)
  BY <1>2 DEF MmaWaits
<1> QED
  BY <1>1, <1>2, <1>3, <1>4 DEF MmaRuns, SameAt

LEMMA MmaIssuePVRuns == ASSUME OperandInv, MmaIssuePV PROVE MmaRuns({<<"P_full_O", mm.st>>}, {})
<1>1. MmStep({<<"P_full_O", mm.st>>}, {}) /\ MmOrder({<<"P_full_O", mm.st>>})
  BY MmaIssuePVStep, MmaWaitOrder
<1>2. BarType /\ BarOK /\ WaitThenArrive(<<"P_full_O", mm.st>>, mm.pPh, {}) /\ UNCHANGED <<mem, tma, ld, sm, co, ep, out>>
  BY DEF OperandInv, Types, MmaIssuePV
<1>3. Moves({<<"P_full_O", mm.st>>}, {})
  BY <1>2, WaitMoves
<1>5. \A b \in {<<"P_full_O", mm.st>>} : b[1] \in MmaWaits /\ (b[1] \in {"q_full", "kv_full"} => bar[b].done = bar[b].seen + 1)
  BY DEF MmaWaits
<1> QED
  BY <1>1, <1>2, <1>3, <1>5 DEF MmaRuns, SameAt

LEMMA MmaIssuePV2Runs == ASSUME OperandInv, MmaIssuePV2 PROVE MmaRuns({<<"P_full_2", mm.st>>}, PVSignals)
<1>1. MmStep({<<"P_full_2", mm.st>>}, PVSignals) /\ MmOrder({<<"P_full_2", mm.st>>})
  BY MmaIssuePV2Step, MmaIssuePV2Order
<1>2. BarType /\ BarOK /\ WaitThenArrive(<<"P_full_2", mm.st>>, mm.pPh, {}) /\ UNCHANGED <<mem, tma, ld, sm, co, ep, out>>
  BY DEF OperandInv, Types, MmaIssuePV2
<1>3. Moves({<<"P_full_2", mm.st>>}, {})
  BY <1>2, WaitMoves
<1>5. \A b \in {<<"P_full_2", mm.st>>} : b[1] \in MmaWaits /\ (b[1] \in {"q_full", "kv_full"} => bar[b].done = bar[b].seen + 1)
  BY DEF MmaWaits
<1> QED
  BY <1>1, <1>2, <1>3, <1>5 DEF MmaRuns, SameAt

LEMMA MmaDeallocRuns == ASSUME OperandInv, MmaDealloc PROVE MmaRuns({<<"dealloc", 0>>}, {})
<1>1. MmStep({<<"dealloc", 0>>}, {}) /\ MmOrder({<<"dealloc", 0>>})
  BY MmaDeallocStep, MmaWaitOrder
<1>2. BarType /\ BarOK /\ WaitThenArrive(<<"dealloc", 0>>, 0, {}) /\ UNCHANGED <<tma, ld, sm, co, ep, out>>
  BY DEF OperandInv, Types, MmaDealloc
<1>3. Moves({<<"dealloc", 0>>}, {})
  BY <1>2, WaitMoves
<1>4. SameAt({"KV", "Q"})
  <2> SUFFICES ASSUME NEW q \in Region, q[1] \in {"KV", "Q"} PROVE mem'[q] = mem[q]
    BY DEF SameAt
  <2>1. Column(q) = {}
    BY DEF Column, DecoupledColumn, BaselineColumn
  <2> QED
    BY <2>1 DEF MmaDealloc
<1>5. \A b \in {<<"dealloc", 0>>} : b[1] \in MmaWaits /\ (b[1] \in {"q_full", "kv_full"} => bar[b].done = bar[b].seen + 1)
  BY DEF MmaWaits
<1> QED
  BY <1>1, <1>2, <1>3, <1>4, <1>5 DEF MmaRuns

LEMMA MmaWaitRingContents == ASSUME CInv, MmaWaitQ \/ MmaWaitK \/ MmaWaitV PROVE Contents'
<1>0. FlightInv /\ Contents /\ OperandInv /\ MmHere /\ AllNumbers
  <2>1. FlightInv /\ Contents /\ HandInv
    BY DEF CInv, FlightInv
  <2> QED
    BY <2>1, HandPlaces DEF HandInv
<1>1. PICK w : MmaRuns(w, {})
  BY <1>0, MmaWaitQRuns, MmaWaitKVRuns
<1>2. PICK v : MmGo(v, {}) /\ UNCHANGED tc /\ NoPvIn(v)
  BY <1>0, MmaWaitRingGo
<1>3. \A i \in {0, 1} : QksIssued(i)' = QksIssued(i) /\ PvBegun(i)' = PvBegun(i) /\ PvDone(i)' = PvDone(i)
  <2> SUFFICES ASSUME NEW i \in {0, 1} PROVE QksIssued(i)' = QksIssued(i) /\ PvBegun(i)' = PvBegun(i) /\ PvDone(i)' = PvDone(i)
    OBVIOUS
  <2>1. MmNumbers(i)
    BY <1>0 DEF AllNumbers
  <2>2. /\ QksIssued(i)' = QksIssued(i) + If1(<<"S_full", i>> \in {})
        /\ PvBegun(i)' = PvBegun(i) + If1(<<"P_full_O", i>> \in v)
        /\ PvDone(i)' = PvDone(i) + If1(<<"P_full_2", i>> \in v)
    BY <1>2 DEF MmGo, MmDelta
  <2>3. If1(<<"S_full", i>> \in {}) = 0 /\ If1(<<"P_full_O", i>> \in v) = 0 /\ If1(<<"P_full_2", i>> \in v) = 0
    BY <1>2 DEF NoPvIn, If1
  <2> QED
    BY <2>1, <2>2, <2>3 DEF MmNumbers
<1>4. UNCHANGED mem
  BY DEF MmaWaitQ, MmaWaitK, MmaWaitV
<1> QED
  BY <1>0, <1>1, <1>2, <1>3, <1>4, MmaWaitContents

-----------------------------------------------------------------------------
(* The second part of a PV. *)

TcAlike ==
    /\ DOMAIN tc' = DOMAIN tc
    /\ \A j \in DOMAIN tc : /\ Same(tc'[j], tc[j]) /\ tc'[j].begun = tc[j].begun /\ tc'[j].ok = tc[j].ok
                            /\ \A i : <<"S_full", i>> \in tc'[j].signals <=> <<"S_full", i>> \in tc[j].signals

\* Operations that differ in nothing the buffers are used for.
LEMMA SameOperands ==
    ASSUME NEW x, NEW y, Same(x, y)
    PROVE  /\ Operands(x) = Operands(y) /\ Target(x) = Target(y) /\ CopiesOf(x) = CopiesOf(y)
           /\ \A r : Needed(x, r) = Needed(y, r)
<1>1. x.kind = y.kind /\ x.st = y.st /\ x.t = y.t /\ x.k = y.k /\ x.slot = y.slot
  BY DEF Same
<1>2. Operands(x) = Operands(y) /\ Target(x) = Target(y)
  BY <1>1 DEF Operands, Target
<1>3. CopiesOf(x) = CopiesOf(y)
  BY <1>1 DEF CopiesOf
<1>4. \A r : Needed(x, r) = Needed(y, r)
  BY <1>1 DEF Needed
<1> QED
  BY <1>2, <1>3, <1>4

LEMMA AlikeHolds ==
    ASSUME TcType, TcHolds, PvOnce, TcAlike, UNCHANGED mem, \A i \in {0, 1} : QksIssued(i)' = QksIssued(i)
    PROVE  /\ TcHolds' /\ PvOnce'
           /\ \A i : PvIn(i)' <=> PvIn(i)
           /\ \A r : Copying(r)' <=> Copying(r)
<1>1. DOMAIN tc' = DOMAIN tc
  BY DEF TcAlike
<1>2. ASSUME NEW j \in DOMAIN tc'
      PROVE  OpHolds(tc[j])' /\ RunHolds(j, tc[j])' /\ Waits(tc[j])'
  <2>0. /\ j \in DOMAIN tc /\ Same(tc'[j], tc[j]) /\ tc'[j].begun = tc[j].begun /\ tc'[j].ok = tc[j].ok
        /\ \A i : <<"S_full", i>> \in tc'[j].signals <=> <<"S_full", i>> \in tc[j].signals
    BY <1>1 DEF TcAlike
  <2>1. OpHolds(tc[j]) /\ RunHolds(j, tc[j]) /\ Waits(tc[j]) /\ tc[j].st \in {0, 1}
    BY <2>0, OpIs DEF TcHolds
  <2>2. PICK x, y : x = tc'[j] /\ y = tc[j]
    OBVIOUS
  <2>3. /\ Same(x, y) /\ x.begun = y.begun /\ x.ok = y.ok /\ OpHolds(y) /\ RunHolds(j, y) /\ Waits(y)
        /\ \A i : <<"S_full", i>> \in x.signals <=> <<"S_full", i>> \in y.signals
    BY <2>0, <2>1, <2>2
  <2>4. /\ Operands(x) = Operands(y) /\ Target(x) = Target(y) /\ CopiesOf(x) = CopiesOf(y)
        /\ \A r : Needed(x, r) = Needed(y, r)
    BY <2>3, SameOperands
  <2>5. /\ x.kind = y.kind /\ x.st = y.st /\ x.t = y.t /\ x.k = y.k /\ x.slot = y.slot /\ x.copies = y.copies
    BY <2>3 DEF Same
  <2>6. QksIssued(y.st)' = QksIssued(y.st)
    <3>1. PICK i \in {0, 1} : i = y.st
      BY <2>1, <2>2
    <3>2. QksIssued(i)' = QksIssued(i)
      OBVIOUS
    <3> QED
      BY <3>1, <3>2 DEF QksIssued
  <2>7. OpHolds(x)'
    <3>1. x.copies = CopiesOf(x) /\ \A i \in {0, 1} : <<"S_full", i>> \in x.signals <=> x.kind = "QK" /\ i = x.st
      BY <2>3, <2>4, <2>5 DEF OpHolds
    <3>2. x.kind = "QK" => /\ IsBlock(x.t, x.k, QksIssued(y.st)) /\ mem[<<"Q", x.st>>] = QTag(x.t)
                           /\ mem[<<"KV", x.slot>>] = KTag(x.t, x.k)
      BY <2>3, <2>5 DEF OpHolds
    <3>3. x.kind = "PV" => mem[<<"KV", x.slot>>] = VTag(x.t, x.k)
      BY <2>3, <2>5 DEF OpHolds
    <3>4. QksIssued(x.st)' = QksIssued(y.st)
      BY <2>5, <2>6
    <3> QED
      BY <3>1, <3>2, <3>3, <3>4 DEF OpHolds
  <2>8. RunHolds(j, x)'
    BY <2>3, <2>4 DEF RunHolds, Scaled
  <2>9. Waits(x)'
    BY <2>3, <2>5 DEF Waits
  <2> QED
    BY <2>2, <2>7, <2>8, <2>9 DEF OpHolds, RunHolds, Scaled, Waits, QksIssued
<1>3. TcHolds'
  BY <1>2 DEF TcHolds
<1>4. \A j \in DOMAIN tc : tc'[j].kind = tc[j].kind /\ tc'[j].st = tc[j].st /\ tc'[j].copies = tc[j].copies /\ tc'[j].begun = tc[j].begun
  BY DEF TcAlike, Same
<1>5. PvOnce'
  BY <1>1, <1>4 DEF PvOnce
<1>6. \A i : PvIn(i)' <=> PvIn(i)
  BY <1>1, <1>4 DEF PvIn
<1>7. \A r : Copying(r)' <=> Copying(r)
  BY <1>1, <1>4 DEF Copying
<1> QED
  BY <1>3, <1>5, <1>6, <1>7

LEMMA MmaIssuePV2Contents == ASSUME CInv, FlightInv', MmaIssuePV2 PROVE Contents'
<1>0. /\ FlightInv /\ Contents /\ OperandInv /\ MmHere /\ AllNumbers /\ TcType /\ TcType' /\ TcApart /\ InFlight
      /\ TcHolds /\ PvOnce /\ MmWhere
  <2>1. FlightInv /\ Contents /\ HandInv /\ InFlight
    BY DEF CInv, FlightInv
  <2>2. OperandInv /\ MmHere /\ AllNumbers
    BY <2>1, HandPlaces DEF HandInv
  <2>3. TcType /\ TcApart /\ MmWhere
    BY <2>2, MmIsSomewhere DEF OperandInv, Types, MmInv
  <2>4. TcType'
    BY DEF FlightInv, HandInv, OperandInv, Types
  <2> QED
    BY <2>1, <2>2, <2>3, <2>4 DEF Contents
<1>1. MmaRuns({<<"P_full_2", mm.st>>}, PVSignals) /\ UNCHANGED mem
  BY <1>0, MmaIssuePV2Runs DEF MmaIssuePV2
<1>2. PICK st \in {0, 1} : st = mm.st
  BY <1>0 DEF MmWhere
<1>3. /\ UNCHANGED <<sm, co, ep>> /\ (mm.at = "end" => mm'.at = "end")
  BY <1>1 DEF MmaRuns, MmOrder
<1>4. PICK n : TcClosed(n, PVSignals) /\ tc[n].open
  BY <1>0, PV2Closes
<1>5. tc[n].kind = "PV" /\ tc[n].st = st /\ n \in DOMAIN tc /\ n = Len(tc)
  <2>1. n \in DOMAIN tc /\ n = Len(tc)
    BY <1>4 DEF TcClosed
  <2>2. tc[n].kind \in {"QK", "PV"}
    BY <1>0, <2>1, OpIs
  <2>3. tc[n].kind = "PV"
    BY <1>0, <1>4, <2>1, <2>2 DEF InFlight, QkFlies
  <2> QED
    BY <1>0, <1>2, <1>4, <2>1, <2>3 DEF InFlight, PvFlies
<1>6. TcAlike
  <2>1. DOMAIN tc' = DOMAIN tc
    BY <1>4 DEF TcClosed
  <2>2. ASSUME NEW j \in DOMAIN tc PROVE tc'[j].begun = tc[j].begun /\ tc'[j].ok = tc[j].ok
    <3>1. tc[j] \in Op /\ tc[n] \in Op
      BY <1>0, <1>5, OpIs
    <3>2. tc' = [tc EXCEPT ![Len(tc)].open = FALSE, ![Len(tc)].signals = PVSignals]
      BY DEF MmaIssuePV2, PVSignals, PVEnds
    <3>3. CASE j = Len(tc)
      <4>1. tc'[j] = [tc[j] EXCEPT !.open = FALSE, !.signals = PVSignals]
        BY <3>2, <3>3
      <4> QED
        BY <3>1, <4>1 DEF Op
    <3>4. CASE j # Len(tc)
      BY <3>2, <3>4
    <3> QED
      BY <3>3, <3>4
  <2>3. ASSUME NEW j \in DOMAIN tc
        PROVE  Same(tc'[j], tc[j]) /\ \A i : <<"S_full", i>> \in tc'[j].signals <=> <<"S_full", i>> \in tc[j].signals
    <3>1. CASE j = n
      <4>1. Same(tc'[n], tc[n]) /\ tc'[n].signals = PVSignals /\ tc[n].signals = {}
        BY <1>4 DEF TcClosed
      <4>2. \A i : <<"S_full", i>> \notin PVSignals
        BY MmSignalsAre
      <4> QED
        BY <3>1, <4>1, <4>2
    <3>2. CASE j # n
      <4>1. tc'[j] = tc[j]
        BY <1>4, <3>2 DEF TcClosed
      <4> QED
        BY <4>1 DEF Same
    <3> QED
      BY <3>1, <3>2
  <2> QED
    BY <2>1, <2>2, <2>3 DEF TcAlike
<1>7. \A i \in {0, 1} : /\ QksIssued(i)' = QksIssued(i) /\ PvBegun(i)' = PvBegun(i) /\ PvDone(i)' = PvDone(i) + If1(i = st)
                        /\ PvDone(i) \in Int
  <2> SUFFICES ASSUME NEW i \in {0, 1}
               PROVE  /\ QksIssued(i)' = QksIssued(i) /\ PvBegun(i)' = PvBegun(i) /\ PvDone(i)' = PvDone(i) + If1(i = st)
                      /\ PvDone(i) \in Int
    OBVIOUS
  <2>1. MmNumbers(i)
    BY <1>0 DEF AllNumbers
  <2>2. /\ QksIssued(i)' = QksIssued(i) + If1(<<"S_full", i>> \in PVSignals)
        /\ PvBegun(i)' = PvBegun(i) + If1(<<"P_full_O", i>> \in {<<"P_full_2", mm.st>>})
        /\ PvDone(i)' = PvDone(i) + If1(<<"P_full_2", i>> \in {<<"P_full_2", mm.st>>})
    BY <1>0, MmaIssuePV2Go DEF MmGo, MmDelta
  <2>3. If1(<<"S_full", i>> \in PVSignals) = 0
    BY MmSignalsAre DEF If1
  <2>4. If1(<<"P_full_O", i>> \in {<<"P_full_2", mm.st>>}) = 0
    BY DEF If1
  <2>5. (<<"P_full_2", i>> \in {<<"P_full_2", mm.st>>}) <=> i = st
    BY <1>2
  <2> QED
    BY <2>1, <2>2, <2>3, <2>4, <2>5 DEF MmNumbers
<1>8. TcHolds' /\ PvOnce' /\ (\A i : PvIn(i)' <=> PvIn(i)) /\ \A r : Copying(r)' <=> Copying(r)
  BY <1>0, <1>1, <1>6, <1>7, AlikeHolds
<1>9. ASSUME NEW i \in {0, 1}, i # st PROVE PvClosed(i)' => PvClosed(i)
  <2> SUFFICES ASSUME NEW j \in DOMAIN tc', tc'[j].kind = "PV", tc'[j].st = i, ~tc'[j].open PROVE PvClosed(i)
    BY DEF PvClosed
  <2>1. j \in DOMAIN tc /\ Same(tc'[j], tc[j])
    BY <1>6 DEF TcAlike
  <2>2. tc[j].kind = "PV" /\ tc[j].st = i
    BY <2>1 DEF Same
  <2>3. j # n
    BY <1>5, <1>9, <2>2
  <2>4. tc'[j] = tc[j]
    BY <1>4, <2>1, <2>3 DEF TcClosed
  <2> QED
    BY <2>1, <2>2, <2>4 DEF PvClosed
<1>10. ASSUME NEW i \in {0, 1} PROVE StageHolds(i)'
  <2>1. PStored(i)' = PStored(i) /\ P2Stored(i)' = P2Stored(i) /\ ORescaled(i)' = ORescaled(i) /\ (Rescaling(i)' <=> Rescaling(i))
    BY <1>3, SmSame, CoSame DEF Rescaling
  <2>2. PHolds(i)'
    <3>1. PHolds(i)
      BY <1>0 DEF Contents, StageHolds
    <3>2. (PvBegun(i)' < PStored(i)' \/ PvIn(i)') => (PvBegun(i) < PStored(i) \/ PvIn(i))
      BY <1>7, <1>8, <2>1
    <3>3. (PvDone(i)' < P2Stored(i)' \/ PvClosed(i)') => (PvDone(i) < P2Stored(i) \/ PvClosed(i))
      <4>1. CASE i = st
        <5>1. PvDone(i)' = PvDone(i) + 1 /\ PvDone(i) \in Int
          BY <1>7, <4>1 DEF If1
        <5>2. P2Stored(i) \in Int /\ PvDone(i)' <= P2Stored(i)'
          <6>1. Tallies' /\ Tallies
            BY <1>0, TalliesAre, TalliesThen
          <6> QED
            BY <6>1, TallyBoth, TallyBothThen DEF Tally
        <5> QED
          BY <2>1, <5>1, <5>2
      <4>2. CASE i # st
        <5>1. PvDone(i)' = PvDone(i)
          <6>1. PvDone(i)' = PvDone(i) + 0 /\ PvDone(i) \in Int
            BY <1>7, <4>2 DEF If1
          <6> QED
            BY <6>1
        <5> QED
          BY <1>9, <2>1, <4>2, <5>1
      <4> QED
        BY <4>1, <4>2
    <3> QED
      BY <1>1, <2>1, <3>1, <3>2, <3>3 DEF PHolds
  <2>3. OHolds(i)'
    BY <1>0, <1>1, <1>7, <1>8, <2>1, OKept DEF Contents, StageHolds
  <2>4. QHolds(i)' /\ MmaKept(i)
    BY <1>0, <1>1, MmaQ, MmaStays
  <2> QED
    BY <2>2, <2>3, <2>4 DEF StageHolds, MmaKept
<1>11. SfHolds'
  <2>1. SfHolds
    BY <1>0 DEF Contents
  <2> QED
    BY <1>1, <1>3, <1>7, <1>8, <2>1 DEF SfHolds, SfqHolds, SfkHolds
<1>12. LdPlaced' /\ MmPlaced' /\ KvHolds'
  BY <1>0, <1>1, MmaKv
<1>13. OksHold'
  BY <1>0, <1>1, MmaStays DEF MmaKept
<1> QED
  BY <1>8, <1>10, <1>11, <1>12, <1>13 DEF Contents

-----------------------------------------------------------------------------
(* An operation is issued behind the others. *)

LEMMA IssueFresh ==
    ASSUME TcType, NEW kind, NEW k, NEW slot, NEW copies, NEW open, NEW sig,
           Issue(kind, k, slot, copies, open, sig)
    PROVE  \E n, op : /\ TcGrown(n, op) /\ op.kind = kind /\ op.st = mm.st /\ op.t = mm.t /\ op.k = k
                      /\ op.slot = slot /\ op.copies = copies /\ op.open = open /\ op.signals = sig
                      /\ ~op.begun
<1>1. PICK n, op : /\ TcGrown(n, op) /\ op.kind = kind /\ op.st = mm.st /\ op.t = mm.t /\ op.k = k
                   /\ op.slot = slot /\ op.copies = copies /\ op.open = open /\ op.signals = sig
  BY IssueGrows
<1>2. ~tc'[Len(tc) + 1].begun
  BY DEF Issue, TcType
<1>3. ~op.begun
  BY <1>1, <1>2 DEF TcGrown
<1> QED
  BY <1>1, <1>3

LEMMA GrownIn ==
    ASSUME NEW n, NEW op, TcGrown(n, op), ~op.begun
    PROVE  /\ \A i : PvIn(i)' <=> PvIn(i) \/ (op.kind = "PV" /\ op.st = i)
           /\ op.kind = "QK" \/ op.open => \A i : PvClosed(i)' => PvClosed(i)
           /\ \A r : Copying(r)' <=> Copying(r) \/ r \in op.copies
           /\ PvOnce /\ (op.kind = "PV" => ~PvIn(op.st)) => PvOnce'
<1>1. /\ n \in Nat /\ DOMAIN tc = 1..n /\ DOMAIN tc' = 1..(n + 1) /\ tc'[n + 1] = op
      /\ \A j \in 1..n : tc'[j] = tc[j]
  BY DEF TcGrown
<1>2. \A j \in DOMAIN tc' : (j = n + 1 /\ tc'[j] = op) \/ (j \in DOMAIN tc /\ tc'[j] = tc[j])
  BY <1>1
<1>3. \A j \in DOMAIN tc : j \in DOMAIN tc' /\ tc'[j] = tc[j]
  BY <1>1
<1>4. n + 1 \in DOMAIN tc' /\ tc'[n + 1] = op
  BY <1>1
<1>5. \A i : PvIn(i)' <=> PvIn(i) \/ (op.kind = "PV" /\ op.st = i)
  BY <1>2, <1>3, <1>4 DEF PvIn
<1>6. op.kind = "QK" \/ op.open => \A i : PvClosed(i)' => PvClosed(i)
  BY <1>2, <1>3, <1>4 DEF PvClosed
<1>7. \A r : Copying(r)' <=> Copying(r) \/ r \in op.copies
  BY <1>2, <1>3, <1>4 DEF Copying
<1>8. PvOnce /\ (op.kind = "PV" => ~PvIn(op.st)) => PvOnce'
  BY <1>2, <1>3, <1>4 DEF PvOnce, PvIn
<1> QED
  BY <1>5, <1>6, <1>7, <1>8

LEMMA GrownHolds ==
    ASSUME TcType, TcHolds, NEW n, NEW op, TcGrown(n, op), UNCHANGED mem, ~op.begun,
           OpHolds(op)', Waits(op)',
           \A j \in DOMAIN tc : tc[j].kind = "QK" => QksIssued(tc[j].st)' = QksIssued(tc[j].st)
    PROVE  TcHolds'
<1>1. /\ DOMAIN tc = 1..n /\ DOMAIN tc' = 1..(n + 1) /\ tc'[n + 1] = op /\ n \in Nat
      /\ \A j \in 1..n : tc'[j] = tc[j]
  BY DEF TcGrown
<1> SUFFICES ASSUME NEW j \in DOMAIN tc' PROVE OpHolds(tc[j])' /\ RunHolds(j, tc[j])' /\ Waits(tc[j])'
  BY DEF TcHolds
<1>2. CASE j = n + 1
  <2>1. PICK x : x = tc'[j] /\ x = op
    BY <1>1, <1>2
  <2>2. OpHolds(x)' /\ RunHolds(j, x)' /\ Waits(x)'
    BY <2>1 DEF RunHolds
  <2> QED
    BY <2>1, <2>2 DEF OpHolds, RunHolds, Scaled, Waits, QksIssued
<1>3. CASE j # n + 1
  <2>1. j \in DOMAIN tc
    BY <1>1, <1>3
  <2>2. PICK x : x = tc'[j] /\ x = tc[j]
    BY <1>1, <2>1
  <2>3. OpHolds(x) /\ RunHolds(j, x) /\ Waits(x)
    BY <2>1, <2>2 DEF TcHolds
  <2>4. x.kind = "QK" => QksIssued(x.st)' = QksIssued(x.st)
    BY <2>1, <2>2
  <2>5. OpHolds(x)'
    BY <2>3, <2>4 DEF OpHolds
  <2>6. RunHolds(j, x)' /\ Waits(x)'
    BY <2>3 DEF RunHolds, Scaled, Waits
  <2> QED
    BY <2>2, <2>5, <2>6 DEF OpHolds, RunHolds, Scaled, Waits, QksIssued
<1> QED
  BY <1>2, <1>3

-----------------------------------------------------------------------------
(* A QK is issued. *)

\* What it is issued for, and on what.
QkDue(i, t, k) ==
    /\ i \in {0, 1} /\ i = mm.st /\ t = mm.t /\ k = mm.k + 1 /\ (Prologue <=> k = 1)
    /\ MmBlocks \in Int /\ QksIssued(i) = MmBlocks /\ IsBlock(t, k, MmBlocks + 1)
    /\ mem[<<"Q", i>>] = QTag(t) /\ mem[<<"KV", mm.idx>>] = KTag(t, k)

LEMMA MmaQkDue == ASSUME OperandInv, Contents, mm.at = "qk" PROVE \E i, t, k : QkDue(i, t, k)
<1>0. MmThere /\ MmPlace
  BY MmThereIs DEF OperandInv, MmInv
<1>1. MmWhere /\ MmStarts
  BY <1>0 DEF MmThere
<1>20. PICK i \in {0, 1} : i = mm.st
  BY <1>1 DEF MmWhere
<1>21. PICK t, m : t = mm.t /\ m = mm.k
  OBVIOUS
<1>2. i = mm.st /\ t = mm.t /\ m = mm.k
  BY <1>20, <1>21
<1>3. /\ t \in Tile /\ m \in Int /\ 0 <= m /\ m <= Blocks[t] /\ m # Blocks[t] /\ Blocks[t] \in Int /\ t \in Int
      /\ ~Last /\ ~MmOver
  <2>1. ~MmOver
    BY DEF MmOver
  <2>2. ~Last
    BY <1>0 DEF MmPlace
  <2> QED
    BY <1>1, <1>2, <2>1, <2>2 DEF MmWhere, Last
<1>4. MmBlocks \in Int /\ Start[t] \in Int /\ MmBlocks = Start[t] + m
  BY <1>0, <1>1, <1>2 DEF MmThere, MmStarts
<1>5. IsBlock(t, m + 1, MmBlocks + 1)
  <2>1. m + 1 \in 1..Blocks[t]
    BY <1>3
  <2>2. Start[t] + (m + 1) = MmBlocks + 1
    BY <1>3, <1>4
  <2> QED
    BY <1>3, <2>1, <2>2 DEF IsBlock
<1>6. QksIssued(i) = MmBlocks
  BY <1>2, <1>4 DEF QksIssued, If1
<1>7. mem[<<"Q", i>>] = QTag(t)
  <2>1. HoldsQ(i) > 0
    <3>1. QGiven = mm.t - 1 + 0 /\ QTaken(i) = mm.t - 1 + 1
      <4>1. If1(~MmOver /\ (mm.k > 0 \/ i < mm.st \/ (i = mm.st /\ mm.at # "q"))) = 1
        BY <1>2, <1>3 DEF If1
      <4>2. If1(Last) = 0
        BY <1>3 DEF If1
      <4> QED
        BY <4>1, <4>2 DEF QGiven, QTaken
    <3> QED
      BY <1>2, <1>3, <3>1 DEF HoldsQ
  <2>2. QHolds(i)
    BY DEF Contents, StageHolds
  <2> QED
    BY <1>2, <2>1, <2>2 DEF QHolds
<1>8. mem[<<"KV", mm.idx>>] = KTag(t, m + 1)
  <2>1. MmNext = 2 * MmBlocks
    <3>1. If1(mm.k > 0 /\ (mm.at = "v" \/ (mm.at \in {"p", "p2"} /\ ~HoldsV))) = 0
      BY DEF If1
    <3> QED
      BY <1>4, <3>1 DEF MmNext
  <2>2. HoldsNext
    BY DEF HoldsNext
  <2>3. IsItem(mem[<<"KV", mm.idx>>], MmNext)
    BY <2>2 DEF Contents, KvHolds
  <2>4. PICK v \in 0..1 : v = 0
    OBVIOUS
  <2>5. PICK b, x, tag : b = MmBlocks + 1 /\ x = MmNext /\ tag = mem[<<"KV", mm.idx>>]
    OBVIOUS
  <2>6. x = 2 * (b - 1) + v /\ IsItem(tag, x) /\ IsBlock(t, m + 1, b)
    BY <1>4, <1>5, <2>1, <2>3, <2>4, <2>5
  <2>7. tag = <<t, m + 1, v>>
    BY <2>6, ItemUnique
  <2> QED
    BY <2>4, <2>5, <2>7 DEF KTag
<1>9. Prologue <=> m + 1 = 1
  BY <1>2, <1>3 DEF Prologue
<1>10. QkDue(i, t, m + 1)
  BY <1>2, <1>4, <1>5, <1>6, <1>7, <1>8, <1>9 DEF QkDue
<1> QED
  BY <1>10

\* The operation.
QkNew(n, op, i, t, k) ==
    /\ TcGrown(n, op) /\ op.kind = "QK" /\ op.st = i /\ op.t = t /\ op.k = k /\ op.slot = mm.idx
    /\ op.copies = CopiesOf(op) /\ ~op.open /\ op.signals = QKSignals /\ ~op.begun

LEMMA MmaQkNew ==
    ASSUME TcType, MmaIssueQK, NEW i, NEW t, NEW k, QkDue(i, t, k) PROVE \E n, op : QkNew(n, op, i, t, k)
<1>1. PICK kind, kk, slot, copies, open, sig :
         /\ Issue(kind, kk, slot, copies, open, sig) /\ kind = "QK" /\ kk = mm.k + 1 /\ slot = mm.idx
         /\ copies = QKCopies /\ open = FALSE /\ sig = QKSignals
  BY DEF MmaIssueQK, QKSignals, QKEnds
<1>2. PICK n, op : /\ TcGrown(n, op) /\ op.kind = kind /\ op.st = mm.st /\ op.t = mm.t /\ op.k = kk
                   /\ op.slot = slot /\ op.copies = copies /\ op.open = open /\ op.signals = sig
                   /\ ~op.begun
  <2>1. Issue(kind, kk, slot, copies, open, sig)
    BY <1>1
  <2> QED
    BY <2>1, IssueFresh
<1>3. op.copies = CopiesOf(op)
  <2>1. op.kind = "QK" /\ op.st = mm.st /\ op.copies = QKCopies /\ (Prologue <=> op.k = 1)
    BY <1>1, <1>2 DEF QkDue
  <2> QED
    BY <2>1 DEF CopiesOf, QKCopies
<1> QED
  BY <1>1, <1>2, <1>3 DEF QkDue, QkNew

LEMMA MmaIssueQKContents == ASSUME CInv, FlightInv', MmaIssueQK PROVE Contents'
<1>0. /\ FlightInv /\ Contents /\ HandInv /\ OperandInv /\ MmHere /\ AllNumbers /\ TcType /\ InFlight
      /\ TcHolds /\ PvOnce /\ MmWhere
  <2>1. FlightInv /\ Contents /\ HandInv /\ InFlight
    BY DEF CInv, FlightInv
  <2>2. OperandInv /\ MmHere /\ AllNumbers
    BY <2>1, HandPlaces DEF HandInv
  <2>3. TcType /\ MmWhere
    BY <2>2, MmIsSomewhere DEF OperandInv, Types, MmInv
  <2> QED
    BY <2>1, <2>2, <2>3 DEF Contents
<1>1. mm.at = "qk" /\ UNCHANGED <<mem, sm, co, ep>>
  BY DEF MmaIssueQK
<1>2. PICK i, t, k : QkDue(i, t, k)
  BY <1>0, <1>1, MmaQkDue
<1>3. PICK n, op : QkNew(n, op, i, t, k)
  BY <1>0, <1>2, MmaQkNew
<1>4. PICK v : MmaRuns(v, QKSignals)
  BY <1>0, MmaIssueQKRuns
<1>5. PICK w : MmGo(w, QKSignals) /\ NoPvIn(w)
  BY <1>0, MmaIssueQKGo
<1>6. i \in {0, 1} /\ i = mm.st /\ MmBlocks \in Int /\ QksIssued(i) = MmBlocks /\ IsBlock(t, k, MmBlocks + 1)
  BY <1>2 DEF QkDue
<1>7. ASSUME NEW j \in {0, 1}
      PROVE  /\ QksIssued(j)' = IF j = i THEN MmBlocks + 1 ELSE QksIssued(j)
             /\ PvBegun(j)' = PvBegun(j) /\ PvDone(j)' = PvDone(j)
  <2>1. MmNumbers(j)
    BY <1>0 DEF AllNumbers
  <2>2. /\ QksIssued(j)' = QksIssued(j) + If1(<<"S_full", j>> \in QKSignals)
        /\ PvBegun(j)' = PvBegun(j) + If1(<<"P_full_O", j>> \in w)
        /\ PvDone(j)' = PvDone(j) + If1(<<"P_full_2", j>> \in w)
    BY <1>5 DEF MmGo, MmDelta
  <2>3. If1(<<"P_full_O", j>> \in w) = 0 /\ If1(<<"P_full_2", j>> \in w) = 0
    BY <1>5 DEF NoPvIn, If1
  <2>4. <<"S_full", j>> \in QKSignals <=> j = i
    BY <1>6, MmSignalsAre
  <2>5. PvBegun(j)' = PvBegun(j) /\ PvDone(j)' = PvDone(j)
    BY <2>1, <2>2, <2>3 DEF MmNumbers
  <2>6. CASE j = i
    BY <1>6, <2>1, <2>2, <2>4, <2>5, <2>6 DEF MmNumbers, If1
  <2>7. CASE j # i
    <3>1. QksIssued(j)' = QksIssued(j) + 0 /\ QksIssued(j) \in Int
      BY <2>1, <2>2, <2>4, <2>7 DEF MmNumbers, If1
    <3> QED
      BY <2>5, <2>7, <3>1
  <2> QED
    BY <2>6, <2>7
<1>8. OpHolds(op)' /\ Waits(op)'
  <2>1. /\ op.kind = "QK" /\ op.st = i /\ op.t = t /\ op.k = k /\ op.slot = mm.idx /\ op.copies = CopiesOf(op)
        /\ op.signals = QKSignals
    BY <1>3 DEF QkNew
  <2>2. QksIssued(i)' = MmBlocks + 1
    BY <1>6, <1>7
  <2>3. mem'[<<"Q", i>>] = QTag(t) /\ mem'[<<"KV", op.slot>>] = KTag(t, k)
    BY <1>1, <1>2, <2>1 DEF QkDue
  <2>4. \A j \in {0, 1} : <<"S_full", j>> \in op.signals <=> op.kind = "QK" /\ j = op.st
    BY <1>6, <2>1, MmSignalsAre
  <2>5. QksIssued(op.st)' = MmBlocks + 1
    BY <2>1, <2>2 DEF QksIssued
  <2>6. OpHolds(op)'
    BY <1>6, <2>1, <2>3, <2>4, <2>5 DEF OpHolds
  <2> QED
    BY <2>1, <2>6 DEF Waits
<1>9. ASSUME NEW j \in DOMAIN tc, tc[j].kind = "QK" PROVE QksIssued(tc[j].st)' = QksIssued(tc[j].st)
  <2>1. ~Committed(<<"S_full", mm.st>>)
    BY <1>0, <1>5, SFullNotTwice
  <2>2. <<"S_full", tc[j].st>> \in tc[j].signals
    BY <1>0, <1>9 DEF InFlight, QkFlies
  <2>3. tc[j].st # i
    BY <1>6, <2>1, <2>2 DEF Committed
  <2>4. tc[j].st \in {0, 1}
    BY <1>0, OpIs
  <2>5. PICK x \in {0, 1} : x = tc[j].st
    BY <2>4
  <2>6. QksIssued(x)' = QksIssued(x)
    BY <1>7, <2>3, <2>5
  <2>7. tc'[j] = tc[j]
    BY <1>3 DEF QkNew, TcGrown
  <2> QED
    BY <2>5, <2>6, <2>7 DEF QksIssued
<1>10. TcGrown(n, op) /\ ~op.begun /\ op.kind = "QK" /\ op.copies = CopiesOf(op) /\ op.st = i /\ op.k = k
  BY <1>3 DEF QkNew
<1>11. TcHolds'
  BY <1>0, <1>1, <1>8, <1>9, <1>10, GrownHolds
<1>12. /\ \A j : (PvIn(j)' <=> PvIn(j)) /\ (PvClosed(j)' => PvClosed(j))
       /\ \A r : Copying(r)' <=> Copying(r) \/ r \in op.copies
       /\ PvOnce'
  <2>1. /\ \A j : PvIn(j)' <=> PvIn(j) \/ (op.kind = "PV" /\ op.st = j)
        /\ op.kind = "QK" \/ op.open => \A j : PvClosed(j)' => PvClosed(j)
        /\ \A r : Copying(r)' <=> Copying(r) \/ r \in op.copies
        /\ PvOnce /\ (op.kind = "PV" => ~PvIn(op.st)) => PvOnce'
    BY <1>10, GrownIn
  <2> QED
    BY <1>0, <1>10, <2>1
<1>13. ASSUME NEW j \in {0, 1} PROVE StageHolds(j)'
  <2>1. PStored(j)' = PStored(j) /\ P2Stored(j)' = P2Stored(j) /\ ORescaled(j)' = ORescaled(j) /\ (Rescaling(j)' <=> Rescaling(j))
    BY <1>1, SmSame, CoSame DEF Rescaling
  <2>2. PHolds(j)'
    BY <1>0, <1>1, <1>7, <1>12, <2>1, PKept DEF Contents, StageHolds
  <2>3. OHolds(j)'
    BY <1>0, <1>1, <1>7, <1>12, <2>1, OKept DEF Contents, StageHolds
  <2>4. QHolds(j)' /\ MmaKept(j)
    BY <1>0, <1>1, <1>4, MmaQ, MmaStays
  <2> QED
    BY <2>2, <2>3, <2>4 DEF StageHolds, MmaKept
<1>14. SfHolds'
  <2> SUFFICES ASSUME Decoupled, mm'.at # "end" PROVE SfqHolds(0)' /\ SfqHolds(1)' /\ (SharedSfk => SfkHolds')
    BY DEF SfHolds
  <2>1. SfqHolds(0) /\ SfqHolds(1) /\ (SharedSfk => SfkHolds) /\ QuantQK
    <3>1. QuantQK
      BY ConfigAssumption
    <3> QED
      BY <1>0, <1>1, <3>1 DEF Contents, SfHolds
  <2>2. ASSUME NEW j \in {0, 1} PROVE SfqHolds(j)'
    <3> SUFFICES ASSUME NEW tt, NEW kk, IsBlock(tt, kk, QksIssued(j)'), ~Copying(<<"SFQ", j>>)'
                 PROVE  mem[<<"SFQ", j>>] = QTag(tt)
      BY <1>1 DEF SfqHolds
    <3>1. SfqHolds(j) /\ ~Copying(<<"SFQ", j>>) /\ <<"SFQ", j>> \notin op.copies
      BY <1>12, <2>1
    <3>2. CASE j # i
      <4>1. IsBlock(tt, kk, QksIssued(j))
        BY <1>7, <3>2
      <4> QED
        BY <3>1, <4>1 DEF SfqHolds
    <3>3. CASE j = i
      <4>1. k # 1
        <5> SUFFICES ASSUME k = 1 PROVE FALSE
          OBVIOUS
        <5>1. op.kind # "PV" /\ op.k = 1 /\ QuantQK /\ op.st = j
          BY <1>10, <2>1, <3>3
        <5>2. CopiesOf(op) = {<<"SFQ", op.st>>, <<"SFK", SfkSlot(op.st)>>}
          BY <5>1 DEF CopiesOf, SfkSlot
        <5> QED
          BY <1>10, <3>1, <5>1, <5>2
      <4>2. QksIssued(j)' = MmBlocks + 1
        BY <1>7, <3>3
      <4>3. PICK b : b = MmBlocks + 1
        OBVIOUS
      <4>4. IsBlock(tt, kk, b) /\ IsBlock(t, k, b) /\ b \in Int
        BY <1>6, <4>2, <4>3
      <4>5. tt = t /\ kk = k
        BY <4>4, BlockUnique
      <4>6. IsBlock(t, k - 1, b - 1)
        <5>1. /\ t \in Tile /\ k \in Int /\ 1 <= k /\ k <= Blocks[t] /\ Blocks[t] \in Int /\ Start[t] \in Int
              /\ b = Start[t] + k
          BY <4>4, BlockIs
        <5>2. k - 1 \in 1..Blocks[t] /\ Start[t] + (k - 1) = b - 1
          BY <4>1, <5>1
        <5> QED
          BY <5>1, <5>2 DEF IsBlock
      <4>7. b - 1 = QksIssued(j)
        BY <1>6, <3>3, <4>3
      <4>8. mem[<<"SFQ", j>>] = QTag(t)
        BY <3>1, <4>6, <4>7 DEF SfqHolds
      <4> QED
        BY <4>5, <4>8
    <3> QED
      BY <3>2, <3>3
  <2>3. ASSUME SharedSfk PROVE SfkHolds'
    <3> SUFFICES ASSUME NEW tt, NEW kk, IsBlock(tt, kk, QksIssued(0)'), ~Copying(<<"SFK", 0>>)'
                 PROVE  mem[<<"SFK", 0>>] = KTag(tt, kk)
      BY <1>1 DEF SfkHolds
    <3>1. SfkHolds /\ ~Copying(<<"SFK", 0>>) /\ <<"SFK", 0>> \notin op.copies
      BY <1>12, <2>1, <2>3
    <3>2. i # 0
      BY <1>10, <2>1, <2>3, <3>1 DEF CopiesOf, SfkSlot
    <3>3. QksIssued(0)' = QksIssued(0)
      BY <1>7, <3>2
    <3> QED
      BY <3>1, <3>3 DEF SfkHolds
  <2> QED
    BY <2>2, <2>3
<1>15. LdPlaced' /\ MmPlaced' /\ KvHolds'
  BY <1>0, <1>4, MmaKv
<1>16. OksHold'
  BY <1>0, <1>1, <1>4, MmaStays DEF MmaKept
<1> QED
  BY <1>11, <1>12, <1>13, <1>14, <1>15, <1>16 DEF Contents

-----------------------------------------------------------------------------
(* The first part of a PV is issued. *)

PvDue(i, t, k) ==
    /\ i \in {0, 1} /\ i = mm.st /\ t = mm.t /\ k = mm.k
    /\ MmBlocks \in Int /\ PvBegun(i) = MmBlocks - 1 /\ IsBlock(t, k, MmBlocks)
    /\ mem[<<"KV", mm.v>>] = VTag(t, k)

LEMMA MmaPvDue == ASSUME OperandInv, Contents, mm.at = "p" PROVE \E i, t, k : PvDue(i, t, k)
<1>0. MmThere /\ MmPlace
  BY MmThereIs DEF OperandInv, MmInv
<1>1. MmWhere /\ MmStarts
  BY <1>0 DEF MmThere
<1>20. PICK i \in {0, 1} : i = mm.st
  BY <1>1 DEF MmWhere
<1>21. PICK t, k : t = mm.t /\ k = mm.k
  OBVIOUS
<1>2. i = mm.st /\ t = mm.t /\ k = mm.k
  BY <1>20, <1>21
<1>3. t \in Tile /\ k \in Int /\ 1 <= k /\ k <= Blocks[t] /\ Blocks[t] \in Int /\ k # 0
  <2>1. ~MmOver
    BY DEF MmOver
  <2>2. mm.k # 0
    BY <1>0 DEF MmPlace
  <2> QED
    BY <1>1, <1>2, <2>1, <2>2 DEF MmWhere
<1>4. MmBlocks \in Int /\ Start[t] \in Int /\ MmBlocks = Start[t] + k
  BY <1>0, <1>1, <1>2 DEF MmThere, MmStarts
<1>5. IsBlock(t, k, MmBlocks)
  <2>1. k \in 1..Blocks[t]
    BY <1>3
  <2> QED
    BY <1>3, <1>4, <2>1 DEF IsBlock
<1>6. PvBegun(i) = MmBlocks - 1
  <2>1. If1(i < mm.st \/ (i = mm.st /\ ~Decoupled /\ mm.at \in {"k", "qk"})) = 0 /\ If1(i = mm.st /\ mm.at = "p2") = 0
    BY <1>2 DEF If1
  <2>2. PvDone(i) = MmBlocks + (0 - 1)
    BY <1>2, <1>3, <2>1 DEF PvDone
  <2> QED
    BY <1>4, <2>1, <2>2 DEF PvBegun
<1>7. IsItem(mem[<<"KV", mm.v>>], 2 * MmBlocks - 1)
  <2>1. CASE HoldsV
    BY <2>1 DEF Contents, KvHolds
  <2>2. CASE ~HoldsV
    <3>1. mm.v = mm.idx
      BY <1>0, <2>2 DEF MmThere, VIsNext
    <3>2. If1(mm.k > 0 /\ (mm.at = "v" \/ (mm.at \in {"p", "p2"} /\ ~HoldsV))) = 1
      BY <1>2, <1>3, <2>2 DEF If1
    <3>3. MmNext = 2 * MmBlocks - 1
      BY <3>2 DEF MmNext
    <3>4. HoldsNext
      BY DEF HoldsNext
    <3> QED
      BY <3>1, <3>3, <3>4 DEF Contents, KvHolds
  <2> QED
    BY <2>1, <2>2
<1>8. mem[<<"KV", mm.v>>] = VTag(t, k)
  <2>4. PICK v \in 0..1 : v = 1
    OBVIOUS
  <2>5. PICK b, x, tag : b = MmBlocks /\ x = 2 * MmBlocks - 1 /\ tag = mem[<<"KV", mm.v>>]
    OBVIOUS
  <2>6. x = 2 * (b - 1) + v /\ IsItem(tag, x) /\ IsBlock(t, k, b)
    BY <1>4, <1>5, <1>7, <2>4, <2>5
  <2>7. tag = <<t, k, v>>
    BY <2>6, ItemUnique
  <2> QED
    BY <2>4, <2>5, <2>7 DEF VTag
<1>10. PvDue(i, t, k)
  BY <1>2, <1>4, <1>5, <1>6, <1>8 DEF PvDue
<1> QED
  BY <1>10

\* The operation.
PvNew(n, op, i, t, k) ==
    /\ TcGrown(n, op) /\ op.kind = "PV" /\ op.st = i /\ op.t = t /\ op.k = k /\ op.slot = mm.v
    /\ op.copies = CopiesOf(op) /\ op.open /\ op.signals = {} /\ ~op.begun

LEMMA MmaPvNew ==
    ASSUME TcType, MmaIssuePV, NEW i, NEW t, NEW k, PvDue(i, t, k) PROVE \E n, op : PvNew(n, op, i, t, k)
<1>1. PICK kind, kk, slot, copies, open, sig :
         /\ Issue(kind, kk, slot, copies, open, sig) /\ kind = "PV" /\ kk = mm.k /\ slot = mm.v
         /\ copies = PVCopies /\ open = TRUE /\ sig = {}
  BY DEF MmaIssuePV
<1>2. PICK n, op : /\ TcGrown(n, op) /\ op.kind = kind /\ op.st = mm.st /\ op.t = mm.t /\ op.k = kk
                   /\ op.slot = slot /\ op.copies = copies /\ op.open = open /\ op.signals = sig
                   /\ ~op.begun
  <2>1. Issue(kind, kk, slot, copies, open, sig)
    BY <1>1
  <2> QED
    BY <2>1, IssueFresh
<1>3. op.copies = CopiesOf(op)
  <2>1. op.kind = "PV" /\ op.st = mm.st /\ op.copies = PVCopies
    BY <1>1, <1>2
  <2> QED
    BY <2>1 DEF CopiesOf, PVCopies
<1> QED
  BY <1>1, <1>2, <1>3 DEF PvDue, PvNew

LEMMA MmaIssuePVContents == ASSUME CInv, FlightInv', MmaIssuePV PROVE Contents'
<1>0. /\ FlightInv /\ Contents /\ HandInv /\ OperandInv /\ MmHere /\ AllNumbers /\ TcType /\ InFlight
      /\ TcHolds /\ PvOnce /\ Tallies
  <2>1. FlightInv /\ Contents /\ HandInv /\ InFlight
    BY DEF CInv, FlightInv
  <2>2. OperandInv /\ MmHere /\ AllNumbers /\ Tallies
    BY <2>1, HandPlaces, TalliesAre DEF HandInv
  <2>3. TcType
    BY <2>2 DEF OperandInv, Types
  <2> QED
    BY <2>1, <2>2, <2>3 DEF Contents
<1>1. mm.at = "p" /\ UNCHANGED <<mem, sm, co, ep>>
  BY DEF MmaIssuePV
<1>2. PICK i, t, k : PvDue(i, t, k)
  BY <1>0, <1>1, MmaPvDue
<1>3. PICK n, op : PvNew(n, op, i, t, k)
  BY <1>0, <1>2, MmaPvNew
<1>4. MmaRuns({<<"P_full_O", mm.st>>}, {})
  BY <1>0, MmaIssuePVRuns
<1>6. i \in {0, 1} /\ i = mm.st /\ MmBlocks \in Int /\ PvBegun(i) = MmBlocks - 1 /\ IsBlock(t, k, MmBlocks)
  BY <1>2 DEF PvDue
<1>5. MmGo({<<"P_full_O", i>>}, {})
  BY <1>0, <1>6, MmaIssuePVGo
<1>7. ASSUME NEW j \in {0, 1}
      PROVE  /\ QksIssued(j)' = QksIssued(j) /\ PvDone(j)' = PvDone(j) /\ PvBegun(j) \in Int
             /\ PvBegun(j)' = IF j = i THEN PvBegun(j) + 1 ELSE PvBegun(j)
  <2>1. MmNumbers(j)
    BY <1>0 DEF AllNumbers
  <2>2. /\ QksIssued(j)' = QksIssued(j) + If1(<<"S_full", j>> \in {})
        /\ PvBegun(j)' = PvBegun(j) + If1(<<"P_full_O", j>> \in {<<"P_full_O", i>>})
        /\ PvDone(j)' = PvDone(j) + If1(<<"P_full_2", j>> \in {<<"P_full_O", i>>})
    BY <1>5 DEF MmGo, MmDelta
  <2>3. If1(<<"S_full", j>> \in {}) = 0 /\ If1(<<"P_full_2", j>> \in {<<"P_full_O", i>>}) = 0
    BY DEF If1
  <2>4. <<"P_full_O", j>> \in {<<"P_full_O", i>>} <=> j = i
    OBVIOUS
  <2>5. QksIssued(j)' = QksIssued(j) /\ PvDone(j)' = PvDone(j)
    BY <2>1, <2>2, <2>3 DEF MmNumbers
  <2>6. CASE j = i
    BY <2>1, <2>2, <2>4, <2>5, <2>6 DEF MmNumbers, If1
  <2>7. CASE j # i
    <3>1. PvBegun(j)' = PvBegun(j) + 0 /\ PvBegun(j) \in Int
      BY <2>1, <2>2, <2>4, <2>7 DEF MmNumbers, If1
    <3> QED
      BY <2>5, <2>7, <3>1
  <2> QED
    BY <2>6, <2>7
<1>8. PvBegun(i) + 1 <= PStored(i) /\ ORescaled(i) = PvBegun(i) + 1 /\ PStored(i) \in Int
  <2>1. PvBegun(i) + 1 <= PStored(i) /\ PvBegun(i) + 1 <= ORescaled(i)
    <3>1. InTurn({<<"P_full_O", i>>}) /\ <<"P_full_O", i>> \in {<<"P_full_O", i>>}
      BY <1>5 DEF MmGo
    <3> QED
      BY <1>0, <1>6, <3>1, PvWaited
  <2>2. Tally(i)
    BY <1>0, <1>6, TallyBoth
  <2> QED
    BY <2>1, <2>2 DEF Tally
<1>9. OHolds(i) /\ ~PvIn(i) /\ i \in {0, 1}
  <2>1. OHolds(i)
    BY <1>0, <1>6 DEF Contents, StageHolds
  <2> QED
    BY <1>6, <1>7, <1>8, <2>1 DEF OHolds
<1>10. /\ TcGrown(n, op) /\ ~op.begun /\ op.kind = "PV" /\ op.copies = CopiesOf(op) /\ op.st = i /\ op.t = t
       /\ op.k = k /\ op.slot = mm.v /\ op.signals = {} /\ op.open
  BY <1>3 DEF PvNew
<1>11. OpHolds(op)' /\ Waits(op)'
  <2>1. mem'[<<"KV", op.slot>>] = VTag(t, k)
    BY <1>1, <1>2, <1>10 DEF PvDue
  <2>2. OpHolds(op)'
    BY <1>10, <2>1 DEF OpHolds
  <2>3. IsBlock(t, k, ORescaled(i))
    BY <1>6, <1>8
  <2>4. k > 1 => mem[<<"O", i>>] = Rescaled(t, k - 1)
    BY <1>8, <1>9, <2>3 DEF OHolds
  <2>5. Waits(op)'
    BY <1>1, <1>10, <2>4 DEF Waits
  <2> QED
    BY <2>2, <2>5
<1>12. TcHolds'
  <2>1. ASSUME NEW j \in DOMAIN tc, tc[j].kind = "QK" PROVE QksIssued(tc[j].st)' = QksIssued(tc[j].st)
    <3>1. tc'[j] = tc[j] /\ tc[j].st \in {0, 1}
      BY <1>0, <1>10, OpIs DEF TcGrown
    <3>2. PICK x \in {0, 1} : x = tc[j].st
      BY <3>1
    <3>3. QksIssued(x)' = QksIssued(x)
      BY <1>7
    <3> QED
      BY <3>1, <3>2, <3>3 DEF QksIssued
  <2> QED
    BY <1>0, <1>1, <1>10, <1>11, <2>1, GrownHolds
<1>13. /\ \A j : (PvIn(j)' <=> PvIn(j) \/ j = i) /\ (PvClosed(j)' => PvClosed(j))
       /\ \A r : Copying(r)' <=> Copying(r) \/ r \in op.copies
       /\ PvOnce'
  <2>1. /\ \A j : PvIn(j)' <=> PvIn(j) \/ (op.kind = "PV" /\ op.st = j)
        /\ op.kind = "QK" \/ op.open => \A j : PvClosed(j)' => PvClosed(j)
        /\ \A r : Copying(r)' <=> Copying(r) \/ r \in op.copies
        /\ PvOnce /\ (op.kind = "PV" => ~PvIn(op.st)) => PvOnce'
    BY <1>10, GrownIn
  <2> QED
    BY <1>0, <1>9, <1>10, <2>1
<1>14. ASSUME NEW j \in {0, 1} PROVE StageHolds(j)'
  <2>1. PStored(j)' = PStored(j) /\ P2Stored(j)' = P2Stored(j) /\ ORescaled(j)' = ORescaled(j) /\ (Rescaling(j)' <=> Rescaling(j))
    BY <1>1, SmSame, CoSame DEF Rescaling
  <2>2. PHolds(j)'
    <3>1. PHolds(j)
      BY <1>0 DEF Contents, StageHolds
    <3>2. (PvBegun(j)' < PStored(j)' \/ PvIn(j)') => (PvBegun(j) < PStored(j) \/ PvIn(j))
      <4>1. CASE j = i
        BY <1>7, <1>8, <4>1
      <4>2. CASE j # i
        BY <1>7, <1>13, <2>1, <4>2
      <4> QED
        BY <4>1, <4>2
    <3>3. (PvDone(j)' < P2Stored(j)' \/ PvClosed(j)') => (PvDone(j) < P2Stored(j) \/ PvClosed(j))
      BY <1>7, <1>13, <2>1
    <3> QED
      BY <1>1, <2>1, <3>1, <3>2, <3>3 DEF PHolds
  <2>3. OHolds(j)'
    <3>1. CASE j = i
      <4>1. PvIn(j)' /\ ORescaled(j)' = PvBegun(j)' /\ ORescaled(j)' # PvBegun(j)' + 1
        BY <1>7, <1>8, <1>13, <2>1, <3>1
      <4> QED
        BY <4>1 DEF OHolds
    <3>2. CASE j # i
      BY <1>0, <1>1, <1>7, <1>13, <2>1, <3>2, OKept DEF Contents, StageHolds
    <3> QED
      BY <3>1, <3>2
  <2>4. QHolds(j)' /\ MmaKept(j)
    BY <1>0, <1>1, <1>4, MmaQ, MmaStays
  <2> QED
    BY <2>2, <2>3, <2>4 DEF StageHolds, MmaKept
<1>15. SfHolds'
  <2>1. SfHolds
    BY <1>0 DEF Contents
  <2> QED
    BY <1>1, <1>7, <1>13, <2>1 DEF SfHolds, SfqHolds, SfkHolds
<1>16. LdPlaced' /\ MmPlaced' /\ KvHolds'
  BY <1>0, <1>4, MmaKv
<1>17. OksHold'
  BY <1>0, <1>1, <1>4, MmaStays DEF MmaKept
<1> QED
  BY <1>12, <1>13, <1>14, <1>15, <1>16, <1>17 DEF Contents

-----------------------------------------------------------------------------
(* Tensor memory is given back: everybody is done. *)

LEMMA BlockWithin ==
    ASSUME NEW t, NEW k, NEW n, IsBlock(t, k, n) PROVE n <= Start[Tiles + 1] /\ n \in Int
<1>1. /\ t \in Int /\ 1 <= t /\ t <= Tiles /\ k \in Int /\ k <= Blocks[t] /\ n \in Int
      /\ Blocks[t] \in Int /\ Start[t] \in Int /\ n = Start[t] + k /\ Tiles \in Int /\ t \in 1..(Tiles + 1)
  BY BlockIs
<1>2. PICK u \in 1..(Tiles + 1) : u = Tiles + 1
  BY <1>1
<1>3. Start[t] + Blocks[t] <= Start[u] /\ Start[u] \in Int
  BY <1>1, <1>2, StartGrows, StartIs
<1> QED
  BY <1>1, <1>2, <1>3

\* Everybody done: every count is that of all blocks.
AllDone(i) ==
    /\ QksIssued(i) = Start[Tiles + 1] /\ PvDone(i) = Start[Tiles + 1] /\ PvBegun(i) = Start[Tiles + 1]
    /\ SLoaded(i) = Start[Tiles + 1] /\ PStored(i) = Start[Tiles + 1] /\ P2Stored(i) = Start[Tiles + 1]
    /\ ORescaled(i) = Start[Tiles + 1] + 1 /\ Start[Tiles + 1] \in Int

LEMMA DeallocDue ==
    ASSUME HandInv, MmaDealloc PROVE sm[0].at = "end" /\ sm[1].at = "end" /\ co.at = "end"
<1>0. BarType /\ BarOK /\ Counted /\ Windows /\ MmHere
  BY HandPlaces, WindowsHold DEF HandInv
<1>1. PICK b \in HandBarrier : b = <<"dealloc", 0>> /\ b \in Barrier /\ b[1] = "dealloc"
  BY HandBarriersAre
<1>2. bar[b].done = bar[b].seen + 1 - Free(b)
  <2>1. InTurn({b})
    BY <1>0, <1>1, MmaDeallocGo DEF MmGo
  <2> QED
    BY <1>0, <1>1, <2>1, TurnsTell
<1>3. Free(b) = 0
  BY <1>1 DEF Free, StartsFree, If1
<1>4. bar[b].seen = 0
  <2>1. bar[b].seen = Waited(b) /\ Waited(b) = If1(mm.at = "end") /\ mm.at = "dealloc"
    BY <1>1, HandFacts, AccountsAre DEF MmaDealloc
  <2> QED
    BY <2>1 DEF If1
<1>5. Arrivals(b) = (If1(sm[0].at = "end") + If1(sm[1].at = "end") + If1(co.at = "end")) - If1(Committed(b))
  <2>1. Arrivals(b) = Given(b) - If1(Committed(b))
    BY <1>0 DEF Counted
  <2>2. Given(<<"dealloc", 0>>) = If1(sm[0].at = "end") + If1(sm[1].at = "end") + If1(co.at = "end")
    BY AccountsAre
  <2>3. Given(b) = Given(<<"dealloc", 0>>)
    BY <1>1
  <2> QED
    BY <2>1, <2>2, <2>3
<1>6. Arrivals(b) >= 3
  <2>1. bar[b].left \in 1..3 /\ Count(b) = 3
    BY <1>0, <1>1 DEF BarOK, Count
  <2>2. bar[b].done = 1
    BY <1>2, <1>3, <1>4
  <2>3. Arrivals(b) = 3 * 1 + 3 - bar[b].left
    BY <2>1, <2>2 DEF Arrivals
  <2> QED
    BY <2>1, <2>3
<1> QED
  BY <1>5, <1>6 DEF If1

LEMMA AllAreDone == ASSUME HandInv, MmaDealloc, NEW i \in {0, 1} PROVE AllDone(i)
<1>0. SmWhere(i) /\ CoWhere /\ MmHere /\ SmPlace(i) /\ CoPlace /\ MmPlace /\ MmWhere /\ i \in Stage
  <2>1. SmWhere(i) /\ CoWhere /\ MmHere /\ MmPlace /\ MmType
    BY HandPlaces DEF Types
  <2>2. SmPlace(i) /\ CoPlace
    BY StageIs DEF HandInv, Places
  <2> QED
    BY <2>1, <2>2, MmIsSomewhere, StageIs
<1>1. sm[i].at = "end" /\ co.at = "end" /\ mm.at = "dealloc"
  BY DeallocDue DEF MmaDealloc
<1>2. PICK e \in Int : e = Start[Tiles + 1]
  <2>1. Tiles + 1 \in 1..(Tiles + 1)
    BY <1>0 DEF MmWhere
  <2> QED
    BY <2>1, StartIs
<1>3. sm[i].t = Tiles + 1 /\ sm[i].k = 1 /\ co.t = Tiles + 1
  BY <1>0, <1>1 DEF SmPlace, CoPlace
<1>4. mm.t = Tiles + 1 /\ mm.k = 0 /\ mm.st = 0
  BY <1>0, <1>1 DEF MmPlace, MmOver
<1>5. SLoaded(i) = e /\ PStored(i) = e /\ P2Stored(i) = e
  <2>1. SmBlocks(i) = e
    BY <1>2, <1>3 DEF SmBlocks
  <2> QED
    BY <1>1, <1>2, <2>1 DEF SLoaded, PStored, P2Stored, If1
<1>6. ORescaled(i) = e + 1
  <2>1. ~CoIn
    BY <1>1 DEF CoIn
  <2>2. If1(co.at # "start") = 1
    BY <1>1 DEF If1
  <2> QED
    BY <1>2, <1>3, <2>1, <2>2 DEF ORescaled
<1>7. QksIssued(i) = e /\ PvDone(i) = e /\ PvBegun(i) = e
  <2>1. MmBlocks = e
    BY <1>2, <1>4 DEF MmBlocks
  <2>2. If1(~Last /\ (i < mm.st \/ (Decoupled /\ i = mm.st /\ mm.at \in {"p", "p2"}))) = 0 /\ If1(i = mm.st /\ mm.at = "p2") = 0
    BY <1>1, <1>4 DEF If1
  <2>3. PvDone(i) = e
    BY <1>2, <1>4, <2>1 DEF PvDone
  <2> QED
    BY <1>2, <2>1, <2>2, <2>3 DEF QksIssued, PvBegun
<1> QED
  BY <1>2, <1>5, <1>6, <1>7 DEF AllDone

LEMMA NothingFlies == ASSUME FlightInv, Contents, MmaDealloc, NEW j \in DOMAIN tc PROVE FALSE
<1>0. HandInv /\ InFlight /\ TcType /\ Tallies
  BY TalliesAre DEF FlightInv, HandInv, OperandInv, Types
<1>1. tc[j].kind \in {"QK", "PV"} /\ tc[j].st \in {0, 1}
  BY <1>0, OpIs
<1>2. PICK i \in {0, 1} : i = tc[j].st
  BY <1>1
<1>3. AllDone(i) /\ Tally(i)
  BY <1>0, AllAreDone, TallyBoth
<1>4. CASE tc[j].kind = "QK"
  <2>1. Committed(<<"S_full", i>>)
    BY <1>0, <1>2, <1>4 DEF InFlight, QkFlies, Committed
  <2>2. PICK d \in Int : d = Done("S_full", i)
    BY <1>3 DEF Tally
  <2>3. SLoaded(i) <= d /\ d = QksIssued(i) - 1
    BY <1>3, <2>1, <2>2 DEF Tally, If1
  <2> QED
    BY <1>3, <2>2, <2>3 DEF AllDone
<1>5. CASE tc[j].kind = "PV"
  <2>1. PvIn(i)
    BY <1>2, <1>5 DEF PvIn
  <2>2. ORescaled(i) = PvBegun(i)
    BY <2>1 DEF Contents, StageHolds, OHolds
  <2> QED
    BY <1>3, <2>2 DEF AllDone
<1> QED
  BY <1>1, <1>4, <1>5

LEMMA MmaDeallocContents == ASSUME CInv, FlightInv', MmaDealloc PROVE Contents'
<1>0. /\ FlightInv /\ Contents /\ HandInv /\ OperandInv /\ MmHere /\ AllNumbers /\ BarType /\ BarOK /\ Tallies
  <2>1. FlightInv /\ Contents /\ HandInv
    BY DEF CInv, FlightInv
  <2>2. OperandInv /\ MmHere /\ AllNumbers /\ Tallies
    BY <2>1, HandPlaces, TalliesAre DEF HandInv
  <2> QED
    BY <2>1, <2>2 DEF OperandInv, Types
<1>1. UNCHANGED <<tc, sm, co, ep, out>> /\ mm'.at = "end"
  <2>1. mm \in MmRecord
    BY <1>0 DEF OperandInv, Types, MmType
  <2> QED
    BY <2>1 DEF MmaDealloc, MmRecord
<1>2. MmaRuns({<<"dealloc", 0>>}, {})
  BY <1>0, MmaDeallocRuns
<1>3. \A j \in DOMAIN tc : FALSE
  BY <1>0, NothingFlies
<1>4. TcHolds' /\ PvOnce' /\ SfHolds' /\ OksHold'
  <2>1. TcHolds' /\ PvOnce'
    BY <1>1, <1>3 DEF TcHolds, PvOnce
  <2>2. SfHolds'
    BY <1>1 DEF SfHolds
  <2>3. OksHold'
    BY <1>0, <1>1 DEF Contents, OksHold
  <2> QED
    BY <2>1, <2>2, <2>3
<1>5. LdPlaced' /\ MmPlaced' /\ KvHolds'
  BY <1>0, <1>2, MmaKv
<1>6. ASSUME NEW i \in {0, 1} PROVE StageHolds(i)'
  <2>0. QHolds(i)'
    BY <1>0, <1>2, MmaQ
  <2>1. AllDone(i) /\ Tally(i)
    BY <1>0, AllAreDone, TallyBoth
  <2>2. /\ SLoaded(i)' = SLoaded(i) /\ PStored(i)' = PStored(i) /\ P2Stored(i)' = P2Stored(i) /\ ScalesOut(i)' = ScalesOut(i)
        /\ ORescaled(i)' = ORescaled(i) /\ ScalesTaken(i)' = ScalesTaken(i) /\ OWritten(i)' = OWritten(i)
        /\ EpFreed(i)' = EpFreed(i)
    BY <1>1, SmSame, CoSame, EpSame
  <2>3. PvBegun(i)' = PvBegun(i) /\ PvDone(i)' = PvDone(i)
    <3>1. /\ PvBegun(i)' = PvBegun(i) + If1(<<"P_full_O", i>> \in {<<"dealloc", 0>>})
          /\ PvDone(i)' = PvDone(i) + If1(<<"P_full_2", i>> \in {<<"dealloc", 0>>})
      BY <1>0, MmaDeallocGo DEF MmGo, MmDelta
    <3>2. If1(<<"P_full_O", i>> \in {<<"dealloc", 0>>}) = 0 /\ If1(<<"P_full_2", i>> \in {<<"dealloc", 0>>}) = 0
      BY DEF If1
    <3> QED
      BY <2>1, <3>1, <3>2 DEF AllDone
  <2>4. ~PvIn(i)' /\ ~PvClosed(i)'
    BY <1>1, <1>3 DEF PvIn, PvClosed
  <2>5. mem'[<<"sScale", i>>] = mem[<<"sScale", i>>] /\ mem'[<<"sO", i>>] = mem[<<"sO", i>>]
    <3>1. <<"sScale", i>> \in Region /\ <<"sO", i>> \in Region
      BY NamesIn
    <3>2. Column(<<"sScale", i>>) = {} /\ Column(<<"sO", i>>) = {}
      BY DEF Column, BaselineColumn, DecoupledColumn
    <3> QED
      BY <3>1, <3>2 DEF MmaDealloc
  <2>6. Done("S_full", i)' = Done("S_full", i)
    <3>1. SameCount({"kv_empty", "S_full"})
      BY <1>0, <1>2, MmaCounts DEF MmaRuns
    <3>2. <<"S_full", i>> \in Barrier
      BY NamesAre, StageIs
    <3> QED
      BY <3>1, <3>2 DEF SameCount, Done
  <2>7. SHolds(i)'
    <3>1. Done("S_full", i)' <= SLoaded(i)' /\ SLoaded(i)' \in Int /\ Done("S_full", i)' \in Int
      BY <2>1, <2>2, <2>6 DEF AllDone, Tally
    <3>2. Done("S_full", i)' # SLoaded(i)' + 1
      BY <3>1
    <3> QED
      BY <3>2 DEF SHolds
  <2>8. PHolds(i)'
    <3>1. ~(PvBegun(i)' < PStored(i)') /\ ~(PvDone(i)' < P2Stored(i)')
      BY <2>1, <2>2, <2>3 DEF AllDone
    <3> QED
      BY <2>4, <3>1 DEF PHolds
  <2>9. OHolds(i)'
    <3>1. ORescaled(i)' = Start[Tiles + 1] + 1 /\ ORescaled(i)' # PvBegun(i)' /\ Start[Tiles + 1] \in Int
      BY <2>1, <2>2, <2>3 DEF AllDone
    <3>2. \A t, k : ~IsBlock(t, k, ORescaled(i)')
      <4> SUFFICES ASSUME NEW t, NEW k, IsBlock(t, k, ORescaled(i)') PROVE FALSE
        OBVIOUS
      <4>1. PICK n : n = ORescaled(i)'
        OBVIOUS
      <4>2. n <= Start[Tiles + 1] /\ n \in Int
        BY <4>1, BlockWithin
      <4> QED
        BY <3>1, <4>1, <4>2
    <3> QED
      BY <2>4, <3>1, <3>2 DEF OHolds
  <2>10. ScaleHolds(i)'
    BY <1>0, <2>2, <2>5, ScaleKept DEF Contents, StageHolds
  <2>11. OutHolds(i)'
    BY <1>0, <1>1, <2>2, <2>5, OutKept DEF Contents, StageHolds
  <2> QED
    BY <2>0, <2>7, <2>8, <2>9, <2>10, <2>11 DEF StageHolds
<1> QED
  BY <1>4, <1>5, <1>6 DEF Contents

-----------------------------------------------------------------------------
(* The tensor core: what an operation in flight says of the roles. *)

\* A QK's S is not made, softmax has let go of the S its scale factors lie in, and the QKs
\* of the two stages are in step; on the baseline the P that lies in its S has been read.
QkRuns(i) ==
    /\ SLoaded(i) = Done("S_full", i) /\ Done("S_full", i) + 1 = QksIssued(i)
    /\ QuantQK => Done("S_full", 1 - i) = SLoaded(1 - i)
    /\ QuantQK /\ i = 1 => QksIssued(0) = QksIssued(1)
    /\ ~Decoupled => PStored(i) <= PvBegun(i) /\ P2Stored(i) <= PvDone(i)

LEMMA QkRunsIs ==
    ASSUME FlightInv, NEW j \in DOMAIN tc, tc[j].kind = "QK", NEW i \in {0, 1}, i = tc[j].st PROVE QkRuns(i)
<1>1. Committed(<<"S_full", i>>)
  <2>1. QkFlies(tc[j])
    BY PvsInFlight
  <2> QED
    BY <2>1 DEF QkFlies, Committed
<1>2. Tally(0) /\ Tally(1) /\ Stages
  BY TalliesAre DEF Tallies
<1>3. PICK s, d, q, e, l, r : /\ s = SLoaded(0) /\ d = Done("S_full", 0) /\ q = QksIssued(0)
                              /\ e = SLoaded(1) /\ l = Done("S_full", 1) /\ r = QksIssued(1)
                              /\ s \in Int /\ d \in Int /\ q \in Int /\ e \in Int /\ l \in Int /\ r \in Int
  BY <1>2 DEF Tally
<1>4. s <= d /\ d <= q /\ e <= l /\ l <= r /\ q <= s + 1 /\ r <= e + 1 /\ r <= q /\ q <= r + 1
      /\ (QuantQK => q <= e + 1 /\ r <= s)
  BY <1>2, <1>3 DEF Tally, Stages
<1>5. (i = 0 => d = q - 1) /\ (i = 1 => l = r - 1)
  BY <1>1, <1>2, <1>3 DEF Tally, If1
<1>6. /\ SLoaded(i) = Done("S_full", i) /\ Done("S_full", i) + 1 = QksIssued(i)
  <2>1. CASE i = 0
    BY <1>3, <1>4, <1>5, <2>1
  <2>2. CASE i = 1
    BY <1>3, <1>4, <1>5, <2>2
  <2> QED
    BY <2>1, <2>2
<1>7. ASSUME QuantQK PROVE Done("S_full", 1 - i) = SLoaded(1 - i) /\ (i = 1 => QksIssued(0) = QksIssued(1))
  <2>1. CASE i = 0
    <3>1. l = e
      BY <1>3, <1>4, <1>5, <1>7, <2>1
    <3>2. 1 - i = 1
      BY <2>1
    <3> QED
      BY <1>3, <2>1, <3>1, <3>2
  <2>2. CASE i = 1
    <3>1. d = s /\ q = r
      BY <1>3, <1>4, <1>5, <1>7, <2>2
    <3>2. 1 - i = 0
      BY <2>2
    <3> QED
      BY <1>3, <3>1, <3>2
  <2> QED
    BY <2>1, <2>2
<1>8. ~Decoupled => PStored(i) <= PvBegun(i) /\ P2Stored(i) <= PvDone(i)
  <2>1. Tally(i)
    BY <1>2
  <2> QED
    BY <1>6, <2>1 DEF Tally
<1> QED
  BY <1>6, <1>7, <1>8 DEF QkRuns

\* On the baseline a QK at the head of the queue has no PV of its stage behind it.
LEMMA QkAlone ==
    ASSUME FlightInv, ~Decoupled, NEW h \in DOMAIN tc, h = 1, tc[h].kind = "QK", NEW i \in {0, 1}, i = tc[h].st
    PROVE  ~PvIn(i)
<1> SUFFICES ASSUME NEW j \in DOMAIN tc, tc[j].kind = "PV", tc[j].st = i PROVE FALSE
  BY DEF PvIn
<1>1. QkRuns(i) /\ Tally(i) /\ PvLast(j, i) /\ <<"S_full", i>> \in tc[h].signals /\ CommitsOnce /\ TcType
  <2>1. QkRuns(i)
    BY QkRunsIs
  <2>2. Tally(i)
    BY TalliesAre, TallyBoth
  <2>3. PvLast(j, i) /\ QkFlies(tc[h])
    BY DEF FlightInv, InFlight
  <2>4. CommitsOnce /\ TcType
    BY DEF FlightInv, HandInv, OperandInv, Types
  <2> QED
    BY <2>1, <2>2, <2>3, <2>4 DEF QkFlies
<1>2. CASE mm.at = "p2" /\ mm.st = i
  <2>1. PvBegun(i) = PvDone(i) + 1
    BY <1>1, <1>2 DEF PvBegun, If1, Tally
  <2> QED
    BY <1>1, <2>1 DEF QkRuns, Tally
<1>3. CASE QksIssued(i) = PvDone(i)
  BY <1>1, <1>3 DEF QkRuns, Tally
<1>4. CASE \E m \in DOMAIN tc : j < m /\ <<"S_full", i>> \in tc[m].signals
  <2>1. PICK m \in DOMAIN tc : j < m /\ <<"S_full", i>> \in tc[m].signals
    BY <1>4
  <2>2. m = h
    BY <1>1, <2>1 DEF CommitsOnce
  <2>3. j \in Nat /\ 1 <= j
    BY <1>1 DEF TcType
  <2> QED
    BY <2>1, <2>2, <2>3
<1> QED
  BY <1>1, <1>2, <1>3, <1>4 DEF PvLast, QkFollows

\* A PV in flight: all of P was stored for it, and on the baseline no S is made behind it.
PvRuns(i) ==
    /\ PStored(i) = PvBegun(i)
    /\ ~Decoupled => Done("S_full", i) <= SLoaded(i)

LEMMA PvRunsIs ==
    ASSUME FlightInv, Decoupled => PvBeforeNextP, NEW j \in DOMAIN tc, tc[j].kind = "PV", NEW i \in {0, 1}, i = tc[j].st
    PROVE  PvRuns(i)
<1>1. Tally(i) /\ PvBehind /\ PvLast(j, i)
  BY TalliesAre, TallyBoth DEF FlightInv, HandInv, InFlight
<1>2. /\ Decoupled => Done("O_full", i) + 1 <= PvBegun(i)
      /\ ~Decoupled => SLoaded(i) <= PvBegun(i)
  BY PvUnheard
<1>3. PStored(i) <= PvBegun(i)
  <2>1. CASE Decoupled
    <3>1. PBegun(i) <= Done("O_full", i) + 1 /\ i \in Stage
      BY <1>1, <2>1, StageIs DEF PvBehind
    <3>2. PICK o : o = Done("O_full", i)
      OBVIOUS
    <3>3. o \in Int
      <4>1. BarType /\ <<"O_full", i>> \in Barrier
        BY NamesAre, StageIs DEF FlightInv, HandInv, OperandInv, Types
      <4>2. bar[<<"O_full", i>>].done \in Nat
        BY <4>1 DEF BarType, BarRecord
      <4> QED
        BY <3>2, <4>2 DEF Done
    <3> QED
      BY <1>1, <1>2, <2>1, <3>1, <3>2, <3>3 DEF Tally
  <2>2. CASE ~Decoupled
    BY <1>1, <1>2, <2>2 DEF Tally
  <2> QED
    BY <2>1, <2>2
<1>4. ASSUME ~Decoupled PROVE Done("S_full", i) <= SLoaded(i)
  <2>1. Done("S_full", i) <= PvBegun(i)
    <3>1. CASE mm.at = "p2" /\ mm.st = i
      <4>1. PvBegun(i) = PvDone(i) + 1
        BY <1>1, <3>1 DEF PvBegun, If1, Tally
      <4> QED
        BY <1>1, <1>4, <4>1 DEF Tally
    <3>2. CASE QksIssued(i) = PvDone(i)
      BY <1>1, <3>2 DEF Tally
    <3>3. CASE Committed(<<"S_full", i>>)
      <4>1. Done("S_full", i) = QksIssued(i) - 1
        BY <1>1, <3>3 DEF Tally, If1
      <4> QED
        BY <1>1, <1>4, <4>1 DEF Tally
    <3> QED
      BY <1>1, <1>4, <3>1, <3>2, <3>3 DEF PvLast, QkFollows, Committed
  <2> QED
    BY <1>1, <2>1 DEF Tally
<1> QED
  BY <1>1, <1>3, <1>4 DEF PvRuns, Tally

-----------------------------------------------------------------------------
(* The tensor core: what it writes. *)

LEMMA TargetIs ==
    ASSUME TcType, NEW j \in DOMAIN tc, NEW op, op = tc[j]
    PROVE  /\ op.kind \in {"QK", "PV"} /\ op.st \in {0, 1} /\ Target(op) \in Region
           /\ op.kind = "QK" => Target(op) = <<"S", op.st>>
           /\ op.kind = "PV" => Target(op) = <<"O", op.st>>
<1>1. op.kind \in {"QK", "PV"} /\ op.st \in {0, 1}
  BY OpIs
<1>2. /\ op.kind = "QK" => Target(op) = <<"S", op.st>>
      /\ op.kind = "PV" => Target(op) = <<"O", op.st>>
  BY DEF Target
<1>3. <<"S", op.st>> \in Region /\ <<"O", op.st>> \in Region
  BY <1>1, NamesIn
<1> QED
  BY <1>1, <1>2, <1>3

\* What the target overlaps.
LEMMA TargetPut ==
    ASSUME TcType, NEW j \in DOMAIN tc, NEW op, op = tc[j], NEW m, NEW tag, NEW q \in Region
    PROVE  \/ Put(m, Target(op), tag)[q] = m[q]
           \/ q = Target(op)
           \/ op.kind = "QK" /\ Decoupled /\ q[1] = "S"
           \/ op.kind = "QK" /\ ~Decoupled /\ q[1] \in {"Plo", "Phi"} /\ q[2] = op.st
           \/ op.kind = "QK" /\ ~Decoupled /\ q[1] \in ScaleNames
<1>1. /\ op.kind \in {"QK", "PV"} /\ op.st \in {0, 1} /\ Target(op) \in Region
      /\ op.kind = "QK" => Target(op) = <<"S", op.st>>
      /\ op.kind = "PV" => Target(op) = <<"O", op.st>>
  BY TargetIs
<1>2. CASE q # Target(op) /\ Clash(Target(op), q)
  <2>1. op.kind = "QK"
    <3> SUFFICES ASSUME op.kind = "PV" PROVE FALSE
      BY <1>1
    <3>1. PICK r \in Region : r = Target(op) /\ r[1] = "O"
      BY <1>1
    <3> QED
      BY <1>2, <3>1, ClashNone
  <2>2. Target(op) = <<"S", op.st>>
    BY <1>1, <2>1
  <2>3. PICK i \in {0, 1} : i = op.st
    BY <1>1
  <2>4. q # <<"S", i>> /\ Clash(<<"S", i>>, q)
    BY <1>2, <2>2, <2>3
  <2> QED
    BY <2>1, <2>3, <2>4, ClashS
<1>3. CASE q # Target(op) /\ ~Clash(Target(op), q)
  BY <1>1, <1>3, PutKeeps
<1> QED
  BY <1>2, <1>3

\* The copies and what they overlap.
LEMMA CopiedAt ==
    ASSUME TcType, NEW j \in DOMAIN tc, NEW op, op = tc[j], op.copies = CopiesOf(op), NEW q \in Region
    PROVE  /\ q \in op.copies => Copied(mem, op)[q] = mem[CopySource(op, q)] /\ q[1] \in ScaleNames
           /\ \/ Copied(mem, op)[q] = mem[q]
              \/ q[1] \in ScaleNames /\ (q \in op.copies \/ ~Decoupled)
              \/ ~Decoupled /\ op.kind = "QK" /\ QuantQK /\ q[1] = "S"
              \/ ~Decoupled /\ op.kind = "PV" /\ q = <<"S", op.st>>
<1>1. op.kind \in {"QK", "PV"} /\ op.st \in {0, 1}
  BY OpIs
<1>2. ASSUME NEW r \in op.copies
      PROVE  /\ r[1] \in ScaleNames /\ (op.kind = "QK" => QuantQK)
             /\ op.kind = "PV" => r[1] \in {"SFP", "SFV"} /\ r[2] = op.st
  BY <1>1 DEF CopiesOf, ScaleNames, SfvSlot
<1>3. q \in op.copies => Copied(mem, op)[q] = mem[CopySource(op, q)] /\ q[1] \in ScaleNames
  BY <1>2 DEF Copied
<1>4. CASE q \in op.copies
  BY <1>2, <1>3, <1>4
<1>5. CASE q \notin op.copies /\ \E r \in op.copies : q \in ClashesOf[r]
  <2>1. PICK r \in op.copies : q \in ClashesOf[r]
    BY <1>5
  <2>2. r \in Region /\ r[1] \in ScaleNames
    <3>1. <<"SFQ", op.st>> \in Region /\ <<"SFP", op.st>> \in Region /\ <<"SFV", op.st>> \in Region
          /\ <<"SFK", op.st>> \in Region /\ <<"SFK", 0>> \in Region
      BY <1>1, NamesIn
    <3> QED
      BY <1>2, <3>1 DEF CopiesOf, SfkSlot, SfvSlot
  <2>3. q # r /\ Clash(r, q)
    BY <2>1, <2>2 DEF ClashesOf
  <2>4. /\ ~Decoupled
        /\ \/ q[1] \in ScaleNames
           \/ q[1] = "S" /\ (r[1] \in {"SFP", "SFV"} => q[2] = r[2])
    BY <2>2, <2>3, ClashScale
  <2>5. CASE q[1] \in ScaleNames
    BY <1>3, <2>4, <2>5
  <2>6. CASE q[1] = "S" /\ (r[1] \in {"SFP", "SFV"} => q[2] = r[2])
    <3>1. CASE op.kind = "QK"
      BY <1>2, <1>3, <2>4, <2>6, <3>1
    <3>2. CASE op.kind = "PV"
      <4>1. q[2] = op.st
        BY <1>2, <2>6, <3>2
      <4>2. q = <<q[1], q[2]>>
        BY <2>6, RegionIs DEF TmemNames, SmemNames
      <4> QED
        BY <1>3, <2>4, <2>6, <3>2, <4>1, <4>2
    <3> QED
      BY <1>1, <3>1, <3>2
  <2> QED
    BY <2>4, <2>5, <2>6
<1>6. CASE q \notin op.copies /\ ~\E r \in op.copies : q \in ClashesOf[r]
  BY <1>6 DEF Copied
<1> QED
  BY <1>4, <1>5, <1>6

\* An operation begins.
TcBegins(n, op) ==
    /\ TcBegan(n) /\ 1 \in DOMAIN tc /\ op = tc[1] /\ ~op.begun /\ tc # <<>>
    /\ tc'[1].begun /\ tc'[1].ok = (Accumulates(op) => mem[Target(op)] = Rescaled(op.t, op.k - 1))
    /\ \A j \in DOMAIN tc : j # 1 => tc'[j] = tc[j]
    /\ mem' = Put(Copied(mem, op), Target(op), Garbage)
    /\ UNCHANGED <<bar, tma, ld, mm, sm, co, ep, out>>

LEMMA TcBeginsIs == ASSUME TcType, TcType', TcStart PROVE \E n, op : TcBegins(n, op)
<1>1. PICK n : TcBegan(n)
  BY StartBegins
<1>2. tc # <<>> /\ tc \in Seq(Op) /\ 1 \in DOMAIN tc /\ Head(tc) = tc[1]
  BY DEF TcStart, TcType
<1>3. PICK op : op = tc[1]
  OBVIOUS
<1>4. /\ ~op.begun
      /\ tc' = [tc EXCEPT ![1].begun = TRUE, ![1].ok = (Accumulates(op) => mem[Target(op)] = Rescaled(op.t, op.k - 1))]
      /\ mem' = Put(Copied(mem, op), Target(op), Garbage)
      /\ UNCHANGED <<bar, tma, ld, mm, sm, co, ep, out>>
  BY <1>2, <1>3 DEF TcStart
<1>5. PICK v : v = (Accumulates(op) => mem[Target(op)] = Rescaled(op.t, op.k - 1))
  OBVIOUS
<1>6. tc'[1] = [op EXCEPT !.begun = TRUE, !.ok = v] /\ op \in Op
  BY <1>2, <1>3, <1>4, <1>5
<1>7. tc'[1].begun /\ tc'[1].ok = v
  BY <1>6 DEF Op
<1>8. \A j \in DOMAIN tc : j # 1 => tc'[j] = tc[j]
  BY <1>2, <1>4
<1> QED
  BY <1>1, <1>2, <1>3, <1>4, <1>5, <1>7, <1>8 DEF TcBegins

\* The first operation ends.
TcEnds(n, op) ==
    /\ TcShrunk(n) /\ 1 \in DOMAIN tc /\ op = tc[1] /\ op.begun /\ ~op.open
    /\ \E tag : /\ mem' = Put(mem, Target(op), tag)
                /\ op.ok /\ (\A r \in Operands(op) : mem[r] = Needed(op, r)) =>
                      tag = IF op.kind = "QK" THEN STag(op.t, op.k) ELSE Folded(op.t, op.k)
    /\ Arrive(op.signals) /\ UNCHANGED <<tma, ld, mm, sm, co, ep, out>>

LEMMA TcEndsIs == ASSUME TcType, TcFinish PROVE \E n, op : TcEnds(n, op)
<1>1. PICK n : TcShrunk(n) /\ Arrive(tc[1].signals)
  BY FinishShrinks
<1>2. tc # <<>> /\ tc \in Seq(Op) /\ 1 \in DOMAIN tc /\ Head(tc) = tc[1]
  BY DEF TcFinish, TcType
<1>3. PICK op : op = tc[1]
  OBVIOUS
<1>4. PICK ok : ok = (op.ok /\ \A r \in Operands(op) : mem[r] = Needed(op, r))
  OBVIOUS
<1>5. PICK tag : tag = KeepIf(ok, IF op.kind = "QK" THEN STag(op.t, op.k) ELSE Folded(op.t, op.k))
  OBVIOUS
<1>6. op.begun /\ ~op.open /\ mem' = Put(mem, Target(op), tag) /\ UNCHANGED <<tma, ld, mm, sm, co, ep, out>>
  BY <1>2, <1>3, <1>4, <1>5 DEF TcFinish
<1>7. op.ok /\ (\A r \in Operands(op) : mem[r] = Needed(op, r)) =>
          tag = IF op.kind = "QK" THEN STag(op.t, op.k) ELSE Folded(op.t, op.k)
  BY <1>4, <1>5 DEF KeepIf
<1> QED
  BY <1>1, <1>2, <1>3, <1>6, <1>7 DEF TcEnds

\* Both touch no more than the operation's columns.
LEMMA TcBeginTouches ==
    ASSUME TcType, NEW n, NEW op, TcBegins(n, op), op.copies = CopiesOf(op) PROVE TcTouches(op)
<1> SUFFICES ASSUME NEW q \in Region, mem'[q] # mem[q]
             PROVE  \/ q = <<"O", op.st>> /\ op.kind = "PV"
                    \/ q[1] \in {"Plo", "Phi"} /\ q[2] = op.st /\ ~Decoupled /\ op.kind = "QK"
                    \/ q = <<"S", op.st>> /\ (op.kind = "QK" \/ ~Decoupled)
                    \/ q[1] = "S" /\ op.kind = "QK" /\ (Decoupled \/ QuantQK)
                    \/ q[1] \in ScaleNames
  BY DEF TcTouches
<1>1. PICK j \in DOMAIN tc : j = 1 /\ op = tc[j]
  BY DEF TcBegins
<1>2. PICK m : m = Copied(mem, op)
  OBVIOUS
<1>3. mem' = Put(m, Target(op), Garbage)
  BY <1>2 DEF TcBegins
<1>4. \/ mem'[q] = m[q]
      \/ q = Target(op)
      \/ op.kind = "QK" /\ Decoupled /\ q[1] = "S"
      \/ op.kind = "QK" /\ ~Decoupled /\ q[1] \in {"Plo", "Phi"} /\ q[2] = op.st
      \/ op.kind = "QK" /\ ~Decoupled /\ q[1] \in ScaleNames
  BY <1>1, <1>3, TargetPut
<1>5. \/ m[q] = mem[q]
      \/ q[1] \in ScaleNames /\ (q \in op.copies \/ ~Decoupled)
      \/ ~Decoupled /\ op.kind = "QK" /\ QuantQK /\ q[1] = "S"
      \/ ~Decoupled /\ op.kind = "PV" /\ q = <<"S", op.st>>
  BY <1>1, <1>2, CopiedAt
<1>6. /\ op.kind \in {"QK", "PV"}
      /\ op.kind = "QK" => Target(op) = <<"S", op.st>>
      /\ op.kind = "PV" => Target(op) = <<"O", op.st>>
  BY <1>1, TargetIs
<1> QED
  BY <1>4, <1>5, <1>6

LEMMA TcEndTouches ==
    ASSUME TcType, NEW n, NEW op, TcEnds(n, op) PROVE TcTouches(op)
<1> SUFFICES ASSUME NEW q \in Region, mem'[q] # mem[q]
             PROVE  \/ q = <<"O", op.st>> /\ op.kind = "PV"
                    \/ q[1] \in {"Plo", "Phi"} /\ q[2] = op.st /\ ~Decoupled /\ op.kind = "QK"
                    \/ q = <<"S", op.st>> /\ (op.kind = "QK" \/ ~Decoupled)
                    \/ q[1] = "S" /\ op.kind = "QK" /\ (Decoupled \/ QuantQK)
                    \/ q[1] \in ScaleNames
  BY DEF TcTouches
<1>1. PICK j \in DOMAIN tc : j = 1 /\ op = tc[j]
  BY DEF TcEnds
<1>2. PICK tag : mem' = Put(mem, Target(op), tag)
  BY DEF TcEnds
<1>4. \/ mem'[q] = mem[q]
      \/ q = Target(op)
      \/ op.kind = "QK" /\ Decoupled /\ q[1] = "S"
      \/ op.kind = "QK" /\ ~Decoupled /\ q[1] \in {"Plo", "Phi"} /\ q[2] = op.st
      \/ op.kind = "QK" /\ ~Decoupled /\ q[1] \in ScaleNames
  BY <1>1, <1>2, TargetPut
<1>6. /\ op.kind \in {"QK", "PV"}
      /\ op.kind = "QK" => Target(op) = <<"S", op.st>>
      /\ op.kind = "PV" => Target(op) = <<"O", op.st>>
  BY <1>1, TargetIs
<1> QED
  BY <1>4, <1>6

\* The scale factors stay as they are, on the decoupled layout, but for the ones copied.
LEMMA TcScalesStay ==
    ASSUME TcType, Decoupled, NEW n, NEW op, NEW q, q \in Region, q[1] \in ScaleNames
    PROVE  /\ TcBegins(n, op) /\ op.copies = CopiesOf(op) /\ q \notin op.copies => mem'[q] = mem[q]
           /\ TcEnds(n, op) => mem'[q] = mem[q]
<1>1. ASSUME TcBegins(n, op), op.copies = CopiesOf(op), q \notin op.copies PROVE mem'[q] = mem[q]
  <2>1. PICK j \in DOMAIN tc : j = 1 /\ op = tc[j]
    BY <1>1 DEF TcBegins
  <2>2. PICK m : m = Copied(mem, op)
    OBVIOUS
  <2>3. mem' = Put(m, Target(op), Garbage)
    BY <1>1, <2>2 DEF TcBegins
  <2>4. q # Target(op) /\ q[1] # "S"
    BY DEF Target, ScaleNames
  <2>5. \/ mem'[q] = m[q]
        \/ q = Target(op)
        \/ op.kind = "QK" /\ Decoupled /\ q[1] = "S"
        \/ op.kind = "QK" /\ ~Decoupled
    BY <2>1, <2>3, TargetPut
  <2>6. m[q] = mem[q] \/ ~Decoupled \/ q \in op.copies
    BY <1>1, <2>1, <2>2, CopiedAt
  <2> QED
    BY <1>1, <2>4, <2>5, <2>6
<1>2. ASSUME TcEnds(n, op) PROVE mem'[q] = mem[q]
  <2>1. PICK j \in DOMAIN tc : j = 1 /\ op = tc[j]
    BY <1>2 DEF TcEnds
  <2>3. PICK tag : mem' = Put(mem, Target(op), tag)
    BY <1>2 DEF TcEnds
  <2>4. q # Target(op) /\ q[1] # "S"
    BY DEF Target, ScaleNames
  <2>5. \/ mem'[q] = mem[q]
        \/ q = Target(op)
        \/ op.kind = "QK" /\ Decoupled /\ q[1] = "S"
        \/ op.kind = "QK" /\ ~Decoupled
    BY <2>1, <2>3, TargetPut
  <2> QED
    BY <2>4, <2>5
<1> QED
  BY <1>1, <1>2

-----------------------------------------------------------------------------
(* The tensor core: what its steps leave as it was. *)

\* A step of the operation at the head, with the arrivals a.
TcRuns(op, a) ==
    /\ 1 \in DOMAIN tc /\ op = tc[1] /\ op.kind \in {"QK", "PV"} /\ op.st \in {0, 1}
    /\ TcTouches(op) /\ Moves({}, a) /\ a \subseteq CommitBarriers
    /\ \A i : (PvIn(i)' => PvIn(i)) /\ (PvClosed(i)' => PvClosed(i))
    /\ UNCHANGED <<tma, ld, mm, sm, co, ep, out>>

LEMMA TcCounts ==
    ASSUME BarType, BarOK, NEW op, NEW a, TcRuns(op, a)
    PROVE  /\ SameCount({"q_full", "kv_full"})
           /\ \A s \in Slot : Seen("kv_empty", s)' = Seen("kv_empty", s)
           /\ \A i \in {0, 1} : <<"S_full", i>> \notin a => Done("S_full", i)' = Done("S_full", i)
           /\ \A i \in {0, 1} : <<"S_full", i>> \in a => Done("S_full", i)' = Done("S_full", i) + 1
<1>1. SameCount({"q_full", "kv_full"})
  <2>1. PICK w : w = {} /\ Moves(w, a)
    BY DEF TcRuns
  <2>2. PICK names : names = {"q_full", "kv_full"}
    OBVIOUS
  <2>3. \A b \in a : b[1] \notin names
    BY <2>2 DEF TcRuns, CommitBarriers
  <2>4. (\A b \in w : b[1] \notin names) /\ "P_full_O" \notin names /\ "dealloc" \notin names
    BY <2>1, <2>2
  <2>5. SameCount(names)
    BY <2>1, <2>3, <2>4, CountsSame
  <2> QED
    BY <2>2, <2>5
<1>2. ASSUME NEW b \in Barrier, b[1] \in {"kv_empty", "S_full"}
      PROVE  /\ bar'[b].seen = bar[b].seen
             /\ b \notin a => bar'[b].done = bar[b].done
             /\ b \in a => bar'[b].done = bar[b].done + 1
  <2>1. PICK w : w = {} /\ Moves(w, a)
    BY DEF TcRuns
  <2>2. b[1] \notin {"P_full_O", "dealloc"}
    BY <1>2
  <2>3. /\ b \notin a => bar'[b].done = bar[b].done
        /\ b \in a => bar'[b].done = bar[b].done + 1
        /\ bar'[b].seen = bar[b].seen + If1(b \in w) /\ bar[b].seen \in Int
    BY <2>1, <2>2, DoneKept
  <2>4. If1(b \in w) = 0
    BY <2>1 DEF If1
  <2> QED
    BY <2>3, <2>4
<1>3. \A s \in Slot : Seen("kv_empty", s)' = Seen("kv_empty", s)
  <2> SUFFICES ASSUME NEW s \in Slot PROVE bar'[<<"kv_empty", s>>].seen = bar[<<"kv_empty", s>>].seen
    BY DEF Seen
  <2> QED
    BY <1>2, NamesAre
<1>4. ASSUME NEW i \in {0, 1}
      PROVE  /\ <<"S_full", i>> \notin a => Done("S_full", i)' = Done("S_full", i)
             /\ <<"S_full", i>> \in a => Done("S_full", i)' = Done("S_full", i) + 1
  <2>1. <<"S_full", i>> \in Barrier
    BY NamesAre, StageIs
  <2> QED
    BY <1>2, <2>1 DEF Done
<1> QED
  BY <1>1, <1>3, <1>4

LEMMA KvStays ==
    ASSUME Types, LdPlaced, MmPlaced, KvHolds, UNCHANGED <<ld, mm, tma>>, SameCount({"q_full", "kv_full"}), SameAt({"KV"}),
           \A s \in Slot : Seen("kv_empty", s)' = Seen("kv_empty", s)
    PROVE  LdPlaced' /\ MmPlaced' /\ KvHolds'
<1>1. \A s \in Slot : /\ UNCHANGED <<Done("kv_full", s), Seen("kv_full", s)>> /\ Seen("kv_empty", s)' = Seen("kv_empty", s)
                      /\ mem'[<<"KV", s>>] = mem[<<"KV", s>>]
  BY NamesAre, NamesIn DEF SameCount, SameAt, Done, Seen
<1>2. ld.idx \in Slot /\ mm.idx \in Slot /\ mm.v \in Slot
  BY DEF Types, LdType, MmType, MmRecord
<1>3. UNCHANGED <<HoldsNext, HoldsV, MmNext, MmBlocks, LdNext>>
  BY DEF HoldsNext, HoldsV, MmNext, MmBlocks, LdNext, Last
<1>4. LdPlaced'
  <2>1. PICK s \in Slot : s = ld.idx
    BY <1>2
  <2>2. Seen("kv_empty", s)' = Seen("kv_empty", s)
    BY <1>1
  <2>3. Seen("kv_empty", ld.idx)' = Seen("kv_empty", ld.idx)
    BY <2>1, <2>2 DEF Seen
  <2> QED
    BY <1>3, <2>3 DEF LdPlaced
<1>5. MmPlaced'
  BY <1>1, <1>2, <1>3 DEF MmPlaced, Before
<1>6. KvHolds'
  BY <1>1, <1>2, <1>3 DEF KvHolds
<1> QED
  BY <1>4, <1>5, <1>6

\* S: what is written over has been loaded by softmax.
LEMMA TcS ==
    ASSUME FlightInv, Decoupled => PvBeforeNextP, NEW i \in {0, 1}, SHolds(i), NEW op, NEW a, TcRuns(op, a),
           <<"S_full", i>> \notin a
    PROVE  SHolds(i)'
<1>1. BarType /\ BarOK
  BY DEF FlightInv, HandInv, OperandInv, Types
<1>2. Done("S_full", i)' = Done("S_full", i) /\ SLoaded(i)' = SLoaded(i)
  <2>1. SLoaded(i)' = SLoaded(i)
    BY SmSame DEF TcRuns
  <2> QED
    BY <1>1, <2>1, TcCounts
<1>3. CASE mem'[<<"S", i>>] = mem[<<"S", i>>]
  BY <1>2, <1>3, SKept
<1>4. CASE mem'[<<"S", i>>] # mem[<<"S", i>>]
  <2>1. PICK q \in Region : q = <<"S", i>>
    BY NamesIn
  <2>2. \/ i = op.st /\ (op.kind = "QK" \/ ~Decoupled)
        \/ op.kind = "QK" /\ (Decoupled \/ QuantQK)
    <3>1. q[1] = "S" /\ q[2] = i /\ mem'[q] # mem[q]
      BY <1>4, <2>1
    <3> QED
      BY <2>1, <3>1 DEF TcRuns, TcTouches, ScaleNames
  <2>3. PICK j \in DOMAIN tc, st \in {0, 1} : op = tc[j] /\ st = tc[j].st /\ tc[j].kind = op.kind
    BY DEF TcRuns
  <2>4. Tally(i)
    BY TalliesAre, TallyBoth
  <2>5. Done("S_full", i) <= SLoaded(i)
    <3>1. CASE op.kind = "QK"
      <4>1. QkRuns(st)
        BY <2>3, <3>1, QkRunsIs
      <4>2. CASE i = st
        BY <2>4, <4>1, <4>2 DEF QkRuns, Tally
      <4>3. CASE i # st
        <5>1. QuantQK /\ 1 - st = i
          <6>1. QuantQK
            BY <2>2, <2>3, <4>3, ConfigAssumption
          <6> QED
            BY <4>3, <6>1
        <5>2. Done("S_full", i) = SLoaded(i)
          BY <4>1, <5>1 DEF QkRuns
        <5> QED
          BY <2>4, <5>2 DEF Tally
      <4> QED
        BY <4>2, <4>3
    <3>2. CASE op.kind = "PV"
      <4>1. i = st /\ ~Decoupled
        BY <2>2, <2>3, <3>2
      <4>2. PvRuns(i)
        BY <2>3, <3>2, <4>1, PvRunsIs
      <4> QED
        BY <4>1, <4>2 DEF PvRuns
    <3> QED
      BY <3>1, <3>2 DEF TcRuns
  <2>6. ~(Done("S_full", i)' = SLoaded(i)' + 1)
    BY <1>2, <2>4, <2>5 DEF Tally
  <2> QED
    BY <2>6 DEF SHolds
<1> QED
  BY <1>3, <1>4

\* P: what is written over has been read.
LEMMA TcP ==
    ASSUME FlightInv, NEW i \in {0, 1}, PHolds(i), NEW op, NEW a, TcRuns(op, a) PROVE PHolds(i)'
<1>1. UNCHANGED <<PStored(i), P2Stored(i), PvBegun(i), PvDone(i)>>
  <2>1. UNCHANGED <<sm, mm>>
    BY DEF TcRuns
  <2> QED
    BY <2>1 DEF PStored, P2Stored, SmBlocks, PvBegun, PvDone, MmBlocks
<1>2. (PvIn(i)' => PvIn(i)) /\ (PvClosed(i)' => PvClosed(i))
  BY DEF TcRuns
<1>3. <<"Plo", i>> \in Region /\ <<"Phi", i>> \in Region /\ <<"sSFP", i>> \in Region
  BY NamesIn
<1>4. mem'[<<"sSFP", i>>] = mem[<<"sSFP", i>>]
  <2>1. PICK q \in Region : q = <<"sSFP", i>> /\ q[1] = "sSFP"
    BY <1>3
  <2> QED
    BY <2>1 DEF TcRuns, TcTouches, ScaleNames
<1>5. CASE op.kind = "QK" /\ ~Decoupled /\ op.st = i
  <2>1. PICK h \in DOMAIN tc : h = 1 /\ op = tc[h]
    BY DEF TcRuns
  <2>2. ~PvIn(i) /\ QkRuns(i) /\ Tally(i)
    BY <1>5, <2>1, QkAlone, QkRunsIs, TalliesAre, TallyBoth
  <2>3. ~PvIn(i)' /\ ~PvClosed(i)'
    <3>1. PvClosed(i) => PvIn(i)
      BY DEF PvClosed, PvIn
    <3> QED
      BY <1>2, <2>2, <3>1
  <2>4. ~(PvBegun(i) < PStored(i)) /\ ~(PvDone(i) < P2Stored(i))
    BY <1>5, <2>2 DEF QkRuns, Tally
  <2> QED
    BY <1>1, <2>3, <2>4 DEF PHolds
<1>6. CASE ~(op.kind = "QK" /\ ~Decoupled /\ op.st = i)
  <2>1. ASSUME NEW n \in {"Plo", "Phi"} PROVE mem'[<<n, i>>] = mem[<<n, i>>]
    <3>1. PICK q \in Region : q = <<n, i>> /\ q[1] = n /\ q[2] = i
      BY <1>3
    <3> QED
      BY <1>6, <3>1 DEF TcRuns, TcTouches, ScaleNames
  <2>2. \A n \in {"Plo", "Phi", "sSFP"} : mem'[<<n, i>>] = mem[<<n, i>>]
    BY <1>4, <2>1
  <2> QED
    BY <1>1, <1>2, <2>2, PKept
<1> QED
  BY <1>5, <1>6

\* The rest of it.
TcKept(i) == QHolds(i)' /\ ScaleHolds(i)' /\ OutHolds(i)' /\ PHolds(i)'
LEMMA TcFrame ==
    ASSUME FlightInv, Contents, NEW op, NEW a, TcRuns(op, a)
    PROVE  /\ LdPlaced' /\ MmPlaced' /\ KvHolds' /\ OksHold' /\ SameAt({"Q", "KV"})
           /\ TcKept(0) /\ TcKept(1)
           /\ \A i \in {0, 1} : (op.kind = "PV" => i # op.st) /\ (PvIn(i)' <=> PvIn(i)) => OHolds(i)'
           /\ \A i \in {0, 1} : (op.kind = "PV" => i # op.st) => mem'[<<"O", i>>] = mem[<<"O", i>>]
<1>0. Types /\ BarType /\ BarOK
  BY DEF FlightInv, HandInv, OperandInv, Types
<1>1. /\ SameCount({"q_full", "kv_full"})
      /\ \A s \in Slot : Seen("kv_empty", s)' = Seen("kv_empty", s)
  BY <1>0, TcCounts
<1>2. UNCHANGED <<tma, ld, mm, sm, co, ep, out>>
  BY DEF TcRuns
<1>3. \A q \in Region : q[1] \in {"Q", "KV", "sO", "sScale"} => mem'[q] = mem[q]
  <2> SUFFICES ASSUME NEW q \in Region, q[1] \in {"Q", "KV", "sO", "sScale"} PROVE mem'[q] = mem[q]
    OBVIOUS
  <2>1. q[1] \notin {"O", "S", "Plo", "Phi"} \cup ScaleNames
    BY DEF ScaleNames
  <2> QED
    BY <2>1 DEF TcRuns, TcTouches
<1>4. SameAt({"Q", "KV"}) /\ SameAt({"KV"})
  BY <1>3 DEF SameAt
<1>5. LdPlaced' /\ MmPlaced' /\ KvHolds'
  BY <1>0, <1>1, <1>2, <1>4, KvStays DEF Contents
<1>6. OksHold'
  BY <1>2 DEF Contents, OksHold
<1>7. ASSUME NEW i \in {0, 1} PROVE TcKept(i)
  <2>1. QHolds(i) /\ ScaleHolds(i) /\ OutHolds(i) /\ PHolds(i)
    BY DEF Contents, StageHolds
  <2>2. /\ mem'[<<"Q", i>>] = mem[<<"Q", i>>] /\ mem'[<<"sO", i>>] = mem[<<"sO", i>>]
        /\ mem'[<<"sScale", i>>] = mem[<<"sScale", i>>]
    BY <1>3, NamesIn
  <2>3. QHolds(i)'
    <3>1. SameCount({"q_full"})
      BY <1>1 DEF SameCount
    <3> QED
      BY <1>2, <2>1, <2>2, <3>1, QKept
  <2>4. ScaleHolds(i)'
    <3>1. ScalesOut(i)' = ScalesOut(i) /\ ScalesTaken(i)' = ScalesTaken(i)
      BY <1>2, SmSame, CoSame
    <3> QED
      BY <2>1, <2>2, <3>1, ScaleKept
  <2>5. OutHolds(i)'
    <3>1. OWritten(i)' = OWritten(i) /\ EpFreed(i)' = EpFreed(i)
      BY <1>2 DEF OWritten, EpFreed, CoEnding
    <3> QED
      BY <1>2, <2>1, <2>2, <3>1, OutKept
  <2>6. PHolds(i)'
    BY <2>1, TcP
  <2> QED
    BY <2>3, <2>4, <2>5, <2>6 DEF TcKept
<1>8. ASSUME NEW i \in {0, 1}, op.kind = "PV" => i # op.st
      PROVE  mem'[<<"O", i>>] = mem[<<"O", i>>] /\ ((PvIn(i)' <=> PvIn(i)) => OHolds(i)')
  <2>1. mem'[<<"O", i>>] = mem[<<"O", i>>]
    <3>1. PICK q \in Region : q = <<"O", i>> /\ q[1] = "O" /\ q[2] = i
      BY NamesIn
    <3> QED
      BY <1>8, <3>1 DEF TcRuns, TcTouches, ScaleNames
  <2>2. ASSUME PvIn(i)' <=> PvIn(i) PROVE OHolds(i)'
    <3>1. OHolds(i)
      BY DEF Contents, StageHolds
    <3>2. ORescaled(i)' = ORescaled(i) /\ PvBegun(i)' = PvBegun(i) /\ (Rescaling(i)' <=> Rescaling(i))
      <4>1. PvBegun(i)' = PvBegun(i)
        BY <1>2 DEF PvBegun, PvDone, MmBlocks
      <4> QED
        BY <1>2, <4>1, CoSame DEF Rescaling
    <3> QED
      BY <2>1, <2>2, <3>1, <3>2, OKept
  <2> QED
    BY <2>1, <2>2
<1> QED
  BY <1>4, <1>5, <1>6, <1>7, <1>8

-----------------------------------------------------------------------------
(* An operation begins. *)

\* Tensor memory is given back only when softmax is over, so no QK is in flight behind that.
LEMMA QkBeforeEnd == ASSUME FlightInv, NEW j \in DOMAIN tc, tc[j].kind = "QK" PROVE mm.at # "end"
<1> SUFFICES ASSUME mm.at = "end" PROVE FALSE
  OBVIOUS
<1>0. HandInv /\ BarOK /\ Counted /\ MmHere
  BY HandPlaces DEF FlightInv, HandInv
<1>1. PICK b \in HandBarrier : b = <<"dealloc", 0>> /\ b \in Barrier /\ b[1] = "dealloc"
  BY HandBarriersAre
<1>2. 1 <= bar[b].done /\ bar[b].done \in Int
  <2>1. bar[b].seen = Waited(b) /\ bar[b].done \in Nat /\ Waited(b) <= bar[b].done + Free(b)
    BY <1>0, HandFacts
  <2>2. Waited(b) = 1
    BY <1>1, AccountsAre DEF If1
  <2>3. Free(b) = 0
    BY <1>1 DEF Free, StartsFree, If1
  <2> QED
    BY <2>1, <2>2, <2>3
<1>3. sm[0].at = "end" /\ sm[1].at = "end"
  <2>1. Arrivals(b) = Given(b) - If1(Committed(b))
    BY <1>0 DEF Counted
  <2>2. Given(b) = If1(sm[0].at = "end") + If1(sm[1].at = "end") + If1(co.at = "end")
    BY <1>1, AccountsAre
  <2>3. bar[b].left \in 1..3 /\ Count(b) = 3
    BY <1>0, <1>1 DEF BarOK, Count
  <2>4. Arrivals(b) >= 3
    BY <1>2, <2>3 DEF Arrivals
  <2> QED
    BY <2>1, <2>2, <2>4 DEF If1
<1>4. PICK i \in {0, 1} : i = tc[j].st
  BY PvsInFlight
<1>5. QkRuns(i) /\ Tally(i)
  BY <1>4, QkRunsIs, TalliesAre, TallyBoth
<1>6. SmWhere(i) /\ SmPlace(i) /\ MmWhere /\ MmPlace
  <2>1. SmWhere(i) /\ MmPlace /\ MmType
    BY <1>0, HandPlaces DEF Types
  <2>2. SmPlace(i)
    BY <1>0, StageIs DEF HandInv, Places
  <2> QED
    BY <2>1, <2>2, MmIsSomewhere
<1>7. PICK e \in Int : e = Start[Tiles + 1]
  <2>1. Tiles + 1 \in 1..(Tiles + 1)
    BY <1>6 DEF MmWhere
  <2> QED
    BY <2>1, StartIs
<1>8. SLoaded(i) = e
  <2>1. sm[i].at = "end" /\ sm[i].t = Tiles + 1 /\ sm[i].k = 1
    BY <1>3, <1>6 DEF SmPlace
  <2>2. SmBlocks(i) = e
    BY <1>7, <2>1 DEF SmBlocks
  <2> QED
    BY <1>7, <2>1, <2>2 DEF SLoaded, If1
<1>9. QksIssued(i) = e
  <2>1. mm.t = Tiles + 1 /\ mm.k = 0 /\ mm.st = 0
    BY <1>6 DEF MmPlace, MmOver
  <2>2. MmBlocks = e
    BY <1>7, <2>1 DEF MmBlocks
  <2>3. If1(~Last /\ (i < mm.st \/ (Decoupled /\ i = mm.st /\ mm.at \in {"p", "p2"}))) = 0
    BY <2>1 DEF If1
  <2> QED
    BY <1>7, <2>2, <2>3 DEF QksIssued
<1> QED
  BY <1>5, <1>8, <1>9 DEF QkRuns, Tally

\* Copies of scale factors of QK are its own (decoupled layout).
LEMMA OwnCopies ==
    ASSUME FlightInv, Decoupled, NEW h \in DOMAIN tc, tc[h].kind = "QK", NEW q, q[1] \in {"SFQ", "SFK"}, Copying(q)
    PROVE  q \in tc[h].copies /\ ~tc[h].begun
<1>1. PICK j \in DOMAIN tc : ~tc[j].begun /\ q \in tc[j].copies
  BY DEF Copying
<1>2. tc[j].kind = "QK"
  <2>1. tc[j].kind \in {"QK", "PV"} /\ (tc[j].kind = "PV" => PvFlies(tc[j]))
    BY PvsInFlight
  <2>2. ASSUME PvFlies(tc[j]) PROVE FALSE
    <3>1. q \in {<<"SFP", tc[j].st>>, <<"SFV", SfvSlot(tc[j].st)>>}
      BY <1>1, <2>2 DEF PvFlies
    <3> QED
      BY <3>1
  <2> QED
    BY <2>1, <2>2
<1>3. j = h
  BY <1>2, OneOfAKind
<1> QED
  BY <1>1, <1>3

\* The scale factors of the operation, once it has begun.
LEMMA BeginScaled ==
    ASSUME FlightInv, Contents, Decoupled => PvBeforeNextP, NEW n, NEW op, TcBegins(n, op)
    PROVE  \A r \in Operands(op) : r[1] \in ScaleNames => mem'[r] = Needed(op, r)
<1> SUFFICES ASSUME NEW r \in Operands(op), r[1] \in ScaleNames PROVE mem'[r] = Needed(op, r)
  OBVIOUS
<1>0. TcType /\ TcHolds /\ SfHolds
  BY DEF FlightInv, HandInv, OperandInv, Types, Contents
<1>1. PICK j \in DOMAIN tc : j = 1 /\ op = tc[j]
  BY DEF TcBegins
<1>2. op.kind \in {"QK", "PV"} /\ OpHolds(op) /\ op.copies = CopiesOf(op)
  BY <1>0, <1>1, OpIs DEF TcHolds, OpHolds
<1>3. PICK st \in {0, 1} : st = op.st
  BY <1>0, <1>1, OpIs
<1>4. r \in Region
  BY <1>0, <1>1, OpIs
<1>5. PICK m : m = Copied(mem, op)
  OBVIOUS
<1>6. mem' = Put(m, Target(op), Garbage)
  BY <1>5 DEF TcBegins
<1>7. CASE r \in op.copies
  <2>1. mem'[r] = m[r]
    <3>1. /\ op.kind = "QK" => Target(op) = <<"S", st>>
          /\ op.kind = "PV" => Target(op) = <<"O", st>>
          /\ Target(op) \in Region
      BY <1>0, <1>1, <1>3, TargetIs
    <3>2. Target(op) # r
      BY <1>2, <3>1 DEF ScaleNames
    <3>3. ~Clash(Target(op), r)
      <4>1. CASE op.kind = "QK"
        <5>1. r[1] \in {"SFQ", "SFK"} /\ (~Decoupled => r[2] = st)
          BY <1>2, <1>3, <1>7, <4>1 DEF CopiesOf, SfkSlot
        <5>2. PICK s \in Region : s = <<"S", st>> /\ s = Target(op) /\ s[1] = "S" /\ s[2] = st
          BY <3>1, <4>1
        <5> SUFFICES ASSUME Clash(s, r) PROVE FALSE
          BY <5>2
        <5>3. s # r
          BY <3>2, <5>2
        <5>4. \/ OverlapSOSQ /\ Pair(s, r, "sO", "Q")
              \/ Decoupled /\ s[1] = "S" /\ r[1] = "S"
              \/ ~Decoupled /\ s[2] = r[2] /\ \E x \in {"Plo", "Phi", "SFP", "SFV"} : Pair(s, r, "S", x)
              \/ ~Decoupled /\ s[2] # r[2] /\ (\/ (\E x \in {"SFQ", "SFK"} : Pair(s, r, "S", x))
                                              \/ \E x \in {"SFP", "SFV"} : Pair(s, r, "SFQ", x))
          BY <1>4, <5>3, ClashIs
        <5> QED
          BY <5>1, <5>2, <5>4 DEF Pair
      <4>2. CASE op.kind = "PV"
        <5>1. PICK s \in Region : s = <<"O", st>> /\ s = Target(op) /\ s[1] = "O"
          BY <3>1, <4>2
        <5> QED
          BY <1>4, <3>2, <5>1, ClashNone
      <4> QED
        BY <1>2, <4>1, <4>2
    <3> QED
      BY <1>4, <1>6, <3>1, <3>2, <3>3, PutKeeps
  <2>2. m[r] = mem[CopySource(op, r)]
    BY <1>0, <1>1, <1>2, <1>4, <1>5, <1>7, CopiedAt
  <2>3. mem[CopySource(op, r)] = Needed(op, r)
    <3>1. CASE op.kind = "QK"
      <4>1. r[1] = "SFQ" \/ r[1] = "SFK"
        BY <1>2, <1>7, <3>1 DEF CopiesOf, SfkSlot
      <4>2. mem[<<"Q", op.st>>] = QTag(op.t) /\ mem[<<"KV", op.slot>>] = KTag(op.t, op.k)
        BY <1>2, <3>1 DEF OpHolds
      <4>3. CASE r[1] = "SFQ"
        BY <4>2, <4>3 DEF CopySource, Needed
      <4>4. CASE r[1] = "SFK"
        BY <4>2, <4>4 DEF CopySource, Needed
      <4> QED
        BY <4>1, <4>3, <4>4
    <3>2. CASE op.kind = "PV"
      <4>1. (r[1] = "SFP" \/ r[1] = "SFV") /\ QuantPV
        BY <1>2, <1>7, <3>2 DEF CopiesOf, SfvSlot
      <4>2. CASE r[1] = "SFV"
        <5>1. mem[<<"KV", op.slot>>] = VTag(op.t, op.k)
          BY <1>2, <3>2 DEF OpHolds
        <5> QED
          BY <4>2, <5>1 DEF CopySource, Needed
      <4>3. CASE r[1] = "SFP"
        <5>1. PvRuns(st) /\ PvFlies(op) /\ PvIn(st)
          BY <1>1, <1>3, <3>2, PvRunsIs, PvsInFlight DEF PvIn
        <5>2. IsBlock(op.t, op.k, PStored(st))
          <6>1. Start[op.t] + op.k = PvBegun(op.st) /\ op.t \in Tile /\ op.k \in 1..Blocks[op.t]
            BY <5>1 DEF PvFlies
          <6>2. PvBegun(op.st) = PStored(st)
            BY <1>3, <5>1 DEF PvRuns
          <6> QED
            BY <6>1, <6>2 DEF IsBlock
        <5>3. PHolds(st)
          BY DEF Contents, StageHolds
        <5>4. mem[<<"sSFP", st>>] = STag(op.t, op.k)
          BY <4>1, <5>1, <5>2, <5>3 DEF PHolds
        <5> QED
          BY <1>3, <4>3, <5>4 DEF CopySource, Needed
      <4> QED
        BY <4>1, <4>2, <4>3
    <3> QED
      BY <1>2, <3>1, <3>2
  <2> QED
    BY <2>1, <2>2, <2>3
<1>8. CASE r \notin op.copies
  <2>1. op.kind = "QK" /\ Decoupled /\ QuantQK /\ op.k # 1
        /\ (r = <<"SFQ", st>> \/ (r = <<"SFK", 0>> /\ st = 1 /\ SharedSfk))
    <3>1. CASE op.kind = "PV"
      BY <1>2, <1>8, <3>1 DEF Operands, CopiesOf, ScaleNames
    <3>2. CASE op.kind = "QK"
      <4>1. QuantQK /\ (r = <<"SFQ", st>> \/ r = <<"SFK", SfkSlot(st)>>)
        BY <1>3, <3>2 DEF Operands, ScaleNames
      <4>2. ~(op.k = 1 \/ ~Decoupled \/ (r[1] = "SFK" /\ (st = 0 \/ ~SharedSfk)))
        BY <1>2, <1>3, <1>8, <3>2, <4>1 DEF CopiesOf
      <4>3. r = <<"SFK", SfkSlot(st)>> => st = 1 /\ SharedSfk /\ Decoupled
        BY <1>3, <4>2
      <4> QED
        BY <3>2, <4>1, <4>2, <4>3 DEF SfkSlot
    <3> QED
      BY <1>2, <3>1, <3>2
  <2>2. mem'[r] = mem[r]
    BY <1>0, <1>2, <1>4, <1>8, <2>1, TcScalesStay
  <2>3. mm.at # "end" /\ QkRuns(st)
    BY <1>1, <1>3, <2>1, QkBeforeEnd, QkRunsIs
  <2>4. ~Copying(r)
    BY <1>1, <1>8, <2>1, OwnCopies
  <2>5. IsBlock(op.t, op.k, QksIssued(st))
    BY <1>2, <1>3, <2>1 DEF OpHolds
  <2>6. CASE r = <<"SFQ", st>>
    <3>1. SfqHolds(st)
      BY <1>0, <2>1, <2>3 DEF SfHolds
    <3>2. mem[r] = QTag(op.t)
      BY <2>4, <2>5, <2>6, <3>1 DEF SfqHolds
    <3> QED
      BY <2>2, <2>6, <3>2 DEF Needed
  <2>7. CASE r = <<"SFK", 0>> /\ st = 1 /\ SharedSfk
    <3>1. SfkHolds /\ QksIssued(0) = QksIssued(st)
      BY <1>0, <2>1, <2>3, <2>7 DEF SfHolds, QkRuns
    <3>2. mem[r] = KTag(op.t, op.k)
      BY <2>4, <2>5, <2>7, <3>1 DEF SfkHolds
    <3> QED
      BY <2>2, <2>7, <3>2 DEF Needed
  <2> QED
    BY <2>1, <2>6, <2>7
<1> QED
  BY <1>7, <1>8

LEMMA BeganIn ==
    ASSUME NEW n, NEW op, TcBegins(n, op), op.copies = CopiesOf(op)
    PROVE  /\ \A i : (PvIn(i)' <=> PvIn(i)) /\ (PvClosed(i)' <=> PvClosed(i))
           /\ PvOnce => PvOnce'
           /\ \A q : Copying(q) => Copying(q)' \/ q \in op.copies
           /\ \A q : Copying(q)' => Copying(q)
<1>1. /\ DOMAIN tc' = DOMAIN tc
      /\ \A j \in DOMAIN tc : /\ tc'[j].kind = tc[j].kind /\ tc'[j].st = tc[j].st /\ tc'[j].copies = tc[j].copies
                              /\ tc'[j].open = tc[j].open
  BY DEF TcBegins, TcBegan, Same
<1>2. \A i : PvIn(i)' <=> PvIn(i)
  BY <1>1 DEF PvIn
<1>3. \A i : PvClosed(i)' <=> PvClosed(i)
  BY <1>1 DEF PvClosed
<1>4. PvOnce => PvOnce'
  BY <1>1 DEF PvOnce
<1>5. \A j \in DOMAIN tc : /\ j # 1 => tc'[j] = tc[j]
                           /\ j = 1 => tc'[j].begun /\ ~tc[j].begun /\ tc[j].copies = op.copies
  BY DEF TcBegins
<1>6. \A q : Copying(q) => Copying(q)' \/ q \in op.copies
  <2> SUFFICES ASSUME NEW q, Copying(q), q \notin op.copies PROVE Copying(q)'
    OBVIOUS
  <2>1. PICK j \in DOMAIN tc : ~tc[j].begun /\ q \in tc[j].copies
    BY DEF Copying
  <2>2. tc'[j] = tc[j] /\ j \in DOMAIN tc'
    BY <1>1, <1>5, <2>1
  <2> QED
    BY <2>1, <2>2 DEF Copying
<1>7. \A q : Copying(q)' => Copying(q)
  <2> SUFFICES ASSUME NEW q, Copying(q)' PROVE Copying(q)
    OBVIOUS
  <2>1. PICK j \in DOMAIN tc' : ~tc'[j].begun /\ q \in tc'[j].copies
    BY DEF Copying
  <2>2. tc'[j] = tc[j] /\ j \in DOMAIN tc
    BY <1>1, <1>5, <2>1
  <2> QED
    BY <2>1, <2>2 DEF Copying
<1> QED
  BY <1>2, <1>3, <1>4, <1>6, <1>7

\* ... and what is in flight with it.
LEMMA BeginTc ==
    ASSUME FlightInv, Contents, Decoupled => PvBeforeNextP, NEW n, NEW op, TcBegins(n, op), SameAt({"Q", "KV"}),
           \A i \in {0, 1} : (op.kind = "PV" => i # op.st) => mem'[<<"O", i>>] = mem[<<"O", i>>]
    PROVE  TcHolds'
<1>0. TcType /\ TcHolds /\ PvOnce
  BY DEF FlightInv, HandInv, OperandInv, Types, Contents
<1>1. PICK h \in DOMAIN tc : h = 1 /\ op = tc[h]
  BY DEF TcBegins
<1>2. UNCHANGED mm /\ DOMAIN tc' = DOMAIN tc
  BY DEF TcBegins, TcBegan
<1>3. UNCHANGED <<QksIssued(0), QksIssued(1)>>
  BY <1>2 DEF QksIssued, MmBlocks, Last
<1>4. \A j \in DOMAIN tc : \A x : x = tc'[j] =>
          /\ Same(x, tc[j]) /\ x.signals = tc[j].signals /\ x.open = tc[j].open
          /\ j # h => x = tc[j]
          /\ j = h => x.begun /\ x.ok = (Accumulates(op) => mem[Target(op)] = Rescaled(op.t, op.k - 1))
  BY <1>1 DEF TcBegins, TcBegan
<1> SUFFICES ASSUME NEW j \in DOMAIN tc, NEW x, x = tc'[j] PROVE OpHolds(x)' /\ RunHolds(j, x)' /\ Waits(x)'
  BY <1>2 DEF TcHolds
<1>5. OpHolds(tc[j]) /\ RunHolds(j, tc[j]) /\ Waits(tc[j])
  BY <1>0 DEF TcHolds
<1>6. Same(x, tc[j]) /\ x.signals = tc[j].signals /\ x.open = tc[j].open
  BY <1>4
<1>7. PICK st \in {0, 1} : st = tc[j].st
  BY <1>0, OpIs
<1>8. OpHolds(x)'
  <2>1. /\ mem'[<<"Q", st>>] = mem[<<"Q", st>>] /\ mem'[<<"KV", tc[j].slot>>] = mem[<<"KV", tc[j].slot>>]
    BY <1>0, <1>7, OpIs, NamesIn DEF SameAt
  <2>2. QksIssued(st)' = QksIssued(st)
    BY <1>3
  <2>3. x.kind = tc[j].kind /\ x.st = st /\ x.t = tc[j].t /\ x.k = tc[j].k /\ x.slot = tc[j].slot /\ x.copies = tc[j].copies
    BY <1>6, <1>7 DEF Same
  <2>4. CopiesOf(x) = CopiesOf(tc[j])
    BY <1>6, SameOperands
  <2>5. QksIssued(x.st)' = QksIssued(tc[j].st)
    BY <1>7, <2>2, <2>3 DEF QksIssued
  <2> QED
    BY <1>5, <1>6, <1>7, <2>1, <2>3, <2>4, <2>5 DEF OpHolds
<1>9. CASE j # h
  <2>1. x = tc[j] /\ ~x.begun
    BY <1>1, <1>4, <1>5, <1>9 DEF RunHolds
  <2>2. RunHolds(j, x)'
    BY <2>1 DEF RunHolds
  <2>3. Waits(x)'
    <3> SUFFICES ASSUME x.kind = "PV", x.k > 1 PROVE mem'[<<"O", x.st>>] = Rescaled(x.t, x.k - 1)
      BY DEF Waits
    <3>1. mem[<<"O", st>>] = Rescaled(x.t, x.k - 1)
      BY <1>5, <1>7, <2>1 DEF Waits
    <3>2. op.kind = "PV" => st # op.st
      BY <1>0, <1>1, <1>7, <1>9, <2>1 DEF PvOnce
    <3> QED
      BY <1>7, <2>1, <3>1, <3>2
  <2> QED
    BY <1>8, <2>2, <2>3
<1>10. CASE j = h
  <2>1. x.begun /\ x.ok
    <3>1. x.begun /\ x.ok = (Accumulates(op) => mem[Target(op)] = Rescaled(op.t, op.k - 1))
      BY <1>4, <1>10
    <3>2. Accumulates(op) => mem[Target(op)] = Rescaled(op.t, op.k - 1)
      <4> SUFFICES ASSUME op.kind = "PV", op.k > 1 PROVE mem[Target(op)] = Rescaled(op.t, op.k - 1)
        BY DEF Accumulates
      <4>1. Waits(op) /\ ~op.begun
        BY <1>1, <1>5, <1>10 DEF TcBegins
      <4>2. Target(op) = <<"O", op.st>>
        BY DEF Target
      <4> QED
        BY <4>1, <4>2 DEF Waits
    <3> QED
      BY <3>1, <3>2
  <2>2. Scaled(x)'
    <3>1. \A r \in Operands(op) : r[1] \in ScaleNames => mem'[r] = Needed(op, r)
      BY BeginScaled
    <3>2. Operands(x) = Operands(op) /\ \A r : Needed(x, r) = Needed(op, r)
      BY <1>1, <1>6, <1>10, SameOperands
    <3> QED
      BY <3>1, <3>2 DEF Scaled
  <2>3. RunHolds(j, x)'
    BY <1>1, <1>10, <2>1, <2>2 DEF RunHolds
  <2>4. Waits(x)'
    BY <2>1 DEF Waits
  <2> QED
    BY <1>8, <2>3, <2>4
<1> QED
  BY <1>9, <1>10

\* The scale factors that stay in place.
LEMMA BeginSf ==
    ASSUME FlightInv, Contents, Decoupled => PvBeforeNextP, NEW n, NEW op, TcBegins(n, op)
    PROVE  SfHolds'
<1> SUFFICES ASSUME Decoupled, mm'.at # "end" PROVE SfqHolds(0)' /\ SfqHolds(1)' /\ (SharedSfk => SfkHolds')
  BY DEF SfHolds
<1>0. TcType /\ TcHolds /\ SfHolds /\ UNCHANGED mm /\ QuantQK
  BY ConfigAssumption DEF FlightInv, HandInv, OperandInv, Types, Contents, TcBegins
<1>1. PICK h \in DOMAIN tc : h = 1 /\ op = tc[h]
  BY DEF TcBegins
<1>2. op.kind \in {"QK", "PV"} /\ OpHolds(op) /\ op.copies = CopiesOf(op)
  BY <1>0, <1>1, OpIs DEF TcHolds, OpHolds
<1>3. PICK st \in {0, 1} : st = op.st
  BY <1>0, <1>1, OpIs
<1>4. UNCHANGED <<QksIssued(0), QksIssued(1)>>
  BY <1>0 DEF QksIssued, MmBlocks, Last
<1>5. SfqHolds(0) /\ SfqHolds(1) /\ (SharedSfk => SfkHolds)
  BY <1>0 DEF SfHolds
<1>6. ASSUME NEW r \in Region, r[1] \in {"SFQ", "SFK"}, ~Copying(r)' 
      PROVE  \/ ~Copying(r) /\ mem'[r] = mem[r]
             \/ op.kind = "QK" /\ r \in op.copies /\ mem'[r] = Needed(op, r)
  <2>0. r[1] \in ScaleNames
    BY <1>6 DEF ScaleNames
  <2>1. CASE r \notin op.copies
    <3>1. mem'[r] = mem[r]
      BY <1>0, <1>2, <2>0, <2>1, TcScalesStay
    <3>2. ~Copying(r)
      BY <1>2, <1>6, <2>1, BeganIn
    <3> QED
      BY <3>1, <3>2
  <2>2. CASE r \in op.copies
    <3>1. op.kind = "QK"
      BY <1>2, <1>6, <2>2 DEF CopiesOf
    <3>2. r \in Operands(op)
      BY <1>0, <1>2, <2>2, <3>1 DEF CopiesOf, Operands
    <3> QED
      BY <2>0, <2>2, <3>1, <3>2, BeginScaled
  <2> QED
    BY <2>1, <2>2
<1>7. ASSUME NEW i \in {0, 1} PROVE SfqHolds(i)'
  <2> SUFFICES ASSUME NEW t, NEW k, IsBlock(t, k, QksIssued(i)'), ~Copying(<<"SFQ", i>>)'
               PROVE  mem'[<<"SFQ", i>>] = QTag(t)
    BY DEF SfqHolds
  <2>1. IsBlock(t, k, QksIssued(i)) /\ SfqHolds(i)
    BY <1>4, <1>5
  <2>2. PICK r \in Region : r = <<"SFQ", i>> /\ r[1] = "SFQ"
    BY NamesIn
  <2>3. \/ ~Copying(r) /\ mem'[r] = mem[r]
        \/ op.kind = "QK" /\ r \in op.copies /\ mem'[r] = Needed(op, r)
    BY <1>6, <2>2
  <2>4. CASE ~Copying(r) /\ mem'[r] = mem[r]
    BY <2>1, <2>2, <2>4 DEF SfqHolds
  <2>5. CASE op.kind = "QK" /\ r \in op.copies /\ mem'[r] = Needed(op, r)
    <3>1. i = st
      BY <1>2, <1>3, <2>2, <2>5 DEF CopiesOf, SfkSlot
    <3>2. IsBlock(op.t, op.k, QksIssued(i))
      BY <1>2, <1>3, <2>5, <3>1 DEF OpHolds
    <3>3. op.t = t
      <4>1. PICK b : b = QksIssued(i)
        OBVIOUS
      <4>2. IsBlock(t, k, b) /\ IsBlock(op.t, op.k, b)
        BY <2>1, <3>2, <4>1
      <4> QED
        BY <4>2, BlockUnique
    <3> QED
      BY <2>2, <2>5, <3>3 DEF Needed
  <2> QED
    BY <2>3, <2>4, <2>5
<1>8. ASSUME SharedSfk PROVE SfkHolds'
  <2> SUFFICES ASSUME NEW t, NEW k, IsBlock(t, k, QksIssued(0)'), ~Copying(<<"SFK", 0>>)'
               PROVE  mem'[<<"SFK", 0>>] = KTag(t, k)
    BY DEF SfkHolds
  <2>1. IsBlock(t, k, QksIssued(0)) /\ SfkHolds
    BY <1>4, <1>5, <1>8
  <2>2. PICK r \in Region : r = <<"SFK", 0>> /\ r[1] = "SFK"
    BY NamesIn
  <2>3. \/ ~Copying(r) /\ mem'[r] = mem[r]
        \/ op.kind = "QK" /\ r \in op.copies /\ mem'[r] = Needed(op, r)
    BY <1>6, <2>2
  <2>4. CASE ~Copying(r) /\ mem'[r] = mem[r]
    BY <2>1, <2>2, <2>4 DEF SfkHolds
  <2>5. CASE op.kind = "QK" /\ r \in op.copies /\ mem'[r] = Needed(op, r)
    <3>1. IsBlock(op.t, op.k, QksIssued(st)) /\ QkRuns(st)
      BY <1>1, <1>2, <1>3, <2>5, QkRunsIs DEF OpHolds
    <3>2. QksIssued(st) = QksIssued(0)
      <4>1. CASE st = 0
        BY <4>1
      <4>2. CASE st = 1
        BY <1>0, <3>1, <4>2 DEF QkRuns
      <4> QED
        BY <4>1, <4>2
    <3>3. op.t = t /\ op.k = k
      <4>1. PICK b : b = QksIssued(0)
        OBVIOUS
      <4>2. IsBlock(t, k, b) /\ IsBlock(op.t, op.k, b)
        BY <2>1, <3>1, <3>2, <4>1
      <4> QED
        BY <4>2, BlockUnique
    <3> QED
      BY <2>2, <2>5, <3>3 DEF Needed
  <2> QED
    BY <2>3, <2>4, <2>5
<1> QED
  BY <1>7, <1>8

LEMMA TcStartContents == ASSUME CInv, FlightInv', Decoupled => PvBeforeNextP, TcStart PROVE Contents'
<1>0. FlightInv /\ Contents /\ TcType /\ TcType' /\ TcHolds /\ PvOnce /\ BarType /\ BarOK
  BY DEF CInv, FlightInv, HandInv, OperandInv, Types, Contents
<1>1. PICK n, op : TcBegins(n, op)
  BY <1>0, TcBeginsIs
<1>2. PICK h \in DOMAIN tc : h = 1 /\ op = tc[h]
  BY <1>1 DEF TcBegins
<1>3. op.kind \in {"QK", "PV"} /\ op.st \in {0, 1} /\ op.copies = CopiesOf(op)
  BY <1>0, <1>2, OpIs DEF TcHolds, OpHolds
<1>4. /\ \A i : (PvIn(i)' <=> PvIn(i)) /\ (PvClosed(i)' <=> PvClosed(i))
      /\ PvOnce => PvOnce'
  BY <1>1, <1>3, BeganIn
<1>5. PICK a : a = {} /\ TcRuns(op, a)
  <2>1. PICK a : a = {}
    OBVIOUS
  <2>2. Moves({}, a)
    BY <1>0, <1>1, <2>1, StillMoves DEF TcBegins
  <2>3. TcTouches(op)
    BY <1>0, <1>1, <1>3, TcBeginTouches
  <2>4. a \subseteq CommitBarriers /\ UNCHANGED <<tma, ld, mm, sm, co, ep, out>>
    BY <1>1, <2>1 DEF TcBegins
  <2> QED
    BY <1>2, <1>3, <1>4, <2>1, <2>2, <2>3, <2>4 DEF TcRuns
<1>6. /\ LdPlaced' /\ MmPlaced' /\ KvHolds' /\ OksHold' /\ SameAt({"Q", "KV"})
      /\ TcKept(0) /\ TcKept(1)
      /\ \A i \in {0, 1} : (op.kind = "PV" => i # op.st) /\ (PvIn(i)' <=> PvIn(i)) => OHolds(i)'
      /\ \A i \in {0, 1} : (op.kind = "PV" => i # op.st) => mem'[<<"O", i>>] = mem[<<"O", i>>]
  BY <1>0, <1>5, TcFrame
<1>7. TcHolds'
  BY <1>0, <1>1, <1>6, BeginTc
<1>8. SfHolds'
  BY <1>0, <1>1, BeginSf
<1>9. ASSUME NEW i \in {0, 1} PROVE SHolds(i)' /\ OHolds(i)'
  <2>1. SHolds(i) /\ OHolds(i)
    BY <1>0 DEF Contents, StageHolds
  <2>2. SHolds(i)'
    BY <1>0, <1>5, <2>1, TcS
  <2>3. OHolds(i)'
    <3>1. CASE op.kind = "PV" => i # op.st
      BY <1>4, <1>6, <3>1
    <3>2. CASE op.kind = "PV" /\ i = op.st
      <4>1. PvIn(i) /\ PvIn(i)'
        BY <1>2, <1>4, <3>2 DEF PvIn
      <4>2. ORescaled(i)' = ORescaled(i) /\ PvBegun(i)' = PvBegun(i)
        <5>1. UNCHANGED <<mm, co>>
          BY <1>5 DEF TcRuns
        <5>2. PvBegun(i)' = PvBegun(i)
          BY <5>1 DEF PvBegun, PvDone, MmBlocks
        <5> QED
          BY <5>1, <5>2, CoSame
      <4>3. ORescaled(i)' = PvBegun(i)'
        BY <2>1, <4>1, <4>2 DEF OHolds
      <4>4. PvBegun(i)' \in Int
        BY <1>0, <4>2, TalliesAre, TallyBoth DEF Tally
      <4>5. ORescaled(i)' # PvBegun(i)' + 1
        BY <4>3, <4>4
      <4> QED
        BY <4>1, <4>3, <4>5 DEF OHolds
    <3> QED
      BY <3>1, <3>2
  <2> QED
    BY <2>2, <2>3
<1>10. \A i \in {0, 1} : StageHolds(i)'
  BY <1>6, <1>9 DEF StageHolds, TcKept
<1> QED
  BY <1>0, <1>4, <1>6, <1>7, <1>8, <1>10 DEF Contents

-----------------------------------------------------------------------------
(* An operation ends. *)

\* What it leaves in flight.
LEMMA EndsIn ==
    ASSUME NEW n, NEW op, TcEnds(n, op)
    PROVE  /\ \A i : (PvIn(i)' => PvIn(i)) /\ (PvClosed(i)' => PvClosed(i))
           /\ \A i : (op.kind = "PV" => i # op.st) => (PvIn(i)' <=> PvIn(i))
           /\ PvOnce => PvOnce' /\ (op.kind = "PV" => ~PvIn(op.st)')
           /\ \A q : Copying(q)' <=> Copying(q)
<1>1. /\ n \in Nat /\ 1 <= n /\ DOMAIN tc = 1..n /\ DOMAIN tc' = 1..(n - 1) /\ 1 \in DOMAIN tc /\ op = tc[1] /\ op.begun
      /\ \A j \in 1..(n - 1) : tc'[j] = tc[j + 1] /\ j + 1 \in 1..n /\ j \in Int
  BY DEF TcEnds, TcShrunk
<1>2. \A j \in DOMAIN tc' : tc'[j] = tc[j + 1] /\ j + 1 \in DOMAIN tc /\ j \in Int
  BY <1>1
<1>3. ASSUME NEW j \in DOMAIN tc, j # 1
      PROVE  j - 1 \in DOMAIN tc' /\ tc'[j - 1] = tc[j]
  <2>1. j \in Int /\ 1 <= j /\ j <= n /\ j - 1 \in 1..(n - 1)
    BY <1>1, <1>3
  <2>2. (j - 1) + 1 = j
    BY <2>1
  <2> QED
    BY <1>1, <2>1, <2>2
<1>4. \A i : PvIn(i)' => PvIn(i)
  BY <1>2 DEF PvIn
<1>5. \A i : PvClosed(i)' => PvClosed(i)
  BY <1>2 DEF PvClosed
<1>6. ASSUME NEW i, op.kind = "PV" => i # op.st, PvIn(i) PROVE PvIn(i)'
  <2>1. PICK j \in DOMAIN tc : tc[j].kind = "PV" /\ tc[j].st = i
    BY <1>6 DEF PvIn
  <2>2. j # 1
    BY <1>1, <1>6, <2>1
  <2> QED
    BY <1>3, <2>1, <2>2 DEF PvIn
<1>7. PvOnce => PvOnce'
  <2> SUFFICES ASSUME PvOnce, NEW i \in DOMAIN tc', NEW j \in DOMAIN tc', tc'[i].kind = "PV", tc'[j].kind = "PV",
                      tc'[i].st = tc'[j].st
               PROVE  i = j
    BY DEF PvOnce
  <2>1. i + 1 = j + 1
    BY <1>2 DEF PvOnce
  <2> QED
    BY <1>2, <2>1
<1>8. ASSUME PvOnce, op.kind = "PV", PvIn(op.st)' PROVE FALSE
  <2>1. PICK j \in DOMAIN tc' : tc'[j].kind = "PV" /\ tc'[j].st = op.st
    BY <1>8 DEF PvIn
  <2>2. j + 1 \in DOMAIN tc /\ tc[j + 1].kind = "PV" /\ tc[j + 1].st = tc[1].st
    BY <1>1, <1>2, <2>1
  <2>3. j + 1 = 1
    BY <1>1, <1>8, <2>2 DEF PvOnce
  <2>4. j \in Int /\ 1 <= j
    BY <1>1, <2>1
  <2> QED
    BY <2>3, <2>4
<1>9. ASSUME NEW q PROVE Copying(q)' <=> Copying(q)
  <2>1. Copying(q)' => Copying(q)
    BY <1>2 DEF Copying
  <2>2. ASSUME Copying(q) PROVE Copying(q)'
    <3>1. PICK j \in DOMAIN tc : ~tc[j].begun /\ q \in tc[j].copies
      BY <2>2 DEF Copying
    <3>2. j # 1
      BY <1>1, <3>1
    <3> QED
      BY <1>3, <3>1, <3>2 DEF Copying
  <2> QED
    BY <2>1, <2>2
<1> QED
  BY <1>4, <1>5, <1>6, <1>7, <1>8, <1>9

\* All that it reads is what it needs.
LEMMA EndOperands ==
    ASSUME FlightInv, Contents, Decoupled => PvBeforeNextP, NEW n, NEW op, TcEnds(n, op)
    PROVE  op.ok /\ \A r \in Operands(op) : mem[r] = Needed(op, r)
<1>0. TcType /\ TcHolds
  BY DEF FlightInv, HandInv, OperandInv, Types, Contents
<1>1. PICK h \in DOMAIN tc : h = 1 /\ op = tc[h]
  BY DEF TcEnds
<1>2. op.kind \in {"QK", "PV"} /\ OpHolds(op) /\ op.begun /\ ~op.open
  BY <1>0, <1>1, OpIs DEF TcHolds, TcEnds
<1>3. op.ok /\ Scaled(op)
  BY <1>0, <1>1, <1>2 DEF TcHolds, RunHolds
<1>4. PICK i \in {0, 1} : i = op.st
  BY <1>0, <1>1, OpIs
<1>5. \A r \in Operands(op) : r[1] \in ScaleNames => mem[r] = Needed(op, r)
  BY <1>3 DEF Scaled
<1>6. CASE op.kind = "QK"
  <2>1. mem[<<"Q", op.st>>] = QTag(op.t) /\ mem[<<"KV", op.slot>>] = KTag(op.t, op.k)
    BY <1>2, <1>6 DEF OpHolds
  <2> SUFFICES ASSUME NEW r \in Operands(op) PROVE mem[r] = Needed(op, r)
    BY <1>3
  <2>2. r = <<"Q", op.st>> \/ r = <<"KV", op.slot>> \/ r[1] \in ScaleNames
    BY <1>6 DEF Operands, ScaleNames
  <2>3. CASE r = <<"Q", op.st>>
    BY <2>1, <2>3 DEF Needed
  <2>4. CASE r = <<"KV", op.slot>>
    BY <1>6, <2>1, <2>4 DEF Needed
  <2> QED
    BY <1>5, <2>2, <2>3, <2>4
<1>7. CASE op.kind = "PV"
  <2>1. mem[<<"KV", op.slot>>] = VTag(op.t, op.k)
    BY <1>2, <1>7 DEF OpHolds
  <2>2. PvFlies(op) /\ PvRuns(i) /\ Tally(i) /\ PHolds(i)
    <3>1. PvFlies(op)
      BY <1>1, <1>7, PvsInFlight
    <3>2. PvRuns(i)
      BY <1>1, <1>4, <1>7, PvRunsIs
    <3>3. Tally(i) /\ PHolds(i)
      BY TalliesAre, TallyBoth DEF Contents, StageHolds
    <3> QED
      BY <3>1, <3>2, <3>3
  <2>3. IsBlock(op.t, op.k, PvBegun(i))
    BY <1>4, <2>2 DEF PvFlies, IsBlock
  <2>4. PvIn(i) /\ PvClosed(i)
    BY <1>1, <1>2, <1>4, <1>7 DEF PvIn, PvClosed
  <2>5. P2Stored(i) = PvBegun(i) /\ PStored(i) = PvBegun(i)
    <3>1. ~(mm.at = "p2" /\ mm.st = i)
      BY <1>1, <1>2, <1>4, <1>7, PvUnheard
    <3>2. PvBegun(i) = PvDone(i) + 0
      BY <3>1 DEF PvBegun, If1
    <3> QED
      BY <2>2, <3>2 DEF PvRuns, Tally
  <2>6. mem[<<"Plo", i>>] = STag(op.t, op.k) /\ mem[<<"Phi", i>>] = STag(op.t, op.k)
    BY <2>2, <2>3, <2>4, <2>5 DEF PHolds
  <2> SUFFICES ASSUME NEW r \in Operands(op) PROVE mem[r] = Needed(op, r)
    BY <1>3
  <2>7. r = <<"Plo", i>> \/ r = <<"Phi", i>> \/ r = <<"KV", op.slot>> \/ r[1] \in ScaleNames
    BY <1>4, <1>7 DEF Operands, ScaleNames
  <2>8. CASE r = <<"Plo", i>> \/ r = <<"Phi", i>>
    BY <2>6, <2>8 DEF Needed
  <2>9. CASE r = <<"KV", op.slot>>
    BY <1>7, <2>1, <2>9 DEF Needed
  <2> QED
    BY <1>5, <2>7, <2>8, <2>9
<1> QED
  BY <1>2, <1>6, <1>7

\* What stays in flight with an operation's end.
LEMMA EndTc ==
    ASSUME FlightInv, Contents, NEW n, NEW op, TcEnds(n, op), SameAt({"Q", "KV"}),
           \A i \in {0, 1} : (op.kind = "PV" => i # op.st) => mem'[<<"O", i>>] = mem[<<"O", i>>]
    PROVE  TcHolds'
<1>0. TcType /\ TcHolds /\ PvOnce
  BY DEF FlightInv, HandInv, OperandInv, Types, Contents
<1>1. PICK h \in DOMAIN tc : h = 1 /\ op = tc[h]
  BY DEF TcEnds
<1>2. /\ UNCHANGED mm
      /\ \A j \in DOMAIN tc' : tc'[j] = tc[j + 1] /\ j + 1 \in DOMAIN tc /\ j \in Int /\ 1 <= j
  BY DEF TcEnds, TcShrunk
<1>3. UNCHANGED <<QksIssued(0), QksIssued(1)>>
  BY <1>2 DEF QksIssued, MmBlocks, Last
<1> SUFFICES ASSUME NEW j \in DOMAIN tc', NEW x, x = tc'[j] PROVE OpHolds(x)' /\ RunHolds(j, x)' /\ Waits(x)'
  BY DEF TcHolds
<1>4. PICK l \in DOMAIN tc : l = j + 1 /\ l # 1 /\ x = tc[l]
  BY <1>2
<1>5. OpHolds(x) /\ RunHolds(l, x) /\ Waits(x)
  BY <1>0, <1>4 DEF TcHolds
<1>6. PICK st \in {0, 1} : st = x.st
  BY <1>0, <1>4, OpIs
<1>7. OpHolds(x)'
  <2>1. /\ mem'[<<"Q", st>>] = mem[<<"Q", st>>] /\ mem'[<<"KV", x.slot>>] = mem[<<"KV", x.slot>>]
    BY <1>0, <1>4, <1>6, OpIs, NamesIn DEF SameAt
  <2>2. QksIssued(st)' = QksIssued(st)
    BY <1>3
  <2>3. QksIssued(x.st)' = QksIssued(x.st)
    BY <1>6, <2>2 DEF QksIssued
  <2> QED
    BY <1>5, <1>6, <2>1, <2>3 DEF OpHolds
<1>8. ~x.begun
  BY <1>4, <1>5 DEF RunHolds
<1>9. RunHolds(j, x)'
  BY <1>8 DEF RunHolds
<1>10. Waits(x)'
  <2> SUFFICES ASSUME x.kind = "PV", x.k > 1 PROVE mem'[<<"O", x.st>>] = Rescaled(x.t, x.k - 1)
    BY DEF Waits
  <2>1. mem[<<"O", st>>] = Rescaled(x.t, x.k - 1)
    BY <1>5, <1>6, <1>8 DEF Waits
  <2>2. op.kind = "PV" => st # op.st
    BY <1>0, <1>1, <1>4, <1>6 DEF PvOnce
  <2> QED
    BY <1>6, <2>1, <2>2
<1> QED
  BY <1>7, <1>9, <1>10

\* The scale factors that stay in place.
LEMMA EndSf ==
    ASSUME FlightInv, Contents, NEW n, NEW op, TcEnds(n, op)
    PROVE  SfHolds'
<1> SUFFICES ASSUME Decoupled, mm'.at # "end" PROVE SfqHolds(0)' /\ SfqHolds(1)' /\ (SharedSfk => SfkHolds')
  BY DEF SfHolds
<1>0. TcType /\ SfHolds /\ UNCHANGED mm
  BY DEF FlightInv, HandInv, OperandInv, Types, Contents, TcEnds
<1>1. UNCHANGED <<QksIssued(0), QksIssued(1)>>
  BY <1>0 DEF QksIssued, MmBlocks, Last
<1>2. SfqHolds(0) /\ SfqHolds(1) /\ (SharedSfk => SfkHolds)
  BY <1>0 DEF SfHolds
<1>3. ASSUME NEW r, r \in Region, r[1] \in {"SFQ", "SFK"}
      PROVE  (Copying(r)' <=> Copying(r)) /\ mem'[r] = mem[r]
  <2>1. r[1] \in ScaleNames
    BY <1>3 DEF ScaleNames
  <2>2. mem'[r] = mem[r]
    BY <1>0, <1>3, <2>1, TcScalesStay
  <2> QED
    BY <2>2, EndsIn
<1>4. ASSUME NEW i \in {0, 1} PROVE (Copying(<<"SFQ", i>>)' <=> Copying(<<"SFQ", i>>)) /\ mem'[<<"SFQ", i>>] = mem[<<"SFQ", i>>]
  <2>1. PICK r \in Region : r = <<"SFQ", i>> /\ r[1] = "SFQ"
    BY NamesIn
  <2>2. (Copying(r)' <=> Copying(r)) /\ mem'[r] = mem[r]
    BY <1>3, <2>1
  <2> QED
    BY <2>1, <2>2 DEF Copying
<1>5. (Copying(<<"SFK", 0>>)' <=> Copying(<<"SFK", 0>>)) /\ mem'[<<"SFK", 0>>] = mem[<<"SFK", 0>>]
  <2>1. PICK r \in Region : r = <<"SFK", 0>> /\ r[1] = "SFK"
    BY NamesIn
  <2>2. (Copying(r)' <=> Copying(r)) /\ mem'[r] = mem[r]
    BY <1>3, <2>1
  <2> QED
    BY <2>1, <2>2 DEF Copying
<1>6. SfqHolds(0)' /\ SfqHolds(1)'
  BY <1>1, <1>2, <1>4 DEF SfqHolds
<1>7. SharedSfk => SfkHolds'
  BY <1>1, <1>2, <1>5 DEF SfkHolds
<1> QED
  BY <1>6, <1>7

LEMMA TcFinishContents == ASSUME CInv, FlightInv', Decoupled => PvBeforeNextP, TcFinish PROVE Contents'
<1>0. FlightInv /\ Contents /\ TcType /\ TcHolds /\ PvOnce /\ BarType /\ BarOK /\ TcApart
  BY DEF CInv, FlightInv, HandInv, OperandInv, MmInv, Types, Contents
<1>1. PICK n, op : TcEnds(n, op)
  BY <1>0, TcEndsIs
<1>2. PICK h \in DOMAIN tc : h = 1 /\ op = tc[h]
  BY <1>1 DEF TcEnds
<1>3. op.kind \in {"QK", "PV"} /\ op.st \in {0, 1} /\ OpHolds(op)
  BY <1>0, <1>2, OpIs DEF TcHolds
<1>4. /\ \A i : (PvIn(i)' => PvIn(i)) /\ (PvClosed(i)' => PvClosed(i))
      /\ \A i : (op.kind = "PV" => i # op.st) => (PvIn(i)' <=> PvIn(i))
      /\ PvOnce' /\ (op.kind = "PV" => ~PvIn(op.st)')
  BY <1>0, <1>1, EndsIn
<1>5. PICK a : a = op.signals /\ TcRuns(op, a)
  <2>1. PICK a : a = op.signals
    OBVIOUS
  <2>2. Moves({}, a)
    BY <1>0, <1>1, <2>1, ArriveMoves DEF TcEnds
  <2>3. TcTouches(op)
    BY <1>0, <1>1, TcEndTouches
  <2>4. a \subseteq CommitBarriers /\ UNCHANGED <<tma, ld, mm, sm, co, ep, out>>
    BY <1>0, <1>1, <1>2, <2>1 DEF TcEnds, TcApart
  <2> QED
    BY <1>2, <1>3, <1>4, <2>1, <2>2, <2>3, <2>4 DEF TcRuns
<1>6. /\ LdPlaced' /\ MmPlaced' /\ KvHolds' /\ OksHold' /\ SameAt({"Q", "KV"})
      /\ TcKept(0) /\ TcKept(1)
      /\ \A i \in {0, 1} : (op.kind = "PV" => i # op.st) /\ (PvIn(i)' <=> PvIn(i)) => OHolds(i)'
      /\ \A i \in {0, 1} : (op.kind = "PV" => i # op.st) => mem'[<<"O", i>>] = mem[<<"O", i>>]
  BY <1>0, <1>5, TcFrame
<1>7. TcHolds'
  BY <1>0, <1>1, <1>6, EndTc
<1>8. SfHolds'
  BY <1>0, <1>1, EndSf
<1>9. PICK r : r \in Region /\ r = Target(op) /\ mem'[r] = (IF op.kind = "QK" THEN STag(op.t, op.k) ELSE Folded(op.t, op.k))
               /\ r = (IF op.kind = "QK" THEN <<"S", op.st>> ELSE <<"O", op.st>>)
  <2>1. op.ok /\ \A q \in Operands(op) : mem[q] = Needed(op, q)
    BY <1>0, <1>1, EndOperands
  <2>2. PICK tag : /\ mem' = Put(mem, Target(op), tag)
                   /\ tag = IF op.kind = "QK" THEN STag(op.t, op.k) ELSE Folded(op.t, op.k)
    BY <1>1, <2>1 DEF TcEnds
  <2>3. /\ Target(op) \in Region
        /\ op.kind = "QK" => Target(op) = <<"S", op.st>>
        /\ op.kind = "PV" => Target(op) = <<"O", op.st>>
    BY <1>0, <1>2, TargetIs
  <2>4. mem'[Target(op)] = tag
    BY <2>2, <2>3, PutAt
  <2> QED
    BY <1>3, <2>2, <2>3, <2>4
<1>10. ASSUME NEW i \in {0, 1} PROVE SHolds(i)'
  <2>1. SHolds(i)
    BY <1>0 DEF Contents, StageHolds
  <2>2. CASE <<"S_full", i>> \notin a
    BY <1>0, <1>5, <2>1, <2>2, TcS
  <2>3. CASE <<"S_full", i>> \in a
    <3>1. op.kind = "QK" /\ i = op.st
      BY <1>3, <1>5, <2>3 DEF OpHolds
    <3>2. IsBlock(op.t, op.k, QksIssued(i))
      BY <1>3, <3>1 DEF OpHolds
    <3>3. QkRuns(i)
      BY <1>0, <1>2, <3>1, QkRunsIs
    <3>4. Done("S_full", i)' = QksIssued(i)
      <4>1. Done("S_full", i)' = Done("S_full", i) + 1
        BY <1>0, <1>5, <2>3, TcCounts
      <4> QED
        BY <3>3, <4>1 DEF QkRuns
    <3>5. mem'[<<"S", i>>] = STag(op.t, op.k)
      BY <1>9, <3>1
    <3> SUFFICES ASSUME NEW t, NEW k, IsBlock(t, k, Done("S_full", i)') PROVE mem'[<<"S", i>>] = STag(t, k)
      BY DEF SHolds
    <3>6. t = op.t /\ k = op.k
      <4>1. PICK b : b = QksIssued(i)
        OBVIOUS
      <4>2. IsBlock(t, k, b) /\ IsBlock(op.t, op.k, b)
        BY <3>2, <3>4, <4>1
      <4> QED
        BY <4>2, BlockUnique
    <3> QED
      BY <3>5, <3>6
  <2> QED
    BY <2>2, <2>3
<1>11. ASSUME NEW i \in {0, 1} PROVE OHolds(i)'
  <2>1. CASE op.kind = "PV" => i # op.st
    BY <1>4, <1>6, <2>1
  <2>2. CASE op.kind = "PV" /\ i = op.st
    <3>1. ~PvIn(i)'
      BY <1>4, <2>2 DEF PvIn
    <3>2. PvIn(i) /\ OHolds(i)
      BY <1>0, <1>2, <2>2 DEF PvIn, Contents, StageHolds
    <3>3. ORescaled(i)' = ORescaled(i) /\ PvBegun(i)' = PvBegun(i)
      <4>1. UNCHANGED <<mm, co>>
        BY <1>5 DEF TcRuns
      <4>2. PvBegun(i)' = PvBegun(i)
        BY <4>1 DEF PvBegun, PvDone, MmBlocks
      <4> QED
        BY <4>1, <4>2, CoSame
    <3>4. PICK b \in Int : b = PvBegun(i)' /\ b = ORescaled(i)'
      <4>1. Tally(i)
        BY <1>0, TalliesAre, TallyBoth
      <4> QED
        BY <3>2, <3>3, <4>1 DEF OHolds, Tally
    <3>5. IsBlock(op.t, op.k, b)
      <4>1. PvFlies(op)
        BY <1>0, <1>2, <2>2, PvsInFlight
      <4> QED
        BY <2>2, <3>3, <3>4, <4>1 DEF PvFlies, IsBlock
    <3>6. mem'[<<"O", i>>] = Folded(op.t, op.k)
      BY <1>9, <2>2
    <3>7. \A t, k : IsBlock(t, k, b) => mem'[<<"O", i>>] = Folded(t, k)
      <4> SUFFICES ASSUME NEW t, NEW k, IsBlock(t, k, b) PROVE mem'[<<"O", i>>] = Folded(t, k)
        OBVIOUS
      <4>1. t = op.t /\ k = op.k
        BY <3>5, BlockUnique
      <4> QED
        BY <3>6, <4>1
    <3>8. ~(b = b + 1)
      BY <3>4
    <3> QED
      BY <3>1, <3>4, <3>7, <3>8 DEF OHolds
  <2> QED
    BY <2>1, <2>2
<1>12. \A i \in {0, 1} : StageHolds(i)'
  BY <1>6, <1>10, <1>11 DEF StageHolds, TcKept
<1> QED
  BY <1>4, <1>6, <1>7, <1>8, <1>12 DEF Contents

-----------------------------------------------------------------------------
(* All steps. *)

LEMMA InitContents == Init => Contents
<1> SUFFICES ASSUME Init PROVE Contents
  OBVIOUS
<1>1. OperandInv /\ \A b \in Barrier : bar[b].done = 0 /\ bar[b].seen = 0
  BY InitRing, CountOK DEF Init, NewBarrier
<1>2. /\ 1 \in 1..Tiles /\ 1 \in 1..(Tiles + 1) /\ 1 # Tiles + 1 /\ Start[1] = 0 /\ Blocks[1] \in Int /\ 1 <= Blocks[1]
      /\ \A t \in Tile : t \in Int /\ 1 <= t
  BY TilesAre, StartIs, TileIs
<1>3. /\ ld.at = "q0" /\ ld.t = 1 /\ ld.k = 1 /\ ld.idx = 0
      /\ mm.at = "q" /\ mm.t = 1 /\ mm.k = 0 /\ mm.st = 0 /\ mm.idx = 0
      /\ \A i \in Stage : /\ sm[i].at \in {"start", "tile"} /\ sm[i].t = 1 /\ sm[i].k = 1 /\ sm[i].ok
      /\ co.at = "start" /\ co.t = 1 /\ co.k = 2 /\ co.st = 0 /\ co.ok
      /\ ep.at \in {"end", "store"} /\ ep.t = 1 /\ ep.st = 0
      /\ tc = <<>> /\ tma = {} /\ out = [x \in Tile \X Stage |-> <<>>]
  BY DEF Init
<1>4. ~Last /\ ~CoIn /\ ~CoEnding /\ CoRounds = 0 /\ MmBlocks = 0 /\ ~HoldsNext /\ ~HoldsV
  BY <1>2, <1>3 DEF Last, CoIn, CoEnding, CoRounds, MmBlocks, HoldsNext, HoldsV
<1>5. \A t, k : ~IsBlock(t, k, 0)
  BY BlockIs
<1>6. KvStages \in Int /\ 0 \in Slot
  BY ConfigAssumption DEF Slot
<1>7. LdPlaced
  <2>1. Seen("kv_empty", ld.idx) = 0
    BY <1>1, <1>3, <1>6, NamesAre DEF Seen
  <2>2. LdNext = 0
    BY <1>2, <1>3 DEF LdNext, If1
  <2> QED
    BY <1>2, <1>3, <1>6, <2>1, <2>2 DEF LdPlaced
<1>8. MmPlaced
  <2>1. Seen("kv_full", mm.idx) = 0
    BY <1>1, <1>3, <1>6, NamesAre DEF Seen
  <2>2. Before = 0
    BY <1>4, <2>1 DEF Before, If1
  <2>3. MmNext = 0
    BY <1>3, <1>4 DEF MmNext, If1
  <2> QED
    BY <1>3, <1>6, <2>2, <2>3 DEF MmPlaced
<1>9. KvHolds
  <2>1. \A s \in Slot : Done("kv_full", s) = 0 /\ Seen("kv_full", s) = 0
    BY <1>1, NamesAre DEF Done, Seen
  <2> QED
    BY <1>3, <1>4, <2>1 DEF KvHolds
<1>10. TcHolds /\ PvOnce /\ \A i : ~PvIn(i) /\ ~PvClosed(i)
  BY <1>3 DEF TcHolds, PvOnce, PvIn, PvClosed
<1>11. ASSUME NEW i \in {0, 1}
       PROVE  /\ SLoaded(i) = 0 /\ PStored(i) = 0 /\ P2Stored(i) = 0 /\ ScalesOut(i) = 0
              /\ ScalesTaken(i) = 0 /\ ORescaled(i) = 0 /\ OWritten(i) = 0 /\ EpFreed(i) = 0
              /\ QksIssued(i) = 0 /\ PvDone(i) = 0 /\ PvBegun(i) = 0
  <2>1. i \in Stage /\ ~(i < 0)
    BY StageIs
  <2>2. SmBlocks(i) = 0 /\ sm[i].at \in {"start", "tile"} /\ sm[i].t = 1
    BY <1>2, <1>3, <2>1 DEF SmBlocks
  <2>3. SLoaded(i) = 0 /\ PStored(i) = 0 /\ P2Stored(i) = 0 /\ PBegun(i) = 0
    BY <2>2 DEF SLoaded, PBegun, PStored, P2Stored, If1
  <2>4. ScalesOut(i) = 0
    BY <2>2, <2>3 DEF ScalesOut
  <2>5. ScalesTaken(i) = 0
    BY <1>3, <1>4, <2>1 DEF ScalesTaken, If1
  <2>6. ORescaled(i) = 0 /\ OWritten(i) = 0
    BY <1>2, <1>3, <1>4, <2>1 DEF ORescaled, OWritten, If1
  <2>7. EpFreed(i) = 0
    BY <1>3, <2>1 DEF EpFreed, If1
  <2>8. QksIssued(i) = 0 /\ PvDone(i) = 0 /\ PvBegun(i) = 0
    BY <1>3, <1>4, <2>1 DEF QksIssued, PvDone, PvBegun, If1
  <2> QED
    BY <2>3, <2>4, <2>5, <2>6, <2>7, <2>8
<1>12. SfHolds
  <2>1. SfqHolds(0) /\ SfqHolds(1)
    BY <1>5, <1>11 DEF SfqHolds
  <2>2. SfkHolds
    BY <1>5, <1>11 DEF SfkHolds
  <2> QED
    BY <2>1, <2>2 DEF SfHolds
<1>13. ASSUME NEW i \in {0, 1} PROVE StageHolds(i)
  <2>1. QHolds(i)
    <3>1. Done("q_full", i) = 0 /\ Seen("q_full", i) = 0
      BY <1>1, NamesAre, StageIs DEF Done, Seen
    <3>2. HoldsQ(i) = 0
      BY <1>3, <1>4 DEF HoldsQ, QTaken, QGiven, If1
    <3> QED
      BY <1>3, <3>1, <3>2 DEF QHolds
  <2>2. SHolds(i)
    <3>1. Done("S_full", i) = 0
      BY <1>1, NamesAre, StageIs DEF Done
    <3> QED
      BY <1>11, <3>1 DEF SHolds
  <2>3. PHolds(i)
    BY <1>5, <1>11 DEF PHolds
  <2>4. ScaleHolds(i)
    BY <1>11 DEF ScaleHolds
  <2>5. OHolds(i)
    BY <1>5, <1>10, <1>11 DEF OHolds
  <2>6. OutHolds(i)
    <3> SUFFICES ASSUME NEW t \in Tile
                 PROVE  t # OWritten(i) /\ out[<<t, i>>] = <<>> /\ ~(t <= Stored(i))
      BY DEF OutHolds
    <3>1. Stored(i) = 0 /\ OWritten(i) = 0 /\ t \in Int /\ 1 <= t /\ <<t, i>> \in Tile \X Stage
      BY <1>2, <1>11, StageIs DEF Stored
    <3>2. out[<<t, i>>] = <<>>
      BY <1>3, <3>1
    <3> QED
      BY <3>1, <3>2
  <2> QED
    BY <2>1, <2>2, <2>3, <2>4, <2>5, <2>6 DEF StageHolds
<1>14. OksHold
  BY <1>3, StageIs DEF OksHold
<1> QED
  BY <1>7, <1>8, <1>9, <1>10, <1>12, <1>13, <1>14 DEF Contents

LEMMA StillContents == ASSUME CInv, UNCHANGED vars PROVE Contents'
<1>0. FlightInv /\ Contents /\ TcType /\ Types /\ LdPlaced /\ MmPlaced /\ KvHolds
  BY DEF CInv, FlightInv, HandInv, OperandInv, Types, Contents
<1>1. UNCHANGED <<bar, mem, tma, tc, ld, mm, sm, co, ep, out>>
  BY DEF vars
<1>2. /\ \A names : SameCount(names) /\ SameAt(names)
      /\ \A n : \A i : mem'[<<n, i>>] = mem[<<n, i>>] /\ Done(n, i)' = Done(n, i)
  BY <1>1 DEF SameCount, SameAt, Done
<1>3. LdPlaced' /\ MmPlaced' /\ KvHolds' /\ PvOnce' /\ SfHolds'
      /\ \A j \in DOMAIN tc : OpHolds(tc[j])' /\ RunHolds(j, tc[j])'
  BY <1>0, <1>1, <1>2, EnginesKept
<1>4. TcHolds'
  <2>1. ASSUME NEW j \in DOMAIN tc PROVE Waits(tc[j])'
    BY <1>0, <1>1 DEF Contents, TcHolds, Waits
  <2> QED
    BY <1>1, <1>3, <2>1 DEF TcHolds
<1>5. ASSUME NEW i \in {0, 1} PROVE StageHolds(i)'
  <2>1. StageHolds(i)
    BY <1>0 DEF Contents
  <2>2. QHolds(i)'
    BY <1>1, <1>2, <2>1, QKept DEF StageHolds
  <2>3. /\ UNCHANGED <<SLoaded(i), PStored(i), P2Stored(i), ScalesOut(i), PvBegun(i), PvDone(i), ScalesTaken(i),
                       ORescaled(i), OWritten(i), EpFreed(i)>>
        /\ (PvIn(i)' <=> PvIn(i)) /\ (PvClosed(i)' <=> PvClosed(i)) /\ (Rescaling(i) => Rescaling(i)')
    BY <1>1, SmSame, CoSame, MmSame, EpSame, PvsSame DEF Rescaling
  <2>4. SHolds(i)'
    BY <1>2, <2>1, <2>3, SKept DEF StageHolds
  <2>5. PHolds(i)'
    BY <1>2, <2>1, <2>3, PKept DEF StageHolds
  <2>6. ScaleHolds(i)'
    BY <1>2, <2>1, <2>3, ScaleKept DEF StageHolds
  <2>7. OHolds(i)'
    BY <1>2, <2>1, <2>3, OKept DEF StageHolds
  <2>8. OutHolds(i)'
    BY <1>1, <1>2, <2>1, <2>3, OutKept DEF StageHolds
  <2> QED
    BY <2>2, <2>4, <2>5, <2>6, <2>7, <2>8 DEF StageHolds
<1>6. OksHold'
  BY <1>0, <1>1 DEF Contents, OksHold
<1> QED
  BY <1>3, <1>4, <1>5, <1>6 DEF Contents

LEMMA NextContents == (Decoupled => PvBeforeNextP) => (CInv /\ [Next]_vars => CInv')
<1> SUFFICES ASSUME Decoupled => PvBeforeNextP, CInv, [Next]_vars PROVE CInv'
  OBVIOUS
<1>1. FlightInv'
  BY NextFlight DEF CInv
<1>2. CASE Load
  BY <1>1, <1>2, LoadQContents, LoadKVContents DEF Load, CInv
<1>3. CASE TmaLand
  BY <1>1, <1>3, TmaLandContents DEF CInv
<1>4. CASE Mma
  <2>1. CASE MmaWaitQ \/ MmaWaitK \/ MmaWaitV
    BY <1>1, <2>1, MmaWaitRingContents DEF CInv
  <2>2. CASE MmaIssueQK \/ MmaIssuePV \/ MmaIssuePV2 \/ MmaDealloc
    BY <1>1, <2>2, MmaIssueQKContents, MmaIssuePVContents, MmaIssuePV2Contents, MmaDeallocContents DEF CInv
  <2> QED
    BY <1>4, <2>1, <2>2 DEF Mma
<1>5. CASE TensorCore
  BY <1>1, <1>5, TcStartContents, TcFinishContents DEF TensorCore, CInv
<1>6. CASE \E i \in Stage : Softmax(i)
  <2>1. PICK i \in {0, 1} : Softmax(i)
    BY <1>6, StageIs
  <2>2. Contents'
    BY <1>1, <2>1, SoftmaxContents
  <2> QED
    BY <1>1, <2>2 DEF CInv
<1>7. CASE Correction
  BY <1>1, <1>7, CorrectionContents DEF CInv
<1>8. CASE Epilogue
  BY <1>1, <1>8, EpilogueContents DEF CInv
<1>9. CASE Halt \/ UNCHANGED vars
  BY <1>1, <1>9, StillContents DEF Halt, CInv
<1> QED
  BY <1>2, <1>3, <1>4, <1>5, <1>6, <1>7, <1>8, <1>9 DEF Next

\* What every buffer holds at every moment: that of the block, scale or tile which the
\* places of the roles say, where softmax does not begin a P before the PV of the last
\* one is over.
THEOREM ContentsInvariant == (Decoupled => PvBeforeNextP) => (Spec => []CInv)
<1> SUFFICES ASSUME Decoupled => PvBeforeNextP PROVE Spec => []CInv
  OBVIOUS
<1>1. Init => CInv
  <2>1. Init => FlightInv
    <3> SUFFICES ASSUME Init PROVE FlightInv
      OBVIOUS
    <3>1. InFlight
      BY DEF Init, InFlight
    <3> QED
      BY <3>1, InitHand DEF FlightInv
  <2> QED
    BY <2>1, InitContents DEF CInv
<1>2. CInv /\ [Next]_vars => CInv'
  BY NextContents
<1> QED
  BY <1>1, <1>2, PTL DEF Spec

\* OutputExact: on the baseline, and on the decoupled layout where softmax does not begin
\* a P before the PV of the last one is over, what is stored for a tile is the product of
\* all its blocks, each taken once and in order, and it is stored once (the whole kernel:
\* load, mma, softmax_loop, correction_loop, epilogue_s2g).
THEOREM OutputsAreExact == (Decoupled => PvBeforeNextP) => (Spec => []OutputExact)
<1> SUFFICES ASSUME Decoupled => PvBeforeNextP PROVE Spec => []OutputExact
  OBVIOUS
<1>1. CInv => OutputExact
  <2> SUFFICES ASSUME CInv, NEW x \in Tile \X Stage PROVE out[x] \in {<<>>, <<Folded(x[1], Blocks[x[1]])>>}
    BY DEF OutputExact
  <2>1. PICK t \in Tile, i \in {0, 1} : x = <<t, i>> /\ x[1] = t
    BY StageIs
  <2>2. OutHolds(i)
    BY DEF CInv, Contents, StageHolds
  <2> QED
    BY <2>1, <2>2 DEF OutHolds
<1> QED
  BY <1>1, ContentsInvariant, PTL

-----------------------------------------------------------------------------
(* The kernel's promise: how many blocks each O has taken up.               *)

\* Blocks folded into O of stage i since the CTA began: of the PVs begun, all but one
\* still in flight.
OFolded(i) == PvBegun(i) - If1(PvIn(i))

PvRunning(i) == 1 \in DOMAIN tc /\ tc[1].begun /\ tc[1].kind = "PV" /\ tc[1].st = i

\* O is that of the last block folded, or somebody is at work on it, or no block was, or all
\* of them are taken.
OTagged(i) ==
    \/ \E t, k : IsBlock(t, k, OFolded(i)) /\ mem[<<"O", i>>] \in {Folded(t, k), Rescaled(t, k)}
    \/ mem[<<"O", i>>] = Garbage /\ (Rescaling(i) \/ PvRunning(i) \/ OFolded(i) = 0)
    \/ co.at = "end"

FoldInv == CInv /\ OTagged(0) /\ OTagged(1)

\* How far the roles are, as far as the tag of an O tells.
FoldedAt(i) ==
    /\ OFolded(i) \in Int /\ 0 <= OFolded(i) /\ ORescaled(i) \in Int
    /\ OFolded(i) <= ORescaled(i) /\ ORescaled(i) <= OFolded(i) + 1
    /\ PvIn(i) => OFolded(i) = PvBegun(i) - 1 /\ ORescaled(i) = OFolded(i) + 1
    /\ ~PvIn(i) => OFolded(i) = PvBegun(i)
    /\ PvBegun(i) \in Int

LEMMA FoldedAtIs == ASSUME CInv, NEW i \in {0, 1} PROVE FoldedAt(i)
<1>1. Tally(i) /\ OHolds(i)
  BY TalliesAre, TallyBoth DEF CInv, Contents, StageHolds
<1>2. /\ PvBegun(i) \in Int /\ ORescaled(i) \in Int /\ 0 <= PvBegun(i)
      /\ PvBegun(i) <= ORescaled(i) /\ ORescaled(i) <= PvBegun(i) + 1
  BY <1>1 DEF Tally
<1>3. CASE PvIn(i)
  <2>1. OFolded(i) = PvBegun(i) - 1
    BY <1>3 DEF OFolded, If1
  <2>2. ORescaled(i) = PvBegun(i)
    BY <1>1, <1>3 DEF OHolds
  <2>3. PICK j \in DOMAIN tc : tc[j].kind = "PV" /\ tc[j].st = i
    BY <1>3 DEF PvIn
  <2>4. PvFlies(tc[j])
    BY <2>3, PvsInFlight DEF CInv
  <2>5. IsBlock(tc[j].t, tc[j].k, PvBegun(i))
    BY <2>3, <2>4 DEF PvFlies, IsBlock
  <2>6. 1 <= PvBegun(i)
    BY <2>5, BlockIs
  <2> QED
    BY <1>2, <1>3, <2>1, <2>2, <2>6 DEF FoldedAt
<1>4. CASE ~PvIn(i)
  <2>1. OFolded(i) = PvBegun(i)
    BY <1>2, <1>4 DEF OFolded, If1
  <2> QED
    BY <1>2, <1>4, <2>1 DEF FoldedAt
<1> QED
  BY <1>3, <1>4

\* Whether the correction warps have taken the output of a tile and stage.
TakenOf(t, i) == co.t > t \/ (co.t = t /\ co.st > i /\ co.at \in {"sum", "o", "buffer", "write"})

LEMMA TakenIs ==
    ASSUME CInv, NEW i \in {0, 1}, NEW t, t \in Tile
    PROVE  /\ Start[t] \in Int /\ 0 <= Start[t] /\ Blocks[t] \in Int /\ 1 <= Blocks[t] /\ t \in Int
           /\ Start[t + 1] = Start[t] + Blocks[t]
           /\ TakenOf(t, i) => Start[t] + Blocks[t] <= OFolded(i)
           /\ ~TakenOf(t, i) => ORescaled(i) <= Start[t] + Blocks[t]
<1>1. FoldedAt(i) /\ CoAt /\ CoWhere /\ CoPlace
  BY FoldedAtIs, CoAtNow DEF CInv, CoAt
<1>2. t \in 1..Tiles /\ t \in Int /\ t \in 1..(Tiles + 1)
  BY TileIs, StartIs
<1>3. PICK s, b : s = Start[t] /\ b = Blocks[t] /\ s \in Int /\ 0 <= s /\ b \in Int /\ 1 <= b /\ Start[t + 1] = s + b
  BY <1>2, StartIs
<1>4. PICK ct, cs, ck, o : ct = co.t /\ cs = Start[co.t] /\ ck = co.k /\ o = ORescaled(i)
  OBVIOUS
<1>5. /\ ct \in Int /\ cs \in Int /\ ck \in Int /\ o \in Int /\ ct \in 1..(Tiles + 1)
      /\ OFolded(i) \in Int /\ o <= OFolded(i) + 1
  BY <1>1, <1>4 DEF CoWhere, FoldedAt
<1>6. /\ t < ct => s + b <= cs
      /\ ct < t => ct \in Tile /\ Blocks[ct] \in Int /\ 1 <= Blocks[ct] /\ cs + Blocks[ct] <= s
      /\ t = ct => s = cs
  <2>1. \A u \in 1..Tiles : u \in Tile /\ Blocks[u] \in Int /\ 1 <= Blocks[u]
    BY StartIs
  <2>2. Tiles \in Int
    BY <1>1 DEF CoWhere
  <2> QED
    BY <1>2, <1>3, <1>4, <1>5, <2>1, <2>2, StartGrows
<1>7. o = cs + If1(co.at # "start") + (IF CoIn THEN ck - 2 + If1(i < co.st) ELSE 0)
  BY <1>4 DEF ORescaled
<1>8. /\ CoIn => ck \in Int /\ 2 <= ck /\ ct \in Tile /\ co.at # "start"
      /\ CoEnding => CoIn /\ ck = Blocks[ct] + 1
      /\ CoIn /\ ~CoEnding => ck <= Blocks[ct]
      /\ co.at = "start" => ct = 1 /\ co.st = 0
      /\ CoEnding <=> co.at \in {"sum", "o", "buffer", "write"}
  <2>1. CoIn => ct \in Tile /\ co.at # "start" /\ Blocks[ct] \in Int /\ 1 <= Blocks[ct]
    BY <1>1, <1>4 DEF CoWhere, CoIn
  <2>2. CoEnding => CoIn /\ ck = Blocks[ct] + 1
    BY <1>1, <1>4 DEF CoPlace, CoIn, CoEnding
  <2>3. CoIn /\ ~CoEnding => 2 <= ck /\ ck <= Blocks[ct]
    <3> SUFFICES ASSUME CoIn, ~CoEnding PROVE 2 <= ck /\ ck <= Blocks[ct]
      OBVIOUS
    <3>1. co.at \in {"scale", "acc", "rescale"}
      BY <1>1 DEF CoWhere, CoRecord, CoIn, CoEnding
    <3>2. ck \in 2..Blocks[ct]
      BY <1>1, <1>4, <3>1 DEF CoPlace
    <3> QED
      BY <2>1, <3>2
  <2>4. co.at = "start" => ct = 1 /\ co.st = 0
    BY <1>1, <1>4 DEF CoPlace
  <2>5. CoIn => 2 <= ck
    BY <1>5, <2>1, <2>2, <2>3
  <2> QED
    BY <1>5, <2>1, <2>2, <2>3, <2>4, <2>5 DEF CoEnding
<1>9. CASE t < ct
  <2>1. TakenOf(t, i)
    BY <1>4, <1>5, <1>2, <1>9 DEF TakenOf
  <2>2. cs + 1 <= o
    <3>1. co.at # "start"
      BY <1>2, <1>8, <1>9
    <3>2. CASE CoIn
      BY <1>5, <1>7, <1>8, <3>1, <3>2 DEF If1
    <3>3. CASE ~CoIn
      BY <1>5, <1>7, <3>1, <3>3 DEF If1
    <3> QED
      BY <3>2, <3>3
  <2>3. s + b <= OFolded(i)
    BY <1>3, <1>5, <1>6, <1>9, <2>2
  <2> QED
    BY <1>2, <1>3, <2>1, <2>3
<1>10. CASE ct < t
  <2>1. ~TakenOf(t, i)
    BY <1>4, <1>5, <1>2, <1>10 DEF TakenOf
  <2>2. PICK cb : cb = Blocks[ct] /\ cb \in Int /\ 1 <= cb /\ cs + cb <= s
    BY <1>6, <1>10
  <2>3. o <= cs + cb + 1
    <3>1. CASE CoIn
      <4>1. ck <= cb + 1
        BY <1>8, <2>2, <3>1
      <4> QED
        BY <1>5, <1>7, <1>8, <2>2, <3>1, <4>1 DEF If1
    <3>2. CASE ~CoIn
      BY <1>5, <1>7, <2>2, <3>2 DEF If1
    <3> QED
      BY <3>1, <3>2
  <2>4. o <= s + b
    BY <1>3, <1>5, <2>2, <2>3
  <2> QED
    BY <1>2, <1>3, <1>4, <2>1, <2>4
<1>11. CASE ct = t
  <2>0. s = cs /\ b = Blocks[ct] /\ ct = co.t
    BY <1>3, <1>4, <1>6, <1>11
  <2>1. CASE CoEnding
    <3>1. co.at # "start" /\ CoIn /\ ck = b + 1
      BY <1>8, <2>0, <2>1
    <3>2. o = s + b + If1(i < co.st)
      BY <1>3, <1>5, <1>7, <2>0, <3>1 DEF If1
    <3>3. TakenOf(t, i) <=> i < co.st
      <4>1. co.st \in {0, 1} /\ ~(co.t > t)
        BY <1>1, <1>2, <1>11, <2>0 DEF CoWhere
      <4>2. co.st > i <=> i < co.st
        BY <4>1
      <4> QED
        BY <1>8, <1>11, <2>0, <2>1, <4>1, <4>2 DEF TakenOf
    <3>4. CASE i < co.st
      <4>1. o = s + b + 1
        BY <3>2, <3>4 DEF If1
      <4> QED
        BY <1>2, <1>3, <1>5, <3>3, <3>4, <4>1
    <3>5. CASE ~(i < co.st)
      <4>1. o = s + b
        BY <1>3, <3>2, <3>5 DEF If1
      <4> QED
        BY <1>2, <1>3, <1>4, <1>5, <3>3, <3>5, <4>1
    <3> QED
      BY <3>4, <3>5
  <2>2. CASE ~CoEnding
    <3>1. ~TakenOf(t, i)
      <4>1. ~(co.t > t)
        BY <1>2, <1>11, <2>0
      <4> QED
        BY <1>8, <2>2, <4>1 DEF TakenOf
    <3>2. o <= s + b
      <4>1. CASE CoIn
        <5>1. ck <= b
          BY <1>8, <2>0, <2>2, <4>1
        <5> QED
          BY <1>3, <1>5, <1>7, <1>8, <2>0, <4>1, <5>1 DEF If1
      <4>2. CASE ~CoIn
        BY <1>3, <1>5, <1>7, <2>0, <4>2 DEF If1
      <4> QED
        BY <4>1, <4>2
    <3> QED
      BY <1>2, <1>3, <1>4, <3>1, <3>2
  <2> QED
    BY <2>1, <2>2
<1> QED
  BY <1>2, <1>5, <1>9, <1>10, <1>11

\* The blocks of a tile among the first n of the CTA.
BlocksOf(t, n, f) ==
    /\ n <= Start[t] => f = 0
    /\ Start[t] < n /\ n <= Start[t] + Blocks[t] => f = n - Start[t]
    /\ Start[t] + Blocks[t] < n => f = Blocks[t]

\* What FoldedBlocks reads off O's tag and the roles is that number.
LEMMA FoldsAre == ASSUME FoldInv, NEW i \in {0, 1}, NEW t, t \in Tile PROVE BlocksOf(t, OFolded(i), FoldedBlocks(<<t, i>>))
<1>0. CInv /\ OTagged(i) /\ FoldedAt(i)
  BY FoldedAtIs DEF FoldInv
<1>1. PICK s, b, n : /\ s = Start[t] /\ b = Blocks[t] /\ n = OFolded(i) /\ s \in Int /\ b \in Int /\ n \in Int /\ t \in Int
                     /\ 0 <= s /\ 1 <= b /\ 0 <= n
                     /\ TakenOf(t, i) => s + b <= n
                     /\ ~TakenOf(t, i) => ORescaled(i) <= s + b
  BY <1>0, TakenIs DEF FoldedAt
<1>2. PICK f, o : f = FoldedBlocks(<<t, i>>) /\ o = mem[<<"O", i>>]
  OBVIOUS
<1> DEFINE rescaling == co.at = "rescale" /\ co.t = t /\ co.st = i /\ co.ok
           adding == tc # <<>> /\ Head(tc).begun /\ Head(tc).ok /\ Head(tc).t = t /\ Target(Head(tc)) = <<"O", i>>
<1>3. f = IF TakenOf(t, i) THEN b
          ELSE IF o # Garbage THEN (IF o[1] = t THEN o[2] ELSE 0)
          ELSE IF rescaling THEN co.k - 1
          ELSE IF adding THEN Head(tc).k - 1 ELSE 0
  BY <1>1, <1>2 DEF FoldedBlocks, TakenOf
<1> HIDE DEF rescaling, adding
<1> SUFFICES BlocksOf(t, n, f)
  BY <1>1, <1>2
<1>4. CASE TakenOf(t, i)
  <2>1. s + b <= n /\ f = b
    BY <1>1, <1>3, <1>4
  <2> QED
    BY <1>1, <2>1 DEF BlocksOf
<1>5. ASSUME ~TakenOf(t, i), NEW u, NEW l, IsBlock(u, l, n), u = t => f = l, u # t => f = 0
      PROVE  BlocksOf(t, n, f)
  <2>1. /\ u \in Int /\ 1 <= u /\ u <= Tiles /\ l \in Int /\ 1 <= l /\ l <= Blocks[u] /\ n = Start[u] + l /\ u \in 1..(Tiles + 1)
        /\ Start[u] \in Int /\ Blocks[u] \in Int /\ Tiles \in Int
    BY <1>5, BlockIs
  <2>2. ORescaled(i) \in Int /\ n <= ORescaled(i) /\ ORescaled(i) <= s + b
    BY <1>0, <1>1, <1>5 DEF FoldedAt
  <2>3. t \in 1..(Tiles + 1)
    BY TileIs, StartIs
  <2>4. CASE u = t
    BY <1>1, <1>5, <2>1, <2>4 DEF BlocksOf
  <2>5. CASE u < t
    <3>1. Start[u] + Blocks[u] <= s
      BY <1>1, <2>1, <2>3, <2>5, StartGrows
    <3> QED
      BY <1>1, <1>5, <2>1, <2>5, <3>1 DEF BlocksOf
  <2>6. CASE t < u
    <3>1. s + b <= Start[u]
      BY <1>1, <2>1, <2>3, <2>6, StartGrows
    <3> QED
      BY <1>1, <2>1, <2>2, <3>1
  <2> QED
    BY <1>1, <2>1, <2>4, <2>5, <2>6
<1>6. CASE ~TakenOf(t, i) /\ \E u, l : IsBlock(u, l, n) /\ o \in {Folded(u, l), Rescaled(u, l)}
  <2>1. PICK u, l : IsBlock(u, l, n) /\ o \in {Folded(u, l), Rescaled(u, l)}
    BY <1>6
  <2>2. o[1] = u /\ o[2] = l /\ o # Garbage
    BY <2>1 DEF Folded, Rescaled, Garbage
  <2>3. f = IF u = t THEN l ELSE 0
    BY <1>3, <1>6, <2>2
  <2> QED
    BY <1>5, <1>6, <2>1, <2>3
<1>7. CASE ~TakenOf(t, i) /\ o = Garbage /\ Rescaling(i)
  <2>1. CoFree /\ CoAt /\ co.ok
    BY <1>0, CoFreeNow, CoAtNow DEF CInv, Contents, OksHold
  <2>2. IsBlock(co.t, co.k - 1, ORescaled(i)) /\ ORescaled(i) = PvBegun(i) /\ ~PvIn(i)
    BY <1>7, <2>1 DEF CoFree, CoAt, Rescaling
  <2>3. IsBlock(co.t, co.k - 1, n)
    BY <1>0, <1>1, <2>2 DEF FoldedAt
  <2>4. rescaling <=> co.t = t
    BY <1>7, <2>1 DEF rescaling, Rescaling
  <2>5. ~adding
    <3> SUFFICES ASSUME adding PROVE PvIn(i)
      BY <2>2
    <3>1. Head(tc) = tc[1] /\ 1 \in DOMAIN tc /\ Target(tc[1]) = <<"O", i>>
      <4>1. TcType
        BY <1>0 DEF CInv, FlightInv, HandInv, OperandInv, Types
      <4> QED
        BY <4>1 DEF adding, TcType
    <3>2. tc[1].kind = "PV" /\ tc[1].st = i
      <4>1. tc[1].kind \in {"QK", "PV"}
        BY <1>0, <3>1, PvsInFlight DEF CInv
      <4> QED
        BY <3>1, <4>1 DEF Target
    <3> QED
      BY <3>1, <3>2 DEF PvIn
  <2>6. f = IF co.t = t THEN co.k - 1 ELSE 0
    BY <1>3, <1>7, <2>4, <2>5
  <2> QED
    BY <1>5, <1>7, <2>3, <2>6
<1>8. CASE ~TakenOf(t, i) /\ o = Garbage /\ PvRunning(i)
  <2>1. 1 \in DOMAIN tc /\ tc[1].begun /\ tc[1].kind = "PV" /\ tc[1].st = i
    BY <1>8 DEF PvRunning
  <2>2. TcType /\ TcHolds
    BY <1>0 DEF CInv, FlightInv, HandInv, OperandInv, Types, Contents
  <2>3. tc[1].ok /\ Head(tc) = tc[1] /\ tc # <<>> /\ Target(tc[1]) = <<"O", i>>
    BY <2>1, <2>2 DEF TcHolds, RunHolds, Target, TcType
  <2>4. PvFlies(tc[1]) /\ PvIn(i)
    BY <1>0, <2>1, PvsInFlight DEF CInv, PvIn
  <2>5. PICK u, l : u = tc[1].t /\ l = tc[1].k
    OBVIOUS
  <2>6. IsBlock(u, l, PvBegun(i))
    BY <2>1, <2>4, <2>5 DEF PvFlies, IsBlock
  <2>7. n = PvBegun(i) - 1 /\ ORescaled(i) = n + 1 /\ PvBegun(i) \in Int
    BY <1>0, <1>1, <2>4 DEF FoldedAt
  <2>8. /\ u \in Int /\ 1 <= u /\ u <= Tiles /\ l \in Int /\ 1 <= l /\ l <= Blocks[u] /\ PvBegun(i) = Start[u] + l
        /\ u \in 1..(Tiles + 1) /\ Start[u] \in Int /\ Blocks[u] \in Int /\ Tiles \in Int
    BY <2>6, BlockIs
  <2>9. ~rescaling
    <3> SUFFICES ASSUME rescaling PROVE FALSE
      OBVIOUS
    <3>1. CoFree
      BY <1>0, CoFreeNow DEF CInv
    <3> QED
      BY <2>4, <3>1 DEF rescaling, CoFree
  <2>10. adding <=> u = t
    BY <2>1, <2>3, <2>5 DEF adding
  <2>11. f = IF u = t THEN l - 1 ELSE 0
    BY <1>3, <1>8, <2>3, <2>5, <2>9, <2>10
  <2>12. t \in 1..(Tiles + 1) /\ ORescaled(i) <= s + b
    BY <1>1, <1>8, TileIs, StartIs
  <2>13. CASE u = t
    BY <1>1, <2>7, <2>8, <2>11, <2>13 DEF BlocksOf
  <2>14. CASE u < t
    <3>1. Start[u] + Blocks[u] <= s
      BY <1>1, <2>8, <2>12, <2>14, StartGrows
    <3> QED
      BY <1>1, <2>7, <2>8, <2>11, <2>14, <3>1 DEF BlocksOf
  <2>15. CASE t < u
    <3>1. s + b <= Start[u]
      BY <1>1, <2>8, <2>12, <2>15, StartGrows
    <3> QED
      BY <1>1, <2>7, <2>8, <2>12, <3>1
  <2> QED
    BY <1>1, <2>8, <2>13, <2>14, <2>15
<1>9. CASE ~TakenOf(t, i) /\ o = Garbage /\ ~Rescaling(i) /\ ~PvRunning(i) /\ n = 0
  <2>1. ~rescaling
    BY <1>9 DEF rescaling, Rescaling
  <2>2. ~adding
    <3> SUFFICES ASSUME adding PROVE PvRunning(i)
      BY <1>9
    <3>1. Head(tc) = tc[1] /\ 1 \in DOMAIN tc /\ Target(tc[1]) = <<"O", i>> /\ tc[1].begun
      <4>1. TcType
        BY <1>0 DEF CInv, FlightInv, HandInv, OperandInv, Types
      <4> QED
        BY <4>1 DEF adding, TcType
    <3>2. tc[1].kind = "PV" /\ tc[1].st = i
      <4>1. tc[1].kind \in {"QK", "PV"}
        BY <1>0, <3>1, PvsInFlight DEF CInv
      <4> QED
        BY <3>1, <4>1 DEF Target
    <3> QED
      BY <3>1, <3>2 DEF PvRunning
  <2>3. f = 0
    BY <1>3, <1>9, <2>1, <2>2
  <2> QED
    BY <1>1, <1>9, <2>3 DEF BlocksOf
<1>10. CASE co.at = "end"
  <2>1. CoPlace /\ CoWhere
    BY <1>0, CoAtNow DEF CInv, CoAt
  <2>2. t < co.t
    BY <1>1, <1>10, <2>1, TileIs DEF CoPlace, CoWhere
  <2> QED
    BY <1>1, <1>4, <2>1, <2>2 DEF TakenOf, CoWhere
<1> QED
  BY <1>0, <1>1, <1>2, <1>4, <1>6, <1>7, <1>8, <1>9, <1>10 DEF OTagged

-----------------------------------------------------------------------------
(* Every step keeps the tags, and counts a block when its PV is over.        *)

TagKept(i) ==
    /\ OFolded(i)' = OFolded(i) /\ mem'[<<"O", i>>] = mem[<<"O", i>>]
    /\ Rescaling(i) => Rescaling(i)'
    /\ PvRunning(i) => PvRunning(i)'
    /\ co.at = "end" => co'.at = "end"

LEMMA TagStays == ASSUME NEW i, OTagged(i), TagKept(i) PROVE OTagged(i)'
<1>1. CASE \E t, k : IsBlock(t, k, OFolded(i)) /\ mem[<<"O", i>>] \in {Folded(t, k), Rescaled(t, k)}
  <2>1. PICK t, k : IsBlock(t, k, OFolded(i)) /\ mem[<<"O", i>>] \in {Folded(t, k), Rescaled(t, k)}
    BY <1>1
  <2>2. IsBlock(t, k, OFolded(i))' /\ mem'[<<"O", i>>] \in {Folded(t, k), Rescaled(t, k)}
    BY <2>1 DEF TagKept, IsBlock
  <2> QED
    BY <2>2 DEF OTagged
<1>2. CASE mem[<<"O", i>>] = Garbage /\ (Rescaling(i) \/ PvRunning(i) \/ OFolded(i) = 0)
  BY <1>2 DEF TagKept, OTagged
<1>3. CASE co.at = "end"
  BY <1>3 DEF TagKept, OTagged
<1> QED
  BY <1>1, <1>2, <1>3 DEF OTagged

\* Nobody but the MMA warp and the tensor core counts.
LEMMA FoldedSame ==
    ASSUME UNCHANGED <<mm, tc>>, NEW i PROVE OFolded(i)' = OFolded(i) /\ (PvRunning(i) => PvRunning(i)')
<1>1. PvBegun(i)' = PvBegun(i) /\ (PvIn(i)' <=> PvIn(i))
  BY MmSame, PvsSame
<1>2. OFolded(i)' = OFolded(i)
  BY <1>1 DEF OFolded, If1
<1> QED
  BY <1>2 DEF PvRunning

\* Steps that leave O alone.
Quiet == UNCHANGED <<mm, tc, co>> /\ \A i \in {0, 1} : mem'[<<"O", i>>] = mem[<<"O", i>>]

LEMMA QuietKeeps == ASSUME Quiet, NEW i \in {0, 1} PROVE TagKept(i)
  BY FoldedSame DEF Quiet, TagKept, Rescaling

LEMMA LoadQuiet == ASSUME CInv, Load \/ TmaLand PROVE Quiet
<1>0. Types
  BY DEF CInv, FlightInv, HandInv, OperandInv
<1>1. UNCHANGED <<mm, tc, co>>
  BY DEF Load, LoadQ, LoadKV, TmaLand
<1>2. PICK r, tag : r \in Region /\ r[1] \in {"Q", "KV"} /\ mem' = Put(mem, r, tag)
  <2>1. CASE LoadQ
    <3>1. PICK i \in {0, 1} : StartLoad(<<"Q", i>>, QTag(ld.t), <<"q_full", i>>)
      BY <2>1 DEF LoadQ
    <3>2. <<"Q", i>> \in Region /\ mem' = Put(mem, <<"Q", i>>, Garbage)
      BY <3>1, NamesIn DEF StartLoad
    <3> QED
      BY <3>2
  <2>2. CASE LoadKV
    <3>1. ld.idx \in Slot
      BY <1>0 DEF Types, LdType
    <3>2. <<"KV", ld.idx>> \in Region /\ mem' = Put(mem, <<"KV", ld.idx>>, Garbage)
      BY <2>2, <3>1, NamesIn DEF StartLoad, LoadKV
    <3> QED
      BY <3>2
  <2>3. CASE TmaLand
    <3>1. PICK x \in tma : mem' = Put(mem, x.dst, x.tag)
      BY <2>3 DEF TmaLand
    <3>2. \/ \E i \in {0, 1} : x.dst = <<"Q", i>>
          \/ \E s \in Slot : x.dst = <<"KV", s>>
      BY StageIs DEF CInv, FlightInv, HandInv, OperandInv, LdInv, TmaApart
    <3>3. x.dst \in Region /\ x.dst[1] \in {"Q", "KV"}
      BY <3>2, NamesIn
    <3> QED
      BY <3>1, <3>3
  <2> QED
    BY <2>1, <2>2, <2>3 DEF Load
<1>3. \A i \in {0, 1} : mem'[<<"O", i>>] = mem[<<"O", i>>]
  BY <1>2, PutLoads, NamesIn DEF LoadTouches
<1> QED
  BY <1>1, <1>3 DEF Quiet

LEMMA SoftmaxQuiet == ASSUME CInv, NEW i \in {0, 1}, Softmax(i) PROVE Quiet
<1>0. i \in Stage /\ HandInv
  BY StageIs DEF CInv, FlightInv
<1>1. SmHere(i)
  BY <1>0, HandPlaces DEF SmHere, HandInv, OperandInv, Types, Places
<1>2. PICK w, a : SmStep(i, w, a)
  BY <1>0, <1>1, SoftmaxStep
<1>3. UNCHANGED <<mm, tc, co>>
  BY <1>2 DEF SmStep
<1>4. SmTouches(i)
  BY SmTouchesAre
<1>5. \A j \in {0, 1} : mem'[<<"O", j>>] = mem[<<"O", j>>]
  BY <1>4, NamesIn DEF SmTouches
<1> QED
  BY <1>3, <1>5 DEF Quiet

LEMMA RestQuiet == ASSUME Epilogue \/ Halt \/ UNCHANGED vars PROVE Quiet
  BY DEF Epilogue, EpiStore, EpiFree, Halt, vars, Quiet

-----------------------------------------------------------------------------
(* The correction warps. *)

\* A rescale begins: O may be touched at once.
LEMMA BeginsO ==
    ASSUME DOMAIN mem = Region, CoType, CorrToRescale
    PROVE  \/ mem' = mem
           \/ co'.at = "rescale" /\ co'.st = co.st /\ mem'[<<"O", co.st>>] = Garbage /\ OnlyO
<1>1. <<"O", co.st>> \in Region
  BY NamesIn, StageIs DEF CoType, CoRecord
<1>2. ASSUME NEW c, c \in CoRecord, c.st = co.st, BeginRescale(c)
      PROVE  \/ mem' = mem
             \/ co'.at = "rescale" /\ co'.st = co.st /\ mem'[<<"O", co.st>>] = Garbage /\ OnlyO
  <2>1. mem' = mem \/ mem' = [mem EXCEPT ![<<"O", co.st>>] = Garbage]
    BY <1>2 DEF BeginRescale
  <2>2. co'.at = "rescale" /\ co'.st = co.st
    BY <1>2, CoBeginGo
  <2> QED
    BY <1>1, <2>1, <2>2 DEF OnlyO
<1>3. CASE CorrWaitO
  BY <1>2, <1>3 DEF CorrWaitO, CoType
<1>4. CASE CorrScale
  <2>1. PICK c : /\ c = [co EXCEPT !.ok = mem[<<"sScale", co.st>>] = ScaleTag(co.t, co.k)]
                 /\ UNCHANGED mem \/ BeginRescale(c)
    BY <1>4 DEF CorrScale
  <2>2. c \in CoRecord /\ c.st = co.st
    BY <2>1 DEF CoType, CoRecord
  <2> QED
    BY <1>2, <2>1, <2>2
<1> QED
  BY <1>3, <1>4 DEF CorrToRescale

LEMMA CorrectionTags ==
    ASSUME FoldInv, CInv', Correction, NEW i \in {0, 1} PROVE OTagged(i)' /\ OFolded(i)' = OFolded(i)
<1>0. CInv /\ OTagged(i) /\ CoCtx /\ FoldedAt(i) /\ CoTouch
  BY CoCtxIs, CoTouchIs, FoldedAtIs DEF FoldInv, CInv, CoCtx
<1>1. UNCHANGED <<mm, tc>> /\ CoType /\ DOMAIN mem = Region /\ CoAt /\ CoFree /\ co.ok
  BY <1>0 DEF CoCtx
<1>2. OFolded(i)' = OFolded(i) /\ (PvRunning(i) => PvRunning(i)')
  BY <1>1, FoldedSame
<1>3. co.at # "end"
  BY DEF Correction, CorrStart, CorrFirst, CorrToRescale, CorrScale, CorrWaitO, CorrRescaled, CorrSum, CorrWaitLastO,
         CorrWaitBuffer, CorrWriteO
<1>4. ASSUME mem'[<<"O", i>>] = mem[<<"O", i>>], ~Rescaling(i) PROVE OTagged(i)'
  <2>1. TagKept(i)
    BY <1>2, <1>3, <1>4 DEF TagKept
  <2> QED
    BY <1>0, <2>1, TagStays
<1>5. CASE co.at = "rescale"
  <2>1. CorrRescaled
    BY <1>5 DEF Correction, CorrStart, CorrFirst, CorrToRescale, CorrScale, CorrWaitO, CorrSum, CorrWaitLastO,
           CorrWaitBuffer, CorrWriteO
  <2>2. OnlyO /\ mem'[<<"O", co.st>>] = KeepIf(co.ok, Rescaled(co.t, co.k - 1))
    BY <1>1, <2>1, CoRescaledGo
  <2>3. CASE co.st # i
    <3>1. mem'[<<"O", i>>] = mem[<<"O", i>>]
      BY <2>2, <2>3, NamesIn DEF OnlyO
    <3> QED
      BY <1>2, <1>4, <2>3, <3>1 DEF Rescaling
  <2>4. CASE co.st = i
    <3>1. mem'[<<"O", i>>] = Rescaled(co.t, co.k - 1)
      BY <1>1, <2>2, <2>4 DEF KeepIf
    <3>2. IsBlock(co.t, co.k - 1, ORescaled(i)) /\ ORescaled(i) = PvBegun(i) /\ ~PvIn(i)
      BY <1>1, <1>5, <2>4 DEF CoAt, CoFree
    <3>3. PICK t, k : t = co.t /\ k = co.k - 1
      OBVIOUS
    <3>4. IsBlock(t, k, OFolded(i))
      BY <1>0, <3>2, <3>3 DEF FoldedAt
    <3>5. IsBlock(t, k, OFolded(i)')
      BY <1>2, <3>4
    <3>6. mem'[<<"O", i>>] \in {Folded(t, k), Rescaled(t, k)}
      BY <3>1, <3>3
    <3> QED
      BY <1>2, <3>5, <3>6 DEF OTagged, IsBlock
  <2> QED
    BY <2>3, <2>4
<1>6. CASE co.at # "rescale"
  <2>1. ~Rescaling(i)
    BY <1>6 DEF Rescaling
  <2>2. CASE mem'[<<"O", i>>] = mem[<<"O", i>>]
    BY <1>2, <1>4, <2>1, <2>2
  <2>3. CASE mem'[<<"O", i>>] # mem[<<"O", i>>]
    <3>1. co'.at = "rescale" /\ co'.st = co.st /\ co.st = i
      <4>1. <<"O", i>> \in Region
        BY NamesIn
      <4> QED
        BY <1>0, <1>6, <2>3, <4>1 DEF CoTouch
    <3>2. CorrToRescale
      <4>1. co'.at # "rescale" \/ CorrToRescale
        <5>1. CASE CorrStart \/ CorrFirst
          BY <1>1, <5>1, CoQuietGo DEF CoGoes
        <5>2. CASE CorrRescaled
          BY <1>6, <5>2 DEF CorrRescaled
        <5>3. CASE CorrSum
          BY <1>1, <5>3, CoSumGo DEF CoGoes
        <5>4. CASE CorrWaitLastO \/ CorrWaitBuffer
          BY <1>1, <5>4, CoBufferGo DEF CoGoes
        <5>5. CASE CorrWriteO
          BY <1>1, <5>5, CoWriteGo DEF CoGoes
        <5> QED
          BY <5>1, <5>2, <5>3, <5>4, <5>5 DEF Correction
      <4> QED
        BY <3>1, <4>1
    <3>3. mem'[<<"O", i>>] = Garbage
      BY <1>1, <2>3, <3>1, <3>2, BeginsO
    <3> QED
      BY <1>2, <3>1, <3>3 DEF OTagged, Rescaling
  <2> QED
    BY <2>2, <2>3
<1> QED
  BY <1>5, <1>6

-----------------------------------------------------------------------------
(* The MMA warp and the tensor core. *)

\* A PV that is issued is in flight, and no more of them are over.
LEMMA MmaTags ==
    ASSUME FoldInv, CInv', Mma, NEW i \in {0, 1} PROVE OTagged(i)' /\ OFolded(i)' = OFolded(i)
<1>0. /\ CInv /\ FlightInv /\ Contents /\ HandInv /\ OperandInv /\ MmHere /\ AllNumbers /\ TcType /\ TcType' /\ TcApart
      /\ TcHolds /\ PvOnce /\ Tallies /\ MmNumbers(i) /\ OTagged(i) /\ FoldedAt(i)
  <2>1. CInv /\ FlightInv /\ Contents /\ HandInv
    BY DEF FoldInv, CInv, FlightInv
  <2>2. OperandInv /\ MmHere /\ AllNumbers /\ Tallies
    BY <2>1, HandPlaces, TalliesAre DEF HandInv
  <2>3. TcType /\ TcApart
    BY <2>2 DEF OperandInv, Types, MmInv
  <2>4. TcType'
    BY DEF CInv, FlightInv, HandInv, OperandInv, Types
  <2>5. MmNumbers(i) /\ TcHolds /\ PvOnce /\ OTagged(i) /\ FoldedAt(i)
    BY <2>1, <2>2, FoldedAtIs DEF AllNumbers, Contents, FoldInv
  <2> QED
    BY <2>1, <2>2, <2>3, <2>4, <2>5
<1>1. UNCHANGED co
  BY DEF Mma, MmaWaitQ, MmaWaitK, MmaIssueQK, MmaWaitV, MmaIssuePV, MmaIssuePV2, MmaDealloc
<1>2. ASSUME NEW w, MmDelta(w, {}) \/ MmDelta(w, QKSignals) \/ MmDelta(w, PVSignals), <<"P_full_O", i>> \notin w
      PROVE  PvBegun(i)' = PvBegun(i)
  <2>1. PvBegun(i)' = PvBegun(i) + If1(<<"P_full_O", i>> \in w)
    BY <1>2 DEF MmDelta
  <2>2. If1(<<"P_full_O", i>> \in w) = 0 /\ PvBegun(i) \in Int
    BY <1>0, <1>2 DEF If1, MmNumbers
  <2> QED
    BY <2>1, <2>2
<1>3. ASSUME PvBegun(i)' = PvBegun(i), PvIn(i)' <=> PvIn(i), PvRunning(i) => PvRunning(i)', UNCHANGED mem
      PROVE  OTagged(i)' /\ OFolded(i)' = OFolded(i)
  <2>1. OFolded(i)' = OFolded(i)
    BY <1>3 DEF OFolded, If1
  <2>2. TagKept(i)
    BY <1>1, <1>3, <2>1 DEF TagKept, Rescaling
  <2> QED
    BY <1>0, <2>1, <2>2, TagStays
<1>4. CASE MmaWaitQ \/ MmaWaitK \/ MmaWaitV
  <2>1. PICK w : MmGo(w, {}) /\ UNCHANGED tc /\ NoPvIn(w)
    BY <1>0, <1>4, MmaWaitRingGo
  <2>2. PvBegun(i)' = PvBegun(i)
    BY <1>2, <2>1 DEF MmGo, NoPvIn
  <2>3. (PvIn(i)' <=> PvIn(i)) /\ (PvRunning(i) => PvRunning(i)')
    BY <2>1, PvsSame DEF PvRunning
  <2>4. UNCHANGED mem
    BY <1>4 DEF MmaWaitQ, MmaWaitK, MmaWaitV
  <2> QED
    BY <1>3, <2>2, <2>3, <2>4
<1>5. ASSUME NEW n, NEW op, TcGrown(n, op) PROVE PvRunning(i) => PvRunning(i)'
  <2> SUFFICES ASSUME PvRunning(i) PROVE PvRunning(i)'
    OBVIOUS
  <2>1. 1 \in DOMAIN tc /\ tc'[1] = tc[1] /\ 1 \in DOMAIN tc'
    BY <1>5 DEF PvRunning, TcGrown
  <2> QED
    BY <2>1 DEF PvRunning
<1>6. CASE MmaIssueQK
  <2>1. mm.at = "qk" /\ UNCHANGED mem
    BY <1>6 DEF MmaIssueQK
  <2>2. PICK j, t, k : QkDue(j, t, k)
    BY <1>0, <2>1, MmaQkDue
  <2>3. PICK n, op : QkNew(n, op, j, t, k)
    BY <1>0, <1>6, <2>2, MmaQkNew
  <2>4. TcGrown(n, op) /\ op.kind = "QK" /\ ~op.begun
    BY <2>3 DEF QkNew
  <2>5. PvIn(i)' <=> PvIn(i)
    BY <2>4, GrownIn
  <2>6. PICK w : MmGo(w, QKSignals) /\ NoPvIn(w)
    BY <1>0, <1>6, MmaIssueQKGo
  <2>7. PvBegun(i)' = PvBegun(i)
    BY <1>2, <2>6 DEF MmGo, NoPvIn
  <2> QED
    BY <1>3, <1>5, <2>1, <2>4, <2>5, <2>7
<1>7. CASE MmaIssuePV
  <2>1. mm.at = "p" /\ UNCHANGED mem
    BY <1>7 DEF MmaIssuePV
  <2>2. PICK j, t, k : PvDue(j, t, k)
    BY <1>0, <2>1, MmaPvDue
  <2>3. PICK n, op : PvNew(n, op, j, t, k)
    BY <1>0, <1>7, <2>2, MmaPvNew
  <2>4. TcGrown(n, op) /\ op.kind = "PV" /\ op.st = j /\ ~op.begun
    BY <2>3 DEF PvNew
  <2>5. j \in {0, 1} /\ j = mm.st
    BY <2>2 DEF PvDue
  <2>6. MmGo({<<"P_full_O", j>>}, {})
    BY <1>0, <1>7, <2>5, MmaIssuePVGo
  <2>7. PvRunning(i) => PvRunning(i)'
    BY <1>5, <2>4
  <2>8. CASE j # i
    <3>1. PvIn(i)' <=> PvIn(i)
      BY <2>4, <2>8, GrownIn
    <3>2. PvBegun(i)' = PvBegun(i)
      BY <1>2, <2>6, <2>8 DEF MmGo
    <3> QED
      BY <1>3, <2>1, <2>7, <3>1, <3>2
  <2>9. CASE j = i
    <3>1. ORescaled(i) = PvBegun(i) + 1 /\ PvBegun(i) \in Int
      <4>1. InTurn({<<"P_full_O", i>>}) /\ <<"P_full_O", i>> \in {<<"P_full_O", i>>}
        BY <2>6, <2>9 DEF MmGo
      <4>2. PvBegun(i) + 1 <= ORescaled(i)
        BY <1>0, <4>1, PvWaited
      <4>3. Tally(i)
        BY <1>0, TallyBoth
      <4> QED
        BY <4>2, <4>3 DEF Tally
    <3>2. ~PvIn(i)
      <4>1. OHolds(i)
        BY <1>0 DEF Contents, StageHolds
      <4> QED
        BY <3>1, <4>1 DEF OHolds
    <3>3. PvIn(i)'
      BY <2>4, <2>9, GrownIn
    <3>4. PvBegun(i)' = PvBegun(i) + 1
      <4>1. PvBegun(i)' = PvBegun(i) + If1(<<"P_full_O", i>> \in {<<"P_full_O", j>>})
        BY <2>6 DEF MmGo, MmDelta
      <4> QED
        BY <2>9, <4>1 DEF If1
    <3>5. OFolded(i)' = OFolded(i)
      BY <3>1, <3>2, <3>3, <3>4 DEF OFolded, If1
    <3>6. TagKept(i)
      BY <1>1, <2>1, <2>7, <3>5 DEF TagKept, Rescaling
    <3> QED
      BY <1>0, <3>5, <3>6, TagStays
  <2> QED
    BY <2>8, <2>9
<1>8. CASE MmaIssuePV2
  <2>1. PICK n : TcClosed(n, PVSignals) /\ tc[n].open
    BY <1>0, <1>8, PV2Closes
  <2>2. MmGo({<<"P_full_2", mm.st>>}, PVSignals) /\ UNCHANGED mem
    BY <1>0, <1>8, MmaIssuePV2Go DEF MmaIssuePV2
  <2>3. PvBegun(i)' = PvBegun(i)
    BY <1>2, <2>2 DEF MmGo
  <2>4. DOMAIN tc' = DOMAIN tc /\ \A j \in DOMAIN tc : Same(tc'[j], tc[j])
    <3>1. DOMAIN tc' = DOMAIN tc
      BY <2>1 DEF TcClosed
    <3>2. ASSUME NEW j \in DOMAIN tc PROVE Same(tc'[j], tc[j])
      <4>1. CASE j = n
        BY <2>1, <4>1 DEF TcClosed
      <4>2. CASE j # n
        BY <2>1, <4>2 DEF TcClosed, Same
      <4> QED
        BY <4>1, <4>2
    <3> QED
      BY <3>1, <3>2
  <2>5. PvIn(i)' <=> PvIn(i)
    BY <2>4 DEF PvIn, Same
  <2>6. PvRunning(i) => PvRunning(i)'
    <3> SUFFICES ASSUME PvRunning(i) PROVE PvRunning(i)'
      OBVIOUS
    <3>1. 1 \in DOMAIN tc /\ tc[1] \in Op /\ tc[1].begun
      BY <1>0, OpIs DEF PvRunning
    <3>2. tc'[1].begun
      <4>1. tc' = [tc EXCEPT ![Len(tc)].open = FALSE, ![Len(tc)].signals = PVSignals]
        BY <1>8 DEF MmaIssuePV2, PVSignals, PVEnds
      <4>2. CASE 1 = Len(tc)
        <5>1. tc'[1] = [tc[1] EXCEPT !.open = FALSE, !.signals = PVSignals]
          BY <3>1, <4>1, <4>2
        <5> QED
          BY <3>1, <5>1 DEF Op
      <4>3. CASE 1 # Len(tc)
        BY <3>1, <4>1, <4>3
      <4> QED
        BY <4>2, <4>3
    <3> QED
      BY <2>4, <3>1, <3>2 DEF PvRunning, Same
  <2> QED
    BY <1>3, <2>2, <2>3, <2>5, <2>6
<1>9. CASE MmaDealloc
  <2>1. co.at = "end"
    BY <1>0, <1>9, DeallocDue
  <2>2. MmGo({<<"dealloc", 0>>}, {}) /\ UNCHANGED tc
    BY <1>0, <1>9, MmaDeallocGo
  <2>3. PvBegun(i)' = PvBegun(i)
    BY <1>2, <2>2 DEF MmGo
  <2>4. PvIn(i)' <=> PvIn(i)
    BY <2>2, PvsSame
  <2>5. OFolded(i)' = OFolded(i)
    BY <2>3, <2>4 DEF OFolded, If1
  <2> QED
    BY <1>1, <2>1, <2>5 DEF OTagged
<1> QED
  BY <1>4, <1>6, <1>7, <1>8, <1>9 DEF Mma

\* An operation begins: O of a PV is in its hands.
LEMMA TcStartTags ==
    ASSUME FoldInv, CInv', Decoupled => PvBeforeNextP, TcStart, NEW i \in {0, 1}
    PROVE  OTagged(i)' /\ OFolded(i)' = OFolded(i)
<1>0. /\ FlightInv /\ Contents /\ TcType /\ TcType' /\ TcHolds /\ PvOnce /\ BarType /\ BarOK /\ OTagged(i)
  BY DEF FoldInv, CInv, FlightInv, HandInv, OperandInv, Types, Contents
<1>1. PICK n, op : TcBegins(n, op)
  BY <1>0, TcBeginsIs
<1>2. PICK h \in DOMAIN tc : h = 1 /\ op = tc[h]
  BY <1>1 DEF TcBegins
<1>3. op.kind \in {"QK", "PV"} /\ op.st \in {0, 1} /\ op.copies = CopiesOf(op) /\ ~op.begun
  BY <1>0, <1>1, <1>2, OpIs DEF TcHolds, OpHolds, TcBegins
<1>4. UNCHANGED <<mm, co>> /\ (PvIn(i)' <=> PvIn(i))
  BY <1>1, <1>3, BeganIn DEF TcBegins
<1>5. OFolded(i)' = OFolded(i)
  <2>1. PvBegun(i)' = PvBegun(i)
    BY <1>4, MmSame
  <2> QED
    BY <1>4, <2>1 DEF OFolded, If1
<1>6. CASE op.kind = "PV" => i # op.st
  <2>1. ~PvRunning(i)
    BY <1>2, <1>3 DEF PvRunning
  <2>2. mem'[<<"O", i>>] = mem[<<"O", i>>]
    <3>1. TcTouches(op)
      BY <1>0, <1>1, <1>3, TcBeginTouches
    <3>2. <<"O", i>> \in Region
      BY NamesIn
    <3> QED
      BY <1>3, <1>6, <3>1, <3>2 DEF TcTouches, ScaleNames
  <2>3. TagKept(i)
    BY <1>4, <1>5, <2>1, <2>2 DEF TagKept, Rescaling
  <2> QED
    BY <1>0, <1>5, <2>3, TagStays
<1>7. CASE op.kind = "PV" /\ i = op.st
  <2>1. PICK r, m : r = <<"O", i>> /\ r \in Region /\ mem' = Put(m, r, Garbage)
    BY <1>0, <1>1, <1>2, <1>7, TargetIs DEF TcBegins
  <2>2. mem'[r] = Garbage
    BY <2>1, PutAt
  <2>3. PvRunning(i)'
    <3>1. 1 \in DOMAIN tc' /\ tc'[1].begun /\ Same(tc'[1], tc[1])
      BY <1>1, <1>2 DEF TcBegins, TcBegan
    <3> QED
      BY <1>2, <1>7, <3>1 DEF PvRunning, Same
  <2> QED
    BY <1>5, <2>1, <2>2, <2>3 DEF OTagged
<1> QED
  BY <1>6, <1>7

\* One ends: O of a PV has taken up its block.
FoldsBlock(i, t, k) ==
    /\ IsBlock(t, k, OFolded(i) + 1) /\ OFolded(i)' = OFolded(i) + 1
    /\ OFolded(1 - i)' = OFolded(1 - i)

LEMMA TcFinishTags ==
    ASSUME FoldInv, CInv', Decoupled => PvBeforeNextP, TcFinish
    PROVE  /\ OTagged(0)' /\ OTagged(1)'
           /\ \/ \A i \in {0, 1} : OFolded(i)' = OFolded(i)
              \/ \E i \in {0, 1} : \E t, k : FoldsBlock(i, t, k)
<1>0. /\ FlightInv /\ Contents /\ TcType /\ TcHolds /\ PvOnce
  BY DEF FoldInv, CInv, FlightInv, HandInv, OperandInv, Types, Contents
<1>1. PICK n, op : TcEnds(n, op)
  BY <1>0, TcEndsIs
<1>2. PICK h \in DOMAIN tc : h = 1 /\ op = tc[h]
  BY <1>1 DEF TcEnds
<1>3. op.kind \in {"QK", "PV"} /\ op.st \in {0, 1} /\ UNCHANGED <<mm, co>>
  BY <1>0, <1>1, <1>2, OpIs DEF TcEnds
<1>4. \A i \in {0, 1} : PvBegun(i)' = PvBegun(i)
  BY <1>3, MmSame
<1>5. ASSUME NEW i \in {0, 1}, op.kind = "PV" => i # op.st PROVE OTagged(i)' /\ OFolded(i)' = OFolded(i)
  <2>1. PvIn(i)' <=> PvIn(i)
    BY <1>1, <1>5, EndsIn
  <2>2. OFolded(i)' = OFolded(i)
    BY <1>4, <2>1 DEF OFolded, If1
  <2>3. ~PvRunning(i)
    BY <1>2, <1>5 DEF PvRunning
  <2>4. mem'[<<"O", i>>] = mem[<<"O", i>>]
    <3>1. TcTouches(op)
      BY <1>0, <1>1, TcEndTouches
    <3>2. <<"O", i>> \in Region
      BY NamesIn
    <3> QED
      BY <1>3, <1>5, <3>1, <3>2 DEF TcTouches, ScaleNames
  <2>5. TagKept(i)
    BY <1>3, <2>2, <2>3, <2>4 DEF TagKept, Rescaling
  <2>6. OTagged(i)
    BY DEF FoldInv
  <2> QED
    BY <2>2, <2>5, <2>6, TagStays
<1>6. ASSUME NEW i \in {0, 1}, op.kind = "PV", i = op.st PROVE OTagged(i)' /\ \E t, k : FoldsBlock(i, t, k)
  <2>1. PICK t, k : t = op.t /\ k = op.k
    OBVIOUS
  <2>2. PvIn(i) /\ ~PvIn(i)'
    BY <1>0, <1>1, <1>2, <1>6, EndsIn DEF PvIn
  <2>3. IsBlock(t, k, PvBegun(i))
    <3>1. PvFlies(op)
      BY <1>0, <1>2, <1>6, PvsInFlight
    <3> QED
      BY <1>6, <2>1, <3>1 DEF PvFlies, IsBlock
  <2>4. FoldedAt(i)
    BY FoldedAtIs DEF FoldInv
  <2>5. PICK b : b = PvBegun(i) /\ b \in Int /\ OFolded(i) = b - 1 /\ IsBlock(t, k, b)
    BY <2>2, <2>3, <2>4 DEF FoldedAt
  <2>6. OFolded(i)' = b
    BY <1>4, <2>2, <2>5 DEF OFolded, If1
  <2>7. mem'[<<"O", i>>] = Folded(t, k)
    <3>1. op.ok /\ \A q \in Operands(op) : mem[q] = Needed(op, q)
      BY <1>0, <1>1, EndOperands
    <3>2. PICK r : r = <<"O", i>> /\ r \in Region /\ mem' = Put(mem, r, Folded(t, k))
      BY <1>0, <1>1, <1>2, <1>6, <2>1, <3>1, TargetIs DEF TcEnds
    <3> QED
      BY <3>2, PutAt
  <2>8. OTagged(i)'
    <3>1. IsBlock(t, k, OFolded(i)') /\ mem'[<<"O", i>>] \in {Folded(t, k), Rescaled(t, k)}
      BY <2>5, <2>6, <2>7
    <3> QED
      BY <3>1 DEF OTagged, IsBlock
  <2>9. OFolded(1 - i)' = OFolded(1 - i)
    <3>1. PICK j \in {0, 1} : j = 1 - i /\ j # i
      OBVIOUS
    <3>2. OFolded(j)' = OFolded(j)
      BY <1>5, <1>6, <3>1
    <3> QED
      BY <3>1, <3>2
  <2>10. OFolded(i) + 1 = b
    BY <2>5
  <2>11. FoldsBlock(i, t, k)
    BY <2>5, <2>6, <2>9, <2>10 DEF FoldsBlock
  <2> QED
    BY <2>8, <2>11
<1>7. CASE op.kind = "QK"
  BY <1>5, <1>7
<1>8. CASE op.kind = "PV"
  <2>1. PICK i \in {0, 1} : i = op.st
    BY <1>3
  <2>2. OTagged(i)' /\ \E t, k : FoldsBlock(i, t, k)
    BY <1>6, <1>8, <2>1
  <2>3. PICK j \in {0, 1} : j # i /\ (i = 0 => j = 1) /\ (i = 1 => j = 0)
    BY <2>1
  <2>4. OTagged(j)'
    BY <1>5, <2>1, <2>3
  <2>5. OTagged(0)' /\ OTagged(1)'
    BY <2>1, <2>2, <2>3, <2>4
  <2> QED
    BY <2>2, <2>5
<1> QED
  BY <1>3, <1>7, <1>8

-----------------------------------------------------------------------------
(* What is stored. *)

\* The result of a tile and stage goes out, all of its blocks folded, and for the first time.
Stores(t, i) ==
    /\ t \in Tile /\ i \in {0, 1} /\ FoldedBlocks(<<t, i>>) = Blocks[t] /\ out[<<t, i>>] = <<>>
    /\ \E r : out' = [out EXCEPT ![<<t, i>>] = Append(@, r)]

LEMMA TakenAll == ASSUME NEW t, NEW i, TakenOf(t, i) PROVE FoldedBlocks(<<t, i>>) = Blocks[t]
  BY DEF TakenOf, FoldedBlocks

LEMMA NotStored ==
    ASSUME CInv, NEW i \in {0, 1}, NEW t, t \in Tile, ~(t <= Stored(i)) PROVE out[<<t, i>>] = <<>>
<1>1. OutHolds(i)
  BY DEF CInv, Contents, StageHolds
<1> QED
  BY <1>1 DEF OutHolds

LEMMA EpilogueStores ==
    ASSUME CInv, Epilogue PROVE UNCHANGED out \/ \E t : \E i \in {0, 1} : Stores(t, i)
<1>0. HandInv /\ EpType /\ EpHere /\ Tallies
  BY HandPlaces, TalliesAre DEF CInv, FlightInv, HandInv, OperandInv, Types, EpHere, Places, EpPlace
<1>1. CASE EpiStore
  BY <1>1 DEF EpiStore
<1>2. CASE EpiFree
  <2>1. ~CorrStoresO
    BY <1>0, EpilogueStep DEF EpStep
  <2>2. PICK t, i : /\ t = ep.t /\ i = ep.st /\ t \in Int /\ i \in {0, 1} /\ ep.at = "free"
                    /\ EpFreed(i) = t - 1 /\ EpRead(i) = t
    BY <1>0, <1>2, EpFreeGo
  <2>4. t <= OWritten(i) /\ OWritten(i) \in Int
    BY <1>0, <2>1, <2>2, TallyBoth DEF Tally
  <2>3. t \in Tile
    <3>1. 1 <= t
      <4>1. Done("epi_empty", i) = EpFreed(i)
        BY <1>0, <2>1, <2>2, FlowsAre DEF Flows
      <4>2. <<"epi_empty", i>> \in Barrier
        BY <2>2, NamesAre, StageIs
      <4>3. Done("epi_empty", i) \in Nat
        BY <1>0, <4>2, BarNumbers DEF EpHere, Done
      <4> QED
        BY <2>2, <4>1, <4>3
    <3>2. CoWhere
      BY CoAtNow DEF CInv, CoAt
    <3>3. PICK c : c = co.t /\ c \in Int /\ c <= Tiles + 1 /\ Tiles \in Int /\ (co.at # "end" => c <= Tiles)
      BY <3>2 DEF CoWhere
    <3>4. t <= Tiles
      <4>1. CASE CoEnding /\ i < co.st
        BY <2>2, <2>4, <3>3, <4>1 DEF OWritten, If1, CoEnding
      <4>2. CASE ~(CoEnding /\ i < co.st)
        BY <2>2, <2>4, <3>3, <4>2 DEF OWritten, If1
      <4> QED
        BY <4>1, <4>2
    <3> QED
      BY <2>2, <3>1, <3>2, <3>4 DEF CoWhere
  <2>5. TakenOf(t, i)
    <3>1. CoWhere
      BY CoAtNow DEF CInv, CoAt
    <3>2. PICK c, s : c = co.t /\ s = co.st /\ c \in Int /\ s \in Int /\ i \in Int
      BY <2>2, <3>1 DEF CoWhere
    <3>3. CASE CoEnding /\ i < co.st
      BY <2>2, <2>4, <3>2, <3>3 DEF OWritten, If1, TakenOf, CoEnding
    <3>4. CASE ~(CoEnding /\ i < co.st)
      BY <2>2, <2>4, <3>2, <3>4 DEF OWritten, If1, TakenOf
    <3> QED
      BY <3>3, <3>4
  <2>6. ~(t <= Stored(i))
    BY <2>1, <2>2 DEF Stored
  <2>7. out' = [out EXCEPT ![<<t, i>>] = Append(@, mem[<<"sO", i>>])]
    BY <1>2, <2>2 DEF EpiFree
  <2>8. Stores(t, i)
    BY <2>2, <2>3, <2>5, <2>6, <2>7, TakenAll, NotStored DEF Stores
  <2> QED
    BY <2>2, <2>8
<1> QED
  BY <1>1, <1>2 DEF Epilogue

LEMMA CorrectionStores ==
    ASSUME FoldInv, Correction PROVE UNCHANGED out \/ \E t : \E i \in {0, 1} : Stores(t, i)
<1>0. CInv /\ CoType /\ CoAt /\ CoFree
  BY CoAtNow, CoFreeNow DEF FoldInv, CInv, FlightInv, HandInv, OperandInv, Types
<1>1. CASE ~CorrWriteO
  BY <1>1 DEF Correction, CorrStart, CorrFirst, CorrToRescale, CorrRescaled, CorrSum, CorrWaitLastO, CorrWaitBuffer
<1>2. CASE CorrWriteO /\ ~CorrStoresO
  BY <1>2 DEF CorrWriteO
<1>3. CASE CorrWriteO /\ CorrStoresO
  <2>1. PICK t, i : t = co.t /\ i = co.st
    OBVIOUS
  <2>2. i \in {0, 1} /\ co.at = "write" /\ co.t \in Int
    BY <1>0, <1>3, <2>1 DEF CoAt, CoWhere, CorrWriteO
  <2>3. PICK r : out' = [out EXCEPT ![<<t, i>>] = Append(@, r)]
    <3>1. PICK r : r = mem'[<<"sO", i>>]
      OBVIOUS
    <3>2. out' = [out EXCEPT ![<<t, i>>] = Append(@, r)]
      BY <1>0, <1>3, <2>1, <3>1, CoWriteGo
    <3> QED
      BY <3>2
  <2>4. t \in Tile /\ OWritten(i) = t - 1 /\ t \in Int
    BY <1>0, <2>1, <2>2 DEF CoAt, CoEnding
  <2>5. out[<<t, i>>] = <<>>
    <3>1. ~(t <= Stored(i))
      BY <1>3, <2>4 DEF Stored
    <3> QED
      BY <1>0, <2>2, <2>4, <3>1, NotStored
  <2>6. FoldedBlocks(<<t, i>>) = Blocks[t]
    <3>1. IsBlock(t, Blocks[t], ORescaled(i)) /\ ORescaled(i) = PvBegun(i) /\ ~PvIn(i)
      BY <1>0, <2>1, <2>2 DEF CoAt, CoFree
    <3>2. FoldedAt(i)
      BY <1>0, <2>2, FoldedAtIs
    <3>3. PICK n : n = OFolded(i) /\ IsBlock(t, Blocks[t], n)
      BY <3>1, <3>2 DEF FoldedAt
    <3>4. n = Start[t] + Blocks[t] /\ n \in Int /\ Start[t] \in Int /\ Blocks[t] \in Int /\ 1 <= Blocks[t]
      BY <3>3, BlockIs
    <3>5. BlocksOf(t, n, FoldedBlocks(<<t, i>>))
      BY <2>2, <2>4, <3>3, FoldsAre
    <3> QED
      BY <3>4, <3>5 DEF BlocksOf
  <2>7. Stores(t, i)
    BY <2>2, <2>3, <2>4, <2>5, <2>6 DEF Stores
  <2> QED
    BY <2>2, <2>7
<1> QED
  BY <1>1, <1>2, <1>3

-----------------------------------------------------------------------------
(* All steps. *)

Counts == \A i \in {0, 1} : OFolded(i)' = OFolded(i)
StepSays ==
    /\ OTagged(0)' /\ OTagged(1)'
    /\ \/ Counts /\ (UNCHANGED out \/ \E t : \E i \in {0, 1} : Stores(t, i))
       \/ UNCHANGED out /\ \E i \in {0, 1} : \E t, k : FoldsBlock(i, t, k)

LEMMA QuietSays ==
    ASSUME FoldInv, Quiet, UNCHANGED out \/ \E t : \E i \in {0, 1} : Stores(t, i) PROVE StepSays
<1>1. ASSUME NEW i \in {0, 1} PROVE OTagged(i)' /\ OFolded(i)' = OFolded(i)
  <2>1. TagKept(i) /\ OTagged(i)
    BY QuietKeeps DEF FoldInv
  <2> QED
    BY <2>1, TagStays DEF TagKept
<1> QED
  BY <1>1 DEF StepSays, Counts

LEMMA StepsSay == ASSUME FoldInv, CInv', Decoupled => PvBeforeNextP, [Next]_vars PROVE StepSays
<1>0. CInv
  BY DEF FoldInv
<1>1. CASE Load \/ TmaLand
  <2>1. UNCHANGED out
    BY <1>1 DEF Load, LoadQ, LoadKV, TmaLand
  <2> QED
    BY <1>0, <1>1, <2>1, LoadQuiet, QuietSays
<1>2. CASE Mma
  <2>1. UNCHANGED out
    BY <1>2 DEF Mma, MmaWaitQ, MmaWaitK, MmaIssueQK, MmaWaitV, MmaIssuePV, MmaIssuePV2, MmaDealloc
  <2> QED
    BY <1>2, <2>1, MmaTags DEF StepSays, Counts
<1>3. CASE TcStart
  <2>1. UNCHANGED out
    BY <1>3 DEF TcStart
  <2> QED
    BY <1>3, <2>1, TcStartTags DEF StepSays, Counts
<1>4. CASE TcFinish
  <2>1. UNCHANGED out
    BY <1>4 DEF TcFinish
  <2> QED
    BY <1>4, <2>1, TcFinishTags DEF StepSays, Counts
<1>5. CASE \E i \in Stage : Softmax(i)
  <2>1. PICK i \in {0, 1} : Softmax(i)
    BY <1>5, StageIs
  <2>2. UNCHANGED out
    BY <2>1 DEF Softmax, SoftmaxStart, SoftmaxTile, SoftmaxLoadS, SoftmaxScale, SoftmaxStoreP, SoftmaxStoreP2,
           SoftmaxWaitCorr, SoftmaxSum
  <2> QED
    BY <1>0, <2>1, <2>2, SoftmaxQuiet, QuietSays
<1>6. CASE Correction
  <2>1. UNCHANGED out \/ \E t : \E i \in {0, 1} : Stores(t, i)
    BY <1>6, CorrectionStores
  <2> QED
    BY <1>6, <2>1, CorrectionTags DEF StepSays, Counts
<1>7. CASE Epilogue
  <2>1. UNCHANGED out \/ \E t : \E i \in {0, 1} : Stores(t, i)
    BY <1>0, <1>7, EpilogueStores
  <2> QED
    BY <1>7, <2>1, RestQuiet, QuietSays
<1>8. CASE Halt \/ UNCHANGED vars
  <2>1. UNCHANGED out
    BY <1>8 DEF Halt, vars
  <2> QED
    BY <1>8, <2>1, RestQuiet, QuietSays
<1> QED
  BY <1>1, <1>2, <1>3, <1>4, <1>5, <1>6, <1>7, <1>8 DEF Next, TensorCore

LEMMA NextFold == ASSUME FoldInv, Decoupled => PvBeforeNextP, [Next]_vars PROVE FoldInv' /\ StepSays
<1>1. CInv'
  BY NextContents DEF FoldInv
<1> QED
  BY <1>1, StepsSay DEF StepSays, FoldInv

LEMMA InitCount == ASSUME Init, NEW i \in {0, 1} PROVE CInv /\ OFolded(i) = 0
<1>1. CInv
  <2>1. InFlight
    BY DEF Init, InFlight
  <2>2. FlightInv
    BY <2>1, InitHand DEF FlightInv
  <2> QED
    BY <2>2, InitContents DEF CInv
<1>2. ~PvIn(i) /\ mm.at = "q" /\ mm.t = 1 /\ mm.k = 0 /\ mm.st = 0
  BY DEF Init, PvIn
<1>3. FoldedAt(i)
  BY <1>1, FoldedAtIs
<1>4. PvDone(i) = 0
  BY <1>2, StartIs DEF PvDone, MmBlocks, If1, Last
<1>5. PvBegun(i) = 0
  BY <1>2, <1>4 DEF PvBegun, If1
<1> QED
  BY <1>1, <1>2, <1>3, <1>5 DEF FoldedAt

LEMMA InitFold == ASSUME Init PROVE FoldInv
<1>1. ASSUME NEW i \in {0, 1} PROVE OTagged(i)
  <2>1. mem[<<"O", i>>] = Garbage
    <3>1. <<"O", i>> \in Region
      BY NamesIn
    <3> QED
      BY <3>1 DEF Init
  <2> QED
    BY <2>1, InitCount DEF OTagged
<1> QED
  BY <1>1, InitCount DEF FoldInv

-----------------------------------------------------------------------------
(* The promise of AttentionTiles. *)

TileFolds  == [x \in Tile \X Stage |-> FoldedBlocks(x)]
TileStores == [x \in Tile \X Stage |-> Len(out[x])]

LEMMA SameBlocks ==
    ASSUME NEW t, t \in Tile, NEW n, n \in Int, NEW f, NEW g, BlocksOf(t, n, f), BlocksOf(t, n, g) PROVE f = g
<1>1. Start[t] \in Int /\ Blocks[t] \in Int
  BY TileIs, StartIs
<1> QED
  BY <1>1 DEF BlocksOf

\* The folded blocks of every tile and stage are those the positions say.
FoldsKept == \A i \in {0, 1} : \A t \in Tile : BlocksOf(t, OFolded(i), FoldedBlocks(<<t, i>>))

LEMMA FoldsKeep == FoldInv' => FoldsKept'
<1>1. FoldInv => FoldsKept
  BY FoldsAre DEF FoldsKept
<1> QED
  BY <1>1, PTL

LEMMA FoldsThen ==
    ASSUME FoldInv', NEW i \in {0, 1}, NEW t, t \in Tile PROVE BlocksOf(t, OFolded(i)', FoldedBlocks(<<t, i>>)')
<1>1. FoldsKept'
  BY FoldsKeep
<1> QED
  BY <1>1 DEF FoldsKept, BlocksOf

LEMMA CountedOnce ==
    ASSUME FoldInv, FoldInv', NEW i \in {0, 1}, OFolded(i)' = OFolded(i), NEW t, t \in Tile
    PROVE  FoldedBlocks(<<t, i>>)' = FoldedBlocks(<<t, i>>)
<1>1. PICK n : n = OFolded(i) /\ n \in Int
  BY FoldedAtIs DEF FoldInv, FoldedAt
<1>2. BlocksOf(t, n, FoldedBlocks(<<t, i>>)) /\ BlocksOf(t, n, FoldedBlocks(<<t, i>>)')
  BY <1>1, FoldsAre, FoldsThen
<1> QED
  BY <1>1, <1>2, SameBlocks

\* A stored result is stored once, of all blocks of its tile.
LEMMA StoreKeepsPromise ==
    ASSUME FoldInv, FoldInv', Counts, NEW t, NEW i \in {0, 1}, Stores(t, i) PROVE Promise!Store(<<t, i>>)
<1>1. TileFolds' = TileFolds
  <2>1. ASSUME NEW x \in Tile \X Stage PROVE FoldedBlocks(x)' = FoldedBlocks(x)
    <3>1. PICK u \in Tile, j \in {0, 1} : x = <<u, j>>
      BY StageIs
    <3>2. FoldedBlocks(<<u, j>>)' = FoldedBlocks(<<u, j>>)
      BY CountedOnce DEF Counts
    <3> QED
      BY <3>1, <3>2 DEF FoldedBlocks
  <2> QED
    BY <2>1 DEF TileFolds
<1>2. PICK y, r : /\ y = <<t, i>> /\ y \in Tile \X Stage /\ FoldedBlocks(y) = Blocks[y[1]] /\ out[y] = <<>>
                  /\ out' = [out EXCEPT ![y] = Append(out[y], r)]
  BY StageIs DEF Stores
<1>3. DOMAIN out = Tile \X Stage
  BY DEF FoldInv, CInv, Contents, OksHold
<1>4. TileFolds[y] = Blocks[y[1]] /\ TileStores[y] = 0
  BY <1>2 DEF TileFolds, TileStores
<1>5. TileStores' = [TileStores EXCEPT ![y] = 1]
  <2>1. out'[y] = <<r>> /\ \A x \in Tile \X Stage : x # y => out'[x] = out[x]
    BY <1>2, <1>3
  <2>2. Len(out'[y]) = 1 /\ \A x \in Tile \X Stage : x # y => Len(out'[x]) = Len(out[x])
    BY <2>1
  <2> QED
    BY <1>2, <2>2 DEF TileStores
<1> QED
  BY <1>1, <1>2, <1>4, <1>5 DEF Promise!Store, TileFolds, TileStores

\* A PV that is over folds the next block of its tile, or the first of the next tile.
LEMMA FoldKeepsPromise ==
    ASSUME FoldInv, FoldInv', UNCHANGED out, NEW i \in {0, 1}, NEW t, NEW k, FoldsBlock(i, t, k)
    PROVE  Promise!Fold(<<t, i>>)
<1>1. PICK n : n = OFolded(i) /\ n \in Int /\ IsBlock(t, k, n + 1) /\ OFolded(i)' = n + 1
  BY FoldedAtIs DEF FoldInv, FoldedAt, FoldsBlock
<1>2. /\ t \in Int /\ 1 <= t /\ t <= Tiles /\ k \in Int /\ 1 <= k /\ k <= Blocks[t] /\ n + 1 = Start[t] + k
      /\ Start[t] \in Int /\ Blocks[t] \in Int /\ t \in Tile /\ Tiles \in Int /\ t \in 1..(Tiles + 1)
  BY <1>1, BlockIs
<1>3. ASSUME NEW u, u \in Tile
      PROVE  /\ u # t => FoldedBlocks(<<u, i>>)' = FoldedBlocks(<<u, i>>)
             /\ u = t => FoldedBlocks(<<u, i>>) = k - 1 /\ FoldedBlocks(<<u, i>>)' = k
             /\ u < t => FoldedBlocks(<<u, i>>) = Blocks[u]
  <2>1. PICK f, g : f = FoldedBlocks(<<u, i>>) /\ g = FoldedBlocks(<<u, i>>)'
    OBVIOUS
  <2>2. BlocksOf(u, n, f) /\ BlocksOf(u, n + 1, g)
    BY <1>1, <1>3, <2>1, FoldsAre, FoldsThen
  <2>3. u \in Int /\ u \in 1..(Tiles + 1) /\ Start[u] \in Int /\ Blocks[u] \in Int /\ 1 <= Blocks[u]
    BY <1>2, <1>3, TileIs, StartIs
  <2>4. CASE u = t
    <3>1. BlocksOf(t, n, f) /\ BlocksOf(t, n + 1, g) /\ ~(u < t)
      BY <1>2, <2>2, <2>4
    <3>2. f = k - 1 /\ g = k
      BY <1>1, <1>2, <3>1 DEF BlocksOf
    <3> QED
      BY <2>1, <2>4, <3>1, <3>2
  <2>5. CASE u < t
    <3>1. Start[u] + Blocks[u] <= Start[t]
      BY <1>2, <2>3, <2>5, StartGrows
    <3>2. f = Blocks[u] /\ g = Blocks[u]
      BY <1>1, <1>2, <2>2, <2>3, <3>1 DEF BlocksOf
    <3> QED
      BY <2>1, <2>5, <3>2, <1>2, <2>3
  <2>6. CASE t < u
    <3>1. Start[t] + Blocks[t] <= Start[u]
      BY <1>2, <2>3, <2>6, StartGrows
    <3>2. f = 0 /\ g = 0
      BY <1>1, <1>2, <2>2, <2>3, <3>1 DEF BlocksOf
    <3> QED
      BY <2>1, <2>6, <3>2, <1>2, <2>3
  <2> QED
    BY <1>2, <2>3, <2>4, <2>5, <2>6
<1>4. ASSUME NEW u, u \in Tile, NEW j \in {0, 1}, j # i PROVE FoldedBlocks(<<u, j>>)' = FoldedBlocks(<<u, j>>)
  <2>1. OFolded(j)' = OFolded(j)
    <3>1. OFolded(1 - i)' = OFolded(1 - i)
      BY DEF FoldsBlock
    <3>2. j = 1 - i
      BY <1>4
    <3> QED
      BY <3>1, <3>2
  <2> QED
    BY <1>4, <2>1, CountedOnce
<1>5. PICK y : y = <<t, i>> /\ y \in Tile \X Stage /\ y[1] = t /\ y[2] = i
  <2>1. <<t, i>> \in Tile \X Stage
    BY <1>2, StageIs
  <2>2. PICK y : y = <<t, i>>
    OBVIOUS
  <2>3. y[1] = t /\ y[2] = i
    BY <2>2
  <2> QED
    BY <2>1, <2>2, <2>3
<1>6. TileFolds[y] = k - 1 /\ TileFolds[y] < Blocks[y[1]]
  <2>1. TileFolds[y] = FoldedBlocks(<<t, i>>)
    BY <1>5 DEF TileFolds
  <2> QED
    BY <1>2, <1>3, <1>5, <2>1
<1>7. y[1] > 1 => TileFolds[<<y[1] - 1, y[2]>>] = Blocks[y[1] - 1]
  <2> SUFFICES ASSUME t > 1 PROVE TileFolds[<<t - 1, i>>] = Blocks[t - 1]
    BY <1>5
  <2>1. PICK u : u = t - 1 /\ u \in Int /\ 1 <= u /\ u <= Tiles /\ u < t
    BY <1>2
  <2>2. u \in Tile
    BY <1>2, <2>1, TileIs
  <2>3. <<u, i>> \in Tile \X Stage
    BY <2>2, StageIs
  <2>4. FoldedBlocks(<<u, i>>) = Blocks[u]
    BY <1>3, <2>1, <2>2
  <2> QED
    BY <2>1, <2>3, <2>4 DEF TileFolds
<1>8. TileFolds' = [TileFolds EXCEPT ![y] = TileFolds[y] + 1]
  <2>1. ASSUME NEW x \in Tile \X Stage
        PROVE  TileFolds'[x] = [TileFolds EXCEPT ![y] = TileFolds[y] + 1][x]
    <3>1. PICK u \in Tile, j \in {0, 1} : x = <<u, j>>
      BY StageIs
    <3>2. TileFolds'[x] = FoldedBlocks(<<u, j>>)' /\ TileFolds[x] = FoldedBlocks(<<u, j>>)
      BY <3>1 DEF TileFolds, FoldedBlocks
    <3>3. CASE j # i
      BY <1>4, <1>5, <3>1, <3>2, <3>3 DEF TileFolds
    <3>4. CASE j = i /\ u # t
      BY <1>3, <1>5, <3>1, <3>2, <3>4 DEF TileFolds
    <3>5. CASE j = i /\ u = t
      <4>1. x = y /\ TileFolds'[x] = k /\ TileFolds[y] + 1 = k
        BY <1>2, <1>3, <1>5, <1>6, <3>1, <3>2, <3>5
      <4> QED
        BY <1>5, <4>1 DEF TileFolds
    <3> QED
      BY <3>3, <3>4, <3>5
  <2>2. DOMAIN TileFolds' = Tile \X Stage /\ DOMAIN TileFolds = Tile \X Stage
    BY DEF TileFolds
  <2>3. TileFolds' = [x \in Tile \X Stage |-> TileFolds'[x]]
    BY DEF TileFolds
  <2> QED
    BY <2>1, <2>2, <2>3
<1>9. TileStores' = TileStores
  BY DEF TileStores
<1> QED
  BY <1>5, <1>6, <1>7, <1>8, <1>9 DEF Promise!Fold, TileFolds, TileStores

\* The safety half of ImplementsAttention: on the baseline, and on the decoupled layout where
\* softmax does not begin a P before the PV of the last one is over, each O takes up the
\* blocks of a tile one after the other and tile after tile, and the result of a tile is
\* stored once, when all its blocks are in it (AttentionTiles).
THEOREM TilesAreComputed ==
    (Decoupled => PvBeforeNextP) => (Spec => Promise!Init /\ [][Promise!Next]_<<TileFolds, TileStores>>)
<1> SUFFICES ASSUME Decoupled => PvBeforeNextP
             PROVE  Spec => Promise!Init /\ [][Promise!Next]_<<TileFolds, TileStores>>
  OBVIOUS
<1>1. Init => FoldInv /\ Promise!Init
  <2> SUFFICES ASSUME Init PROVE FoldInv /\ Promise!Init
    OBVIOUS
  <2>1. FoldInv
    BY InitFold
  <2>2. \A i \in {0, 1} : OFolded(i) = 0
    BY InitCount
  <2>3. ASSUME NEW x \in Tile \X Stage PROVE FoldedBlocks(x) = 0 /\ Len(out[x]) = 0
    <3>1. PICK t \in Tile, i \in {0, 1} : x = <<t, i>>
      BY StageIs
    <3>2. BlocksOf(t, 0, FoldedBlocks(<<t, i>>)) /\ 0 <= Start[t] /\ Start[t] \in Int
      BY <2>1, <2>2, FoldsAre, TileIs, StartIs
    <3>3. FoldedBlocks(x) = 0
      BY <3>1, <3>2 DEF BlocksOf
    <3>4. out[x] = <<>>
      BY DEF Init
    <3> QED
      BY <3>3, <3>4
  <2> QED
    BY <2>1, <2>3 DEF Promise!Init, Promise!Query, Tile, Stage
<1>2. FoldInv /\ [Next]_vars => FoldInv' /\ [Promise!Next]_<<TileFolds, TileStores>>
  <2> SUFFICES ASSUME FoldInv, [Next]_vars PROVE FoldInv' /\ [Promise!Next]_<<TileFolds, TileStores>>
    OBVIOUS
  <2>1. FoldInv' /\ StepSays
    BY NextFold
  <2>2. ASSUME Counts, UNCHANGED out PROVE UNCHANGED <<TileFolds, TileStores>>
    <3>1. ASSUME NEW x \in Tile \X Stage PROVE FoldedBlocks(x)' = FoldedBlocks(x)
      <4>1. PICK u \in Tile, j \in {0, 1} : x = <<u, j>>
        BY StageIs
      <4>2. FoldedBlocks(<<u, j>>)' = FoldedBlocks(<<u, j>>)
        BY <2>1, <2>2, CountedOnce DEF Counts
      <4> QED
        BY <4>1, <4>2 DEF FoldedBlocks
    <3> QED
      BY <2>2, <3>1 DEF TileFolds, TileStores
  <2>3. ASSUME Counts, NEW t, NEW i \in {0, 1}, Stores(t, i) PROVE Promise!Next
    <3>1. Promise!Store(<<t, i>>) /\ <<t, i>> \in Tile \X Stage
      BY <2>1, <2>3, StoreKeepsPromise, StageIs DEF Stores
    <3> QED
      BY <3>1 DEF Promise!Next, Promise!Query, Tile, Stage
  <2>4. ASSUME UNCHANGED out, NEW i \in {0, 1}, NEW t, NEW k, FoldsBlock(i, t, k) PROVE Promise!Next
    <3>1. Promise!Fold(<<t, i>>)
      BY <2>1, <2>4, FoldKeepsPromise
    <3>2. <<t, i>> \in Tile \X Stage
      BY <2>4, BlockIs, StageIs DEF FoldsBlock
    <3> QED
      BY <3>1, <3>2 DEF Promise!Next, Promise!Query, Tile, Stage
  <2> QED
    BY <2>1, <2>2, <2>3, <2>4 DEF StepSays
<1> QED
  BY <1>1, <1>2, PTL DEF Spec
=============================================================================
