---------------------------- MODULE HandOverProofs ----------------------------
(***************************************************************************)
(* What the roles of Fp4Forward hand each other, for any tiles, ring slots *)
(* and build: S, P and O between the MMA warp, softmax and correction, the *)
(* scales between softmax and correction, the output buffers between       *)
(* correction and the epilogue.  The accounts of PhaseProofs bound how far *)
(* one role is ahead of another, what the tensor core has in flight, and   *)
(* who may touch what; last comes what every buffer holds, which the steps *)
(* of softmax, correction and the epilogue keep.                           *)
(***************************************************************************)
EXTENDS PhaseProofs

-----------------------------------------------------------------------------
(* What a step does to the operations in flight.                           *)

Same(x, y) == /\ x.kind = y.kind /\ x.st = y.st /\ x.t = y.t /\ x.k = y.k /\ x.slot = y.slot
              /\ x.copies = y.copies

\* op is issued behind the others.
TcGrown(n, op) ==
    /\ n \in Nat /\ n = Len(tc) /\ DOMAIN tc = 1..n /\ Len(tc') = n + 1 /\ DOMAIN tc' = 1..(n + 1)
    /\ tc'[n + 1] = op /\ \A j \in 1..n : tc'[j] = tc[j]
\* The last one gets its second half and its commits.
TcClosed(n, sig) ==
    /\ n \in Nat /\ n = Len(tc) /\ 1 <= n /\ DOMAIN tc = 1..n /\ Len(tc') = n /\ DOMAIN tc' = 1..n
    /\ \A j \in 1..n : j # n => tc'[j] = tc[j]
    /\ tc[n].signals = {} /\ tc'[n].signals = sig /\ ~tc'[n].open /\ Same(tc'[n], tc[n])
\* The first one begins.
TcBegan(n) ==
    /\ n \in Nat /\ n = Len(tc) /\ DOMAIN tc = 1..n /\ Len(tc') = n /\ DOMAIN tc' = 1..n
    /\ \A j \in 1..n : /\ Same(tc'[j], tc[j]) /\ tc'[j].signals = tc[j].signals /\ tc'[j].open = tc[j].open
\* The first one is over.
TcShrunk(n) ==
    /\ n \in Nat /\ n = Len(tc) /\ 1 <= n /\ DOMAIN tc = 1..n /\ Len(tc') = n - 1 /\ DOMAIN tc' = 1..(n - 1)
    /\ \A j \in 1..(n - 1) : tc'[j] = tc[j + 1] /\ j + 1 \in 1..n /\ j \in Int
    /\ ~tc[1].open

LEMMA IssueGrows ==
    ASSUME TcType, NEW kind, NEW k, NEW slot, NEW copies, NEW open, NEW sig,
           Issue(kind, k, slot, copies, open, sig)
    PROVE  \E n, op : /\ TcGrown(n, op) /\ op.kind = kind /\ op.st = mm.st /\ op.t = mm.t /\ op.k = k
                      /\ op.slot = slot /\ op.copies = copies /\ op.open = open /\ op.signals = sig
<1> DEFINE op == [kind |-> kind, st |-> mm.st, t |-> mm.t, k |-> k, slot |-> slot,
                  copies |-> copies, open |-> open, signals |-> sig,
                  begun |-> FALSE, ok |-> TRUE]
           n == Len(tc)
<1>1. tc \in Seq(Op) /\ tc' = Append(tc, op)
  BY DEF Issue, TcType
<1>2. /\ op.kind = kind /\ op.st = mm.st /\ op.t = mm.t /\ op.k = k
      /\ op.slot = slot /\ op.copies = copies /\ op.open = open /\ op.signals = sig
  OBVIOUS
<1> HIDE DEF op
<1>3. TcGrown(n, op)
  BY <1>1 DEF TcGrown
<1> QED
  BY <1>2, <1>3

LEMMA GrownCommits ==
    ASSUME NEW n, NEW op, TcGrown(n, op)
    PROVE  /\ \A b : Committed(b)' <=> Committed(b) \/ b \in op.signals
           /\ CommitsOnce /\ (\A b \in op.signals : ~Committed(b)) => CommitsOnce'
<1>1. \A b : Committed(b)' <=> \E j \in 1..(n + 1) : b \in tc'[j].signals
  BY DEF Committed, TcGrown
<1>2. \A b : Committed(b) <=> \E j \in 1..n : b \in tc[j].signals
  BY DEF Committed, TcGrown
<1>3. ASSUME CommitsOnce, \A b \in op.signals : ~Committed(b) PROVE CommitsOnce'
  <2> SUFFICES ASSUME NEW i \in 1..(n + 1), NEW j \in 1..(n + 1), i # j
               PROVE  tc'[i].signals \cap tc'[j].signals = {}
    BY DEF CommitsOnce, TcGrown
  <2>1. CASE i \in 1..n /\ j \in 1..n
    BY <1>3, <2>1 DEF CommitsOnce, TcGrown
  <2>2. CASE i \notin 1..n
    <3>1. i = n + 1 /\ j \in 1..n
      BY <2>2 DEF TcGrown
    <3> QED
      BY <1>2, <1>3, <3>1 DEF TcGrown
  <2>3. CASE j \notin 1..n
    <3>1. j = n + 1 /\ i \in 1..n
      BY <2>3 DEF TcGrown
    <3> QED
      BY <1>2, <1>3, <3>1 DEF TcGrown
  <2> QED
    BY <2>1, <2>2, <2>3
<1> QED
  BY <1>1, <1>2, <1>3 DEF TcGrown

LEMMA PV2Closes ==
    ASSUME TcType, TcType', TcApart, MmaIssuePV2 PROVE \E n : TcClosed(n, PVSignals) /\ tc[n].open
<1> DEFINE n == Len(tc)
           sig == PVSignals
<1>1. tc \in Seq(Op) /\ tc # <<>> /\ tc[n].open /\ tc[n].signals = {}
      /\ tc' = [tc EXCEPT ![n].open = FALSE, ![n].signals = sig]
  BY DEF MmaIssuePV2, TcApart, TcType, PVSignals, PVEnds
<1> HIDE DEF sig
<1>2. n \in Nat /\ 1 <= n /\ DOMAIN tc = 1..n
  BY <1>1
<1>3. DOMAIN tc' = 1..n /\ Len(tc') = n
  <2>1. tc' \in Seq(Op)
    BY DEF TcType
  <2>2. DOMAIN tc' = 1..n
    BY <1>1, <1>2
  <2> QED
    BY <1>2, <2>1, <2>2
<1> HIDE DEF n
<1>4. PICK m \in 1..n : m = n
  BY <1>2
<1>5. tc[m] \in Op /\ tc'[m] = [tc[m] EXCEPT !.open = FALSE, !.signals = sig]
  BY <1>1, <1>2, <1>4
<1>6. tc'[n].signals = sig /\ ~tc'[n].open /\ Same(tc'[n], tc[n])
  <2>1. tc'[m].signals = sig /\ ~tc'[m].open /\ Same(tc'[m], tc[m])
    BY <1>5 DEF Op, Same
  <2> QED
    BY <1>4, <2>1
<1>7. \A j \in 1..n : j # n => tc'[j] = tc[j]
  BY <1>1, <1>2
<1>8. n = Len(tc)
  BY DEF n
<1> QED
  BY <1>1, <1>2, <1>3, <1>6, <1>7, <1>8 DEF TcClosed, sig

LEMMA ClosedCommits ==
    ASSUME NEW n, NEW sig, TcClosed(n, sig)
    PROVE  /\ \A b : Committed(b)' <=> Committed(b) \/ b \in sig
           /\ CommitsOnce /\ (\A b \in sig : ~Committed(b)) => CommitsOnce'
<1>1. \A b : Committed(b)' <=> \E j \in 1..n : b \in tc'[j].signals
  BY DEF Committed, TcClosed
<1>2. \A b : Committed(b) <=> \E j \in 1..n : b \in tc[j].signals
  BY DEF Committed, TcClosed
<1>3. \A j \in 1..n : tc'[j].signals = IF j = n THEN sig ELSE tc[j].signals
  BY DEF TcClosed
<1>4. n \in 1..n /\ tc[n].signals = {}
  BY DEF TcClosed
<1>5. ASSUME CommitsOnce, \A b \in sig : ~Committed(b) PROVE CommitsOnce'
  <2> SUFFICES ASSUME NEW i \in 1..n, NEW j \in 1..n, i # j
               PROVE  tc'[i].signals \cap tc'[j].signals = {}
    BY DEF CommitsOnce, TcClosed
  <2>1. CASE i # n /\ j # n
    BY <1>3, <1>5, <2>1 DEF CommitsOnce, TcClosed
  <2>2. CASE i = n
    BY <1>2, <1>3, <1>5, <2>2
  <2>3. CASE j = n
    BY <1>2, <1>3, <1>5, <2>3
  <2> QED
    BY <2>1, <2>2, <2>3
<1> QED
  BY <1>1, <1>2, <1>3, <1>4, <1>5

LEMMA StartBegins == ASSUME TcType, TcType', TcStart PROVE \E n : TcBegan(n)
<1> DEFINE n == Len(tc)
<1>1. tc # <<>> /\ \E v : tc' = [tc EXCEPT ![1].begun = TRUE, ![1].ok = v]
  BY DEF TcStart
<1>2. PICK v : tc' = [tc EXCEPT ![1].begun = TRUE, ![1].ok = v]
  BY <1>1
<1>3. tc \in Seq(Op) /\ n \in Nat /\ DOMAIN tc = 1..n
  BY <1>1 DEF TcType
<1>4. DOMAIN tc' = 1..n /\ Len(tc') = n
  <2>1. tc' \in Seq(Op)
    BY DEF TcType
  <2>2. DOMAIN tc' = 1..n
    BY <1>2, <1>3
  <2> QED
    BY <1>3, <2>1, <2>2
<1>5. n = Len(tc)
  OBVIOUS
<1> HIDE DEF n
<1>6. ASSUME NEW j \in 1..n
      PROVE  Same(tc'[j], tc[j]) /\ tc'[j].signals = tc[j].signals /\ tc'[j].open = tc[j].open
  <2>1. tc[j] \in Op
    BY <1>3
  <2>2. CASE j = 1
    <3>1. tc'[j] = [tc[j] EXCEPT !.begun = TRUE, !.ok = v]
      BY <1>2, <1>3, <2>2
    <3> QED
      BY <2>1, <3>1 DEF Op, Same
  <2>3. CASE j # 1
    <3>1. tc'[j] = tc[j]
      BY <1>2, <1>3, <2>3
    <3> QED
      BY <3>1 DEF Same
  <2> QED
    BY <2>2, <2>3
<1> QED
  BY <1>3, <1>4, <1>5, <1>6 DEF TcBegan

LEMMA BeganCommits ==
    ASSUME NEW n, TcBegan(n)
    PROVE  (\A b : Committed(b)' <=> Committed(b)) /\ (CommitsOnce => CommitsOnce')
<1>1. \A b : Committed(b)' <=> \E j \in 1..n : b \in tc'[j].signals
  BY DEF Committed, TcBegan
<1>2. \A b : Committed(b) <=> \E j \in 1..n : b \in tc[j].signals
  BY DEF Committed, TcBegan
<1> QED
  BY <1>1, <1>2 DEF CommitsOnce, TcBegan

LEMMA FinishShrinks ==
    ASSUME TcType, TcFinish PROVE \E n : TcShrunk(n) /\ Arrive(tc[1].signals)
<1> DEFINE n == Len(tc)
<1>1. tc # <<>> /\ ~tc[1].open /\ Arrive(tc[1].signals) /\ tc' = Tail(tc) /\ tc \in Seq(Op)
  BY DEF TcFinish, TcType
<1>2. TcShrunk(n)
  BY <1>1 DEF TcShrunk
<1> QED
  BY <1>1, <1>2

LEMMA ShrunkCommits ==
    ASSUME NEW n, TcShrunk(n), CommitsOnce
    PROVE  /\ \A b : Committed(b) <=> Committed(b)' \/ b \in tc[1].signals
           /\ \A b \in tc[1].signals : ~Committed(b)'
           /\ CommitsOnce'
<1>1. \A b : Committed(b)' <=> \E j \in 1..(n - 1) : b \in tc'[j].signals
  BY DEF Committed, TcShrunk
<1>2. \A b : Committed(b) <=> \E j \in 1..n : b \in tc[j].signals
  BY DEF Committed, TcShrunk
<1>3. \A j \in 1..(n - 1) : tc'[j] = tc[j + 1] /\ j + 1 \in 1..n /\ j + 1 # 1
  BY DEF TcShrunk
<1>4. ASSUME NEW b, Committed(b) PROVE Committed(b)' \/ b \in tc[1].signals
  <2>1. PICK j \in 1..n : b \in tc[j].signals
    BY <1>2, <1>4
  <2>2. CASE j # 1
    <3>1. j - 1 \in 1..(n - 1) /\ (j - 1) + 1 = j
      BY <2>2 DEF TcShrunk
    <3> QED
      BY <1>1, <1>3, <2>1, <3>1
  <2> QED
    BY <2>1, <2>2
<1>5. ASSUME NEW b, Committed(b)' PROVE Committed(b) /\ b \notin tc[1].signals
  <2>1. PICK j \in 1..(n - 1) : b \in tc[j + 1].signals /\ j + 1 \in 1..n /\ j + 1 # 1
    BY <1>1, <1>3, <1>5
  <2>2. tc[j + 1].signals \cap tc[1].signals = {}
    BY <2>1 DEF CommitsOnce, TcShrunk
  <2> QED
    BY <1>2, <2>1, <2>2
<1>6. \A b \in tc[1].signals : Committed(b)
  BY <1>2 DEF TcShrunk
<1>7. CommitsOnce'
  <2> SUFFICES ASSUME NEW i \in 1..(n - 1), NEW j \in 1..(n - 1), i # j
               PROVE  tc'[i].signals \cap tc'[j].signals = {}
    BY DEF CommitsOnce, TcShrunk
  <2>1. i + 1 # j + 1 /\ i + 1 \in 1..n /\ j + 1 \in 1..n
    BY DEF TcShrunk
  <2> QED
    BY <2>1 DEF CommitsOnce, TcShrunk
<1> QED
  BY <1>4, <1>5, <1>6, <1>7

\* The commits of an operation that is over become arrivals.
LEMMA FinishCounts ==
    ASSUME BarType, BarOK, Counted, Numbers, CommitsOnce, NEW n, TcShrunk(n), Moves({}, tc[1].signals),
           Accounts({}, {}, {})
    PROVE  Counted'
<1> SUFFICES ASSUME NEW b \in HandBarrier
             PROVE  /\ bar'[b].seen = Waited(b)'
                    /\ Arrivals(b)' = Given(b)' - If1(Committed(b))'
  BY DEF Counted, HandBarrier, HandNames, Unwaited
<1>1. b \in Barrier /\ bar[b].seen \in Nat /\ Arrivals(b) \in Int
  BY HandBarriersAre, HandNumbers
<1>2. bar'[b].seen = bar[b].seen + If1(b \in {}) /\ Arrivals(b)' = Arrivals(b) + If1(b \in tc[1].signals)
  BY <1>1 DEF Moves
<1>3. bar[b].seen = Waited(b) /\ Arrivals(b) = Given(b) - If1(Committed(b))
  BY DEF Counted
<1>4. Waited(b)' = Waited(b) + If1(b \in {}) /\ Given(b)' = Given(b) + If1(b \in {}) + If1(b \in {})
  BY DEF Accounts
<1>5. If1(Committed(b)) = If1(Committed(b))' + If1(b \in tc[1].signals)
  BY ShrunkCommits DEF If1
<1>6. If1(Committed(b))' \in Int /\ If1(b \in tc[1].signals) \in Int /\ If1(b \in {}) = 0
  BY DEF If1
<1>7. Given(b) \in Int /\ Waited(b) \in Int
  BY DEF Numbers
<1> QED
  BY <1>1, <1>2, <1>3, <1>4, <1>5, <1>6, <1>7

-----------------------------------------------------------------------------
(* How far ahead of each other the roles can be.                           *)

SmShape(i) ==
    /\ SmNumbers(i)
    /\ P2Stored(i) <= PStored(i) /\ PStored(i) <= PBegun(i) /\ PBegun(i) <= SLoaded(i)
    /\ SLoaded(i) <= P2Stored(i) + 1 /\ ScalesOut(i) <= ScalesFree(i)
    /\ SLoaded(i) <= QksLet(i) /\ QksLet(i) <= SLoaded(i) + 1 /\ (i = 0 => QksLet(i) = SLoaded(i))

LEMMA SmShapeIs == ASSUME NEW i, SmWhere(i) PROVE SmShape(i)
<1>1. SmNumbers(i)
  BY SmNumbersAre
<1>2. SmBlocks(i) \in Int /\ sm[i].t \in Int
  BY <1>1 DEF SmNumbers, SmWhere
<1>3. /\ P2Stored(i) <= PStored(i) /\ PStored(i) <= PBegun(i) /\ PBegun(i) <= SLoaded(i)
      /\ SLoaded(i) <= P2Stored(i) + 1
  BY <1>2 DEF P2Stored, PStored, PBegun, SLoaded, If1
<1>4. ScalesOut(i) <= ScalesFree(i)
  BY <1>2 DEF ScalesOut, ScalesFree, PBegun, If1
<1>5. SLoaded(i) <= QksLet(i) /\ QksLet(i) <= SLoaded(i) + 1 /\ (i = 0 => QksLet(i) = SLoaded(i))
  BY <1>1 DEF SmNumbers, QksLet, If1
<1> QED
  BY <1>1, <1>3, <1>4, <1>5 DEF SmShape

CoShape(i) ==
    /\ CoNumbers(i)
    /\ ScalesBack(i) <= ScalesTaken(i) /\ OWritten(i) <= BuffersHad(i)
    /\ Decoupled => OTaken(i) <= ORescaled(i) /\ ORescaled(i) <= OTaken(i) + 1

LEMMA CoShapeIs == ASSUME NEW i \in {0, 1}, CoWhere PROVE CoShape(i)
<1>1. CoNumbers(i)
  BY CoNumbersAre
<1>2. CoRounds \in Int /\ OWritten(i) \in Int /\ co \in CoRecord /\ co.st \in {0, 1} /\ co.k \in Int
      /\ Start[co.t] \in Int
  BY <1>1 DEF CoNumbers, CoWhere
<1>3. ScalesBack(i) <= ScalesTaken(i)
  BY <1>2 DEF ScalesBack, ScalesTaken, CoIn, CoEnding, If1
<1>4. OWritten(i) <= BuffersHad(i)
  BY <1>2 DEF BuffersHad, If1
<1>5. Decoupled => OTaken(i) <= ORescaled(i) /\ ORescaled(i) <= OTaken(i) + 1
  <2> SUFFICES ASSUME Decoupled PROVE OTaken(i) <= ORescaled(i) /\ ORescaled(i) <= OTaken(i) + 1
    OBVIOUS
  <2>1. CASE CoIn
    BY <1>2, <2>1 DEF OTaken, ORescaled, CoIn, If1
  <2>2. CASE ~CoIn
    BY <1>2, <2>2 DEF OTaken, ORescaled, CoIn, If1
  <2> QED
    BY <2>1, <2>2
<1> QED
  BY <1>1, <1>3, <1>4, <1>5 DEF CoShape

MmShape ==
    /\ \A i \in {0, 1} : /\ MmNumbers(i)
                         /\ PvDone(i) <= PvBegun(i) /\ PvBegun(i) <= PvDone(i) + 1 /\ PvBegun(i) <= QksIssued(i)
                         /\ 0 <= PvDone(i)
                         /\ QksIssued(i) <= PvDone(i) + 2
                         /\ ~Decoupled => QksIssued(i) <= PvDone(i) + 1
                         /\ Decoupled => OCommits(i) = PvDone(i)
    /\ QksIssued(1) <= QksIssued(0) /\ QksIssued(0) <= QksIssued(1) + 1

LEMMA MmShapeIs == ASSUME MmHere PROVE MmShape
<1>0. mm \in MmRecord /\ MmWhere /\ MmStarts
  BY MmIsSomewhere, MmStartsIs DEF MmHere, MmType
<1>1. \A i \in {0, 1} : MmNumbers(i)
  BY <1>0, MmNumbersAre
<1>2. /\ MmBlocks \in Int /\ mm.st \in {0, 1} /\ 0 <= mm.k /\ mm.k \in Int /\ 0 <= MmBlocks
      /\ 1 <= mm.k => 1 <= MmBlocks
  <2>1. MmOver => mm.k = 0
    BY DEF MmHere, MmPlace
  <2> QED
    BY <1>0, <1>1, <2>1 DEF MmNumbers, MmWhere, MmStarts, MmBlocks
<1>3. /\ mm.k = 0 => mm.at \in {"q", "k", "qk", "dealloc", "end"}
      /\ mm.at \in {"k", "v"} => mm.st = 0
      /\ mm.at \in {"k", "qk"} => ~Last
      /\ mm.at = "q" => mm.k = 0
  BY DEF MmHere, MmPlace
<1>4. ASSUME NEW i \in {0, 1}
      PROVE  /\ PvDone(i) <= PvBegun(i) /\ PvBegun(i) <= PvDone(i) + 1 /\ PvBegun(i) <= QksIssued(i)
             /\ 0 <= PvDone(i) /\ QksIssued(i) <= PvDone(i) + 2
             /\ ~Decoupled => QksIssued(i) <= PvDone(i) + 1
  <2>1. CASE mm.k = 0
    BY <1>2, <1>3, <2>1 DEF PvDone, PvBegun, QksIssued, If1
  <2>2. CASE mm.k # 0 /\ Decoupled
    BY <1>2, <1>3, <2>2 DEF PvDone, PvBegun, QksIssued, If1
  <2>3. CASE mm.k # 0 /\ ~Decoupled
    BY <1>2, <1>3, <2>3 DEF PvDone, PvBegun, QksIssued, If1
  <2> QED
    BY <2>1, <2>2, <2>3
<1>5. QksIssued(1) <= QksIssued(0) /\ QksIssued(0) <= QksIssued(1) + 1
  BY <1>2 DEF QksIssued, If1
<1> QED
  BY <1>1, <1>4, <1>5 DEF MmShape, OCommits

EpShape(i) == /\ EpRead(i) \in Int /\ EpFreed(i) \in Int
              /\ EpFreed(i) <= EpRead(i) /\ EpRead(i) = EpFreed(i) + If1(Storing(i))

LEMMA EpShapeIs == ASSUME EpType, NEW i \in {0, 1} PROVE EpShape(i)
BY StageIs DEF EpType, EpShape, EpRead, EpFreed, Storing, If1

\* What the accounts say of every pair of roles.
Flows(i) ==
    /\ SmShape(i) /\ CoShape(i) /\ EpShape(i)
    /\ Done("S_full", i) \in Int /\ SLoaded(i) <= Done("S_full", i)
    /\ Done("S_full", i) = QksIssued(i) - If1(Committed(<<"S_full", i>>))
    /\ PvBegun(i) <= PStored(i) /\ PvBegun(i) <= ORescaled(i)
    /\ Done("P_full_O", i) \in Int /\ PvBegun(i) <= Done("P_full_O", i)
    /\ 2 * Done("P_full_O", i) <= PStored(i) + ORescaled(i)
    /\ Done("P_full_2", i) \in Int /\ PvDone(i) <= Done("P_full_2", i) /\ Done("P_full_2", i) = P2Stored(i)
    /\ Done("O_full", i) \in Int /\ OTaken(i) <= Done("O_full", i)
    /\ Done("O_full", i) = OCommits(i) - If1(Committed(<<"O_full", i>>))
    /\ ScalesTaken(i) <= ScalesOut(i) /\ Done("corr_full", i) = ScalesOut(i)
    /\ ScalesFree(i) <= ScalesBack(i) + 1 /\ Done("corr_empty", i) = ScalesBack(i)
    /\ QuantQK => QksIssued(i) <= QksLet(1 - i) /\ Done("sfqk", i) = QksLet(1 - i)
    /\ ~CorrStoresO => /\ EpRead(i) <= OWritten(i) /\ Done("epi_full", i) = OWritten(i)
                       /\ BuffersHad(i) <= EpFreed(i) + 1 /\ Done("epi_empty", i) = EpFreed(i)

\* Only S_full, O_full and the buffers' own barriers are committed to.
LEMMA CommitsAre ==
    ASSUME TcApart, NEW b \in HandBarrier, Committed(b)
    PROVE  b[1] \in {"S_full", "O_full"}
<1>1. b \in CommitBarriers
  BY DEF TcApart, Committed
<1> QED
  BY <1>1, HandBarriersAre DEF CommitBarriers, RingBarriers

LEMMA HandPlaces ==
    ASSUME HandInv
    PROVE  /\ \A i \in {0, 1} : SmWhere(i)
           /\ CoWhere /\ MmHere /\ AllNumbers /\ Numbers /\ Types /\ BarType /\ BarOK /\ MmPlace
<1>1. Types /\ BarType /\ BarOK /\ MmType /\ MmPlace /\ EpType /\ CoType /\ SmType
  BY DEF HandInv, OperandInv, MmInv, Types
<1>2. CoPlace /\ (\A i \in Stage : SmPlace(i)) /\ MmBits
  BY DEF HandInv, Places
<1> QED
  BY <1>1, <1>2, SmIsSomewhere, CoIsSomewhere, AllNumbersAre, StageIs DEF MmHere

LEMMA FlowsAre == ASSUME HandInv, NEW i \in {0, 1} PROVE Flows(i) /\ MmShape
<1>1. /\ SmWhere(i) /\ CoWhere /\ MmHere /\ AllNumbers /\ BarType /\ BarOK /\ EpType
      /\ TcApart /\ i \in Stage /\ 1 - i \in {0, 1}
  BY HandPlaces, StageIs DEF HandInv, OperandInv, Types, MmInv
<1>2. SmShape(i) /\ CoShape(i) /\ MmShape /\ EpShape(i) /\ MmNumbers(i) /\ SmNumbers(i) /\ CoNumbers(i)
  BY <1>1, SmShapeIs, CoShapeIs, MmShapeIs, EpShapeIs DEF MmShape, SmShape, CoShape
<1>3. ASSUME NEW b \in HandBarrier
      PROVE  /\ bar[b].seen = Waited(b) /\ Arrivals(b) = Given(b) - If1(Committed(b))
             /\ bar[b].done \in Int /\ bar[b].seen \in Int /\ bar[b].seen <= bar[b].done + Free(b)
             /\ b[1] \notin {"P_full_O", "dealloc"} => Arrivals(b) = bar[b].done
             /\ b[1] \notin {"S_full", "O_full"} => Arrivals(b) = Given(b)
  <2>1. b \in Barrier /\ b[1] \in HandNames \cup {"dealloc"}
    BY HandBarriersAre
  <2>2. b[1] \notin {"S_full", "O_full"} => Arrivals(b) = Given(b)
    <3>1. Given(b) \in Int /\ Arrivals(b) = Given(b) - If1(Committed(b))
      BY HandPlaces DEF Numbers, HandInv, Counted
    <3>2. b[1] \notin {"S_full", "O_full"} => ~Committed(b)
      BY <1>1, CommitsAre
    <3> QED
      BY <3>1, <3>2 DEF If1
  <2> QED
    BY <1>1, <2>1, <2>2, HandNumbers DEF HandInv, Counted, NotBehind
<1>4. Done("S_full", i) \in Int /\ SLoaded(i) <= Done("S_full", i)
      /\ Done("S_full", i) = QksIssued(i) - If1(Committed(<<"S_full", i>>))
  <2>1. <<"S_full", i>> \in HandBarrier
    BY <1>1, HandBarriersAre
  <2>2. Free(<<"S_full", i>>) = 0
    BY DEF Free, StartsFree, If1
  <2> QED
    BY <1>3, <2>1, <2>2, AccountsAre DEF Done
<1>5. /\ PvBegun(i) <= PStored(i) /\ PvBegun(i) <= ORescaled(i)
      /\ Done("P_full_O", i) \in Int /\ PvBegun(i) <= Done("P_full_O", i)
      /\ 2 * Done("P_full_O", i) <= PStored(i) + ORescaled(i)
  <2>1. <<"P_full_O", i>> \in HandBarrier /\ Count(<<"P_full_O", i>>) = 2
    BY <1>1, HandBarriersAre DEF Count
  <2>2. Free(<<"P_full_O", i>>) = 0
    BY DEF Free, StartsFree, If1
  <2>3. bar[<<"P_full_O", i>>].left \in 1..2
    BY <1>1, <2>1, HandBarriersAre DEF BarOK
  <2>4. PStored(i) + ORescaled(i) \in Int
    BY <1>2 DEF SmNumbers, CoNumbers
  <2>5. PvBegun(i) = bar[<<"P_full_O", i>>].seen /\ Arrivals(<<"P_full_O", i>>) = PStored(i) + ORescaled(i)
    <3>1. PICK b \in HandBarrier : b = <<"P_full_O", i>>
      BY <2>1
    <3>2. bar[b].seen = Waited(b) /\ Arrivals(b) = Given(b)
      BY <1>3, <3>1
    <3>3. Waited(<<"P_full_O", i>>) = PvBegun(i) /\ Given(<<"P_full_O", i>>) = PStored(i) + ORescaled(i)
      BY AccountsAre
    <3> QED
      BY <3>1, <3>2, <3>3
  <2>6. 2 * bar[<<"P_full_O", i>>].done + 2 - bar[<<"P_full_O", i>>].left = PStored(i) + ORescaled(i)
    <3>1. Arrivals(<<"P_full_O", i>>) = PStored(i) + ORescaled(i)
      BY <2>5
    <3>2. Arrivals(<<"P_full_O", i>>) = 2 * bar[<<"P_full_O", i>>].done + 2 - bar[<<"P_full_O", i>>].left
      BY <2>1 DEF Arrivals
    <3> QED
      BY <3>1, <3>2
  <2>7. PvBegun(i) <= PStored(i) /\ PvBegun(i) <= ORescaled(i)
    BY <1>1 DEF HandInv, PvBehind
  <2> QED
    BY <1>3, <2>1, <2>2, <2>3, <2>4, <2>5, <2>6, <2>7 DEF Done
<1>6. Done("P_full_2", i) \in Int /\ PvDone(i) <= Done("P_full_2", i) /\ Done("P_full_2", i) = P2Stored(i)
  <2>1. <<"P_full_2", i>> \in HandBarrier
    BY <1>1, HandBarriersAre
  <2>2. Free(<<"P_full_2", i>>) = 0
    BY DEF Free, StartsFree, If1
  <2> QED
    BY <1>2, <1>3, <2>1, <2>2, AccountsAre DEF Done, SmNumbers
<1>7. Done("O_full", i) \in Int /\ OTaken(i) <= Done("O_full", i)
      /\ Done("O_full", i) = OCommits(i) - If1(Committed(<<"O_full", i>>))
  <2>1. <<"O_full", i>> \in HandBarrier
    BY <1>1, HandBarriersAre
  <2>2. Free(<<"O_full", i>>) = 0
    BY DEF Free, StartsFree, If1
  <2> QED
    BY <1>3, <2>1, <2>2, AccountsAre DEF Done
<1>8. ScalesTaken(i) <= ScalesOut(i) /\ Done("corr_full", i) = ScalesOut(i)
  <2>1. <<"corr_full", i>> \in HandBarrier
    BY <1>1, HandBarriersAre
  <2>2. Free(<<"corr_full", i>>) = 0
    BY DEF Free, StartsFree, If1
  <2> QED
    BY <1>2, <1>3, <2>1, <2>2, AccountsAre DEF Done, SmNumbers, CoNumbers
<1>9. ScalesFree(i) <= ScalesBack(i) + 1 /\ Done("corr_empty", i) = ScalesBack(i)
  <2>1. <<"corr_empty", i>> \in HandBarrier
    BY <1>1, HandBarriersAre
  <2>2. Free(<<"corr_empty", i>>) = 1
    BY DEF Free, StartsFree, If1
  <2> QED
    BY <1>2, <1>3, <2>1, <2>2, AccountsAre DEF Done, SmNumbers, CoNumbers
<1>10. QuantQK => QksIssued(i) <= QksLet(1 - i) /\ Done("sfqk", i) = QksLet(1 - i)
  <2>1. QuantQK => <<"sfqk", i>> \in HandBarrier
    BY <1>1, HandBarriersAre
  <2>2. Free(<<"sfqk", i>>) = 0
    BY DEF Free, StartsFree, If1
  <2>3. QksLet(1 - i) \in Int /\ QksIssued(i) \in Int
    BY <1>1, <1>2 DEF AllNumbers, SmNumbers, MmNumbers
  <2> QED
    BY <1>3, <2>1, <2>2, <2>3, AccountsAre DEF Done
<1>11. ~CorrStoresO => /\ EpRead(i) <= OWritten(i) /\ Done("epi_full", i) = OWritten(i)
                       /\ BuffersHad(i) <= EpFreed(i) + 1 /\ Done("epi_empty", i) = EpFreed(i)
  <2>1. ~CorrStoresO => <<"epi_full", i>> \in HandBarrier /\ <<"epi_empty", i>> \in HandBarrier
    BY <1>1, HandBarriersAre
  <2>2. Free(<<"epi_full", i>>) = 0 /\ Free(<<"epi_empty", i>>) = 1
    BY DEF Free, StartsFree, If1
  <2> QED
    BY <1>2, <1>3, <2>1, <2>2, AccountsAre DEF Done, CoNumbers, EpShape
<1> QED
  BY <1>2, <1>4, <1>5, <1>6, <1>7, <1>8, <1>9, <1>10, <1>11 DEF Flows

\* S is loaded one ahead of the rescales of O at most: softmax waits for the scale
\* before the last to be given back (softmax_step's wait on corr_empty).
LEMMA SLoadedBound == ASSUME HandInv, NEW i \in {0, 1} PROVE SLoaded(i) <= ORescaled(i) + 1
<1>1. SmWhere(i) /\ CoWhere /\ CoPlace /\ Flows(i)
  BY HandPlaces, FlowsAre DEF HandInv, Places
<1>2. SmNumbers(i) /\ CoNumbers(i)
  BY <1>1 DEF Flows, SmShape, CoShape
<1>3. PICK s, c : s = sm[i].t /\ c = co.t
  OBVIOUS
<1>4. s \in Int /\ c \in Int /\ Apart(s, c)
  BY <1>1, <1>3, TilesApart DEF SmWhere, CoWhere
<1>5. PICK ss, sc, bc, bs : ss = Start[s] /\ sc = Start[c] /\ bc = Blocks[c] /\ bs = Blocks[s]
  OBVIOUS
<1>6. ss \in Int /\ sc \in Int /\ 0 <= ss /\ 0 <= sc
  BY <1>4, <1>5 DEF Apart
<1>7. /\ s < c => bs \in Int /\ 1 <= bs /\ ss + bs <= sc
      /\ s = c => ss = sc
      /\ c < s => bc \in Int /\ 1 <= bc /\ sc + bc <= ss
  BY <1>4, <1>5 DEF Apart
\* Softmax.
<1>8. PICK k, l : k = sm[i].k /\ l = If1(sm[i].at \in {"scale", "plo", "phi", "corr", "sum"})
  OBVIOUS
<1>9. /\ k \in Int /\ l \in {0, 1} /\ SLoaded(i) = ss + k - 1 + l
      /\ ss + k - 1 + s - 1 + l + If1(sm[i].at = "sum") <= ScalesFree(i)
      /\ 1 <= k /\ (sm[i].at # "end" => k <= bs) /\ (sm[i].at = "end" => k = 1 /\ l = 0)
      /\ bs \in Int \/ sm[i].at = "end"
  <2>1. k \in Int /\ l \in {0, 1} /\ SLoaded(i) = ss + k - 1 + l
    BY <1>1, <1>3, <1>5, <1>8 DEF SmWhere, SLoaded, SmBlocks, If1
  <2>2. 1 <= k /\ (sm[i].at # "end" => k <= bs /\ bs \in Int)
    BY <1>1, <1>3, <1>5, <1>8 DEF SmWhere
  <2>3. sm[i].at = "end" => k = 1 /\ l = 0
    <3>1. i \in Stage
      BY StageIs
    <3> QED
      BY <1>8, <3>1 DEF HandInv, Places, SmPlace, If1
  <2>4. ss + k - 1 + s - 1 + l + If1(sm[i].at = "sum") <= ScalesFree(i)
    BY <1>1, <1>3, <1>4, <1>5, <1>6, <1>8, <2>1 DEF ScalesFree, SmBlocks, If1, SmWhere
  <2> QED
    BY <2>1, <2>2, <2>3, <2>4
<1>10. ss + k - 1 + s - 1 + l <= ScalesBack(i) + 1 /\ ScalesBack(i) \in Int
  BY <1>1, <1>2, <1>4, <1>6, <1>9 DEF Flows, If1, SmNumbers, CoNumbers
<1>a. PICK sb, o, sl : sb = ScalesBack(i) /\ o = ORescaled(i) /\ sl = SLoaded(i)
  OBVIOUS
<1>b. /\ sb \in Int /\ o \in Int /\ sl \in Int /\ k \in Int /\ l \in Int /\ 0 <= l /\ l <= 1 /\ 1 <= k
      /\ sl = ss + k - 1 + l /\ ss + k - 1 + s - 1 + l <= sb + 1
  BY <1>2, <1>9, <1>10, <1>a DEF SmNumbers, CoNumbers
<1>c. /\ s < c => ss + k - 1 + l <= sc
      /\ s = c => ss = sc
      /\ c < s => c + 1 <= s /\ sc + bc <= ss /\ bc \in Int /\ 1 <= bc
  <2>1. s < c => k - 1 + l <= bs /\ bs \in Int
    BY <1>7, <1>9, <1>b
  <2> QED
    BY <1>4, <1>6, <1>7, <1>b, <2>1
<1>d. co.at \in {"sum", "o", "buffer", "write"} /\ s = c => ss + k - 1 + l <= sc + bc /\ bc \in Int
  <2> SUFFICES ASSUME co.at \in {"sum", "o", "buffer", "write"}, s = c
               PROVE  ss + k - 1 + l <= sc + bc /\ bc \in Int
    OBVIOUS
  <2>1. sm[i].at # "end"
    <3>1. s <= Tiles
      BY <1>1, <1>3 DEF CoWhere
    <3> QED
      BY <1>1, <1>3, <1>4, <3>1, StageIs DEF HandInv, Places, SmPlace, SmWhere
  <2>2. k <= bs /\ bs \in Int /\ bs = bc
    BY <1>5, <1>9, <2>1
  <2> QED
    BY <1>6, <1>7, <1>b, <2>2
\* Correction, by where it is.
<1>11. co.at \in {"start", "first", "scale", "acc", "rescale", "sum", "o", "buffer", "write", "end"}
       /\ co.st \in {0, 1} /\ co.k \in Int
  BY <1>1 DEF CoWhere, CoRecord
<1>12. CASE ~CoIn
  <2>1. /\ sb <= sc + c
        /\ co.at \in {"start", "end"} => sb = sc + c - 1
        /\ o = IF co.at = "start" THEN sc ELSE sc + 1
    <3>1. co.at \in {"start", "end"} => co.st = 0
      BY <1>1 DEF CoPlace
    <3> QED
      BY <1>3, <1>4, <1>5, <1>6, <1>11, <1>12, <1>a, <3>1 DEF ScalesBack, ORescaled, CoRounds, CoIn, If1
  <2>2. CASE co.at = "start"
    <3>1. c = 1 /\ 1 <= s
      BY <1>1, <1>3, <2>2 DEF CoPlace, SmWhere
    <3> QED
      BY <1>4, <1>6, <1>a, <1>b, <2>1, <2>2, <3>1
  <2>3. CASE co.at # "start"
    BY <1>4, <1>6, <1>a, <1>b, <1>c, <2>1, <2>3
  <2> QED
    BY <2>2, <2>3
<1>13. CASE CoIn /\ ~CoEnding
  <2>1. co.k <= bc /\ 2 <= co.k /\ bc \in Int
    BY <1>1, <1>3, <1>5, <1>11, <1>13 DEF CoPlace, CoIn, CoEnding, CoWhere
  <2>2. sb <= sc + c - 1 + co.k - 1 /\ sc + co.k - 1 <= o
    BY <1>3, <1>4, <1>5, <1>6, <1>11, <1>13, <1>a DEF ScalesBack, ORescaled, CoRounds, CoIn, If1
  <2> QED
    BY <1>4, <1>6, <1>11, <1>a, <1>b, <1>c, <2>1, <2>2
<1>14. CASE CoEnding
  <2>1. co.k = bc + 1 /\ bc \in Int /\ 1 <= bc /\ CoIn
    BY <1>1, <1>3, <1>5, <1>14 DEF CoPlace, CoIn, CoEnding, CoWhere
  <2>2. sb <= sc + c - 1 + co.k /\ sc + co.k - 1 <= o
    BY <1>3, <1>4, <1>5, <1>6, <1>11, <1>14, <1>a, <2>1 DEF ScalesBack, ORescaled, CoRounds, CoIn, If1
  <2>3. s = c => ss + k - 1 + l <= sc + bc
    BY <1>14, <1>d DEF CoEnding
  <2> QED
    BY <1>4, <1>6, <1>11, <1>a, <1>b, <1>c, <2>1, <2>2, <2>3
<1> QED
  BY <1>12, <1>13, <1>14

\* On the baseline O is committed behind the last PV of a tile.
LEMMA CommitsSay ==
    ASSUME MmHere, ~Decoupled, NEW i \in {0, 1}, NEW n \in 0..Tiles, n <= OCommits(i)
    PROVE  Start[n + 1] <= PvDone(i)
<1>1. mm \in MmRecord /\ MmWhere /\ MmStarts /\ MmNumbers(i)
  BY MmIsSomewhere, MmStartsIs, MmNumbersAre DEF MmHere, MmType
<1>2. n \in Int /\ n + 1 \in 1..(Tiles + 1) /\ mm.t \in 1..(Tiles + 1)
  BY <1>1, TilesAre DEF MmStarts
<1>3. Apart(n + 1, mm.t)
  BY <1>2, TilesApart
<1>4. PICK a, b : a = Start[n + 1] /\ b = Start[mm.t]
  OBVIOUS
<1>5. a \in Int /\ b \in Int /\ (n + 1 < mm.t => a <= b) /\ (n + 1 = mm.t => a = b)
  <2>1. n + 1 < mm.t => Start[n + 1] + Blocks[n + 1] <= Start[mm.t] /\ Blocks[n + 1] \in Int /\ 1 <= Blocks[n + 1]
    BY <1>3 DEF Apart
  <2>2. Start[n + 1] \in Int /\ Start[mm.t] \in Int /\ (n + 1 = mm.t => Start[n + 1] = Start[mm.t])
    BY <1>3 DEF Apart
  <2> QED
    BY <1>4, <2>1, <2>2
<1>6. b <= PvDone(i)
  <2>1. MmBlocks = b + mm.k
    BY <1>4 DEF MmBlocks
  <2>2. mm.k \in Int /\ 0 <= mm.k
    <3>1. MmOver => mm.k = 0
      BY DEF MmHere, MmPlace
    <3> QED
      BY <1>1, <3>1 DEF MmWhere
  <2> QED
    BY <1>5, <2>1, <2>2 DEF PvDone, If1
<1>7. CASE n <= mm.t - 1
  <2>1. n + 1 < mm.t \/ n + 1 = mm.t
    BY <1>1, <1>2, <1>7 DEF MmWhere
  <2> QED
    BY <1>1, <1>4, <1>5, <1>6, <2>1 DEF MmNumbers
<1>8. CASE ~(n <= mm.t - 1)
  <2>1. n = mm.t /\ Last /\ i < mm.st
    BY <1>1, <1>2, <1>8 DEF OCommits, If1, MmWhere
  <2>2. mm.t \in Tile /\ mm.k = Blocks[mm.t] /\ Blocks[mm.t] \in Int /\ 1 <= Blocks[mm.t]
        /\ Start[mm.t + 1] = Start[mm.t] + Blocks[mm.t]
    <3>1. mm.t \in Tile /\ mm.k = Blocks[mm.t]
      BY <2>1 DEF Last
    <3>2. mm.t \in 1..Tiles
      BY <3>1 DEF Tile, Tiles
    <3> QED
      BY <3>1, <3>2, StartIs
  <2>3. MmBlocks = Start[mm.t] + mm.k /\ Start[mm.t] \in Int
    BY <1>4, <1>5 DEF MmBlocks
  <2>4. PvDone(i) = MmBlocks
    BY <2>1, <2>2, <2>3 DEF PvDone, If1
  <2> QED
    BY <2>1, <2>2, <2>3, <2>4
<1> QED
  BY <1>7, <1>8

\* How often O was rescaled on the baseline, against where the correction warps are.
LEMMA CoRescales ==
    ASSUME CoWhere, CoPlace, NEW i \in {0, 1}, ~Decoupled
    PROVE  /\ co.at = "start" => ORescaled(i) = 0 /\ OTaken(i) = 0 /\ co.t = 1
           /\ ~CoIn /\ co.at # "start" => ORescaled(i) = Start[co.t] + 1 /\ OTaken(i) = co.t - 1
           /\ CoIn /\ ~CoEnding => /\ ORescaled(i) = Start[co.t] + co.k - 1 + If1(i < co.st)
                                   /\ Start[co.t] + co.t - 1 + co.k - 1 + If1(i < co.st) <= ScalesTaken(i)
                                   /\ OTaken(i) = co.t - 1 /\ 2 <= co.k /\ co.k <= Blocks[co.t]
           /\ CoEnding => /\ ORescaled(i) = Start[co.t] + Blocks[co.t] + If1(i < co.st)
                          /\ Start[co.t] + co.t - 1 + Blocks[co.t] <= ScalesTaken(i)
                          /\ i < co.st => OTaken(i) = co.t
                          /\ ~(i < co.st) => co.t - 1 <= OTaken(i) /\ OTaken(i) <= co.t
<1>1. /\ co.at \in {"start", "first", "scale", "acc", "rescale", "sum", "o", "buffer", "write", "end"}
      /\ co.st \in {0, 1} /\ co.k \in Int /\ co.t \in Int /\ Start[co.t] \in Int /\ Start[1] = 0
  BY DEF CoWhere, CoRecord
<1>2. co.at = "start" => co.t = 1
  BY DEF CoPlace
<1>3. CoIn => Blocks[co.t] \in Int
  BY DEF CoIn, CoWhere
<1>4. CoIn /\ ~CoEnding => 2 <= co.k /\ co.k <= Blocks[co.t]
  BY <1>1, <1>3 DEF CoPlace, CoIn, CoEnding
<1>5. CoEnding => CoIn /\ co.k = Blocks[co.t] + 1
  BY DEF CoPlace, CoIn, CoEnding
<1>6. CASE ~CoIn
  BY <1>1, <1>2, <1>5, <1>6 DEF ORescaled, OTaken, If1, CoIn, CoEnding
<1>7. CASE CoIn /\ ~CoEnding
  <2>1. /\ ORescaled(i) = Start[co.t] + co.k - 1 + If1(i < co.st)
        /\ Start[co.t] + co.t - 1 + co.k - 1 + If1(i < co.st) <= ScalesTaken(i)
    BY <1>1, <1>7 DEF ORescaled, ScalesTaken, CoRounds, If1, CoIn
  <2>2. OTaken(i) = co.t - 1
    BY <1>1, <1>7 DEF OTaken, If1
  <2> QED
    BY <1>4, <1>7, <2>1, <2>2 DEF CoIn
<1>8. CASE CoEnding
  <2>1. /\ ORescaled(i) = Start[co.t] + Blocks[co.t] + If1(i < co.st)
        /\ Start[co.t] + co.t - 1 + Blocks[co.t] <= ScalesTaken(i)
    BY <1>1, <1>3, <1>5, <1>8 DEF ORescaled, ScalesTaken, CoRounds, If1, CoIn
  <2>2. /\ i < co.st => OTaken(i) = co.t
        /\ ~(i < co.st) => co.t - 1 <= OTaken(i) /\ OTaken(i) <= co.t
    BY <1>1, <1>8 DEF OTaken, If1
  <2> QED
    BY <1>5, <1>8, <2>1, <2>2 DEF CoIn
<1> QED
  BY <1>6, <1>7, <1>8

\* Where the blocks of the tiles are, for softmax and the correction warps.
LEMMA SmCoApart ==
    ASSUME HandInv, NEW i \in {0, 1}
    PROVE  \E s, c, ss, sc, bs, bc :
             /\ s = sm[i].t /\ c = co.t /\ ss = Start[s] /\ sc = Start[c] /\ bs = Blocks[s] /\ bc = Blocks[c]
             /\ s \in Int /\ c \in Int /\ ss \in Int /\ sc \in Int /\ 0 <= sc /\ 1 <= c /\ c <= Tiles + 1
             /\ s < c => PBegun(i) <= sc
             /\ s = c => ss = sc
             /\ c < s => bc \in Int /\ sc + bc <= ss
             /\ ss <= PBegun(i) /\ ScalesOut(i) = PBegun(i) + s - 1 /\ PBegun(i) \in Int
<1>1. SmWhere(i) /\ CoWhere /\ SmNumbers(i) /\ SmPlace(i)
  BY HandPlaces, SmNumbersAre, StageIs DEF HandInv, Places
<1>2. PICK s, c : s = sm[i].t /\ c = co.t
  OBVIOUS
<1>3. s \in Int /\ c \in Int /\ Apart(s, c) /\ 1 <= c /\ c <= Tiles + 1
  BY <1>1, <1>2, TilesApart DEF SmWhere, CoWhere
<1>4. PICK ss, sc, bc, bs : ss = Start[s] /\ sc = Start[c] /\ bc = Blocks[c] /\ bs = Blocks[s]
  OBVIOUS
<1>5. /\ ss \in Int /\ sc \in Int /\ 0 <= sc
      /\ s < c => bs \in Int /\ 1 <= bs /\ ss + bs <= sc
      /\ s = c => ss = sc
      /\ c < s => bc \in Int /\ sc + bc <= ss
  BY <1>3, <1>4 DEF Apart
<1>6. PBegun(i) = ss + sm[i].k - 1 + If1(sm[i].at \in {"plo", "phi", "corr", "sum"}) /\ PBegun(i) \in Int
  BY <1>1, <1>2, <1>4 DEF PBegun, SmBlocks, SmNumbers
<1>7. sm[i].k \in Int /\ 1 <= sm[i].k /\ ss <= PBegun(i)
  BY <1>1, <1>5, <1>6 DEF SmWhere, If1
<1>8. s < c => PBegun(i) <= sc
  <2>1. sm[i].at # "end" => sm[i].k <= bs
    BY <1>1, <1>2, <1>4 DEF SmWhere
  <2>2. sm[i].at = "end" => sm[i].k = 1
    BY <1>1 DEF SmPlace
  <2> QED
    BY <1>5, <1>6, <1>7, <2>1, <2>2 DEF If1
<1>9. ScalesOut(i) = PBegun(i) + s - 1
  BY <1>2 DEF ScalesOut
<1> QED
  BY <1>2, <1>3, <1>4, <1>5, <1>6, <1>7, <1>8, <1>9

\* O is rescaled one ahead of the PVs at most (correction_loop's wait on O_full, or
\* on the scale of a block whose S was made behind the PV before it).
LEMMA ORescaledBound == ASSUME HandInv, NEW i \in {0, 1} PROVE ORescaled(i) <= PvBegun(i) + 1
<1>1. SmWhere(i) /\ CoWhere /\ CoPlace /\ MmHere /\ Flows(i) /\ MmShape
  BY HandPlaces, FlowsAre DEF HandInv, Places
<1>2. SmNumbers(i) /\ CoNumbers(i) /\ MmNumbers(i) /\ PvDone(i) <= PvBegun(i) /\ 0 <= PvDone(i)
      /\ Done("O_full", i) <= OCommits(i) /\ OTaken(i) <= OCommits(i)
  <2>1. SmNumbers(i) /\ CoNumbers(i) /\ MmNumbers(i) /\ PvDone(i) <= PvBegun(i) /\ 0 <= PvDone(i)
    BY <1>1 DEF Flows, SmShape, CoShape, MmShape
  <2>2. Done("O_full", i) <= OCommits(i) /\ OTaken(i) <= Done("O_full", i) /\ Done("O_full", i) \in Int
    BY <1>1, <2>1 DEF Flows, MmNumbers, If1
  <2> QED
    BY <2>1, <2>2 DEF MmNumbers, CoNumbers
<1>3. CASE Decoupled
  <2>1. ORescaled(i) <= OTaken(i) + 1 /\ OCommits(i) = PvDone(i)
    BY <1>1, <1>3 DEF Flows, CoShape, MmShape
  <2> QED
    BY <1>2, <2>1 DEF CoNumbers, MmNumbers
<1>4. CASE ~Decoupled
  <2>1. PICK s, c, ss, sc, bs, bc :
             /\ s = sm[i].t /\ c = co.t /\ ss = Start[s] /\ sc = Start[c] /\ bs = Blocks[s] /\ bc = Blocks[c]
             /\ s \in Int /\ c \in Int /\ ss \in Int /\ sc \in Int /\ 0 <= sc /\ 1 <= c /\ c <= Tiles + 1
             /\ s < c => PBegun(i) <= sc
             /\ s = c => ss = sc
             /\ c < s => bc \in Int /\ sc + bc <= ss
             /\ ss <= PBegun(i) /\ ScalesOut(i) = PBegun(i) + s - 1 /\ PBegun(i) \in Int
    BY SmCoApart
  <2>2. PBegun(i) <= PvDone(i) + 1
    <3>1. PBegun(i) <= SLoaded(i) /\ SLoaded(i) <= QksIssued(i)
      <4>1. PICK d, l : d = If1(Committed(<<"S_full", i>>)) /\ d \in {0, 1} /\ l = Done("S_full", i)
        BY DEF If1
      <4>2. l \in Int /\ SLoaded(i) <= l /\ l = QksIssued(i) - d /\ PBegun(i) <= SLoaded(i)
        BY <1>1, <4>1 DEF Flows, SmShape
      <4> QED
        BY <1>2, <4>1, <4>2 DEF SmNumbers, MmNumbers
    <3>2. QksIssued(i) <= PvDone(i) + 1
      BY <1>1, <1>4 DEF MmShape
    <3> QED
      BY <1>2, <3>1, <3>2 DEF SmNumbers, MmNumbers
  <2>3. ScalesTaken(i) <= PBegun(i) + s - 1 /\ ScalesTaken(i) \in Int
    BY <1>1, <1>2, <2>1 DEF Flows, CoNumbers
  <2>4. co.st \in {0, 1} /\ If1(i < co.st) \in {0, 1} /\ co.k \in Int
    BY <1>1 DEF CoWhere, If1
  <2>5. CASE co.at = "start"
    BY <1>1, <1>2, <1>4, <2>5, CoRescales DEF MmNumbers
  <2>6. CASE ~CoIn /\ co.at # "start"
    <3>1. ORescaled(i) = sc + 1 /\ OTaken(i) = c - 1
      BY <1>1, <1>4, <2>1, <2>6, CoRescales
    <3>2. c - 1 \in 0..Tiles /\ (c - 1) + 1 = c
      BY <2>1, TilesAre
    <3>3. Start[(c - 1) + 1] <= PvDone(i)
      BY <1>1, <1>2, <1>4, <3>1, <3>2, CommitsSay
    <3> QED
      BY <1>2, <2>1, <3>1, <3>2, <3>3 DEF MmNumbers
  <2>7. CASE CoIn /\ ~CoEnding
    <3>1. /\ ORescaled(i) = sc + co.k - 1 + If1(i < co.st)
          /\ sc + c - 1 + co.k - 1 + If1(i < co.st) <= ScalesTaken(i)
          /\ 2 <= co.k /\ co.k <= bc
      BY <1>1, <1>4, <2>1, <2>7, CoRescales
    <3>2. bc \in Int
      BY <1>1, <2>1, <2>7 DEF CoIn, CoWhere
    <3>3. PICK l \in {0, 1} : l = If1(i < co.st)
      BY <2>4
    <3>4. sc + co.k - 1 + l <= PBegun(i)
      BY <2>1, <2>3, <2>4, <3>1, <3>2, <3>3
    <3> QED
      BY <1>2, <2>1, <2>2, <2>4, <3>1, <3>3, <3>4 DEF MmNumbers
  <2>8. CASE CoEnding
    <3>1. /\ ORescaled(i) = sc + bc + If1(i < co.st)
          /\ sc + c - 1 + bc <= ScalesTaken(i)
          /\ i < co.st => OTaken(i) = c
      BY <1>1, <1>4, <2>1, <2>8, CoRescales
    <3>2. bc \in Int /\ 1 <= bc /\ c <= Tiles /\ Start[c + 1] = sc + bc
      BY <1>1, <2>1, <2>8 DEF CoEnding, CoWhere
    <3>3. CASE i < co.st
      <4>1. c \in 0..Tiles
        BY <2>1, <3>2, TilesAre
      <4>2. Start[c + 1] <= PvDone(i)
        BY <1>1, <1>2, <1>4, <3>1, <3>3, <4>1, CommitsSay
      <4>3. ORescaled(i) = sc + bc + 1
        BY <3>1, <3>3 DEF If1
      <4> QED
        BY <1>2, <2>1, <3>2, <4>2, <4>3 DEF MmNumbers
    <3>4. CASE ~(i < co.st)
      <4>1. ORescaled(i) = sc + bc
        BY <2>1, <3>1, <3>2, <3>4 DEF If1
      <4>2. sc + bc <= PBegun(i)
        BY <2>1, <2>3, <3>1, <3>2
      <4> QED
        BY <1>2, <2>1, <2>2, <3>2, <4>1, <4>2 DEF MmNumbers
    <3> QED
      BY <3>3, <3>4
  <2> QED
    BY <2>5, <2>6, <2>7, <2>8
<1> QED
  BY <1>3, <1>4

\* O is not rescaled past the tile behind the last whose O was waited for.
LEMMA OReach ==
    ASSUME HandInv, NEW i \in {0, 1}, ~Decoupled, NEW n \in 0..Tiles, Start[n + 1] <= ORescaled(i)
    PROVE  n <= OTaken(i) + 1
<1>1. CoWhere /\ CoPlace /\ Flows(i)
  BY HandPlaces, FlowsAre DEF HandInv, Places
<1>2. CoNumbers(i)
  BY <1>1 DEF Flows, CoShape
<1> SUFFICES ASSUME OTaken(i) + 2 <= n PROVE FALSE
  BY <1>2 DEF CoNumbers
<1>3. PICK c : c = co.t /\ c \in Int /\ 1 <= c /\ c <= Tiles + 1
  BY <1>1 DEF CoWhere
<1>4. c - 1 <= OTaken(i)
  BY <1>1, <1>3, CoRescales DEF CoIn, CoEnding
<1>5. c + 1 <= n /\ n \in Int /\ c <= Tiles /\ n <= Tiles /\ 0 <= n
  BY <1>2, <1>3, <1>4, TilesAre DEF CoNumbers
<1>6. Start[n + 1] \in Int
  <2>1. n + 1 \in 1..(Tiles + 1)
    BY <1>5, TilesAre
  <2> QED
    BY <2>1, StartIs
<1>7. /\ Start[c] \in Int /\ Blocks[c] \in Int /\ 1 <= Blocks[c] /\ c \in 1..Tiles
      /\ Start[c + 1] = Start[c] + Blocks[c]
  BY <1>3, <1>5, StartIs
\* The tile behind c's ends later than O was rescaled.
<1>8. /\ Start[c] + Blocks[c] + 1 <= Start[n + 1]
      /\ c + 2 <= n => Start[c] + Blocks[c] + 2 <= Start[n + 1]
  <2>1. c + 1 \in 1..Tiles /\ c + 1 \in 1..(Tiles + 1) /\ n + 1 \in 1..(Tiles + 1)
    BY <1>3, <1>5, TilesAre
  <2>2. Blocks[c + 1] \in Int /\ 1 <= Blocks[c + 1] /\ Start[c + 1] + Blocks[c + 1] <= Start[n + 1]
    <3>1. c + 1 < n + 1
      BY <1>3, <1>5
    <3> QED
      BY <2>1, <3>1, StartIs, StartGrows
  <2>3. ASSUME c + 2 <= n PROVE Start[c] + Blocks[c] + 2 <= Start[n + 1]
    <3>1. c + 2 \in 1..Tiles /\ c + 2 \in 1..(Tiles + 1) /\ c + 2 < n + 1 /\ (c + 1) + 1 = c + 2
      BY <1>3, <1>5, <2>3, TilesAre
    <3>2. Start[c + 2] + Blocks[c + 2] <= Start[n + 1] /\ Blocks[c + 2] \in Int /\ 1 <= Blocks[c + 2]
      BY <2>1, <3>1, StartIs, StartGrows
    <3>3. Start[c + 2] = Start[c + 1] + Blocks[c + 1] /\ Start[c + 2] \in Int
      BY <2>1, <3>1, StartIs
    <3> QED
      BY <1>6, <1>7, <2>2, <3>2, <3>3
  <2> QED
    BY <1>6, <1>7, <2>2, <2>3
<1>9. ORescaled(i) <= Start[c] + Blocks[c] + (IF OTaken(i) = c - 1 THEN 0 ELSE 1)
  <2>1. co.st \in {0, 1} /\ co.k \in Int /\ (CoEnding => CoIn)
    BY <1>1 DEF CoWhere, CoEnding, CoIn
  <2>2. CASE ~CoIn
    <3>1. 0 <= Start[c] /\ (co.at = "start" => c = 1)
      <4>1. Apart(c, c)
        BY <1>7, TilesApart, TilesAre
      <4> QED
        BY <1>1, <1>3, <4>1 DEF Apart, CoPlace
    <3> QED
      BY <1>1, <1>3, <1>7, <2>2, <3>1, CoRescales
  <2>3. CASE CoIn /\ ~CoEnding
    <3>1. ORescaled(i) = Start[c] + co.k - 1 + If1(i < co.st) /\ co.k <= Blocks[c]
      BY <1>1, <1>3, <2>3, CoRescales
    <3> QED
      BY <1>7, <2>1, <3>1 DEF If1
  <2>4. CASE CoEnding
    <3>1. ORescaled(i) = Start[c] + Blocks[c] + If1(i < co.st) /\ (i < co.st => OTaken(i) = c)
      BY <1>1, <1>3, <2>4, CoRescales
    <3> QED
      BY <1>3, <1>7, <2>1, <3>1 DEF If1
  <2> QED
    BY <2>2, <2>3, <2>4
<1> QED
  BY <1>2, <1>3, <1>4, <1>5, <1>6, <1>7, <1>8, <1>9 DEF CoNumbers

\* O is committed one ahead of the waits for it at most.
LEMMA OCommitsBound == ASSUME HandInv, NEW i \in {0, 1} PROVE OCommits(i) <= OTaken(i) + 1
<1>1. SmWhere(i) /\ CoWhere /\ CoPlace /\ MmHere /\ Flows(i) /\ MmShape
  BY HandPlaces, FlowsAre DEF HandInv, Places
<1>2. SmNumbers(i) /\ CoNumbers(i) /\ MmNumbers(i) /\ PvDone(i) <= ORescaled(i)
  <2>1. SmNumbers(i) /\ CoNumbers(i) /\ MmNumbers(i) /\ PvDone(i) <= PvBegun(i) /\ PvBegun(i) <= ORescaled(i)
    BY <1>1 DEF Flows, SmShape, CoShape, MmShape
  <2> QED
    BY <2>1 DEF CoNumbers, MmNumbers
<1>3. CASE Decoupled
  <2>1. ORescaled(i) <= OTaken(i) + 1 /\ OCommits(i) = PvDone(i)
    BY <1>1, <1>3 DEF Flows, CoShape, MmShape
  <2> QED
    BY <1>2, <2>1 DEF CoNumbers, MmNumbers
<1>4. CASE ~Decoupled
  <2>1. PICK n \in Int : n = OCommits(i)
    BY <1>2 DEF MmNumbers
  <2>2. n \in 0..Tiles
    <3>1. mm.t \in 1..(Tiles + 1) /\ mm.t \in Int /\ (Last => mm.t \in 1..Tiles)
      <4>1. MmWhere /\ MmStarts
        BY <1>1, MmIsSomewhere, MmStartsIs DEF MmHere
      <4> QED
        BY <4>1 DEF MmStarts, MmWhere, Last, Tile, Tiles
    <3> QED
      BY <1>4, <2>1, <3>1, TilesAre DEF OCommits, If1
  <2>3. Start[n + 1] <= ORescaled(i)
    <3>1. Start[n + 1] <= PvDone(i)
      BY <1>1, <1>4, <2>1, <2>2, CommitsSay
    <3>2. n + 1 \in 1..(Tiles + 1)
      BY <2>2, TilesAre
    <3> QED
      BY <1>2, <3>1, <3>2, StartIs DEF MmNumbers, CoNumbers
  <2> QED
    BY <1>4, <2>1, <2>2, <2>3, OReach
<1> QED
  BY <1>3, <1>4

\* How far any role is ahead of the one it hands to.
Ahead(i) ==
    /\ QksIssued(i) <= SLoaded(i) + 1
    /\ QuantQK => QksLet(1 - i) <= QksIssued(i) + 1
    /\ P2Stored(i) <= PvDone(i) + 2
    /\ Done("P_full_O", i) <= PvBegun(i) + 1
    /\ OCommits(i) <= OTaken(i) + 1
    /\ ScalesOut(i) <= ScalesTaken(i) + 1
    /\ ScalesBack(i) <= ScalesFree(i)
    /\ ~CorrStoresO => OWritten(i) <= EpRead(i) + 1 /\ EpFreed(i) <= BuffersHad(i)

\* What was waited for was committed.
LEMMA Committals ==
    ASSUME HandInv, NEW i \in {0, 1}
    PROVE  SLoaded(i) <= QksIssued(i) /\ OTaken(i) <= OCommits(i)
<1>1. Flows(i) /\ SmNumbers(i) /\ CoNumbers(i) /\ MmNumbers(i)
  BY FlowsAre DEF Flows, SmShape, CoShape, MmShape
<1>2. PICK d, l : d = If1(Committed(<<"S_full", i>>)) /\ d \in {0, 1} /\ l = Done("S_full", i)
  BY DEF If1
<1>3. l \in Int /\ SLoaded(i) <= l /\ l = QksIssued(i) - d
  BY <1>1, <1>2 DEF Flows
<1>4. PICK e, o : e = If1(Committed(<<"O_full", i>>)) /\ e \in {0, 1} /\ o = Done("O_full", i)
  BY DEF If1
<1>5. o \in Int /\ OTaken(i) <= o /\ o = OCommits(i) - e
  BY <1>1, <1>4 DEF Flows
<1> QED
  BY <1>1, <1>2, <1>3, <1>4, <1>5 DEF SmNumbers, CoNumbers, MmNumbers

LEMMA AheadIs == ASSUME HandInv, NEW i \in {0, 1} PROVE Ahead(i)
<1>0. 1 - i \in {0, 1} /\ (i = 0 => 1 - i = 1) /\ (i = 1 => 1 - i = 0)
  OBVIOUS
<1>1. /\ Flows(i) /\ MmShape /\ Flows(1 - i)
      /\ SLoaded(i) <= QksIssued(i) /\ SLoaded(1 - i) <= QksIssued(1 - i)
  BY <1>0, FlowsAre, Committals
<1>2. /\ SmShape(i) /\ CoShape(i) /\ SmShape(1 - i) /\ EpShape(i)
      /\ SmNumbers(i) /\ CoNumbers(i) /\ MmNumbers(i) /\ SmNumbers(1 - i) /\ MmNumbers(1 - i)
  BY <1>0, <1>1 DEF Flows, SmShape, CoShape, MmShape
<1>3. /\ i = 0 => QksIssued(1 - i) <= QksIssued(i) /\ QksIssued(i) <= QksIssued(1 - i) + 1
      /\ i = 1 => QksIssued(i) <= QksIssued(1 - i) /\ QksIssued(1 - i) <= QksIssued(i) + 1
  BY <1>0, <1>1 DEF MmShape
<1>4. /\ SLoaded(i) <= QksLet(i) /\ QksLet(i) <= SLoaded(i) + 1 /\ (i = 0 => QksLet(i) = SLoaded(i))
      /\ QksLet(1 - i) <= SLoaded(1 - i) + 1 /\ (i = 1 => QksLet(1 - i) = SLoaded(1 - i))
  BY <1>0, <1>2 DEF SmShape
<1>5. QksIssued(i) <= SLoaded(i) + 1
  <2>1. CASE QuantQK
    <3>1. QksIssued(i) <= QksLet(1 - i) /\ QksIssued(1 - i) <= QksLet(i)
      <4>1. 1 - (1 - i) = i
        BY StageOther, <1>0
      <4> QED
        BY <1>1, <2>1, <4>1 DEF Flows
    <3> QED
      BY <1>2, <1>3, <1>4, <3>1 DEF SmNumbers, MmNumbers
  <2>2. CASE ~QuantQK
    <3>1. ~Decoupled
      BY <2>2, ConfigAssumption
    <3>2. QksIssued(i) <= PvDone(i) + 1
      BY <1>1, <3>1 DEF MmShape
    <3>3. PvDone(i) <= P2Stored(i)
      BY <1>1 DEF Flows
    <3>4. P2Stored(i) <= SLoaded(i)
      BY <1>2 DEF SmShape, SmNumbers
    <3> QED
      BY <1>2, <3>2, <3>3, <3>4 DEF SmNumbers, MmNumbers
  <2> QED
    BY <2>1, <2>2
<1>6. QuantQK => QksLet(1 - i) <= QksIssued(i) + 1
  BY <1>0, <1>1, <1>2, <1>3, <1>4 DEF SmNumbers, MmNumbers
<1>7. P2Stored(i) <= PvDone(i) + 2
  <2>1. P2Stored(i) <= SLoaded(i) /\ QksIssued(i) <= PvDone(i) + 2
    BY <1>1, <1>2 DEF SmShape, SmNumbers, MmShape
  <2> QED
    BY <1>1, <1>2, <2>1 DEF SmNumbers, MmNumbers
<1>8. Done("P_full_O", i) <= PvBegun(i) + 1
  <2>1. PStored(i) <= SLoaded(i) /\ SLoaded(i) <= ORescaled(i) + 1 /\ ORescaled(i) <= PvBegun(i) + 1
    BY <1>2, SLoadedBound, ORescaledBound DEF SmShape, SmNumbers
  <2>2. PICK d : d = Done("P_full_O", i) /\ d \in Int /\ 2 * d <= PStored(i) + ORescaled(i)
    BY <1>1 DEF Flows
  <2> QED
    BY <1>2, <2>1, <2>2 DEF SmNumbers, CoNumbers, MmNumbers
<1>9. OCommits(i) <= OTaken(i) + 1
  BY OCommitsBound
<1>10. ScalesOut(i) <= ScalesTaken(i) + 1 /\ ScalesBack(i) <= ScalesFree(i)
  <2>1. /\ ScalesOut(i) <= ScalesFree(i) /\ ScalesFree(i) <= ScalesBack(i) + 1
        /\ ScalesBack(i) <= ScalesTaken(i) /\ ScalesTaken(i) <= ScalesOut(i)
    BY <1>1, <1>2 DEF Flows, SmShape, CoShape
  <2> QED
    BY <1>2, <2>1 DEF SmNumbers, CoNumbers
<1>11. ~CorrStoresO => OWritten(i) <= EpRead(i) + 1 /\ EpFreed(i) <= BuffersHad(i)
  <2> SUFFICES ASSUME ~CorrStoresO PROVE OWritten(i) <= EpRead(i) + 1 /\ EpFreed(i) <= BuffersHad(i)
    OBVIOUS
  <2>1. /\ EpRead(i) <= OWritten(i) /\ BuffersHad(i) <= EpFreed(i) + 1
        /\ EpFreed(i) <= EpRead(i) /\ OWritten(i) <= BuffersHad(i)
    BY <1>1, <1>2 DEF Flows, EpShape, CoShape
  <2> QED
    BY <1>2, <2>1 DEF CoNumbers, EpShape
<1> QED
  BY <1>5, <1>6, <1>7, <1>8, <1>9, <1>10, <1>11 DEF Ahead

\* What the accounts say of one barrier.
LEMMA HandFacts ==
    ASSUME HandInv, NEW b \in HandBarrier
    PROVE  /\ bar[b].seen = Waited(b) /\ Waited(b) \in Int /\ Given(b) \in Int
           /\ bar[b].done \in Nat /\ Waited(b) <= bar[b].done + Free(b)
           /\ b[1] \notin {"P_full_O", "dealloc"} =>
                  /\ bar[b].done <= Given(b)
                  /\ Committed(b) => bar[b].done = Given(b) - 1
<1>1. BarType /\ BarOK /\ Numbers
  BY HandPlaces
<1>2. bar[b].seen = Waited(b) /\ Waited(b) \in Int /\ Given(b) \in Int
  BY <1>1 DEF HandInv, Counted, Numbers
<1>3. bar[b].done \in Nat /\ bar[b].seen <= bar[b].done + Free(b)
  BY <1>1, HandNumbers, HandBarriersAre DEF HandInv, NotBehind
<1>4. ASSUME b[1] \notin {"P_full_O", "dealloc"}
      PROVE  bar[b].done <= Given(b) /\ (Committed(b) => bar[b].done = Given(b) - 1)
  <2>1. bar[b].done = Given(b) - If1(Committed(b))
    BY <1>1, <1>4, HandNumbers DEF HandInv, Counted
  <2> QED
    BY <1>2, <1>3, <2>1 DEF If1
<1> QED
  BY <1>2, <1>3, <1>4

LEMMA DeallocWindow == ASSUME HandInv PROVE Window(<<"dealloc", 0>>)
<1>1. PICK b \in HandBarrier : b = <<"dealloc", 0>> /\ b \in Barrier /\ b[1] = "dealloc"
  BY HandBarriersAre
<1>2. bar[b].seen = Waited(b) /\ bar[b].done \in Nat /\ Waited(b) <= bar[b].done + Free(b)
  BY HandFacts
<1>3. Waited(b) = If1(mm.at = "end") /\ Free(b) = 0
  BY <1>1, AccountsAre DEF Free, StartsFree, If1
<1>4. Arrivals(b) = If1(sm[0].at = "end") + If1(sm[1].at = "end") + If1(co.at = "end")
  <2>1. ~Committed(b) /\ Given(b) \in Int
    <3>1. TcApart
      BY DEF HandInv, OperandInv, MmInv
    <3> QED
      BY <1>1, <3>1, CommitsAre, HandFacts
  <2>2. Given(b) = If1(sm[0].at = "end") + If1(sm[1].at = "end") + If1(co.at = "end")
    BY <1>1, AccountsAre
  <2>3. Arrivals(b) = Given(b) - If1(Committed(b))
    BY DEF HandInv, Counted
  <2> QED
    BY <2>1, <2>2, <2>3 DEF If1
<1>5. Count(b) = 3 /\ bar[b].left \in 1..3
  <2>1. Count(b) = 3
    BY <1>1 DEF Count
  <2> QED
    BY <1>1, <2>1, HandPlaces DEF BarOK
<1>6. 3 * bar[b].done + 3 - bar[b].left <= 3
  <2>1. Arrivals(b) = 3 * bar[b].done + 3 - bar[b].left
    BY <1>5 DEF Arrivals
  <2> QED
    BY <1>2, <1>4, <1>5, <2>1 DEF If1
<1>7. bar[b].done \in {0, 1} /\ bar[b].seen <= bar[b].done /\ bar[b].seen \in {0, 1}
  BY <1>2, <1>3, <1>5, <1>6 DEF If1
<1>8. bar[b].done - bar[b].seen \in {0, 1}
  BY <1>7
<1> QED
  BY <1>1, <1>8 DEF Window, StartsFree

\* No wait can take one phase for another.
LEMMA WindowsHold == ASSUME HandInv PROVE Windows
<1> SUFFICES ASSUME NEW b \in HandBarrier PROVE Window(b)
  BY DEF Windows
<1>0. PICK d, n, g, f : d = bar[b].done /\ n = Waited(b) /\ g = Given(b) /\ f = Free(b)
  OBVIOUS
<1>1. bar[b].seen = n /\ n \in Int /\ g \in Int /\ d \in Int /\ n <= d + f
  BY <1>0, HandFacts
<1>6. b[1] \notin {"P_full_O", "dealloc"} => d <= g
  BY <1>0, HandFacts
<1>2. b[1] = "sfqk" => QuantQK
  BY DEF HandBarrier, HandNames, Unwaited
<1>3. b[1] \in {"epi_full", "epi_empty"} => ~CorrStoresO
  BY DEF HandBarrier, HandNames, Unwaited
<1>4. CASE b = <<"dealloc", 0>>
  BY <1>4, DeallocWindow
<1>5. ASSUME NEW i \in Stage, Named(b, i) PROVE Window(b)
  <2>1. i \in {0, 1} /\ Ahead(i)
    BY AheadIs, StageIs
  <2>2. CASE b = <<"P_full_O", i>>
    <3>1. d <= n + 1 /\ b[1] = "P_full_O"
      BY <1>0, <2>1, <2>2, AccountsAre DEF Ahead, Done
    <3>2. f = 0
      BY <1>0, <3>1 DEF Free, StartsFree, If1
    <3>3. d - n \in {0, 1}
      BY <1>1, <3>1, <3>2
    <3> QED
      BY <1>0, <1>1, <3>1, <3>3 DEF Window, StartsFree
  <2>3. CASE b[1] \in {"S_full", "O_full", "corr_full", "sfqk", "epi_full"}
    <3>1. g <= n + 1
      BY <1>0, <1>2, <1>3, <1>5, <2>1, <2>3, AccountsAre DEF Ahead, Named
    <3>2. f = 0 /\ d <= g
      BY <1>0, <1>6, <2>3 DEF Free, StartsFree, If1
    <3>3. d - n \in {0, 1}
      BY <1>1, <3>1, <3>2
    <3> QED
      BY <1>0, <1>1, <2>3, <3>3 DEF Window, StartsFree
  <2>4. CASE b[1] \in {"corr_empty", "epi_empty"}
    <3>1. g <= n
      BY <1>0, <1>3, <1>5, <2>1, <2>4, AccountsAre DEF Ahead, Named
    <3>2. f = 1 /\ d <= g
      BY <1>0, <1>6, <2>4 DEF Free, StartsFree, If1
    <3>3. d - n \in {-1, 0}
      BY <1>1, <3>1, <3>2
    <3> QED
      BY <1>0, <1>1, <2>4, <3>3 DEF Window, StartsFree
  <2>5. CASE b = <<"P_full_2", i>>
    <3>1. g <= n + 2 /\ b[1] = "P_full_2"
      BY <1>0, <2>1, <2>5, AccountsAre DEF Ahead
    <3>2. f = 0 /\ d <= g
      BY <1>0, <1>6, <3>1 DEF Free, StartsFree, If1
    <3>3. d - n \in {0, 1, 2}
      BY <1>1, <3>1, <3>2
    <3> QED
      BY <1>0, <1>1, <3>1, <3>3 DEF Window, StartsFree
  <2> QED
    BY <1>5, <2>2, <2>3, <2>4, <2>5 DEF Named
<1> QED
  BY <1>4, <1>5, HandBarrierIs

-----------------------------------------------------------------------------
(* Every step keeps the accounts: the roles that issue nothing.            *)

Rest == Places /\ Counted /\ CommitsOnce /\ NotBehind(HandNames \cup {"dealloc"}) /\ PvBehind

LEMMA RestIs == HandInv <=> OperandInv /\ Covered /\ Rest
BY DEF HandInv, Rest

\* The barriers of the accounts, after a step that issues nothing.
LEMMA QuietStep ==
    ASSUME HandInv, NEW w, NEW a, Moves(w, a), Accounts(w, a, {}), InTurn(w), \A b \in w : b \in Barrier,
           UNCHANGED tc
    PROVE  Counted' /\ CommitsOnce' /\ NotBehind(HandNames \cup {"dealloc"})'
<1>1. BarType /\ BarOK /\ Counted /\ Numbers /\ Windows /\ NotBehind(HandNames \cup {"dealloc"}) /\ CommitsOnce
  BY HandPlaces, WindowsHold DEF HandInv
<1>2. PICK sig : sig = {}
  OBVIOUS
<1>3. \A b \in HandBarrier : (Committed(b)' <=> Committed(b) \/ b \in sig) /\ ~(Committed(b) /\ b \in sig)
  BY <1>2 DEF Committed
<1>4. Accounts(w, a, sig)
  BY <1>2
<1>5. Counted'
  BY <1>1, <1>3, <1>4, AccountsKept
<1>6. CommitsOnce'
  BY <1>1 DEF CommitsOnce
<1> QED
  BY <1>1, <1>5, <1>6, TurnsKept

\* A step that begins no PV.
LEMMA PvBehindKept ==
    ASSUME HandInv, NEW w, NEW a, Moves(w, a),
           \A i \in {0, 1} : /\ PvBegun(i)' = PvBegun(i) /\ PStored(i) <= PStored(i)' /\ ORescaled(i) <= ORescaled(i)'
                             /\ PStored(i)' \in Int /\ ORescaled(i)' \in Int /\ PBegun(i)' \in Int
                             /\ \/ PBegun(i)' = PBegun(i)
                                \/ Decoupled /\ PvBeforeNextP => PBegun(i)' <= Done("O_full", i) + 1
    PROVE  PvBehind'
<1> SUFFICES ASSUME NEW i \in Stage
             PROVE  /\ PvBegun(i)' <= PStored(i)' /\ PvBegun(i)' <= ORescaled(i)'
                    /\ Decoupled /\ PvBeforeNextP => PBegun(i)' <= Done("O_full", i)' + 1
  BY DEF PvBehind
<1>1. i \in {0, 1} /\ SmNumbers(i) /\ CoNumbers(i) /\ MmNumbers(i)
  BY StageIs, HandPlaces DEF AllNumbers
<1>2. PvBegun(i) <= PStored(i) /\ PvBegun(i) <= ORescaled(i)
      /\ (Decoupled /\ PvBeforeNextP => PBegun(i) <= Done("O_full", i) + 1)
  BY DEF HandInv, PvBehind
<1>3. Done("O_full", i) <= Done("O_full", i)' /\ Done("O_full", i) \in Int /\ Done("O_full", i)' \in Int
  <2>1. <<"O_full", i>> \in HandBarrier /\ <<"O_full", i>> \in Barrier
    BY HandBarriersAre
  <2>2. bar'[<<"O_full", i>>] \in BarRecord /\ bar[<<"O_full", i>>].done <= bar'[<<"O_full", i>>].done
    BY <2>1 DEF Moves
  <2> QED
    BY <2>1, <2>2, HandFacts DEF Done, BarRecord
<1>4. Decoupled /\ PvBeforeNextP => PBegun(i)' <= Done("O_full", i)' + 1
  <2> SUFFICES ASSUME Decoupled /\ PvBeforeNextP PROVE PBegun(i)' <= Done("O_full", i)' + 1
    OBVIOUS
  <2>1. PICK p \in Int : p = PBegun(i)' /\ p <= Done("O_full", i) + 1
    BY <1>1, <1>2
  <2> QED
    BY <1>1, <1>3, <2>1 DEF SmNumbers
<1> QED
  BY <1>1, <1>2, <1>4 DEF SmNumbers, CoNumbers, MmNumbers

LEMMA SoftmaxRest == ASSUME HandInv, NEW i \in Stage, Softmax(i) PROVE Rest'
<1>0. i \in {0, 1} /\ 1 - i \in {0, 1} /\ \A j \in {0, 1} : j = i \/ j = 1 - i
  BY StageIs
<1>1. SmHere(i) /\ AllNumbers
  BY HandPlaces DEF SmHere, HandInv, OperandInv, Types, Places
<1>2. PICK w, a : SmStep(i, w, a)
  BY <1>1, SoftmaxStep
<1>3. Accounts(w, a, {}) /\ Moves(w, a) /\ InTurn(w) /\ UNCHANGED <<tc, mm, co, ep>> /\ sm'[1 - i] = sm[1 - i]
  BY <1>1, <1>2, SmAccounts DEF SmStep
<1>4. \A b \in w : b \in Barrier
  BY <1>2, HandBarriersAre DEF SmStep
<1>5. Counted' /\ CommitsOnce' /\ NotBehind(HandNames \cup {"dealloc"})'
  BY <1>3, <1>4, QuietStep
<1>6. Places'
  <2>1. SmPlace(1 - i)' /\ SmBits(1 - i)'
    BY <1>0, <1>3, StageIs, SmSame DEF HandInv, Places
  <2>2. SmPlace(i)' /\ SmBits(i)'
    BY <1>2 DEF SmStep
  <2>3. \A j \in Stage : SmPlace(j)' /\ SmBits(j)'
    <3> SUFFICES ASSUME NEW j \in Stage PROVE SmPlace(j)' /\ SmBits(j)'
      OBVIOUS
    <3>1. j = i \/ j = 1 - i
      BY <1>0, StageIs
    <3> QED
      BY <2>1, <2>2, <3>1
  <2>4. CoPlace' /\ CoBits' /\ MmBits' /\ EpPlace'
    BY <1>3, CoSame, MmSame, EpSame DEF HandInv, Places, EpPlace
  <2> QED
    BY <2>3, <2>4 DEF Places, EpPlace
<1>7. PvBehind'
  <2>1. ASSUME NEW j \in {0, 1}
        PROVE  /\ PvBegun(j)' = PvBegun(j) /\ PStored(j) <= PStored(j)' /\ ORescaled(j) <= ORescaled(j)'
               /\ PStored(j)' \in Int /\ ORescaled(j)' \in Int /\ PBegun(j)' \in Int
               /\ \/ PBegun(j)' = PBegun(j)
                  \/ Decoupled /\ PvBeforeNextP => PBegun(j)' <= Done("O_full", j) + 1
    <3>1. SmNumbers(j) /\ CoNumbers(j) /\ MmNumbers(j)
      BY <1>1 DEF AllNumbers
    <3>2. PvBegun(j)' = PvBegun(j) /\ ORescaled(j)' = ORescaled(j)
      BY <1>3, CoSame, MmSame
    <3>3. CASE j = 1 - i
      BY <1>3, <3>1, <3>2, <3>3, SmSame DEF SmNumbers, CoNumbers
    <3>4. CASE j = i
      <4>1. PStored(j)' = PStored(j) + If1(<<"P_full_O", j>> \in a)
        BY <1>2, <3>4 DEF SmStep, SmDelta
      <4>2. PStored(j) <= PStored(j)' /\ PStored(j)' \in Int
        BY <3>1, <4>1 DEF SmNumbers, If1
      <4>3. PBegun(j)' = PBegun(j) \/ (PBegun(j)' = SLoaded(j) /\ (PvBeforeNextP => PreviousPvOver(j)))
        BY <1>2, <3>4 DEF SmStep
      <4>4. PBegun(j)' \in Int
        BY <3>1, <4>3 DEF SmNumbers
      <4>5. ASSUME PBegun(j)' = SLoaded(j), PvBeforeNextP, PreviousPvOver(j)
            PROVE  PBegun(j)' <= Done("O_full", j) + 1
        <5>1. <<"S_full", j>> \in HandBarrier /\ <<"O_full", j>> \in HandBarrier
          BY <3>4, HandBarriersAre
        <5>2. bar[<<"S_full", j>>].seen = SLoaded(j) /\ bar[<<"O_full", j>>].done \in Int
          BY <5>1, HandFacts, AccountsAre
        <5>3. SLoaded(j) <= bar[<<"O_full", j>>].done + 1
          BY <3>1, <4>5, <5>2 DEF PreviousPvOver, SmNumbers
        <5> QED
          BY <4>5, <5>3 DEF Done
      <4> QED
        BY <3>1, <3>2, <4>2, <4>3, <4>4, <4>5 DEF CoNumbers
    <3> QED
      BY <1>0, <3>3, <3>4
  <2> QED
    BY <1>3, <2>1, PvBehindKept
<1> QED
  BY <1>5, <1>6, <1>7 DEF Rest

LEMMA CorrectionRest == ASSUME HandInv, Correction PROVE Rest'
<1>1. CoHere /\ AllNumbers
  BY HandPlaces DEF CoHere, HandInv, OperandInv, Types, Places
<1>2. PICK w, a : CoStep(w, a)
  BY <1>1, CorrectionStep
<1>3. Accounts(w, a, {}) /\ Moves(w, a) /\ InTurn(w) /\ UNCHANGED <<tc, mm, sm, ep>>
  BY <1>1, <1>2, CoAccounts DEF CoStep
<1>4. \A b \in w : b \in Barrier
  <2>1. w \subseteq {"corr_full", "O_full", "epi_empty"} \X Stage
    BY <1>2 DEF CoStep
  <2> QED
    BY <2>1 DEF Barrier, StagedBarrier
<1>5. Counted' /\ CommitsOnce' /\ NotBehind(HandNames \cup {"dealloc"})'
  BY <1>3, <1>4, QuietStep
<1>6. Places'
  <2>1. \A j \in Stage : SmPlace(j)' /\ SmBits(j)'
    BY <1>3, StageIs, SmSame DEF HandInv, Places
  <2>2. CoPlace' /\ CoBits'
    BY <1>2 DEF CoStep
  <2>3. MmBits' /\ EpPlace'
    BY <1>3, MmSame, EpSame DEF HandInv, Places, EpPlace
  <2> QED
    BY <2>1, <2>2, <2>3 DEF Places, EpPlace
<1>7. PvBehind'
  <2>1. ASSUME NEW j \in {0, 1}
        PROVE  /\ PvBegun(j)' = PvBegun(j) /\ PStored(j) <= PStored(j)' /\ ORescaled(j) <= ORescaled(j)'
               /\ PStored(j)' \in Int /\ ORescaled(j)' \in Int /\ PBegun(j)' \in Int
               /\ PBegun(j)' = PBegun(j)
    <3>1. SmNumbers(j) /\ CoNumbers(j) /\ MmNumbers(j)
      BY <1>1 DEF AllNumbers
    <3>2. PvBegun(j)' = PvBegun(j) /\ PStored(j)' = PStored(j) /\ PBegun(j)' = PBegun(j)
      BY <1>3, SmSame, MmSame
    <3>3. ORescaled(j)' = ORescaled(j) + If1(<<"P_full_O", j>> \in a)
      BY <1>2 DEF CoStep, CoDelta
    <3> QED
      BY <3>1, <3>2, <3>3 DEF SmNumbers, CoNumbers, If1
  <2> QED
    BY <1>3, <2>1, PvBehindKept
<1> QED
  BY <1>5, <1>6, <1>7 DEF Rest

LEMMA EpilogueRest == ASSUME HandInv, Epilogue PROVE Rest'
<1>1. EpHere /\ AllNumbers
  BY HandPlaces DEF EpHere, HandInv, OperandInv, Types, Places, EpPlace
<1>2. PICK w, a : EpStep(w, a)
  BY <1>1, EpilogueStep
<1>3. Accounts(w, a, {}) /\ Moves(w, a) /\ InTurn(w) /\ UNCHANGED <<tc, mm, sm, co>>
  BY <1>1, <1>2, EpAccounts DEF EpStep
<1>4. \A b \in w : b \in Barrier
  <2>1. w \subseteq {"epi_full"} \X Stage
    BY <1>2 DEF EpStep
  <2> QED
    BY <2>1 DEF Barrier, StagedBarrier
<1>5. Counted' /\ CommitsOnce' /\ NotBehind(HandNames \cup {"dealloc"})'
  BY <1>3, <1>4, QuietStep
<1>6. Places'
  <2>1. \A j \in Stage : SmPlace(j)' /\ SmBits(j)'
    BY <1>3, StageIs, SmSame DEF HandInv, Places
  <2>2. CoPlace' /\ CoBits' /\ MmBits'
    BY <1>3, CoSame, MmSame DEF HandInv, Places
  <2>3. EpPlace'
    BY <1>2 DEF EpStep
  <2> QED
    BY <2>1, <2>2, <2>3 DEF Places, EpPlace
<1>7. PvBehind'
  <2>1. \A j \in {0, 1} :
           /\ PvBegun(j)' = PvBegun(j) /\ PStored(j) <= PStored(j)' /\ ORescaled(j) <= ORescaled(j)'
           /\ PStored(j)' \in Int /\ ORescaled(j)' \in Int /\ PBegun(j)' \in Int
           /\ PBegun(j)' = PBegun(j)
    BY <1>1, <1>3, CoSame, SmSame, MmSame DEF AllNumbers, SmNumbers, CoNumbers
  <2> QED
    BY <1>3, <2>1, PvBehindKept
<1> QED
  BY <1>5, <1>6, <1>7 DEF Rest

\* Nothing that is counted moves.
LEMMA StillAccounts ==
    ASSUME AllNumbers, Numbers, UNCHANGED <<mm, sm, co, ep>>, NEW w, NEW a,
           \A b \in HandBarrier : b \notin w /\ b \notin a
    PROVE  Accounts(w, a, {})
<1>1. \A i \in {0, 1} :
         /\ SLoaded(i)' = SLoaded(i) /\ PBegun(i)' = PBegun(i) /\ PStored(i)' = PStored(i)
         /\ P2Stored(i)' = P2Stored(i) /\ ScalesFree(i)' = ScalesFree(i) /\ ScalesOut(i)' = ScalesOut(i)
         /\ QksLet(i)' = QksLet(i) /\ If1(sm[i].at = "end")' = If1(sm[i].at = "end")
  BY SmSame
<1>2. \A i : /\ ScalesTaken(i)' = ScalesTaken(i) /\ ScalesBack(i)' = ScalesBack(i)
             /\ ORescaled(i)' = ORescaled(i) /\ OTaken(i)' = OTaken(i)
             /\ OWritten(i)' = OWritten(i) /\ BuffersHad(i)' = BuffersHad(i)
             /\ QksIssued(i)' = QksIssued(i) /\ PvDone(i)' = PvDone(i)
             /\ PvBegun(i)' = PvBegun(i) /\ OCommits(i)' = OCommits(i)
             /\ EpRead(i)' = EpRead(i) /\ EpFreed(i)' = EpFreed(i)
  BY CoSame, MmSame, EpSame
<1>3. If1(mm.at = "end")' = If1(mm.at = "end") /\ If1(co.at = "end")' = If1(co.at = "end")
  BY CoSame, MmSame
<1> SUFFICES ASSUME NEW b \in HandBarrier PROVE Waited(b)' = Waited(b) /\ Given(b)' = Given(b)
  <2>1. \A b \in HandBarrier : If1(b \in w) = 0 /\ If1(b \in a) = 0 /\ If1(b \in {}) = 0
    BY DEF If1
  <2> QED
    BY <2>1 DEF Accounts, Numbers, HandBarrier, HandNames, Unwaited
<1>4. CASE b = <<"dealloc", 0>>
  BY <1>1, <1>3, <1>4 DEF Waited, Given
<1>5. CASE \E i \in Stage : Named(b, i)
  <2>1. PICK i \in {0, 1} : Named(b, i) /\ 1 - i \in {0, 1}
    BY <1>5, StageIs
  <2>2. CASE b \in {<<"S_full", i>>, <<"P_full_O", i>>, <<"P_full_2", i>>, <<"O_full", i>>}
    BY <1>1, <1>2, <2>2 DEF Waited, Given
  <2>3. CASE b \in {<<"corr_full", i>>, <<"corr_empty", i>>, <<"sfqk", i>>}
    BY <1>1, <1>2, <2>1, <2>3 DEF Waited, Given
  <2>4. CASE b \in {<<"epi_full", i>>, <<"epi_empty", i>>}
    BY <1>1, <1>2, <2>4 DEF Waited, Given
  <2> QED
    BY <2>1, <2>2, <2>3, <2>4 DEF Named
<1> QED
  BY <1>4, <1>5, HandBarrierIs

LEMMA StillPlaces ==
    ASSUME HandInv, UNCHANGED <<mm, sm, co, ep>>, NEW w, NEW a, Moves(w, a) PROVE Places' /\ PvBehind'
<1>1. Places'
  <2>1. \A j \in Stage : SmPlace(j)' /\ SmBits(j)'
    BY StageIs, SmSame DEF HandInv, Places
  <2>2. CoPlace' /\ CoBits' /\ MmBits' /\ EpPlace'
    BY CoSame, MmSame, EpSame DEF HandInv, Places, EpPlace
  <2> QED
    BY <2>1, <2>2 DEF Places, EpPlace
<1>2. \A j \in {0, 1} :
         /\ PvBegun(j)' = PvBegun(j) /\ PStored(j) <= PStored(j)' /\ ORescaled(j) <= ORescaled(j)'
         /\ PStored(j)' \in Int /\ ORescaled(j)' \in Int /\ PBegun(j)' \in Int
         /\ PBegun(j)' = PBegun(j)
  BY CoSame, SmSame, MmSame, HandPlaces DEF AllNumbers, SmNumbers, CoNumbers
<1> QED
  BY <1>1, <1>2, PvBehindKept

\* Steps on barriers of Q and of the ring.
LEMMA AsideRest ==
    ASSUME HandInv, UNCHANGED <<tc, mm, sm, co, ep>>, NEW w, NEW a, Moves(w, a),
           \A b \in w \cup a : b[1] \in RingBarriers, \A b \in w : b \in Barrier
    PROVE  Rest'
<1>1. \A b \in HandBarrier : b \notin w /\ b \notin a
  BY HandBarriersAre
<1>2. Accounts(w, a, {})
  BY <1>1, StillAccounts, HandPlaces
<1>3. InTurn(w)
  BY <1>1 DEF InTurn
<1> QED
  BY <1>2, <1>3, QuietStep, StillPlaces DEF Rest

LEMMA LoadRest == ASSUME HandInv, Load PROVE Rest'
<1>1. BarType /\ BarOK
  BY HandPlaces
<1>2. CASE LoadQ
  <2>1. PICK i \in Stage : WaitThenArrive(<<"q_empty", i>>, ld.qPh, {})
    BY <1>2, StageIs DEF LoadQ
  <2>2. Moves({<<"q_empty", i>>}, {}) /\ <<"q_empty", i>> \in Barrier
    BY <1>1, <2>1, WaitMoves, NamesAre
  <2> QED
    BY <1>2, <2>2, AsideRest DEF LoadQ, RingBarriers
<1>3. CASE LoadKV
  <2>1. WaitThenArrive(<<"kv_empty", ld.idx>>, ld.ph, {}) /\ ld.idx \in Slot
    BY <1>3, HandPlaces DEF LoadKV, Types, LdType
  <2>2. Moves({<<"kv_empty", ld.idx>>}, {}) /\ <<"kv_empty", ld.idx>> \in Barrier
    BY <1>1, <2>1, WaitMoves, NamesAre
  <2> QED
    BY <1>3, <2>2, AsideRest DEF LoadKV, RingBarriers
<1> QED
  BY <1>2, <1>3 DEF Load

LEMMA TmaLandRest == ASSUME HandInv, TmaLand PROVE Rest'
<1>1. PICK a : Moves({}, a) /\ \A b \in a : b[1] \in LdGives
  BY TmaLandMoves DEF HandInv
<1>2. PICK w : w = {} /\ Moves(w, a)
  BY <1>1
<1>3. \A b \in w \cup a : b[1] \in RingBarriers
  BY <1>1, <1>2 DEF LdGives, RingBarriers
<1> QED
  BY <1>2, <1>3, AsideRest DEF TmaLand

LEMMA StillRest == ASSUME HandInv, UNCHANGED vars PROVE Rest'
<1>1. PICK w : w = {} /\ Moves(w, w)
  BY StillMoves, HandPlaces DEF vars
<1> QED
  BY <1>1, AsideRest DEF vars

\* The tensor core.
LEMMA TcStartRest == ASSUME HandInv, Types', TcStart PROVE Rest'
<1>1. PICK n : TcBegan(n)
  BY StartBegins, HandPlaces DEF Types
<1>2. (\A b : Committed(b)' <=> Committed(b)) /\ CommitsOnce'
  BY <1>1, BeganCommits DEF HandInv
<1>3. PICK w : w = {} /\ Moves(w, w)
  BY StillMoves, HandPlaces DEF TcStart
<1>4. Accounts(w, w, {}) /\ InTurn(w) /\ UNCHANGED <<mm, sm, co, ep>>
  <2>1. UNCHANGED <<mm, sm, co, ep>>
    BY DEF TcStart
  <2> QED
    BY <1>3, <2>1, StillAccounts, HandPlaces DEF InTurn
<1>5. Counted'
  <2>1. PICK sig : sig = {}
    OBVIOUS
  <2>2. \A b \in HandBarrier : (Committed(b)' <=> Committed(b) \/ b \in sig) /\ ~(Committed(b) /\ b \in sig)
    BY <1>2, <2>1
  <2>3. Accounts(w, w, sig)
    BY <1>4, <2>1
  <2> QED
    BY <1>3, <2>2, <2>3, AccountsKept, HandPlaces DEF HandInv
<1>6. NotBehind(HandNames \cup {"dealloc"})'
  BY <1>3, <1>4, TurnsKept, HandPlaces, WindowsHold DEF HandInv
<1> QED
  BY <1>2, <1>3, <1>4, <1>5, <1>6, StillPlaces DEF Rest

LEMMA TcFinishRest == ASSUME HandInv, Types', TcFinish PROVE Rest'
<1>1. PICK n : TcShrunk(n) /\ Arrive(tc[1].signals)
  BY FinishShrinks, HandPlaces DEF Types
<1>2. PICK w, a : w = {} /\ a = tc[1].signals /\ Moves(w, a)
  BY <1>1, ArriveMoves, HandPlaces
<1>3. UNCHANGED <<mm, sm, co, ep>>
  BY DEF TcFinish
<1>4. CommitsOnce'
  BY <1>1, ShrunkCommits DEF HandInv
<1>5. Counted'
  <2>1. Accounts({}, {}, {})
    BY <1>3, StillAccounts, HandPlaces
  <2> QED
    BY <1>1, <1>2, <2>1, FinishCounts, HandPlaces DEF HandInv
<1>6. NotBehind(HandNames \cup {"dealloc"})'
  <2>1. InTurn(w) /\ \A b \in w : b \in Barrier
    BY <1>2 DEF InTurn
  <2> QED
    BY <1>2, <2>1, TurnsKept, HandPlaces, WindowsHold DEF HandInv
<1> QED
  BY <1>2, <1>3, <1>4, <1>5, <1>6, StillPlaces DEF Rest

-----------------------------------------------------------------------------
(* The MMA warp: no commit is issued while one to its barrier is on the way. *)

LEMMA SFullNotTwice ==
    ASSUME HandInv, MmaIssueQK, NEW w, MmGo(w, QKSignals) PROVE ~Committed(<<"S_full", mm.st>>)
<1>0. MmHere /\ MmWhere /\ MmPlace /\ mm.st \in {0, 1} /\ mm.st \in Stage
  <2>1. MmHere /\ MmType
    BY HandPlaces DEF Types
  <2> QED
    BY <2>1, MmIsSomewhere, StageIs DEF MmHere, MmWhere
<1>1. PICK i \in {0, 1} : i = mm.st /\ i \in Stage
  BY <1>0
<1>2. PICK s \in HandBarrier : s = <<"S_full", i>> /\ s[1] = "S_full"
  BY <1>1, HandBarriersAre
<1> SUFFICES ASSUME Committed(s) PROVE FALSE
  BY <1>1, <1>2
<1>3. SLoaded(i) + 1 <= QksIssued(i)
  <2>1. bar[s].done = Given(s) - 1 /\ Waited(s) <= bar[s].done + Free(s) /\ bar[s].done \in Int
    BY <1>2, HandFacts
  <2>2. Waited(s) = SLoaded(i) /\ Given(s) = QksIssued(i) /\ Free(s) = 0
    BY <1>2, AccountsAre DEF Free, StartsFree, If1
  <2> QED
    BY <1>1, <2>1, <2>2, HandPlaces DEF AllNumbers, SmNumbers, MmNumbers
<1>4. /\ Flows(i) /\ Flows(1 - i) /\ MmShape /\ Ahead(1 - i) /\ 1 - i \in {0, 1} /\ 1 - (1 - i) = i
      /\ SLoaded(i) <= QksIssued(i) /\ SLoaded(1 - i) <= QksIssued(1 - i)
  <2>1. 1 - i \in {0, 1} /\ 1 - (1 - i) = i
    OBVIOUS
  <2> QED
    BY <2>1, FlowsAre, AheadIs, Committals
<1>5. SmNumbers(i) /\ SmNumbers(1 - i) /\ MmNumbers(i) /\ MmNumbers(1 - i)
  BY <1>4 DEF Flows, SmShape, MmShape
<1>6. CASE QuantQK
  <2>1. PICK q \in HandBarrier : q = <<"sfqk", i>> /\ q[1] = "sfqk"
    BY <1>1, <1>6, HandBarriersAre
  <2>2. q \in w
    BY <1>1, <1>6, <2>1, MmSignalsAre DEF MmGo, MmDelta, If1
  <2>3. bar[q].done = bar[q].seen + 1 - Free(q)
    BY <2>1, <2>2, TurnsTell, HandPlaces, WindowsHold DEF HandInv, MmGo
  <2>4. bar[q].seen = QksIssued(i) /\ Free(q) = 0 /\ bar[q].done = QksLet(1 - i)
    <3>1. bar[q].seen = QksIssued(i)
      BY <2>1, HandFacts, AccountsAre
    <3>2. bar[q].done = QksLet(1 - i)
      BY <1>4, <1>6, <2>1 DEF Flows, Done
    <3> QED
      BY <2>1, <3>1, <3>2 DEF Free, StartsFree, If1
  <2>5. QksLet(1 - i) = QksIssued(i) + 1
    BY <1>5, <2>3, <2>4 DEF MmNumbers
  <2>6. /\ i = 0 => QksIssued(1 - i) <= QksIssued(i) /\ QksIssued(i) <= QksIssued(1 - i) + 1
        /\ i = 1 => QksIssued(i) <= QksIssued(1 - i) /\ QksIssued(1 - i) <= QksIssued(i) + 1
    BY <1>4 DEF MmShape
  <2>7. /\ i = 0 => QksLet(i) = SLoaded(i)
        /\ i = 1 => QksLet(1 - i) = SLoaded(1 - i)
        /\ QksLet(1 - i) <= SLoaded(1 - i) + 1 /\ QksLet(i) <= SLoaded(i) + 1
        /\ QksIssued(1 - i) <= QksLet(i)
    <3>1. SmShape(i) /\ SmShape(1 - i) /\ QksIssued(1 - i) <= QksLet(1 - (1 - i))
      BY <1>4, <1>6 DEF Flows
    <3> QED
      BY <1>4, <3>1 DEF SmShape
  <2> QED
    BY <1>3, <1>4, <1>5, <2>5, <2>6, <2>7 DEF SmNumbers, MmNumbers
<1>7. CASE ~QuantQK
  <2>1. ~Decoupled
    BY <1>7, ConfigAssumption
  <2>2. mm.at = "qk" /\ ~Last
    BY <1>0 DEF MmaIssueQK, MmPlace, MmWhere, Last
  <2>3. QksIssued(i) = MmBlocks /\ PvDone(i) = MmBlocks /\ MmBlocks \in Int
    <3>1. MmBlocks \in Int
      BY <1>5 DEF MmNumbers
    <3> QED
      BY <1>1, <2>1, <2>2, <3>1 DEF QksIssued, PvDone, If1
  <2>4. PvDone(i) <= P2Stored(i)
    BY <1>4 DEF Flows
  <2>5. P2Stored(i) <= SLoaded(i)
    BY <1>4, <1>5 DEF Flows, SmShape, SmNumbers
  <2> QED
    BY <1>3, <1>5, <2>3, <2>4, <2>5 DEF SmNumbers
<1> QED
  BY <1>6, <1>7

LEMMA OFullNotTwice ==
    ASSUME HandInv, MmaIssuePV2, <<"O_full", mm.st>> \in PVSignals PROVE ~Committed(<<"O_full", mm.st>>)
<1>0. MmHere /\ MmWhere /\ MmStarts /\ MmPlace /\ mm.st \in {0, 1} /\ mm.st \in Stage
  <2>1. MmHere /\ MmType
    BY HandPlaces DEF Types
  <2> QED
    BY <2>1, MmIsSomewhere, MmStartsIs, StageIs DEF MmHere, MmWhere
<1>1. PICK i \in {0, 1} : i = mm.st /\ i \in Stage
  BY <1>0
<1>2. PICK s \in HandBarrier : s = <<"O_full", i>> /\ s[1] = "O_full"
  BY <1>1, HandBarriersAre
<1> SUFFICES ASSUME Committed(s) PROVE FALSE
  BY <1>1, <1>2
<1>3. Flows(i) /\ MmShape /\ MmNumbers(i) /\ CoNumbers(i)
  BY FlowsAre DEF Flows, MmShape, CoShape
<1>4. OTaken(i) + 1 <= OCommits(i)
  <2>1. bar[s].done = Given(s) - 1 /\ Waited(s) <= bar[s].done + Free(s) /\ bar[s].done \in Int
    BY <1>2, HandFacts
  <2>2. Waited(s) = OTaken(i) /\ Given(s) = OCommits(i) /\ Free(s) = 0
    BY <1>2, AccountsAre DEF Free, StartsFree, If1
  <2> QED
    BY <1>3, <2>1, <2>2 DEF CoNumbers, MmNumbers
<1>5. mm.at = "p2" /\ PvBegun(i) = PvDone(i) + 1 /\ PvBegun(i) <= ORescaled(i)
  <2>1. mm.at = "p2"
    BY DEF MmaIssuePV2
  <2>2. PvBegun(i) = PvDone(i) + 1
    BY <1>1, <1>3, <2>1 DEF PvBegun, If1
  <2> QED
    BY <1>3, <2>1, <2>2 DEF Flows
<1>6. CASE Decoupled
  <2>1. OCommits(i) = PvDone(i) /\ ORescaled(i) <= OTaken(i) + 1
    BY <1>3, <1>6 DEF MmShape, Flows, CoShape
  <2> QED
    BY <1>3, <1>4, <1>5, <2>1 DEF MmNumbers, CoNumbers
<1>7. CASE ~Decoupled
  <2>1. LastBlock
    BY <1>1, <1>7, MmSignalsAre
  <2>2. mm.t \in 1..Tiles /\ mm.t \in Int /\ mm.k = Blocks[mm.t] /\ mm.k # 0
    <3>1. ~MmOver
      BY <1>5 DEF MmOver
    <3> QED
      BY <1>0, <1>5, <2>1, <3>1 DEF MmPlace, MmWhere, LastBlock, N, Tile, Tiles
  <2>3. Start[mm.t + 1] = MmBlocks /\ MmBlocks \in Int
    BY <1>3, <2>2, StartIs DEF MmBlocks, MmNumbers
  <2>4. PvDone(i) = MmBlocks - 1
    BY <1>1, <1>5, <2>2, <2>3 DEF PvDone, If1
  <2>5. Start[mm.t + 1] <= ORescaled(i)
    BY <1>3, <1>5, <2>3, <2>4 DEF CoNumbers
  <2>6. mm.t <= OTaken(i) + 1
    <3>1. PICK n \in 0..Tiles : n = mm.t
      BY <2>2, TilesAre
    <3> QED
      BY <1>7, <2>5, <3>1, OReach
  <2>7. OCommits(i) = mm.t - 1
    BY <1>1, <1>7, <2>2 DEF OCommits, If1
  <2> QED
    BY <1>3, <1>4, <2>2, <2>6, <2>7 DEF CoNumbers
<1> QED
  BY <1>6, <1>7

\* A PV is let go by both the softmax warps and the correction warps.
LEMMA PvWaited ==
    ASSUME HandInv, NEW w, InTurn(w), NEW i \in {0, 1}, <<"P_full_O", i>> \in w
    PROVE  PvBegun(i) + 1 <= PStored(i) /\ PvBegun(i) + 1 <= ORescaled(i)
<1>1. /\ Flows(i) /\ SmShape(i) /\ SmNumbers(i) /\ CoNumbers(i) /\ MmNumbers(i)
      /\ BarType /\ BarOK /\ Counted /\ Numbers /\ Windows
  BY FlowsAre, HandPlaces, WindowsHold DEF Flows, HandInv, AllNumbers
<1>2. PICK b \in HandBarrier : b = <<"P_full_O", i>> /\ b[1] = "P_full_O"
  BY StageIs, HandBarriersAre
<1>3. bar[b].done = bar[b].seen + 1 - Free(b)
  BY <1>1, <1>2, TurnsTell
<1>4. bar[b].seen = PvBegun(i) /\ Free(b) = 0
  BY <1>2, HandFacts, AccountsAre DEF Free, StartsFree, If1
<1>5. PICK d : d = PvBegun(i) + 1 /\ d \in Int /\ 2 * d <= PStored(i) + ORescaled(i)
  <2>1. Done("P_full_O", i) = PvBegun(i) + 1
    BY <1>1, <1>2, <1>3, <1>4 DEF Done, MmNumbers
  <2> QED
    BY <1>1, <2>1 DEF Flows, MmNumbers
<1>6. PStored(i) <= ORescaled(i) + 1 /\ ORescaled(i) <= d
  <2>1. PStored(i) <= SLoaded(i) /\ SLoaded(i) <= ORescaled(i) + 1
    BY <1>1, SLoadedBound DEF SmShape, SmNumbers
  <2>2. ORescaled(i) <= d
    BY <1>1, <1>5, ORescaledBound
  <2> QED
    BY <1>1, <2>1, <2>2 DEF SmNumbers, CoNumbers
<1>7. PICK p, o : p = PStored(i) /\ o = ORescaled(i) /\ p \in Int /\ o \in Int
  BY <1>1 DEF SmNumbers, CoNumbers
<1>8. 2 * d <= p + o /\ p <= o + 1 /\ o <= d
  BY <1>5, <1>6, <1>7
<1> QED
  BY <1>5, <1>7, <1>8

\* The MMA warp's step, once its commits are known to be new.
LEMMA CommitRest ==
    ASSUME HandInv, NEW w, NEW sig, MmGo(w, sig), sig \subseteq CommitBarriers,
           \A b : Committed(b)' <=> Committed(b) \/ b \in sig, \A b \in sig : ~Committed(b), CommitsOnce'
    PROVE  Rest'
<1>1. BarType /\ BarOK /\ Counted /\ Numbers /\ Windows /\ AllNumbers /\ NotBehind(HandNames \cup {"dealloc"})
  BY HandPlaces, WindowsHold DEF HandInv
<1>2. Accounts(w, {}, sig) /\ Moves(w, {}) /\ InTurn(w) /\ UNCHANGED <<sm, co, ep>> /\ MmDelta(w, sig) /\ MmBits'
  BY <1>1, MmAccounts DEF MmGo
<1>3. PICK a : a = {} /\ Accounts(w, a, sig) /\ Moves(w, a)
  BY <1>2
<1>4. Counted'
  <2>1. \A b \in HandBarrier : (Committed(b)' <=> Committed(b) \/ b \in sig) /\ ~(Committed(b) /\ b \in sig)
    OBVIOUS
  <2> QED
    BY <1>1, <1>3, <2>1, AccountsKept
<1>5. NotBehind(HandNames \cup {"dealloc"})'
  <2>1. \A b \in w : b \in Barrier
    <3>1. w \subseteq ({"q_full", "P_full_O", "P_full_2", "sfqk"} \X Stage) \cup ({"kv_full"} \X Slot)
                      \cup {<<"dealloc", 0>>}
      BY DEF MmGo
    <3> QED
      BY <3>1 DEF Barrier, StagedBarrier
  <2> QED
    BY <1>1, <1>2, <1>3, <2>1, TurnsKept
<1>6. Places'
  <2>1. \A j \in Stage : SmPlace(j)' /\ SmBits(j)'
    BY <1>2, StageIs, SmSame DEF HandInv, Places
  <2>2. CoPlace' /\ CoBits' /\ EpPlace'
    BY <1>2, CoSame, EpSame DEF HandInv, Places, EpPlace
  <2> QED
    BY <1>2, <2>1, <2>2 DEF Places, EpPlace
<1>7. PvBehind'
  <2> SUFFICES ASSUME NEW i \in Stage
               PROVE  /\ PvBegun(i)' <= PStored(i)' /\ PvBegun(i)' <= ORescaled(i)'
                      /\ Decoupled /\ PvBeforeNextP => PBegun(i)' <= Done("O_full", i)' + 1
    BY DEF PvBehind
  <2>1. /\ i \in {0, 1} /\ Flows(i) /\ SmNumbers(i) /\ CoNumbers(i) /\ MmNumbers(i) /\ SmShape(i)
    BY <1>1, StageIs, FlowsAre DEF AllNumbers, Flows
  <2>2. PStored(i)' = PStored(i) /\ ORescaled(i)' = ORescaled(i) /\ PBegun(i)' = PBegun(i)
    BY <1>2, SmSame, CoSame
  <2>3. PvBegun(i)' = PvBegun(i) + If1(<<"P_full_O", i>> \in w)
    BY <1>2, <2>1 DEF MmDelta
  <2>4. ASSUME <<"P_full_O", i>> \notin w PROVE PvBegun(i)' <= PStored(i)' /\ PvBegun(i)' <= ORescaled(i)'
    <3>1. PvBegun(i)' = PvBegun(i)
      BY <2>1, <2>3, <2>4 DEF If1, MmNumbers
    <3> QED
      BY <2>1, <2>2, <3>1 DEF Flows
  <2>5. ASSUME <<"P_full_O", i>> \in w PROVE PvBegun(i)' <= PStored(i)' /\ PvBegun(i)' <= ORescaled(i)'
    <3>1. PvBegun(i) + 1 <= PStored(i) /\ PvBegun(i) + 1 <= ORescaled(i)
      BY <1>1, <1>2, <2>1, <2>5, PvWaited
    <3> QED
      BY <2>1, <2>2, <2>3, <2>5, <3>1 DEF If1, MmNumbers
  <2>6. PvBegun(i)' <= PStored(i)' /\ PvBegun(i)' <= ORescaled(i)'
    BY <2>4, <2>5
  <2>7. Done("O_full", i) <= Done("O_full", i)' /\ Done("O_full", i)' \in Int
    <3>1. <<"O_full", i>> \in Barrier
      BY HandBarriersAre
    <3> QED
      BY <1>3, <3>1 DEF Moves, Done, BarRecord
  <2>8. Decoupled /\ PvBeforeNextP => PBegun(i)' <= Done("O_full", i)' + 1
    <3>1. Decoupled /\ PvBeforeNextP => PBegun(i) <= Done("O_full", i) + 1
      BY DEF HandInv, PvBehind
    <3>2. Done("O_full", i) \in Int /\ PBegun(i) \in Int
      BY <2>1 DEF Flows, SmNumbers
    <3> QED
      BY <2>2, <2>7, <3>1, <3>2
  <2> QED
    BY <2>6, <2>8
<1> QED
  BY <1>4, <1>5, <1>6, <1>7 DEF Rest

\* Its steps that issue nothing.
LEMMA MmaQuietRest ==
    ASSUME HandInv, NEW w, MmGo(w, {}), \A b : Committed(b)' <=> Committed(b), CommitsOnce' PROVE Rest'
<1>1. PICK sig : sig = {} /\ MmGo(w, sig)
  OBVIOUS
<1>2. sig \subseteq CommitBarriers /\ (\A b \in sig : ~Committed(b)) /\ (\A b : Committed(b)' <=> Committed(b) \/ b \in sig)
  BY <1>1
<1> QED
  BY <1>1, <1>2, CommitRest

LEMMA MmaIssueQKRest == ASSUME HandInv, Types', MmaIssueQK PROVE Rest'
<1>0. MmHere /\ OperandInv /\ TcType /\ MmWhere /\ BarType /\ BarOK
  BY HandPlaces, MmIsSomewhere DEF HandInv, Types
<1>1. PICK sig : sig = QKSignals
  OBVIOUS
<1>2. PICK w : MmGo(w, sig)
  BY <1>0, <1>1, MmaIssueQKGo
<1>3. PICK n, op : TcGrown(n, op) /\ op.signals = sig
  <2>1. PICK kind, k, slot, copies, open : Issue(kind, k, slot, copies, open, sig)
    BY <1>1 DEF MmaIssueQK, QKSignals, QKEnds
  <2> QED
    BY <1>0, <2>1, IssueGrows
<1>4. \A b : Committed(b)' <=> Committed(b) \/ b \in sig
  BY <1>3, GrownCommits
<1>5. sig \subseteq CommitBarriers
  BY <1>0, <1>1, QKSignalsAre
<1>6. \A b \in sig : ~Committed(b)
  <2>1. PICK v : Moves(v, {}) /\ MmStep(v, sig)
    <3>1. ASSUME QuantQK PROVE Moves({<<"sfqk", mm.st>>}, {})
      <4>1. WaitThenArrive(<<"sfqk", mm.st>>, mm.fPh, {})
        BY <3>1 DEF MmaIssueQK
      <4> QED
        BY <1>0, <4>1, WaitMoves
    <3>2. ASSUME ~QuantQK PROVE Moves({}, {})
      BY <1>0, <3>2, StillMoves DEF MmaIssueQK
    <3>3. PICK v : Moves(v, {}) /\ \A b \in v : b[1] = "sfqk"
      BY <3>1, <3>2
    <3> QED
      BY <1>0, <1>1, <3>3, MmaIssueQKStep
  <2>2. \A b \in sig : b[1] \in {"q_empty", "kv_empty"} => ~Committed(b)
    BY <1>0, <1>4, <2>1, MmStepRing
  <2>3. ~Committed(<<"S_full", mm.st>>)
    BY <1>1, <1>2, SFullNotTwice
  <2>4. ASSUME NEW b \in sig, b[1] \notin {"q_empty", "kv_empty"} PROVE b = <<"S_full", mm.st>>
    BY <1>1, <2>4 DEF QKSignals, SFullCommit, QRelease
  <2> QED
    BY <2>2, <2>3, <2>4
<1>7. CommitsOnce'
  BY <1>3, <1>6, GrownCommits DEF HandInv
<1> QED
  BY <1>2, <1>4, <1>5, <1>6, <1>7, CommitRest

LEMMA MmaIssuePV2Rest == ASSUME HandInv, Types', MmaIssuePV2 PROVE Rest'
<1>0. MmHere /\ OperandInv /\ TcType /\ TcApart /\ MmWhere /\ BarType /\ BarOK
  BY HandPlaces, MmIsSomewhere DEF HandInv, Types, OperandInv, MmInv
<1>1. PICK sig, w : sig = PVSignals /\ w = {<<"P_full_2", mm.st>>}
  OBVIOUS
<1>2. MmGo(w, sig)
  BY <1>0, <1>1, MmaIssuePV2Go
<1>3. PICK n : TcClosed(n, sig)
  BY <1>0, <1>1, PV2Closes DEF Types
<1>4. \A b : Committed(b)' <=> Committed(b) \/ b \in sig
  BY <1>3, ClosedCommits
<1>5. sig \subseteq CommitBarriers
  BY <1>0, <1>1, PVSignalsAre
<1>6. \A b \in sig : ~Committed(b)
  <2>1. Moves(w, {}) /\ MmStep(w, sig)
    BY <1>0, <1>1, <1>2, MmaIssuePV2Step DEF MmGo
  <2>2. \A b \in sig : b[1] \in {"q_empty", "kv_empty"} => ~Committed(b)
    BY <1>0, <1>4, <2>1, MmStepRing
  <2>3. <<"O_full", mm.st>> \in sig => ~Committed(<<"O_full", mm.st>>)
    BY <1>1, OFullNotTwice
  <2>4. ASSUME NEW b \in sig, b[1] \notin {"q_empty", "kv_empty"} PROVE b = <<"O_full", mm.st>>
    BY <1>1, <2>4 DEF PVSignals, OFullCommit, VRelease, QRelease
  <2> QED
    BY <2>2, <2>3, <2>4
<1>7. CommitsOnce'
  BY <1>3, <1>6, ClosedCommits DEF HandInv
<1> QED
  BY <1>2, <1>4, <1>5, <1>6, <1>7, CommitRest

LEMMA MmaRest == ASSUME HandInv, Types', Mma PROVE Rest'
<1>0. MmHere /\ TcType
  BY HandPlaces DEF Types
<1>1. CASE MmaWaitQ \/ MmaWaitK \/ MmaWaitV
  <2>1. PICK w : MmGo(w, {}) /\ UNCHANGED tc
    BY <1>0, <1>1, MmaWaitRingGo
  <2> QED
    BY <2>1, MmaQuietRest DEF HandInv, Committed, CommitsOnce
<1>2. CASE MmaDealloc
  <2>1. PICK w : MmGo(w, {}) /\ UNCHANGED tc
    BY <1>0, <1>2, MmaDeallocGo
  <2> QED
    BY <2>1, MmaQuietRest DEF HandInv, Committed, CommitsOnce
<1>3. CASE MmaIssuePV
  <2>1. PICK w : MmGo(w, {})
    BY <1>0, <1>3, MmaIssuePVGo
  <2>2. PICK n, op : TcGrown(n, op) /\ op.signals = {}
    <3>1. PICK kind, k, slot, copies, open, sig : Issue(kind, k, slot, copies, open, sig) /\ sig = {}
      BY <1>3 DEF MmaIssuePV
    <3> QED
      BY <1>0, <3>1, IssueGrows
  <2>3. (\A b : Committed(b)' <=> Committed(b)) /\ CommitsOnce'
    BY <2>2, GrownCommits DEF HandInv
  <2> QED
    BY <2>1, <2>3, MmaQuietRest
<1> QED
  BY <1>1, <1>2, <1>3, MmaIssueQKRest, MmaIssuePV2Rest DEF Mma

LEMMA NextHand == HandInv /\ [Next]_vars => HandInv'
<1> SUFFICES ASSUME HandInv, [Next]_vars PROVE HandInv'
  OBVIOUS
<1>1. OperandInv' /\ Covered' /\ Types'
  BY NextRing, NextTypes DEF HandInv, OperandInv
<1>2. Rest'
  <2>1. CASE Load \/ TmaLand
    BY <2>1, LoadRest, TmaLandRest
  <2>2. CASE Mma
    BY <1>1, <2>2, MmaRest
  <2>3. CASE TensorCore
    BY <1>1, <2>3, TcStartRest, TcFinishRest DEF TensorCore
  <2>4. CASE \E i \in Stage : Softmax(i)
    BY <2>4, SoftmaxRest
  <2>5. CASE Correction \/ Epilogue
    BY <2>5, CorrectionRest, EpilogueRest
  <2>6. CASE UNCHANGED vars
    BY <2>6, StillRest
  <2> QED
    BY <2>1, <2>2, <2>3, <2>4, <2>5, <2>6 DEF Next, Halt
<1> QED
  BY <1>1, <1>2 DEF HandInv, Rest

LEMMA InitHand == Init => HandInv
<1> SUFFICES ASSUME Init PROVE HandInv
  OBVIOUS
<1>1. OperandInv /\ Covered
  BY InitRing
<1>2. \A b \in Barrier : bar[b].done = 0 /\ bar[b].seen = 0 /\ bar[b].left = Count(b) /\ Count(b) \in 1..3
  BY CountOK DEF Init, NewBarrier
<1>3. 1 \in 1..Tiles /\ 1 \in 1..(Tiles + 1) /\ 1 # Tiles + 1 /\ Start[1] = 0 /\ Blocks[1] \in Int /\ 1 <= Blocks[1]
  BY TilesAre, StartIs
<1>4. /\ mm.at = "q" /\ mm.t = 1 /\ mm.k = 0 /\ mm.st = 0 /\ mm.fPh = 0 /\ mm.pPh = 0
      /\ \A i \in Stage : /\ sm[i].at = (IF i = 1 /\ QuantQK THEN "start" ELSE "tile")
                          /\ sm[i].t = 1 /\ sm[i].k = 1 /\ sm[i].sPh = 0 /\ sm[i].cPh = 1
      /\ co.at = "start" /\ co.t = 1 /\ co.k = 2 /\ co.st = 0 /\ co.cPh = 0 /\ co.oPh = 0 /\ co.ePh = 1
      /\ ep.at = (IF CorrStoresO THEN "end" ELSE "store") /\ ep.t = 1 /\ ep.st = 0 /\ ep.ph = 0
      /\ tc = <<>>
  BY DEF Init
<1>5. ~Last /\ ~CoIn /\ ~CoEnding /\ CoRounds = 0 /\ MmBlocks = 0 /\ \A b : ~Committed(b)
  BY <1>3, <1>4 DEF Last, CoIn, CoEnding, CoRounds, MmBlocks, Committed
<1>6. ASSUME NEW i \in Stage
      PROVE  /\ SLoaded(i) = 0 /\ PBegun(i) = 0 /\ PStored(i) = 0 /\ P2Stored(i) = 0 /\ ScalesFree(i) = 0
             /\ ScalesOut(i) = 0 /\ (QuantQK => QksLet(i) = 0) /\ SmBlocks(i) = 0
  BY <1>3, <1>4, <1>6 DEF SLoaded, PBegun, PStored, P2Stored, ScalesFree, ScalesOut, QksLet, SmBlocks, If1
<1>7. ASSUME NEW i \in Stage
      PROVE  /\ ScalesTaken(i) = 0 /\ ScalesBack(i) = 0 /\ ORescaled(i) = 0 /\ OTaken(i) = 0
             /\ OWritten(i) = 0 /\ BuffersHad(i) = 0 /\ EpRead(i) = 0 /\ EpFreed(i) = 0
             /\ QksIssued(i) = 0 /\ PvDone(i) = 0 /\ PvBegun(i) = 0 /\ OCommits(i) = 0
  <2>1. i \in {0, 1} /\ ~(i < 0)
    BY StageIs
  <2>2. ScalesTaken(i) = 0 /\ ScalesBack(i) = 0
    BY <1>4, <1>5, <2>1 DEF ScalesTaken, ScalesBack, If1
  <2>3. ORescaled(i) = 0 /\ OTaken(i) = 0 /\ OWritten(i) = 0 /\ BuffersHad(i) = 0
    BY <1>3, <1>4, <1>5, <2>1 DEF ORescaled, OTaken, OWritten, BuffersHad, If1
  <2>4. EpRead(i) = 0 /\ EpFreed(i) = 0
    BY <1>4, <2>1 DEF EpRead, EpFreed, If1
  <2>5. QksIssued(i) = 0 /\ PvDone(i) = 0 /\ PvBegun(i) = 0 /\ OCommits(i) = 0
    BY <1>4, <1>5, <2>1 DEF QksIssued, PvDone, PvBegun, OCommits, If1
  <2> QED
    BY <2>2, <2>3, <2>4, <2>5
<1>8. Places
  <2>1. ASSUME NEW i \in Stage PROVE SmPlace(i) /\ SmBits(i)
    BY <1>3, <1>4, <1>6 DEF SmPlace, SmBits, If1
  <2>2. CoPlace /\ CoBits
    BY <1>3, <1>4, <1>5 DEF CoPlace, CoBits
  <2>3. MmBits
    BY <1>4, <1>5 DEF MmBits, If1
  <2>4. IF CorrStoresO THEN ep.at = "end" ELSE EpBits
    BY <1>4 DEF EpBits
  <2> QED
    BY <2>1, <2>2, <2>3, <2>4 DEF Places
<1>9. Counted
  <2> SUFFICES ASSUME NEW b \in HandBarrier
               PROVE  bar[b].seen = Waited(b) /\ Arrivals(b) = Given(b) - If1(Committed(b))
    BY DEF Counted
  <2>1. bar[b].seen = 0 /\ Arrivals(b) = 0 /\ If1(Committed(b)) = 0
    BY <1>2, <1>5, HandBarriersAre DEF Arrivals, If1
  <2>2. Waited(b) = 0 /\ Given(b) = 0
    <3>1. CASE b = <<"dealloc", 0>>
      <4>1. sm[0].at # "end" /\ sm[1].at # "end"
        BY <1>4, StageIs
      <4> QED
        BY <1>4, <3>1, <4>1, AccountsAre DEF If1
    <3>2. CASE \E i \in Stage : Named(b, i)
      <4>1. PICK i \in Stage : Named(b, i) /\ 1 - i \in Stage
        BY <3>2, StageIs
      <4>2. b[1] = "sfqk" => QuantQK
        BY DEF HandBarrier, HandNames, Unwaited
      <4>3. CASE b[1] # "sfqk"
        BY <1>6, <1>7, <4>1, <4>3, AccountsAre DEF Named
      <4>4. CASE b[1] = "sfqk"
        <5>1. b = <<"sfqk", i>>
          BY <4>1, <4>4 DEF Named
        <5> QED
          BY <1>6, <1>7, <4>1, <4>2, <4>4, <5>1, AccountsAre
      <4> QED
        BY <4>3, <4>4
    <3> QED
      BY <3>1, <3>2, HandBarrierIs
  <2> QED
    BY <2>1, <2>2
<1>10. CommitsOnce
  BY <1>4 DEF CommitsOnce
<1>11. NotBehind(HandNames \cup {"dealloc"})
  BY <1>2 DEF NotBehind, Free, If1
<1>12. PvBehind
  <2>1. ASSUME NEW i \in Stage PROVE Done("O_full", i) = 0
    BY <1>2, HandBarriersAre DEF Done
  <2> QED
    BY <1>6, <1>7, <2>1 DEF PvBehind
<1> QED
  BY <1>1, <1>8, <1>9, <1>10, <1>11, <1>12 DEF HandInv

\* In every build: where each role is in its loop says what every barrier between two
\* of them has counted, a barrier is never owed two commits at once, and no wait is
\* behind its barrier (mma, softmax_loop, correction_loop, epilogue_s2g).
THEOREM HandInvariant == Spec => []HandInv
BY InitHand, NextHand, PTL DEF Spec

\* S, O, the scales, the hand-over of scale-factor slots and the output buffers.
LEMMA HandOnTime == HandInv => OnTime((HandNames \cup {"dealloc"}) \ {"P_full_2"})
<1> SUFFICES ASSUME HandInv, NEW b \in Barrier, b[1] \in (HandNames \cup {"dealloc"}) \ {"P_full_2"}
             PROVE  bar[b].done - bar[b].seen \in (IF b[1] \in StartsFree THEN {-1, 0} ELSE {0, 1})
  BY DEF OnTime
<1>1. b \in HandBarrier /\ Windows
  BY HandBarriersAre, WindowsHold
<1>2. Window(b) /\ b[1] # "P_full_2"
  BY <1>1 DEF Windows
<1> QED
  BY <1>2 DEF Window

\* Softmax is one P ahead of the PVs at most, on the baseline, or where it is assumed
\* not to begin P before the PV of the last one is over.
LEMMA PFull2OnTime ==
    ASSUME HandInv, Decoupled => PvBeforeNextP PROVE OnTime({"P_full_2"})
<1> SUFFICES ASSUME NEW b \in Barrier, b[1] = "P_full_2"
             PROVE  bar[b].done - bar[b].seen \in (IF b[1] \in StartsFree THEN {-1, 0} ELSE {0, 1})
  BY DEF OnTime
<1>1. b \in HandBarrier
  BY HandBarriersAre DEF HandNames, Unwaited
<1>2. PICK i \in {0, 1} : b = <<"P_full_2", i>> /\ i \in Stage
  <2>1. b # <<"dealloc", 0>>
    OBVIOUS
  <2> QED
    BY <1>1, <2>1, HandBarrierIs, StageIs DEF Named
<1>3. Flows(i) /\ MmShape /\ SmShape(i) /\ SmNumbers(i) /\ MmNumbers(i) /\ SLoaded(i) <= QksIssued(i)
  BY FlowsAre, Committals DEF Flows, SmShape, MmShape
<1>4. P2Stored(i) <= PBegun(i) /\ PBegun(i) <= PvDone(i) + 1
  <2>1. P2Stored(i) <= PBegun(i) /\ PBegun(i) <= SLoaded(i)
    BY <1>3 DEF SmShape, SmNumbers
  <2>2. CASE ~Decoupled
    <3>1. QksIssued(i) <= PvDone(i) + 1
      BY <1>3, <2>2 DEF MmShape
    <3> QED
      BY <1>3, <2>1, <3>1 DEF SmNumbers, MmNumbers
  <2>3. CASE Decoupled
    <3>1. PBegun(i) <= Done("O_full", i) + 1
      BY <1>2, <2>3 DEF HandInv, PvBehind
    <3>2. PICK e, o : e = If1(Committed(<<"O_full", i>>)) /\ e \in {0, 1} /\ o = Done("O_full", i)
      BY DEF If1
    <3>3. o \in Int /\ o = OCommits(i) - e /\ OCommits(i) = PvDone(i)
      BY <1>3, <2>3, <3>2 DEF Flows, MmShape
    <3> QED
      BY <1>3, <2>1, <3>1, <3>2, <3>3 DEF SmNumbers, MmNumbers
  <2> QED
    BY <2>1, <2>2, <2>3
<1>5. PICK d, n : d = bar[b].done /\ n = bar[b].seen /\ d = P2Stored(i) /\ n = PvDone(i) /\ d \in Int /\ n \in Int
                  /\ n <= d
  <2>1. bar[b].seen = PvDone(i)
    BY <1>1, <1>2, HandFacts, AccountsAre
  <2> QED
    BY <1>2, <1>3, <2>1 DEF Flows, Done, MmNumbers
<1>6. d - n \in {0, 1}
  BY <1>3, <1>4, <1>5 DEF SmNumbers, MmNumbers
<1> QED
  BY <1>5, <1>6 DEF StartsFree

\* In every build no phase of a barrier is lost on its waiter, except that softmax
\* may be two second parts of P ahead of the PVs (mbarrier_wait everywhere).
THEOREM PhasesKeptApart ==
    Spec => [](\A b \in Barrier : b[1] \notin Unwaited /\ b[1] # "P_full_2" =>
                   bar[b].done - bar[b].seen \in (IF b[1] \in StartsFree THEN {-1, 0} ELSE {0, 1}))
<1>1. HandInv /\ OnTime(RingBarriers) =>
          \A b \in Barrier : b[1] \notin Unwaited /\ b[1] # "P_full_2" =>
              bar[b].done - bar[b].seen \in (IF b[1] \in StartsFree THEN {-1, 0} ELSE {0, 1})
  <2> SUFFICES ASSUME HandInv, OnTime(RingBarriers), NEW b \in Barrier, b[1] \notin Unwaited, b[1] # "P_full_2"
               PROVE  bar[b].done - bar[b].seen \in (IF b[1] \in StartsFree THEN {-1, 0} ELSE {0, 1})
    OBVIOUS
  <2>1. b[1] \in RingBarriers \cup ((HandNames \cup {"dealloc"}) \ {"P_full_2"})
    BY DEF Barrier, StagedBarrier, RingBarriers, HandNames
  <2> QED
    BY <2>1, HandOnTime DEF OnTime
<1> QED
  BY <1>1, HandInvariant, RingPhasesKept, PTL

\* NoPhaseLost, on the baseline, and on the decoupled layout where softmax does not
\* begin a P before the PV of the last one is over: one parity bit is enough for
\* every wait of the kernel.
THEOREM PhasesKept == (Decoupled => PvBeforeNextP) => (Spec => []NoPhaseLost)
<1> SUFFICES ASSUME Decoupled => PvBeforeNextP PROVE Spec => []NoPhaseLost
  OBVIOUS
<1>1. HandInv /\ OnTime(RingBarriers) => NoPhaseLost
  <2> SUFFICES ASSUME HandInv, OnTime(RingBarriers), NEW b \in Barrier, b[1] \notin Unwaited
               PROVE  bar[b].done - bar[b].seen \in (IF b[1] \in StartsFree THEN {-1, 0} ELSE {0, 1})
    BY DEF NoPhaseLost
  <2>1. b[1] \in RingBarriers \cup ((HandNames \cup {"dealloc"}) \ {"P_full_2"}) \cup {"P_full_2"}
    BY DEF Barrier, StagedBarrier, RingBarriers, HandNames
  <2> QED
    BY <2>1, HandOnTime, PFull2OnTime DEF OnTime
<1> QED
  BY <1>1, HandInvariant, RingPhasesKept, PTL

\* The correction warps had the buffer given back as often as they wrote it.
LEMMA BufferOwned == HandInv => OutputBufferOwned
<1> SUFFICES ASSUME HandInv, co.at = "write" PROVE ~Storing(co.st)
  BY DEF OutputBufferOwned
<1>1. PICK i \in {0, 1} : i = co.st
  BY HandPlaces, StageIs DEF CoWhere
<1>2. CASE CorrStoresO
  <2>1. ep.at = "end"
    BY <1>2 DEF HandInv, Places
  <2> QED
    BY <2>1 DEF Storing
<1>3. CASE ~CorrStoresO
  <2>1. Flows(i) /\ EpShape(i) /\ CoNumbers(i)
    BY FlowsAre DEF Flows, CoShape
  <2>2. BuffersHad(i) = OWritten(i) + 1
    BY <1>1 DEF BuffersHad, If1
  <2>3. EpRead(i) <= OWritten(i) /\ BuffersHad(i) <= EpFreed(i) + 1 /\ EpRead(i) = EpFreed(i) + If1(Storing(i))
        /\ EpRead(i) \in Int /\ EpFreed(i) \in Int
    BY <1>3, <2>1 DEF Flows, EpShape
  <2> QED
    BY <1>1, <2>1, <2>2, <2>3 DEF If1, CoNumbers
<1> QED
  BY <1>2, <1>3

\* OutputBufferOwned: in every build the correction warps write an output buffer only
\* when no bulk store is still to read it (correction_loop's wait on corr_epi_empty,
\* epilogue_s2g).
THEOREM OutputBufferHandOver == Spec => []OutputBufferOwned
BY BufferOwned, HandInvariant, PTL

-----------------------------------------------------------------------------
(* What the tensor core still has to do, against where the MMA warp is.    *)

QkFlies(op) == /\ <<"S_full", op.st>> \in op.signals /\ ~op.open
               /\ op.copies \subseteq {<<"SFQ", op.st>>, <<"SFK", SfkSlot(op.st)>>}
\* A PV in flight is the last one begun of its stage.
PvFlies(op) ==
    /\ op.t \in Tile /\ op.k \in 1..Blocks[op.t] /\ Start[op.t] + op.k = PvBegun(op.st)
    /\ op.copies \subseteq {<<"SFP", op.st>>, <<"SFV", SfvSlot(op.st)>>}
    /\ op.open => mm.at = "p2" /\ mm.st = op.st /\ op.t = mm.t /\ op.k = mm.k
    /\ ~op.open /\ (Decoupled \/ op.k = Blocks[op.t]) => <<"O_full", op.st>> \in op.signals
\* On the baseline the QK of the block behind it follows it.
QkFollows(j, i) ==
    \/ mm.at = "p2" /\ mm.st = i
    \/ QksIssued(i) = PvDone(i)
    \/ \E m \in DOMAIN tc : j < m /\ <<"S_full", i>> \in tc[m].signals
PvLast(j, i) == /\ mm.at = "p2" /\ mm.st = i => j = Len(tc)
                /\ ~Decoupled => QkFollows(j, i)

InFlight == \A j \in DOMAIN tc : /\ tc[j].kind = "QK" => QkFlies(tc[j])
                                 /\ tc[j].kind = "PV" => PvFlies(tc[j]) /\ PvLast(j, tc[j].st)
FlightInv == HandInv /\ InFlight

LEMMA FlightNext ==
    ASSUME \A j : \A x : j \in DOMAIN tc' /\ x = tc'[j] =>
              /\ x.kind = "QK" => QkFlies(x)'
              /\ x.kind = "PV" => PvFlies(x)' /\ PvLast(j, x.st)'
    PROVE  InFlight'
<1>1. \A j \in DOMAIN tc' : /\ (tc[j].kind = "QK")' => QkFlies(tc[j])'
                           /\ (tc[j].kind = "PV")' => PvFlies(tc[j])' /\ PvLast(j, tc[j].st)'
  BY DEF QkFlies, PvFlies, PvLast, QkFollows
<1> QED
  BY <1>1 DEF InFlight

LEMMA FlightStill ==
    ASSUME InFlight, UNCHANGED <<tc, mm>> PROVE InFlight'
<1>1. \A i : UNCHANGED <<PvBegun(i), PvDone(i), QksIssued(i)>>
  BY DEF PvBegun, PvDone, QksIssued, MmBlocks, Last
<1>2. \A op : (QkFlies(op) <=> QkFlies(op)') /\ (PvFlies(op) <=> PvFlies(op)')
  BY <1>1 DEF QkFlies, PvFlies
<1>3. \A j, i : PvLast(j, i) <=> PvLast(j, i)'
  BY <1>1 DEF PvLast, QkFollows
<1> QED
  BY <1>2, <1>3 DEF InFlight

\* An operation begins.
LEMMA FlightBegan ==
    ASSUME InFlight, NEW n, TcBegan(n), UNCHANGED mm PROVE InFlight'
<1>1. \A i : UNCHANGED <<PvBegun(i), PvDone(i), QksIssued(i)>>
  BY DEF PvBegun, PvDone, QksIssued, MmBlocks, Last
<1> SUFFICES ASSUME NEW j \in 1..n, NEW y, y = tc'[j]
             PROVE  /\ y.kind = "QK" => QkFlies(y)'
                    /\ y.kind = "PV" => PvFlies(y)' /\ PvLast(j, y.st)'
  BY FlightNext DEF TcBegan
<1>2. PICK x : x = tc[j] /\ Same(y, x) /\ y.signals = x.signals /\ y.open = x.open
  BY DEF TcBegan
<1>3. /\ x.kind = "QK" => QkFlies(x)
      /\ x.kind = "PV" => PvFlies(x) /\ PvLast(j, x.st)
  BY <1>2 DEF InFlight, TcBegan
<1>4. QkFlies(x) => QkFlies(y)'
  BY <1>2 DEF QkFlies, Same
<1>5. PvFlies(x) => PvFlies(y)'
  BY <1>1, <1>2 DEF PvFlies, Same
<1>6. ASSUME NEW i, PvLast(j, i) PROVE PvLast(j, i)'
  <2>1. mm'.at = "p2" /\ mm'.st = i => j = Len(tc')
    BY <1>6 DEF PvLast, TcBegan
  <2>2. QkFollows(j, i) => QkFollows(j, i)'
    BY <1>1 DEF QkFollows, TcBegan
  <2> QED
    BY <1>6, <2>1, <2>2 DEF PvLast
<1> QED
  BY <1>2, <1>3, <1>4, <1>5, <1>6 DEF Same

\* The first one ends.
LEMMA FlightShrunk ==
    ASSUME InFlight, NEW n, TcShrunk(n), UNCHANGED mm PROVE InFlight'
<1>1. \A i : UNCHANGED <<PvBegun(i), PvDone(i), QksIssued(i)>>
  BY DEF PvBegun, PvDone, QksIssued, MmBlocks, Last
<1> SUFFICES ASSUME NEW j \in 1..(n - 1), NEW x, x = tc'[j]
             PROVE  /\ x.kind = "QK" => QkFlies(x)'
                    /\ x.kind = "PV" => PvFlies(x)' /\ PvLast(j, x.st)'
  BY FlightNext DEF TcShrunk
<1>2. x = tc[j + 1] /\ j + 1 \in 1..n /\ j \in Int
  BY DEF TcShrunk
<1>3. /\ x.kind = "QK" => QkFlies(x)
      /\ x.kind = "PV" => PvFlies(x) /\ PvLast(j + 1, x.st)
  BY <1>2 DEF InFlight, TcShrunk
<1>4. QkFlies(x) => QkFlies(x)'
  BY DEF QkFlies
<1>5. PvFlies(x) => PvFlies(x)'
  BY <1>1 DEF PvFlies
<1>6. ASSUME NEW i, PvLast(j + 1, i) PROVE PvLast(j, i)'
  <2>1. mm'.at = "p2" /\ mm'.st = i => j = Len(tc')
    BY <1>2, <1>6 DEF PvLast, TcShrunk
  <2>2. ASSUME QkFollows(j + 1, i) PROVE QkFollows(j, i)'
    <3>1. ASSUME NEW m \in DOMAIN tc, j + 1 < m, <<"S_full", i>> \in tc[m].signals
          PROVE  m - 1 \in DOMAIN tc' /\ j < m - 1 /\ <<"S_full", i>> \in tc'[m - 1].signals
      <4>1. m \in 1..n /\ m \in Int /\ m - 1 \in 1..(n - 1) /\ (m - 1) + 1 = m
        BY <1>2, <3>1 DEF TcShrunk
      <4>2. tc'[m - 1] = tc[m]
        BY <4>1 DEF TcShrunk
      <4> QED
        BY <1>2, <3>1, <4>1, <4>2 DEF TcShrunk
    <3> QED
      BY <1>1, <2>2, <3>1 DEF QkFollows
  <2> QED
    BY <1>6, <2>1, <2>2 DEF PvLast
<1> QED
  BY <1>2, <1>3, <1>4, <1>5, <1>6

\* Steps of the MMA warp that issue no part of a PV: no operation is open.
LEMMA FlightKeeps ==
    ASSUME InFlight, NEW w, NEW sig, MmGo(w, sig), NoPvIn(w), mm.at # "p2", mm'.at # "p2", NEW x, x.kind = "PV",
           PvFlies(x), x.st \in {0, 1}, MmNumbers(x.st)
    PROVE  PvFlies(x)' /\ PvDone(x.st)' = PvDone(x.st)
           /\ QksIssued(x.st)' = QksIssued(x.st) + If1(<<"S_full", x.st>> \in sig)
<1>1. PICK i \in {0, 1} : i = x.st
  OBVIOUS
<1>2. /\ PvBegun(i)' = PvBegun(i) + If1(<<"P_full_O", i>> \in w)
      /\ PvDone(i)' = PvDone(i) + If1(<<"P_full_2", i>> \in w)
      /\ QksIssued(i)' = QksIssued(i) + If1(<<"S_full", i>> \in sig)
  BY DEF MmGo, MmDelta
<1>3. If1(<<"P_full_O", i>> \in w) = 0 /\ If1(<<"P_full_2", i>> \in w) = 0
  BY DEF NoPvIn, If1
<1>4. PvBegun(i)' = PvBegun(i) /\ PvDone(i)' = PvDone(i)
  BY <1>1, <1>2, <1>3 DEF MmNumbers
<1>5. ~x.open
  BY DEF PvFlies
<1>6. PvFlies(x)'
  BY <1>1, <1>4, <1>5 DEF PvFlies
<1> QED
  BY <1>1, <1>2, <1>4, <1>6

LEMMA FlightWaits ==
    ASSUME FlightInv, NEW w, MmGo(w, {}), UNCHANGED tc, NoPvIn(w), mm.at # "p2", mm'.at # "p2" PROVE InFlight'
<1>0. Types /\ \A i \in {0, 1} : MmNumbers(i)
  BY HandPlaces DEF FlightInv, AllNumbers
<1>1. PICK sig : sig = {} /\ MmGo(w, sig)
  OBVIOUS
<1> SUFFICES ASSUME NEW j, NEW x, j \in DOMAIN tc, x = tc[j]
             PROVE  /\ x.kind = "QK" => QkFlies(x)'
                    /\ x.kind = "PV" => PvFlies(x)' /\ PvLast(j, x.st)'
  BY FlightNext
<1>2. x.kind \in {"QK", "PV"} /\ x.st \in {0, 1}
  <2>1. x \in Op
    BY <1>0 DEF Types, TcType
  <2> QED
    BY <2>1, StageIs DEF Op
<1>3. CASE x.kind = "QK"
  BY <1>3 DEF FlightInv, InFlight, QkFlies
<1>4. CASE x.kind = "PV"
  <2>1. PvFlies(x) /\ PvLast(j, x.st) /\ InFlight
    BY <1>4 DEF FlightInv, InFlight
  <2>2. PvFlies(x)' /\ PvDone(x.st)' = PvDone(x.st)
        /\ QksIssued(x.st)' = QksIssued(x.st) + If1(<<"S_full", x.st>> \in sig)
    BY <1>0, <1>1, <1>2, <1>4, <2>1, FlightKeeps
  <2>3. QksIssued(x.st)' = QksIssued(x.st)
    BY <1>0, <1>1, <1>2, <2>2 DEF If1, MmNumbers
  <2>4. ~Decoupled => QkFollows(j, x.st)'
    BY <2>1, <2>2, <2>3 DEF PvLast, QkFollows
  <2> QED
    BY <1>4, <2>2, <2>4 DEF PvLast
<1> QED
  BY <1>2, <1>3, <1>4

\* A QK is issued: on the baseline it is the one that follows the PV in flight.
LEMMA FlightQK == ASSUME FlightInv, MmaIssueQK PROVE InFlight'
<1>0. Types /\ MmHere /\ InFlight /\ TcType /\ \A i \in {0, 1} : MmNumbers(i)
  BY HandPlaces DEF FlightInv, AllNumbers, Types
<1>1. PICK sig : sig = QKSignals
  OBVIOUS
<1>2. PICK w : MmGo(w, sig) /\ NoPvIn(w) /\ mm.at # "p2" /\ mm'.at # "p2"
  BY <1>0, <1>1, MmaIssueQKGo
<1>3. PICK n, op : /\ TcGrown(n, op) /\ op.signals = sig /\ op.kind = "QK" /\ op.st = mm.st
                   /\ op.copies = QKCopies /\ ~op.open
  <2>1. PICK kind, k, slot, copies, open : Issue(kind, k, slot, copies, open, sig) /\ kind = "QK"
                                           /\ copies = QKCopies /\ open = FALSE
    BY <1>1 DEF MmaIssueQK, QKSignals, QKEnds
  <2> QED
    BY <1>0, <2>1, IssueGrows
<1>4. \A i : <<"S_full", i>> \in sig <=> i = mm.st
  BY <1>1, MmSignalsAre
<1>5. QkFlies(op)'
  <2>1. QKCopies \subseteq {<<"SFQ", mm.st>>, <<"SFK", SfkSlot(mm.st)>>}
    BY DEF QKCopies
  <2> QED
    BY <1>3, <1>4, <2>1 DEF QkFlies
<1>6. ASSUME NEW j \in 1..n, NEW x, x = tc[j]
      PROVE  /\ x.kind = "QK" => QkFlies(x)'
             /\ x.kind = "PV" => PvFlies(x)' /\ PvLast(j, x.st)'
  <2>1. j \in DOMAIN tc /\ x.kind \in {"QK", "PV"} /\ x.st \in {0, 1}
    <3>1. j \in DOMAIN tc
      BY <1>3 DEF TcGrown
    <3>2. x \in Op
      BY <1>0, <1>6, <3>1 DEF TcType
    <3> QED
      BY <3>1, <3>2, StageIs DEF Op
  <2>2. CASE x.kind = "QK"
    BY <1>0, <1>6, <2>1, <2>2 DEF InFlight, QkFlies
  <2>3. CASE x.kind = "PV"
    <3>1. PvFlies(x) /\ PvLast(j, x.st)
      BY <1>0, <1>6, <2>1, <2>3 DEF InFlight
    <3>2. PvFlies(x)' /\ PvDone(x.st)' = PvDone(x.st)
          /\ QksIssued(x.st)' = QksIssued(x.st) + If1(<<"S_full", x.st>> \in sig)
      BY <1>0, <1>2, <2>1, <2>3, <3>1, FlightKeeps
    <3>3. ASSUME ~Decoupled PROVE QkFollows(j, x.st)'
      <4>1. CASE x.st = mm.st
        <5>1. n + 1 \in DOMAIN tc' /\ j < n + 1 /\ <<"S_full", x.st>> \in tc'[n + 1].signals
          BY <1>3, <1>4, <4>1 DEF TcGrown
        <5> QED
          BY <5>1 DEF QkFollows
      <4>2. CASE x.st # mm.st
        <5>1. QksIssued(x.st)' = QksIssued(x.st)
          BY <1>0, <1>4, <2>1, <3>2, <4>2 DEF If1, MmNumbers
        <5>2. QkFollows(j, x.st)
          BY <3>1, <3>3 DEF PvLast
        <5>3. ASSUME NEW m \in DOMAIN tc, j < m, <<"S_full", x.st>> \in tc[m].signals
              PROVE  m \in DOMAIN tc' /\ <<"S_full", x.st>> \in tc'[m].signals
          BY <1>3, <5>3 DEF TcGrown
        <5> QED
          BY <1>2, <3>2, <5>1, <5>2, <5>3 DEF QkFollows
      <4> QED
        BY <4>1, <4>2
    <3> QED
      BY <1>2, <2>3, <3>2, <3>3 DEF PvLast
  <2> QED
    BY <2>1, <2>2, <2>3
<1> SUFFICES ASSUME NEW j, NEW x, j \in DOMAIN tc', x = tc'[j]
             PROVE  /\ x.kind = "QK" => QkFlies(x)'
                    /\ x.kind = "PV" => PvFlies(x)' /\ PvLast(j, x.st)'
  BY FlightNext
<1>7. CASE j = n + 1
  BY <1>3, <1>5, <1>7 DEF TcGrown
<1>8. CASE j # n + 1
  <2>1. j \in 1..n /\ x = tc[j]
    BY <1>3, <1>8 DEF TcGrown
  <2> QED
    BY <1>6, <2>1
<1> QED
  BY <1>7, <1>8

\* Of a stage's PV in flight, the softmax and correction warps have heard nothing.
LEMMA PvUnheard ==
    ASSUME FlightInv, NEW j \in DOMAIN tc, tc[j].kind = "PV", NEW i \in {0, 1}, i = tc[j].st
    PROVE  /\ Decoupled => Done("O_full", i) + 1 <= PvBegun(i)
           /\ Decoupled /\ ~tc[j].open => Done("O_full", i) + 1 = PvDone(i)
           /\ ~Decoupled => SLoaded(i) <= PvBegun(i)
           /\ ~Decoupled /\ ~(mm.at = "p2" /\ mm.st = i) => SLoaded(i) <= PvDone(i)
           /\ mm.at = "p2" /\ mm.st = i => tc[j].open
<1>1. Flows(i) /\ MmShape /\ MmNumbers(i) /\ SmNumbers(i) /\ SLoaded(i) <= QksIssued(i)
  BY FlowsAre, Committals DEF FlightInv, Flows, MmShape, SmShape
<1>2. PvFlies(tc[j]) /\ PvLast(j, i)
  BY DEF FlightInv, InFlight
<1>3. PICK o, e : o = Done("O_full", i) /\ e = If1(Committed(<<"O_full", i>>)) /\ e \in {0, 1}
  BY DEF If1
<1>4. PICK l, d : l = Done("S_full", i) /\ d = If1(Committed(<<"S_full", i>>)) /\ d \in {0, 1}
  BY DEF If1
<1>5. /\ o \in Int /\ o = OCommits(i) - e /\ l \in Int /\ l = QksIssued(i) - d /\ SLoaded(i) <= l
      /\ PvDone(i) <= PvBegun(i) /\ PvBegun(i) <= PvDone(i) + 1
      /\ ~Decoupled => QksIssued(i) <= PvDone(i) + 1
      /\ Decoupled => OCommits(i) = PvDone(i)
  BY <1>1, <1>3, <1>4 DEF Flows, MmShape
<1>6. mm.at = "p2" /\ mm.st = i => PvBegun(i) = PvDone(i) + 1
  BY <1>1 DEF PvBegun, If1, MmNumbers
<1>7. ASSUME Decoupled, ~tc[j].open PROVE o + 1 = PvDone(i)
  <2>1. Committed(<<"O_full", i>>)
    BY <1>2, <1>7 DEF PvFlies, Committed
  <2> QED
    BY <1>1, <1>3, <1>5, <1>7, <2>1 DEF If1, MmNumbers
<1>8. ASSUME Decoupled PROVE o + 1 <= PvBegun(i)
  <2>1. tc[j].open => mm.at = "p2" /\ mm.st = i
    BY <1>2 DEF PvFlies
  <2>2. CASE tc[j].open
    BY <1>1, <1>3, <1>5, <1>6, <1>8, <2>1, <2>2 DEF MmNumbers
  <2>3. CASE ~tc[j].open
    BY <1>1, <1>5, <1>7, <1>8, <2>3 DEF MmNumbers
  <2> QED
    BY <2>2, <2>3
<1>9. ASSUME ~Decoupled, ~(mm.at = "p2" /\ mm.st = i) PROVE SLoaded(i) <= PvDone(i)
  <2>1. QksIssued(i) = PvDone(i) \/ Committed(<<"S_full", i>>)
    BY <1>2, <1>9 DEF PvLast, QkFollows, Committed
  <2>2. CASE QksIssued(i) = PvDone(i)
    BY <1>1, <2>2
  <2>3. CASE Committed(<<"S_full", i>>)
    <3>1. d = 1
      BY <1>4, <2>3 DEF If1
    <3> QED
      BY <1>1, <1>5, <1>9, <3>1 DEF MmNumbers, SmNumbers
  <2> QED
    BY <2>1, <2>2, <2>3
<1>10. ASSUME ~Decoupled PROVE SLoaded(i) <= PvBegun(i)
  <2>1. CASE mm.at = "p2" /\ mm.st = i
    BY <1>1, <1>5, <1>6, <1>10, <2>1 DEF MmNumbers, SmNumbers
  <2>2. CASE ~(mm.at = "p2" /\ mm.st = i)
    BY <1>1, <1>5, <1>9, <1>10, <2>2 DEF MmNumbers, SmNumbers
  <2> QED
    BY <2>1, <2>2
<1>11. mm.at = "p2" /\ mm.st = i => tc[j].open
  <2>1. TcApart
    BY DEF FlightInv, HandInv, OperandInv, MmInv
  <2> QED
    BY <1>2, <2>1 DEF TcApart, PvLast
<1> QED
  BY <1>3, <1>7, <1>8, <1>9, <1>10, <1>11

\* A PV is begun when the one before it of its stage is over.
LEMMA FlightPV == ASSUME FlightInv, MmaIssuePV PROVE InFlight'
<1>0. Types /\ MmHere /\ MmWhere /\ InFlight /\ TcType /\ HandInv
  BY HandPlaces, MmIsSomewhere DEF FlightInv, Types, MmHere
<1>1. PICK s \in {0, 1} : s = mm.st /\ mm.at = "p"
  BY <1>0 DEF MmWhere, MmaIssuePV
<1>2. PICK w, g : w = {<<"P_full_O", s>>} /\ g = {} /\ MmGo(w, g)
  BY <1>0, <1>1, MmaIssuePVGo
<1>3. /\ mm' = [mm EXCEPT !.at = "p2"] /\ mm'.at = "p2" /\ mm'.st = s /\ mm'.t = mm.t /\ mm'.k = mm.k
  <2>1. mm' = [mm EXCEPT !.at = "p2"] /\ mm \in MmRecord
    BY <1>0 DEF MmaIssuePV, MmWhere
  <2> QED
    BY <1>1, <2>1 DEF MmRecord
<1>4. PICK n, op : /\ TcGrown(n, op) /\ op.signals = {} /\ op.kind = "PV" /\ op.st = s
                   /\ op.t = mm.t /\ op.k = mm.k /\ op.copies = PVCopies /\ op.open
  <2>1. PICK kind, k, slot, copies, open, sig :
             /\ Issue(kind, k, slot, copies, open, sig) /\ kind = "PV" /\ k = mm.k
             /\ copies = PVCopies /\ open = TRUE /\ sig = {}
    BY DEF MmaIssuePV
  <2>a. TcType /\ Issue(kind, k, slot, copies, open, sig)
    BY <1>0, <2>1
  <2>2. \E n, op : /\ TcGrown(n, op) /\ op.kind = kind /\ op.st = mm.st /\ op.t = mm.t /\ op.k = k
                   /\ op.slot = slot /\ op.copies = copies /\ op.open = open /\ op.signals = sig
    BY <2>a, IssueGrows
  <2>3. PICK n, op : /\ TcGrown(n, op) /\ op.kind = kind /\ op.st = mm.st /\ op.t = mm.t /\ op.k = k
                     /\ op.slot = slot /\ op.copies = copies /\ op.open = open /\ op.signals = sig
    BY <2>2
  <2>4. op.open
    BY <2>1, <2>3
  <2>5. op.signals = {} /\ op.st = s
    BY <1>1, <2>1, <2>3
  <2> QED
    BY <2>1, <2>3, <2>4, <2>5
<1>5. \A i \in {0, 1} : Flows(i) /\ MmNumbers(i) /\ SmNumbers(i) /\ CoNumbers(i) /\ MmBlocks \in Int
  <2>1. \A i \in {0, 1} : Flows(i)
    BY <1>0, FlowsAre
  <2>2. \A i \in {0, 1} : MmNumbers(i) /\ SmNumbers(i) /\ CoNumbers(i)
    BY <1>0, HandPlaces DEF AllNumbers
  <2> QED
    BY <2>1, <2>2 DEF MmNumbers
<1>6. ASSUME NEW i \in {0, 1}
      PROVE  /\ PvBegun(i)' = PvBegun(i) + If1(i = s) /\ PvDone(i)' = PvDone(i) /\ QksIssued(i)' = QksIssued(i)
  <2>1. /\ PvBegun(i)' = PvBegun(i) + If1(<<"P_full_O", i>> \in w)
        /\ PvDone(i)' = PvDone(i) + If1(<<"P_full_2", i>> \in w)
        /\ QksIssued(i)' = QksIssued(i) + If1(<<"S_full", i>> \in g)
    BY <1>2 DEF MmGo, MmDelta
  <2>2. If1(<<"P_full_O", i>> \in w) = If1(i = s) /\ If1(<<"P_full_2", i>> \in w) = 0
        /\ If1(<<"S_full", i>> \in g) = 0
    BY <1>2 DEF If1
  <2> QED
    BY <1>5, <2>1, <2>2 DEF MmNumbers
<1>7. /\ mm.t \in Tile /\ mm.k \in 1..Blocks[mm.t] /\ Start[mm.t] + mm.k = PvBegun(s)'
  <2>1. /\ mm.t \in Tile /\ mm.k \in Int /\ 0 <= mm.k /\ mm.k <= Blocks[mm.t] /\ Blocks[mm.t] \in Int /\ mm.k # 0
    BY <1>0, <1>1 DEF MmWhere, MmHere, MmPlace, MmOver
  <2>2. If1(s < mm.st \/ (s = mm.st /\ ~Decoupled /\ mm.at \in {"k", "qk"})) = 0
        /\ If1(s = mm.st /\ mm.at = "p2") = 0
    BY <1>1 DEF If1
  <2>3. PvDone(s) = MmBlocks - 1 /\ PvBegun(s) = PvDone(s)
    BY <1>5, <2>1, <2>2 DEF PvDone, PvBegun, MmNumbers
  <2>4. PvBegun(s)' = MmBlocks
    BY <1>5, <1>6, <2>3 DEF If1
  <2> QED
    BY <2>1, <2>4 DEF MmBlocks
<1>8. PvFlies(op)' /\ PvLast(n + 1, s)'
  <2>1. PVCopies \subseteq {<<"SFP", s>>, <<"SFV", SfvSlot(s)>>}
    BY <1>1 DEF PVCopies
  <2>2. PvFlies(op)'
    BY <1>3, <1>4, <1>7, <2>1 DEF PvFlies
  <2>3. PvLast(n + 1, s)'
    BY <1>3, <1>4 DEF PvLast, QkFollows, TcGrown
  <2> QED
    BY <2>2, <2>3
<1>9. ASSUME NEW j \in 1..n, NEW x, x = tc[j]
      PROVE  /\ x.kind = "QK" => QkFlies(x)'
             /\ x.kind = "PV" => PvFlies(x)' /\ PvLast(j, x.st)'
  <2>1. j \in DOMAIN tc /\ x.kind \in {"QK", "PV"} /\ x.st \in {0, 1}
    <3>1. j \in DOMAIN tc
      BY <1>4 DEF TcGrown
    <3>2. x \in Op
      BY <1>0, <1>9, <3>1 DEF TcType
    <3> QED
      BY <3>1, <3>2, StageIs DEF Op
  <2>2. CASE x.kind = "QK"
    BY <1>0, <1>9, <2>1, <2>2 DEF InFlight, QkFlies
  <2>3. CASE x.kind = "PV" /\ x.st = s
    <3>1. PvBegun(s) + 1 <= PStored(s) /\ PvBegun(s) + 1 <= ORescaled(s)
      BY <1>0, <1>2, PvWaited DEF MmGo
    <3>2. /\ Decoupled => Done("O_full", s) + 1 <= PvBegun(s)
          /\ ~Decoupled => SLoaded(s) <= PvBegun(s)
      BY <1>9, <2>1, <2>3, PvUnheard
    <3>3. /\ PStored(s) <= SLoaded(s) /\ OTaken(s) <= Done("O_full", s) /\ Done("O_full", s) \in Int
          /\ Decoupled => ORescaled(s) <= OTaken(s) + 1
      BY <1>5 DEF Flows, SmShape, CoShape, SmNumbers
    <3> QED
      BY <1>5, <3>1, <3>2, <3>3 DEF MmNumbers, SmNumbers, CoNumbers
  <2>4. CASE x.kind = "PV" /\ x.st # s
    <3>1. PvFlies(x) /\ PvLast(j, x.st) /\ ~x.open
      BY <1>0, <1>1, <1>9, <2>1, <2>4 DEF InFlight, PvFlies
    <3>2. PvBegun(x.st)' = PvBegun(x.st) /\ PvDone(x.st)' = PvDone(x.st) /\ QksIssued(x.st)' = QksIssued(x.st)
      BY <1>5, <1>6, <2>1, <2>4 DEF If1, MmNumbers
    <3>3. PvFlies(x)'
      BY <3>1, <3>2 DEF PvFlies
    <3>4. ~Decoupled => QkFollows(j, x.st)'
      <4>1. ASSUME NEW m \in DOMAIN tc, <<"S_full", x.st>> \in tc[m].signals
            PROVE  m \in DOMAIN tc' /\ <<"S_full", x.st>> \in tc'[m].signals
        BY <1>4, <4>1 DEF TcGrown
      <4> QED
        BY <1>1, <3>1, <3>2, <4>1 DEF PvLast, QkFollows
    <3> QED
      BY <1>3, <2>4, <3>3, <3>4 DEF PvLast
  <2> QED
    BY <2>1, <2>2, <2>3, <2>4
<1> SUFFICES ASSUME NEW j, NEW x, j \in DOMAIN tc', x = tc'[j]
             PROVE  /\ x.kind = "QK" => QkFlies(x)'
                    /\ x.kind = "PV" => PvFlies(x)' /\ PvLast(j, x.st)'
  BY FlightNext
<1>10. CASE j = n + 1
  BY <1>4, <1>8, <1>10 DEF TcGrown
<1>11. CASE j # n + 1
  <2>1. j \in 1..n /\ x = tc[j]
    BY <1>4, <1>11 DEF TcGrown
  <2> QED
    BY <1>9, <2>1
<1> QED
  BY <1>10, <1>11

\* The second part of a PV: the QK behind it was issued before, on the baseline.
LEMMA FlightPV2 == ASSUME FlightInv, Types', MmaIssuePV2 PROVE InFlight'
<1>0. /\ Types /\ MmHere /\ MmWhere /\ InFlight /\ TcType /\ TcType' /\ HandInv /\ TcApart /\ MmShape
      /\ \A i \in {0, 1} : MmNumbers(i)
  <2>1. HandInv /\ InFlight /\ OperandInv
    BY DEF FlightInv, HandInv
  <2> QED
    BY <2>1, HandPlaces, MmIsSomewhere, FlowsAre DEF Types, MmHere, OperandInv, MmInv, AllNumbers
<1>1. PICK s \in {0, 1} : s = mm.st /\ mm.at = "p2"
  BY <1>0 DEF MmWhere, MmaIssuePV2
<1>2. PICK w, sig : w = {<<"P_full_2", s>>} /\ sig = PVSignals /\ MmGo(w, sig)
  BY <1>0, <1>1, MmaIssuePV2Go
<1>3. mm'.at # "p2"
  BY <1>0, MmaIssuePV2Cases DEF MmTo, MmHere
<1>4. PICK n : TcClosed(n, sig) /\ tc[n].open
  BY <1>0, <1>2, PV2Closes
<1>5. \A i : /\ <<"S_full", i>> \notin sig
             /\ <<"O_full", i>> \in sig <=> i = s /\ (LastBlock \/ Decoupled)
  BY <1>1, <1>2, MmSignalsAre
<1>6. ASSUME NEW i \in {0, 1}
      PROVE  PvBegun(i)' = PvBegun(i) /\ PvDone(i)' = PvDone(i) + If1(i = s) /\ QksIssued(i)' = QksIssued(i)
  <2>1. /\ PvBegun(i)' = PvBegun(i) + If1(<<"P_full_O", i>> \in w)
        /\ PvDone(i)' = PvDone(i) + If1(<<"P_full_2", i>> \in w)
        /\ QksIssued(i)' = QksIssued(i) + If1(<<"S_full", i>> \in sig)
    BY <1>2 DEF MmGo, MmDelta
  <2>2. If1(<<"P_full_O", i>> \in w) = 0 /\ If1(<<"P_full_2", i>> \in w) = If1(i = s)
        /\ If1(<<"S_full", i>> \in sig) = 0
    BY <1>2, <1>5 DEF If1
  <2> QED
    BY <1>0, <2>1, <2>2 DEF MmNumbers
<1>7. ASSUME ~Decoupled PROVE QksIssued(s)' = PvDone(s)'
  <2>1. PvBegun(s) = PvDone(s) + 1
    BY <1>0, <1>1 DEF PvBegun, If1, MmNumbers
  <2>2. QksIssued(s) = PvDone(s) + 1
    BY <1>0, <1>7, <2>1 DEF MmShape, MmNumbers
  <2> QED
    BY <1>6, <2>2 DEF If1
<1>8. ASSUME NEW j \in 1..n
      PROVE  /\ tc[j].kind \in {"QK", "PV"} /\ tc[j].st \in {0, 1} /\ j \in DOMAIN tc
             /\ tc[j].kind = "QK" => QkFlies(tc[j])
             /\ tc[j].kind = "PV" => PvFlies(tc[j]) /\ PvLast(j, tc[j].st)
  <2>1. j \in DOMAIN tc
    BY <1>4 DEF TcClosed
  <2>2. tc[j] \in Op
    BY <1>0, <2>1 DEF TcType
  <2> QED
    BY <1>0, <2>1, <2>2, StageIs DEF Op, InFlight
<1>9. ASSUME NEW y, y = tc'[n]
      PROVE  y.kind = "PV" /\ PvFlies(y)' /\ PvLast(n, y.st)'
  <2>1. PICK x : x = tc[n] /\ x.open /\ Same(y, x) /\ y.signals = sig /\ ~y.open /\ n \in 1..n
    BY <1>4, <1>9 DEF TcClosed
  <2>2. x.kind = "PV"
    BY <1>8, <2>1 DEF QkFlies
  <2>3. PvFlies(x) /\ x.st = s /\ x.t = mm.t /\ x.k = mm.k
    <3>1. PvFlies(x)
      BY <1>8, <2>1, <2>2
    <3> QED
      BY <1>1, <2>1, <3>1 DEF PvFlies
  <2>4. y.kind = "PV" /\ y.st = s /\ y.t = mm.t /\ y.k = mm.k /\ y.copies = x.copies
    BY <2>1, <2>2, <2>3 DEF Same
  <2>5. Decoupled \/ y.k = Blocks[y.t] => <<"O_full", s>> \in sig
    BY <1>5, <2>4 DEF LastBlock, N
  <2>6. PvFlies(y)'
    BY <1>6, <2>1, <2>3, <2>4, <2>5 DEF PvFlies
  <2>7. PvLast(n, s)'
    BY <1>3, <1>7 DEF PvLast, QkFollows
  <2> QED
    BY <2>4, <2>6, <2>7
<1>10. ASSUME NEW j \in 1..n, j # n, NEW x, x = tc[j]
       PROVE  /\ x.kind = "QK" => QkFlies(x)'
              /\ x.kind = "PV" => PvFlies(x)' /\ PvLast(j, x.st)'
  <2>1. CASE x.kind = "QK"
    BY <1>8, <1>10, <2>1 DEF QkFlies
  <2>2. CASE x.kind = "PV"
    <3>1. PvFlies(x) /\ PvLast(j, x.st) /\ x.st \in {0, 1}
      BY <1>8, <1>10, <2>2
    <3>2. x.st # s
      BY <1>1, <1>4, <1>10, <3>1 DEF PvLast, TcClosed
    <3>3. ~x.open
      BY <1>1, <3>1, <3>2 DEF PvFlies
    <3>4. PvBegun(x.st)' = PvBegun(x.st) /\ PvDone(x.st)' = PvDone(x.st) /\ QksIssued(x.st)' = QksIssued(x.st)
      BY <1>0, <1>6, <3>1, <3>2 DEF If1, MmNumbers
    <3>5. PvFlies(x)'
      BY <3>1, <3>3, <3>4 DEF PvFlies
    <3>6. ~Decoupled => QkFollows(j, x.st)'
      <4>1. ASSUME NEW m \in DOMAIN tc, <<"S_full", x.st>> \in tc[m].signals
            PROVE  m \in DOMAIN tc' /\ <<"S_full", x.st>> \in tc'[m].signals
        BY <1>4, <4>1 DEF TcClosed
      <4> QED
        BY <1>1, <3>1, <3>2, <3>4, <4>1 DEF PvLast, QkFollows
    <3> QED
      BY <1>3, <2>2, <3>5, <3>6 DEF PvLast
  <2> QED
    BY <1>8, <1>10, <2>1, <2>2
<1> SUFFICES ASSUME NEW j, NEW x, j \in DOMAIN tc', x = tc'[j]
             PROVE  /\ x.kind = "QK" => QkFlies(x)'
                    /\ x.kind = "PV" => PvFlies(x)' /\ PvLast(j, x.st)'
  BY FlightNext
<1>11. CASE j = n
  BY <1>9, <1>11
<1>12. CASE j # n
  <2>1. j \in 1..n /\ x = tc[j]
    BY <1>4, <1>12 DEF TcClosed
  <2> QED
    BY <1>10, <1>12, <2>1
<1> QED
  BY <1>11, <1>12

LEMMA NextFlight == FlightInv /\ [Next]_vars => FlightInv'
<1> SUFFICES ASSUME FlightInv, [Next]_vars PROVE FlightInv'
  OBVIOUS
<1>1. HandInv /\ InFlight /\ HandInv' /\ Types' /\ MmHere /\ TcType /\ TcType'
  <2>1. HandInv /\ InFlight /\ HandInv'
    BY NextHand DEF FlightInv
  <2>2. Types /\ MmHere /\ Types'
    BY <2>1, HandPlaces, NextTypes
  <2> QED
    BY <2>1, <2>2 DEF Types
<1>2. InFlight'
  <2>1. CASE \/ Load \/ TmaLand \/ (\E i \in Stage : Softmax(i)) \/ Correction \/ Epilogue
             \/ UNCHANGED vars
    <3>1. UNCHANGED <<tc, mm>>
      BY <2>1 DEF Load, LoadQ, LoadKV, TmaLand, Softmax, SoftmaxStart, SoftmaxTile, SoftmaxLoadS,
                  SoftmaxScale, SoftmaxStoreP, SoftmaxStoreP2, SoftmaxWaitCorr, SoftmaxSum,
                  Correction, CorrStart, CorrFirst, CorrToRescale, CorrRescaled, CorrSum,
                  CorrWaitLastO, CorrWaitBuffer, CorrWriteO, Epilogue, EpiStore, EpiFree, vars
    <3> QED
      BY <1>1, <3>1, FlightStill
  <2>2. CASE TcStart
    <3>1. PICK n : TcBegan(n)
      BY <1>1, <2>2, StartBegins
    <3>2. UNCHANGED mm
      BY <2>2 DEF TcStart
    <3> QED
      BY <1>1, <3>1, <3>2, FlightBegan
  <2>3. CASE TcFinish
    <3>1. PICK n : TcShrunk(n)
      BY <1>1, <2>3, FinishShrinks
    <3>2. UNCHANGED mm
      BY <2>3 DEF TcFinish
    <3> QED
      BY <1>1, <3>1, <3>2, FlightShrunk
  <2>4. CASE MmaWaitQ \/ MmaWaitK \/ MmaWaitV
    <3>1. PICK w : MmGo(w, {}) /\ UNCHANGED tc /\ NoPvIn(w) /\ mm.at # "p2" /\ mm'.at # "p2"
      BY <1>1, <2>4, MmaWaitRingGo
    <3> QED
      BY <3>1, FlightWaits
  <2>5. CASE MmaDealloc
    <3>1. PICK w : w = {<<"dealloc", 0>>} /\ MmGo(w, {}) /\ UNCHANGED tc
      BY <1>1, <2>5, MmaDeallocGo
    <3>2. NoPvIn(w)
      BY <3>1 DEF NoPvIn
    <3>3. mm.at # "p2" /\ mm'.at # "p2"
      <4>1. mm.at = "dealloc" /\ mm' = [mm EXCEPT !.at = "end"] /\ mm \in MmRecord
        BY <1>1, <2>5, MmIsSomewhere DEF MmaDealloc, MmHere, MmWhere
      <4> QED
        BY <4>1 DEF MmRecord
    <3> QED
      BY <3>1, <3>2, <3>3, FlightWaits
  <2>6. CASE MmaIssueQK \/ MmaIssuePV \/ MmaIssuePV2
    BY <1>1, <2>6, FlightQK, FlightPV, FlightPV2
  <2> QED
    BY <2>1, <2>2, <2>3, <2>4, <2>5, <2>6 DEF Next, Mma, TensorCore, Halt
<1> QED
  BY <1>1, <1>2 DEF FlightInv

\* What is in flight, in every build: one QK's and one PV's commits stand for the stage
\* they were issued for, a PV is the last begun of its stage and, on the baseline, the
\* QK of the next block is behind it (MmaIssueQK, MmaIssuePV).
THEOREM FlightInvariant == Spec => []FlightInv
<1>1. Init => FlightInv
  <2> SUFFICES ASSUME Init PROVE FlightInv
    OBVIOUS
  <2>1. tc = <<>>
    BY DEF Init
  <2>2. InFlight
    BY <2>1 DEF InFlight
  <2> QED
    BY <2>2, InitHand DEF FlightInv
<1> QED
  BY <1>1, NextFlight, PTL DEF Spec

-----------------------------------------------------------------------------
(* Who may touch what a PV works on.                                       *)

LEMMA PvsInFlight ==
    ASSUME FlightInv, NEW j \in DOMAIN tc
    PROVE  /\ tc[j].kind \in {"QK", "PV"} /\ tc[j].st \in {0, 1}
           /\ tc[j].kind = "QK" => QkFlies(tc[j])
           /\ tc[j].kind = "PV" => PvFlies(tc[j])
<1>1. tc[j] \in Op
  BY HandPlaces DEF FlightInv, Types, TcType
<1> QED
  BY <1>1, StageIs DEF Op, FlightInv, InFlight

\* On the baseline softmax's S says that the PV before it is over, and O_full that the
\* last PV of the tile is.
LEMMA CorrectionAlone ==
    ASSUME FlightInv, NEW j \in DOMAIN tc, NEW i \in {0, 1}, tc[j].kind = "PV", tc[j].st = i,
           co.at \in {"rescale", "write"}, co.st = i
    PROVE  FALSE
<1>1. SmWhere(i) /\ CoWhere /\ CoPlace /\ MmHere /\ Flows(i) /\ MmShape /\ PvFlies(tc[j])
  BY HandPlaces, FlowsAre, PvsInFlight DEF FlightInv, HandInv, Places
<1>2. SmNumbers(i) /\ CoNumbers(i) /\ MmNumbers(i) /\ PvDone(i) <= PvBegun(i) /\ PvBegun(i) <= ORescaled(i)
  BY <1>1 DEF Flows, SmShape, CoShape, MmShape
<1>3. /\ Decoupled => Done("O_full", i) + 1 <= PvBegun(i)
      /\ ~Decoupled => SLoaded(i) <= PvBegun(i)
  BY PvUnheard
<1>4. CASE Decoupled
  <2>1. ORescaled(i) = OTaken(i)
    <3>1. CoRounds \in Int /\ Start[co.t] \in Int /\ co.k \in Int /\ CoIn
      BY <1>1, <1>2 DEF CoNumbers, CoWhere, CoIn
    <3> QED
      BY <1>4, <3>1 DEF ORescaled, OTaken, CoIn, If1
  <2>2. OTaken(i) <= Done("O_full", i) /\ Done("O_full", i) \in Int
    BY <1>1 DEF Flows
  <2> QED
    BY <1>2, <1>3, <1>4, <2>1, <2>2 DEF CoNumbers, MmNumbers
<1>5. CASE ~Decoupled /\ co.at = "rescale"
  <2>1. PICK s, c, ss, sc, bs, bc :
             /\ s = sm[i].t /\ c = co.t /\ ss = Start[s] /\ sc = Start[c] /\ bs = Blocks[s] /\ bc = Blocks[c]
             /\ s \in Int /\ c \in Int /\ ss \in Int /\ sc \in Int /\ 0 <= sc /\ 1 <= c /\ c <= Tiles + 1
             /\ s < c => PBegun(i) <= sc
             /\ s = c => ss = sc
             /\ c < s => bc \in Int /\ sc + bc <= ss
             /\ ss <= PBegun(i) /\ ScalesOut(i) = PBegun(i) + s - 1 /\ PBegun(i) \in Int
    BY <1>1, SmCoApart DEF FlightInv
  <2>2. ORescaled(i) = sc + co.k - 1 /\ 2 <= co.k /\ co.k <= bc /\ bc \in Int /\ co.k \in Int
    <3>1. CoIn /\ ~CoEnding /\ If1(i < co.st) = 0 /\ co.k \in Int /\ Blocks[co.t] \in Int
      BY <1>1, <1>5 DEF CoIn, CoEnding, CoWhere, If1
    <3> QED
      BY <1>1, <1>5, <2>1, <3>1, CoRescales
  <2>3. ScalesTaken(i) = sc + c - 1 + co.k
    <3>1. CoRounds = sc + c - 1 + co.k - 1
      BY <1>5, <2>1, <2>2 DEF CoRounds, CoIn
    <3>2. If1(i < co.st) = 0 /\ If1(i = co.st /\ co.at \in {"acc", "rescale", "o", "buffer", "write"}) = 1
      BY <1>5 DEF If1
    <3> QED
      BY <2>1, <2>2, <3>1, <3>2 DEF ScalesTaken
  <2>4. sc + c - 1 + co.k <= PBegun(i) + s - 1
    BY <1>1, <2>1, <2>3 DEF Flows
  <2>5. sc + co.k <= PBegun(i)
    BY <2>1, <2>2, <2>4
  <2>6. PBegun(i) <= SLoaded(i)
    BY <1>1 DEF Flows, SmShape
  <2> QED
    BY <1>2, <1>3, <1>5, <2>1, <2>2, <2>5, <2>6 DEF SmNumbers, MmNumbers, CoNumbers
<1>6. CASE ~Decoupled /\ co.at = "write"
  <2>1. PICK c, sc, bc : /\ c = co.t /\ sc = Start[c] /\ bc = Blocks[c] /\ c \in Int /\ sc \in Int /\ bc \in Int
                         /\ 1 <= bc /\ 1 <= c /\ c \in Tile /\ c <= Tiles /\ Start[c + 1] = sc + bc
                         /\ c \in 1..(Tiles + 1) /\ c \in 0..Tiles
    <3>1. co.at # "end"
      BY <1>6
    <3> QED
      BY <1>1, <3>1 DEF CoWhere
  <2>2. ORescaled(i) = sc + bc /\ OTaken(i) = c
    <3>1. CoEnding /\ If1(i < co.st) = 0
      BY <1>1, <1>6 DEF CoEnding, CoWhere, If1
    <3>2. ORescaled(i) = sc + bc
      BY <1>1, <1>6, <2>1, <3>1, CoRescales
    <3>3. OTaken(i) = c - 1 + 1
      <4>1. If1(CoEnding /\ (i < co.st \/ (i = co.st /\ co.at \in {"buffer", "write"}))) = 1
        BY <1>6, <3>1 DEF If1
      <4> QED
        BY <1>6, <2>1, <4>1 DEF OTaken
    <3> QED
      BY <2>1, <3>2, <3>3
  <2>3. PICK o, e : o = Done("O_full", i) /\ e = If1(Committed(<<"O_full", i>>)) /\ e \in {0, 1}
    BY DEF If1
  <2>4. o \in Int /\ o = OCommits(i) - e /\ c <= o /\ OCommits(i) \in Int
    BY <1>1, <1>2, <2>2, <2>3 DEF Flows, MmNumbers
  <2>5. sc + bc <= PvDone(i)
    <3>1. c <= OCommits(i)
      BY <2>1, <2>3, <2>4
    <3> QED
      BY <1>1, <1>6, <2>1, <3>1, CommitsSay
  <2>6. PvBegun(i) = sc + bc /\ PvDone(i) = sc + bc
    BY <1>2, <2>1, <2>2, <2>5 DEF MmNumbers, CoNumbers
  <2>7. ~(mm.at = "p2" /\ mm.st = i)
    BY <1>2, <2>6 DEF PvBegun, If1, MmNumbers
  \* The operation is the last of the tile, and its commit is still out.
  <2>8. PICK t, k : /\ t = tc[j].t /\ k = tc[j].k /\ t \in Tile /\ k \in 1..Blocks[t]
                    /\ Start[t] + k = sc + bc /\ ~tc[j].open
    BY <1>1, <2>6, <2>7 DEF PvFlies
  <2>9. t = c /\ k = bc
    <3>1. t \in Int /\ 1 <= t /\ t <= Tiles /\ t \in 1..(Tiles + 1) /\ Blocks[t] \in Int /\ 1 <= Blocks[t]
      <4>1. t \in 1..Tiles
        BY <2>8, TilesAre DEF Tile, Tiles
      <4> QED
        BY <4>1, StartIs
    <3>2. Apart(t, c)
      BY <2>1, <3>1, TilesApart
    <3>3. PICK a, b : a = Start[t] /\ b = Blocks[t]
      OBVIOUS
    <3>4. /\ a \in Int /\ b \in Int /\ k \in Int /\ 1 <= k /\ k <= b /\ a + k = sc + bc
          /\ t < c => a + b <= sc
          /\ c < t => sc + bc <= a
          /\ t = c => a = sc /\ b = bc
      BY <2>1, <2>8, <3>1, <3>2, <3>3 DEF Apart
    <3> QED
      BY <2>1, <3>1, <3>4
  <2>10. e = 1
    <3>1. <<"O_full", i>> \in tc[j].signals
      BY <1>1, <2>1, <2>8, <2>9 DEF PvFlies
    <3>2. Committed(<<"O_full", i>>)
      BY <3>1 DEF Committed
    <3> QED
      BY <2>3, <3>2 DEF If1
  <2>11. c + 1 <= OCommits(i) /\ c + 1 \in 0..Tiles
    <3>1. c + 1 <= OCommits(i)
      BY <2>1, <2>4, <2>10
    <3>2. OCommits(i) <= Tiles
      <4>1. MmWhere /\ MmStarts
        BY <1>1, MmIsSomewhere, MmStartsIs DEF MmHere
      <4>2. mm.t \in 1..(Tiles + 1) /\ mm.t \in Int /\ (Last => mm.t \in 1..Tiles)
        BY <4>1 DEF MmStarts, MmWhere, Last, Tile, Tiles
      <4> QED
        BY <1>6, <4>2, TilesAre DEF OCommits, If1
    <3> QED
      BY <2>1, <2>4, <3>1, <3>2, TilesAre
  <2>12. Start[c + 2] <= PvDone(i)
    <3>1. (c + 1) + 1 = c + 2
      BY <2>1
    <3>2. Start[(c + 1) + 1] <= PvDone(i)
      BY <1>1, <1>6, <2>11, CommitsSay
    <3> QED
      BY <3>1, <3>2
  <2>13. sc + bc + 1 <= Start[c + 2] /\ Start[c + 2] \in Int
    <3>1. c + 1 \in 1..Tiles /\ (c + 1) + 1 = c + 2
      BY <2>1, <2>11, TilesAre
    <3>2. c + 2 \in 1..(Tiles + 1)
      BY <2>1, <3>1, TilesAre
    <3>3. Start[(c + 1) + 1] = Start[c + 1] + Blocks[c + 1] /\ Blocks[c + 1] \in Int /\ 1 <= Blocks[c + 1]
      BY <3>1, StartIs
    <3> QED
      BY <2>1, <3>1, <3>2, <3>3, StartIs
  <2> QED
    BY <2>1, <2>6, <2>12, <2>13
<1> QED
  BY <1>4, <1>5, <1>6

\* CorrectionOwnsO: in every build no operation on O is in flight while the correction
\* warps rescale or read it (correction_loop's waits on O_full and corr_full).
THEOREM CorrectionHasO == Spec => []CorrectionOwnsO
<1>1. FlightInv => CorrectionOwnsO
  <2> SUFFICES ASSUME FlightInv, co.at \in {"rescale", "write"}, NEW j \in DOMAIN tc,
                      Target(tc[j]) = <<"O", co.st>>
               PROVE  FALSE
    BY DEF CorrectionOwnsO
  <2>1. tc[j].kind = "PV" /\ tc[j].st = co.st
    BY PvsInFlight DEF Target
  <2> QED
    BY <2>1, CorrectionAlone, PvsInFlight
<1> QED
  BY <1>1, FlightInvariant, PTL

\* Softmax has stored all of P for each PV in flight, and what it stores next is for a
\* PV behind the one it has heard of.
LEMMA POperandsKept ==
    ASSUME FlightInv, Decoupled => PvBeforeNextP, NEW j \in DOMAIN tc, NEW i \in {0, 1},
           tc[j].kind = "PV", tc[j].st = i,
           sm[i].at = "plo" \/ (sm[i].at = "phi" /\ ~tc[j].open)
    PROVE  FALSE
<1>1. Flows(i) /\ MmShape /\ SmShape(i) /\ SmNumbers(i) /\ MmNumbers(i) /\ HandInv
  BY FlowsAre DEF FlightInv, Flows, SmShape, MmShape
<1>2. PICK n, p, b : /\ n = SmBlocks(i) /\ p = PvBegun(i) /\ b = PvDone(i)
                     /\ n \in Int /\ p \in Int /\ b \in Int
  BY <1>1 DEF SmNumbers, MmNumbers
<1>3. PICK o : o = Done("O_full", i) /\ o \in Int
  BY <1>1 DEF Flows
<1>4. /\ SLoaded(i) = n + 1 /\ PBegun(i) = n + 1 /\ P2Stored(i) = n
      /\ sm[i].at = "plo" => PStored(i) = n
  BY <1>2 DEF SLoaded, PBegun, PStored, P2Stored, If1
<1>5. p <= PStored(i) /\ b <= P2Stored(i)
  <2>1. b <= Done("P_full_2", i) /\ Done("P_full_2", i) = P2Stored(i) /\ p <= PStored(i)
    BY <1>1, <1>2 DEF Flows
  <2> QED
    BY <2>1
<1>6. /\ Decoupled => o + 1 <= p
      /\ Decoupled /\ ~tc[j].open => o + 1 = b
      /\ ~Decoupled => SLoaded(i) <= p
      /\ ~Decoupled /\ ~(mm.at = "p2" /\ mm.st = i) => SLoaded(i) <= b
      /\ mm.at = "p2" /\ mm.st = i => tc[j].open
  BY <1>2, <1>3, PvUnheard
<1>7. Decoupled => n <= o
  <2>1. Decoupled => PBegun(i) <= Done("O_full", i) + 1
    BY <1>1, StageIs DEF HandInv, PvBehind
  <2> QED
    BY <1>2, <1>3, <1>4, <2>1
<1>8. CASE sm[i].at = "plo"
  <2>1. p <= n
    BY <1>4, <1>5, <1>8
  <2>2. CASE Decoupled
    BY <1>2, <1>3, <1>6, <1>7, <2>1, <2>2
  <2>3. CASE ~Decoupled
    BY <1>2, <1>4, <1>6, <2>1, <2>3
  <2> QED
    BY <2>2, <2>3
<1>9. CASE sm[i].at = "phi" /\ ~tc[j].open
  <2>1. b <= n
    BY <1>4, <1>5
  <2>2. CASE Decoupled
    BY <1>2, <1>3, <1>6, <1>7, <1>9, <2>1, <2>2
  <2>3. CASE ~Decoupled
    BY <1>2, <1>4, <1>6, <1>9, <2>1, <2>3
  <2> QED
    BY <2>2, <2>3
<1> QED
  BY <1>8, <1>9

\* POperandStable: on the baseline, and on the decoupled layout where softmax does not
\* begin a P before the PV of the last one is over, P and its scale factors stay as they
\* are until the PV that reads them is over (softmax_step's stores of P).
THEOREM PStaysStable == (Decoupled => PvBeforeNextP) => (Spec => []POperandStable)
<1> SUFFICES ASSUME Decoupled => PvBeforeNextP PROVE Spec => []POperandStable
  OBVIOUS
<1>1. FlightInv => POperandStable
  BY POperandsKept, StageIs DEF POperandStable
<1> QED
  BY <1>1, FlightInvariant, PTL

-----------------------------------------------------------------------------
(* The decoupled layout: one QK, and one PV of a stage, in flight at a time. *)

LEMMA OneOfAKind ==
    ASSUME FlightInv, Decoupled, NEW i \in DOMAIN tc, NEW j \in DOMAIN tc, i # j,
           tc[i].kind = tc[j].kind, tc[i].kind = "PV" => tc[i].st = tc[j].st
    PROVE  FALSE
<1>1. HandInv /\ CommitsOnce /\ QuantQK
  BY ConfigAssumption DEF FlightInv, HandInv
<1>2. PICK s, t \in {0, 1} : s = tc[i].st /\ t = tc[j].st
  BY PvsInFlight
<1>3. CASE tc[i].kind = "QK"
  <2>1. <<"S_full", s>> \in tc[i].signals /\ <<"S_full", t>> \in tc[j].signals
    BY <1>2, <1>3, PvsInFlight DEF QkFlies
  <2>2. s # t
    BY <1>1, <2>1 DEF CommitsOnce
  <2>3. ASSUME NEW u \in {0, 1}
        PROVE  /\ SLoaded(u) + 1 <= QksIssued(u) /\ QksIssued(u) <= QksLet(1 - u)
               /\ SmShape(u) /\ SmNumbers(u) /\ QksIssued(u) \in Int
    <3>1. Flows(u) /\ SmShape(u) /\ SmNumbers(u) /\ MmNumbers(u)
      BY <1>1, FlowsAre DEF Flows, SmShape, MmShape
    <3>2. u = s \/ u = t
      BY <1>2, <2>2
    <3>3. Committed(<<"S_full", u>>)
      BY <2>1, <3>2 DEF Committed
    <3>4. Done("S_full", u) = QksIssued(u) - 1 /\ SLoaded(u) <= Done("S_full", u)
      BY <3>1, <3>3 DEF Flows, If1
    <3> QED
      BY <1>1, <3>1, <3>4 DEF Flows, SmNumbers, MmNumbers
  <2>4. QksIssued(1) <= QksLet(0) /\ QksIssued(0) <= QksLet(1)
    <3>1. 1 - 0 = 1 /\ 1 - 1 = 0
      OBVIOUS
    <3>2. QksIssued(0) <= QksLet(1 - 0) /\ QksIssued(1) <= QksLet(1 - 1)
      BY <2>3
    <3> QED
      BY <3>1, <3>2
  <2>5. QksLet(0) = SLoaded(0) /\ QksLet(1) <= SLoaded(1) + 1
    BY <2>3 DEF SmShape
  <2>6. /\ SLoaded(0) \in Int /\ SLoaded(1) \in Int /\ QksIssued(0) \in Int /\ QksIssued(1) \in Int
        /\ QksLet(0) \in Int /\ QksLet(1) \in Int
        /\ SLoaded(0) + 1 <= QksIssued(0) /\ SLoaded(1) + 1 <= QksIssued(1)
    BY <2>3 DEF SmNumbers
  <2> QED
    BY <2>4, <2>5, <2>6
<1>4. CASE tc[i].kind = "PV"
  <2>1. /\ tc[j].kind = "PV" /\ t = s
        /\ PvFlies(tc[i]) /\ PvLast(i, s) /\ PvFlies(tc[j]) /\ PvLast(j, s)
    BY <1>2, <1>4 DEF FlightInv, InFlight
  <2>2. ~tc[i].open /\ ~tc[j].open
    <3>1. ~(mm.at = "p2" /\ mm.st = s)
      BY <2>1 DEF PvLast
    <3> QED
      BY <1>2, <2>1, <3>1 DEF PvFlies
  <2>3. <<"O_full", s>> \in tc[i].signals /\ <<"O_full", s>> \in tc[j].signals
    BY <1>2, <2>1, <2>2 DEF PvFlies
  <2> QED
    BY <1>1, <2>3 DEF CommitsOnce
<1> QED
  BY <1>3, <1>4, PvsInFlight

\* The scale factors of an operation lie apart from all that another one uses.
ScaleNames == {"SFQ", "SFK", "SFP", "SFV"}
LEMMA ColumnsApart ==
    ASSUME Decoupled, NEW n \in ScaleNames, NEW a \in {0, 1}, NEW q,
           \/ \E x, m : q = <<m, x>> /\ m \in {"Q", "KV"}
           \/ \E m, b : /\ q = <<m, b>> /\ m \in {"S", "O", "Plo", "Phi"} \cup ScaleNames
                        /\ b \in {0, 1} /\ (n = m => a # b)
    PROVE  ~Clash(<<n, a>>, q)
<1>1. ~OverlapSOSQ
  BY ConfigAssumption
<1>2. /\ n = "SFQ" => Column(<<n, a>>) = {5 + a}
      /\ n = "SFK" => Column(<<n, a>>) = {7 + a}
      /\ n = "SFP" => Column(<<n, a>>) = {9 + a}
      /\ n = "SFV" => Column(<<n, a>>) = {11 + a}
  BY DEF Column, DecoupledColumn
<1>3. CASE \E x, m : q = <<m, x>> /\ m \in {"Q", "KV"}
  <2>1. PICK x, m : q = <<m, x>> /\ m \in {"Q", "KV"}
    BY <1>3
  <2>2. Column(q) = {}
    BY <2>1 DEF Column, DecoupledColumn
  <2>3. <<n, a>> # q
    BY <2>1 DEF ScaleNames
  <2> QED
    BY <1>1, <2>2, <2>3 DEF Clash
<1>4. CASE \E m, b : /\ q = <<m, b>> /\ m \in {"S", "O", "Plo", "Phi"} \cup ScaleNames
                     /\ b \in {0, 1} /\ (n = m => a # b)
  <2>1. PICK m, b : /\ q = <<m, b>> /\ m \in {"S", "O", "Plo", "Phi"} \cup ScaleNames
                    /\ b \in {0, 1} /\ (n = m => a # b)
    BY <1>4
  <2>2. /\ m = "S"   => Column(q) = {0}
        /\ m = "Plo" => Column(q) = {1 + b}
        /\ m = "Phi" => Column(q) = {3 + b}
        /\ m = "SFQ" => Column(q) = {5 + b}
        /\ m = "SFK" => Column(q) = {7 + b}
        /\ m = "SFP" => Column(q) = {9 + b}
        /\ m = "SFV" => Column(q) = {11 + b}
        /\ m = "O"   => Column(q) = {13 + b}
    BY <2>1 DEF Column, DecoupledColumn
  <2>3. Column(<<n, a>>) \cap Column(q) = {}
    <3>1. PICK x, y \in Int : Column(<<n, a>>) = {x} /\ Column(q) = {y} /\ x # y
      BY <1>2, <2>1, <2>2 DEF ScaleNames
    <3> QED
      BY <3>1
  <2>4. <<n, a>> # q
    BY <2>1
  <2> QED
    BY <1>1, <2>3, <2>4 DEF Clash
<1> QED
  BY <1>3, <1>4

\* NoCopyBehindReader: on the decoupled layout no scale factors are copied while an
\* operation issued before still reads or writes their columns.
THEOREM CopiesBehindNone == Decoupled => (Spec => []NoCopyBehindReader)
<1> SUFFICES ASSUME Decoupled PROVE Spec => []NoCopyBehindReader
  OBVIOUS
<1>1. FlightInv => NoCopyBehindReader
  <2> SUFFICES ASSUME FlightInv, NEW j \in DOMAIN tc, NEW i \in 1..(j - 1), NEW r \in tc[j].copies,
                      NEW q \in Operands(tc[i]) \cup {Target(tc[i])}
               PROVE  ~Clash(r, q)
    BY DEF NoCopyBehindReader
  <2>1. i \in DOMAIN tc /\ i # j
    <3>1. tc \in Seq(Op)
      BY HandPlaces DEF FlightInv, Types, TcType
    <3> QED
      BY <3>1
  <2>2. PICK a, b \in {0, 1} : a = tc[j].st /\ b = tc[i].st
    BY <2>1, PvsInFlight
  <2>3. SfkSlot(a) \in {0, 1} /\ SfkSlot(b) \in {0, 1} /\ SfvSlot(a) = a /\ SfvSlot(b) = b
    BY <2>2 DEF SfkSlot, SfvSlot
  <2>4. \/ tc[j].kind = "QK" /\ r \in {<<"SFQ", a>>, <<"SFK", SfkSlot(a)>>}
        \/ tc[j].kind = "PV" /\ r \in {<<"SFP", a>>, <<"SFV", a>>}
    <3>1. /\ tc[j].kind = "QK" => tc[j].copies \subseteq {<<"SFQ", a>>, <<"SFK", SfkSlot(a)>>}
          /\ tc[j].kind = "PV" => tc[j].copies \subseteq {<<"SFP", a>>, <<"SFV", SfvSlot(a)>>}
      BY <2>2, PvsInFlight DEF QkFlies, PvFlies
    <3> QED
      BY <2>3, <3>1, PvsInFlight
  <2>5. \/ tc[i].kind = "QK" /\ q \in {<<"Q", b>>, <<"KV", tc[i].slot>>, <<"SFQ", b>>, <<"SFK", SfkSlot(b)>>,
                                      <<"S", b>>}
        \/ tc[i].kind = "PV" /\ q \in {<<"Plo", b>>, <<"Phi", b>>, <<"KV", tc[i].slot>>, <<"SFP", b>>,
                                      <<"SFV", b>>, <<"O", b>>}
    BY <2>1, <2>2, <2>3, PvsInFlight DEF Operands, Target
  <2>6. \/ tc[j].kind # tc[i].kind
        \/ tc[j].kind = "PV" /\ tc[i].kind = "PV" /\ a # b
    BY <2>1, <2>2, OneOfAKind, PvsInFlight
  <2>7. PICK n, c : r = <<n, c>> /\ n \in ScaleNames /\ c \in {0, 1}
                    /\ (tc[j].kind = "QK" => n \in {"SFQ", "SFK"})
                    /\ (tc[j].kind = "PV" => n \in {"SFP", "SFV"} /\ c = a)
    BY <2>3, <2>4 DEF ScaleNames
  <2>8. PICK m, d : q = <<m, d>>
                    /\ \/ m \in {"Q", "KV"}
                       \/ tc[i].kind = "QK" /\ m \in {"SFQ", "SFK", "S"} /\ d \in {0, 1}
                       \/ tc[i].kind = "PV" /\ m \in {"Plo", "Phi", "SFP", "SFV", "O"} /\ d = b
    BY <2>3, <2>5
  <2>9. CASE m \in {"Q", "KV"}
    <3>1. \E x, y : q = <<y, x>> /\ y \in {"Q", "KV"}
      BY <2>8, <2>9
    <3>2. ~Clash(<<n, c>>, q)
      BY <2>7, <3>1, ColumnsApart
    <3> QED
      BY <2>7, <3>2
  <2>10. CASE m \notin {"Q", "KV"}
    <3>1. /\ m \in {"S", "O", "Plo", "Phi"} \cup ScaleNames /\ d \in {0, 1}
          /\ n = m => c # d
      <4>1. CASE tc[i].kind = "QK"
        <5>1. m \in {"SFQ", "SFK", "S"} /\ d \in {0, 1}
          BY <2>8, <2>10, <4>1
        <5>2. n \in {"SFP", "SFV"}
          BY <2>1, <2>6, <2>7, <4>1, PvsInFlight
        <5> QED
          BY <5>1, <5>2 DEF ScaleNames
      <4>2. CASE tc[i].kind = "PV"
        <5>1. m \in {"Plo", "Phi", "SFP", "SFV", "O"} /\ d = b
          BY <2>8, <2>10, <4>2
        <5>2. n \in {"SFQ", "SFK"} \/ (c = a /\ a # b)
          BY <2>6, <2>7, <4>2, PvsInFlight
        <5> QED
          BY <2>2, <5>1, <5>2 DEF ScaleNames
      <4> QED
        BY <2>1, <4>1, <4>2, PvsInFlight
    <3>2. \E y, x : /\ q = <<y, x>> /\ y \in {"S", "O", "Plo", "Phi"} \cup ScaleNames
                    /\ x \in {0, 1} /\ (n = y => c # x)
      BY <2>8, <3>1
    <3>3. ~Clash(<<n, c>>, q)
      BY <2>7, <3>2, ColumnsApart
    <3> QED
      BY <2>7, <3>3
  <2> QED
    BY <2>9, <2>10
<1> QED
  BY <1>1, FlightInvariant, PTL

-----------------------------------------------------------------------------
(* What the buffers hold.  A block is known by its number in the CTA, a    *)
(* scale or row sum by its own, and an item of the ring by its place in    *)
(* the order of loads.                                                     *)

IsBlock(t, k, n) == t \in Tile /\ k \in 1..Blocks[t] /\ Start[t] + k = n
IsScale(t, k, n) == t \in Tile /\ k \in 1..(Blocks[t] + 1) /\ Start[t] + t - 1 + k = n
IsItem(tag, n)   == \E t \in Tile : \E k \in 1..Blocks[t] : \E v \in 0..1 :
                        tag = <<t, k, v>> /\ n = 2 * (Start[t] + k - 1) + v

\* The next item of the load warp, and the one at the MMA warp's index.
LdNext == 2 * (Start[ld.t] + ld.k - 1) + If1(ld.at \in {"q1", "v"})
MmNext == 2 * MmBlocks - If1(mm.k > 0 /\ (mm.at = "v" \/ (mm.at \in {"p", "p2"} /\ ~HoldsV)))

LdPlaced == /\ ld.t \in 1..(Tiles + 1) /\ (ld.at # "end" => ld.k \in 1..Blocks[ld.t])
            /\ ld.at = "end" => ld.t = Tiles + 1
            /\ ld.at = "q1" => ld.k = 1
            /\ LdNext = KvStages * Seen("kv_empty", ld.idx) + ld.idx
MmPlaced == MmNext = KvStages * Before + mm.idx

\* K and V: in a load, in the ring, in the MMA warp's hand.
KvHolds ==
    /\ \A x \in tma : \A s \in Slot :
          x.full = <<"kv_full", s>> => IsItem(x.tag, KvStages * Done("kv_full", s) + s)
    /\ \A s \in Slot : Done("kv_full", s) = Seen("kv_full", s) + 1 =>
          IsItem(mem[<<"KV", s>>], KvStages * Seen("kv_full", s) + s)
    /\ HoldsNext => IsItem(mem[<<"KV", mm.idx>>], MmNext)
    /\ HoldsV => IsItem(mem[<<"KV", mm.v>>], 2 * MmBlocks - 1)
\* Q.
QHolds(i) ==
    /\ \A x \in tma : x.full = <<"q_full", i>> => x.tag = QTag(Done("q_full", i) + 1)
    /\ Done("q_full", i) = Seen("q_full", i) + 1 => mem[<<"Q", i>>] = QTag(Done("q_full", i))
    /\ HoldsQ(i) > 0 => mem[<<"Q", i>>] = QTag(mm.t)

\* The copies that precede an operation.
CopiesOf(op) ==
    IF op.kind = "PV" THEN (IF QuantPV THEN {<<"SFP", op.st>>, <<"SFV", SfvSlot(op.st)>>} ELSE {})
    ELSE {r \in {<<"SFQ", op.st>>, <<"SFK", SfkSlot(op.st)>>} :
            QuantQK /\ (op.k = 1 \/ ~Decoupled \/ (r[1] = "SFK" /\ (op.st = 0 \/ ~SharedSfk)))}

\* Operations in flight.
OpHolds(op) ==
    /\ op.copies = CopiesOf(op)
    /\ \A i \in {0, 1} : <<"S_full", i>> \in op.signals <=> op.kind = "QK" /\ i = op.st
    /\ op.kind = "QK" => /\ IsBlock(op.t, op.k, QksIssued(op.st))
                         /\ mem[<<"Q", op.st>>] = QTag(op.t)
                         /\ mem[<<"KV", op.slot>>] = KTag(op.t, op.k)
    /\ op.kind = "PV" => mem[<<"KV", op.slot>>] = VTag(op.t, op.k)
\* ... the one that has begun: its scale factors are copied ...
Scaled(op) == \A r \in Operands(op) : r[1] \in ScaleNames => mem[r] = Needed(op, r)
RunHolds(j, op) == op.begun => j = 1 /\ op.ok /\ Scaled(op)
\* ... and those that have not: O waits for them.
Waits(op) == op.kind = "PV" /\ ~op.begun /\ op.k > 1 => mem[<<"O", op.st>>] = Rescaled(op.t, op.k - 1)
TcHolds == \A j \in DOMAIN tc : OpHolds(tc[j]) /\ RunHolds(j, tc[j]) /\ Waits(tc[j])

\* A stage's PV in flight, and wholly issued; one at a time.
PvIn(i)     == \E j \in DOMAIN tc : tc[j].kind = "PV" /\ tc[j].st = i
PvClosed(i) == \E j \in DOMAIN tc : tc[j].kind = "PV" /\ tc[j].st = i /\ ~tc[j].open
PvOnce == \A i, j \in DOMAIN tc : tc[i].kind = "PV" /\ tc[j].kind = "PV" /\ tc[i].st = tc[j].st => i = j

\* S until softmax has loaded it.
SHolds(i) == \A t, k : IsBlock(t, k, Done("S_full", i)) /\ Done("S_full", i) = SLoaded(i) + 1
                         => mem[<<"S", i>>] = STag(t, k)
\* The scale factors that stay in place on the decoupled layout.
Copying(r) == \E j \in DOMAIN tc : ~tc[j].begun /\ r \in tc[j].copies
SfqHolds(i) == \A t, k : IsBlock(t, k, QksIssued(i)) /\ ~Copying(<<"SFQ", i>>) => mem[<<"SFQ", i>>] = QTag(t)
SfkHolds == \A t, k : IsBlock(t, k, QksIssued(0)) /\ ~Copying(<<"SFK", 0>>) => mem[<<"SFK", 0>>] = KTag(t, k)
SfHolds == Decoupled /\ mm.at # "end" => SfqHolds(0) /\ SfqHolds(1) /\ (SharedSfk => SfkHolds)
\* P until its PV has read it.
PHolds(i) ==
    \A t, k :
        /\ IsBlock(t, k, PStored(i)) /\ (PvBegun(i) < PStored(i) \/ PvIn(i)) =>
              /\ mem[<<"Plo", i>>] = STag(t, k)
              /\ QuantPV => mem[<<"sSFP", i>>] = STag(t, k)
        /\ IsBlock(t, k, P2Stored(i)) /\ (PvDone(i) < P2Stored(i) \/ PvClosed(i)) =>
              mem[<<"Phi", i>>] = STag(t, k)
\* The scales and row sums.
ScaleHolds(i) == \A t, k : IsScale(t, k, ScalesOut(i)) /\ k > 1 /\ ScalesTaken(i) < ScalesOut(i)
                             => mem[<<"sScale", i>>] = ScaleTag(t, k)
\* O behind a PV, and rescaled before the next.
Rescaling(i) == co.at = "rescale" /\ co.st = i
OHolds(i) ==
    /\ PvIn(i) => ORescaled(i) = PvBegun(i)
    /\ \A t, k : IsBlock(t, k, PvBegun(i)) /\ ~PvIn(i) /\ ORescaled(i) = PvBegun(i) /\ ~Rescaling(i)
                    => mem[<<"O", i>>] = Folded(t, k)
    /\ \A t, k : IsBlock(t, k, ORescaled(i)) /\ k > 1 /\ ORescaled(i) = PvBegun(i) + 1
                    => mem[<<"O", i>>] = Rescaled(t, k - 1)
\* The output buffers, and what left them.
Stored(i) == IF CorrStoresO THEN OWritten(i) ELSE EpFreed(i)
OutHolds(i) ==
    \A t \in Tile :
        /\ ~CorrStoresO /\ t = OWritten(i) /\ EpFreed(i) < t => mem[<<"sO", i>>] = Folded(t, Blocks[t])
        /\ out[<<t, i>>] = IF t <= Stored(i) THEN <<Folded(t, Blocks[t])>> ELSE <<>>
OksHold == co.ok /\ sm[0].ok /\ sm[1].ok /\ DOMAIN out = Tile \X Stage

\* By stage.
StageHolds(i) == QHolds(i) /\ SHolds(i) /\ PHolds(i) /\ ScaleHolds(i) /\ OHolds(i) /\ OutHolds(i)
Contents == /\ LdPlaced /\ MmPlaced /\ KvHolds /\ TcHolds /\ PvOnce /\ SfHolds
            /\ (\A i \in {0, 1} : StageHolds(i)) /\ OksHold
CInv == FlightInv /\ Contents

-----------------------------------------------------------------------------
(* Numbers. *)

LEMMA TileIs ==
    \A t : t \in Tile <=> t \in 1..Tiles
BY TilesAre, ConfigAssumption DEF Tile, Tiles

\* A number is that of one block, one item, one scale.
LEMMA BlockUnique ==
    ASSUME NEW t, NEW k, NEW u, NEW l, NEW n, IsBlock(t, k, n), IsBlock(u, l, n)
    PROVE  t = u /\ k = l
<1>1. t \in 1..Tiles /\ u \in 1..Tiles /\ t \in 1..(Tiles + 1) /\ u \in 1..(Tiles + 1)
  BY TileIs, StartIs DEF IsBlock
<1>2. PICK a, b, x, y : /\ a = Start[t] /\ b = Blocks[t] /\ x = Start[u] /\ y = Blocks[u]
                        /\ a \in Int /\ b \in Int /\ x \in Int /\ y \in Int
  BY <1>1, StartIs
<1>3. (t < u => a + b <= x) /\ (u < t => x + y <= a) /\ (t = u => a = x) /\ t \in Int /\ u \in Int
  BY <1>1, <1>2, TilesApart, StartIs DEF Apart
<1>4. k \in 1..b /\ l \in 1..y /\ a + k = x + l
  BY <1>2 DEF IsBlock
<1> QED
  BY <1>2, <1>3, <1>4

LEMMA BlockIs ==
    ASSUME NEW t, NEW k, NEW n, IsBlock(t, k, n)
    PROVE  /\ t \in Int /\ 1 <= t /\ t <= Tiles /\ k \in Int /\ 1 <= k /\ k <= Blocks[t] /\ n \in Int /\ 1 <= n
           /\ Blocks[t] \in Int /\ Start[t] \in Int /\ 0 <= Start[t] /\ n = Start[t] + k /\ t \in Tile
           /\ Tiles \in Int /\ t \in 1..(Tiles + 1)
<1>1. t \in 1..Tiles /\ t \in 1..(Tiles + 1) /\ Tiles \in Int
  BY TileIs, StartIs DEF IsBlock
<1>2. Blocks[t] \in Int /\ Start[t] \in Int /\ 0 <= Start[t]
  BY <1>1, StartIs
<1> QED
  BY <1>1, <1>2 DEF IsBlock

LEMMA ItemUnique ==
    ASSUME NEW t, NEW k, NEW b, IsBlock(t, k, b), NEW v \in 0..1, NEW n, n = 2 * (b - 1) + v,
           NEW tag, IsItem(tag, n)
    PROVE  tag = <<t, k, v>>
<1>1. PICK u \in Tile : \E l \in 1..Blocks[u] : \E w \in 0..1 :
              tag = <<u, l, w>> /\ n = 2 * (Start[u] + l - 1) + w
  BY DEF IsItem
<1>2. PICK l \in 1..Blocks[u], w \in 0..1 : tag = <<u, l, w>> /\ n = 2 * (Start[u] + l - 1) + w
  BY <1>1
<1>3. PICK m : m = Start[u] + l
  OBVIOUS
<1>4. IsBlock(u, l, m)
  BY <1>3 DEF IsBlock
<1>5. b \in Int /\ m \in Int /\ Start[u] \in Int /\ l \in Int
  BY <1>4, BlockIs
<1>6. n = 2 * (m - 1) + w
  BY <1>2, <1>3, <1>5
<1>7. m = b /\ w = v
  BY <1>5, <1>6
<1> QED
  BY <1>2, <1>4, <1>7, BlockUnique

LEMMA ItemMade ==
    ASSUME NEW t, NEW k, NEW b, IsBlock(t, k, b), NEW v \in 0..1, NEW n, n = 2 * (b - 1) + v
    PROVE  IsItem(<<t, k, v>>, n)
<1>1. b = Start[t] + k /\ b \in Int /\ Start[t] \in Int /\ k \in Int
  BY BlockIs
<1>2. n = 2 * (Start[t] + k - 1) + v
  BY <1>1
<1> QED
  BY <1>2 DEF IsBlock, IsItem

LEMMA ScaleUnique ==
    ASSUME NEW t, NEW k, NEW u, NEW l, NEW n, IsScale(t, k, n), IsScale(u, l, n)
    PROVE  t = u /\ k = l
<1>1. t \in 1..Tiles /\ u \in 1..Tiles /\ t \in 1..(Tiles + 1) /\ u \in 1..(Tiles + 1)
  BY TileIs, StartIs DEF IsScale
<1>2. PICK a, b, x, y : /\ a = Start[t] /\ b = Blocks[t] /\ x = Start[u] /\ y = Blocks[u]
                        /\ a \in Int /\ b \in Int /\ x \in Int /\ y \in Int
  BY <1>1, StartIs
<1>3. (t < u => a + b <= x) /\ (u < t => x + y <= a) /\ (t = u => a = x) /\ t \in Int /\ u \in Int
  BY <1>1, <1>2, TilesApart, StartIs DEF Apart
<1>4. k \in 1..(b + 1) /\ l \in 1..(y + 1) /\ a + t - 1 + k = x + u - 1 + l
  BY <1>2 DEF IsScale
<1> QED
  BY <1>2, <1>3, <1>4

-----------------------------------------------------------------------------
(* Memory. *)

LEMMA PutIs ==
    ASSUME NEW m, NEW r \in Region, NEW tag
    PROVE  /\ Put(m, r, tag)[r] = tag
           /\ \A q \in Region : q # r /\ ~Clash(r, q) => Put(m, r, tag)[q] = m[q]
BY DEF Put, ClashesOf

TmemNames == {"S", "Plo", "Phi", "O"} \cup ScaleNames
SmemNames == {"Q", "sSFP", "sScale", "sO"}

LEMMA RegionIs ==
    /\ \A q \in Region : \/ q[1] \in TmemNames /\ q[2] \in {0, 1} /\ q = <<q[1], q[2]>>
                         \/ q[1] \in SmemNames /\ q[2] \in {0, 1} /\ q = <<q[1], q[2]>>
                         \/ q[1] = "KV" /\ q[2] \in Slot /\ q = <<q[1], q[2]>>
    /\ \A n \in TmemNames \cup SmemNames : \A i \in {0, 1} : <<n, i>> \in Region
    /\ \A s \in Slot : <<"KV", s>> \in Region
BY StageIs DEF Region, TmemNames, SmemNames, ScaleNames

Pair(r, q, m, n) == (r[1] = m /\ q[1] = n) \/ (r[1] = n /\ q[1] = m)

BaselineAt(n, a, x) ==
    /\ x \in Int
    /\ n = "S" => 6 * a <= x /\ x <= 6 * a + 5
    /\ n = "SFP" => x = 6 * a
    /\ n = "SFV" => x = 6 * a + 1
    /\ n = "Plo" => x = 6 * a + 4
    /\ n = "Phi" => x = 6 * a + 5
    /\ n = "SFQ" => 6 * (1 - a) <= x /\ x <= 6 * (1 - a) + 1
    /\ n = "SFK" => 6 * (1 - a) + 2 <= x /\ x <= 6 * (1 - a) + 3
    /\ n = "O" => x = 12 + a
LEMMA BaselineColumns ==
    ASSUME NEW n \in TmemNames, NEW a \in {0, 1}, NEW x, x \in BaselineColumn(<<n, a>>) PROVE BaselineAt(n, a, x)
BY DEF BaselineAt, BaselineColumn, TmemNames, ScaleNames

DecoupledAt(n, a, x) ==
    /\ x \in Int
    /\ n = "S" => x = 0
    /\ n = "Plo" => x = 1 + a
    /\ n = "Phi" => x = 3 + a
    /\ n = "SFQ" => x = 5 + a
    /\ n = "SFK" => x = 7 + a
    /\ n = "SFP" => x = 9 + a
    /\ n = "SFV" => x = 11 + a
    /\ n = "O" => x = 13 + a
LEMMA DecoupledColumns ==
    ASSUME NEW n \in TmemNames, NEW a \in {0, 1}, NEW x, x \in DecoupledColumn(<<n, a>>) PROVE DecoupledAt(n, a, x)
BY DEF DecoupledAt, DecoupledColumn, TmemNames, ScaleNames

\* The regions that overlap.
LEMMA ClashIs ==
    ASSUME NEW r \in Region, NEW q \in Region, r # q, Clash(r, q)
    PROVE  \/ OverlapSOSQ /\ Pair(r, q, "sO", "Q")
           \/ Decoupled /\ r[1] = "S" /\ q[1] = "S"
           \/ ~Decoupled /\ r[2] = q[2] /\ \E n \in {"Plo", "Phi", "SFP", "SFV"} : Pair(r, q, "S", n)
           \/ ~Decoupled /\ r[2] # q[2] /\ (\/ (\E n \in {"SFQ", "SFK"} : Pair(r, q, "S", n))
                                          \/ \E n \in {"SFP", "SFV"} : Pair(r, q, "SFQ", n))
<1>1. CASE OverlapSOSQ /\ {r[1], q[1]} = {"sO", "Q"}
  BY <1>1 DEF Pair
<1>2. CASE Column(r) \cap Column(q) # {}
  <2>1. PICK x : x \in Column(r) /\ x \in Column(q)
    BY <1>2
  <2>2. \A p \in Region : p[1] \notin TmemNames => Column(p) = {}
    BY RegionIs DEF Column, BaselineColumn, DecoupledColumn, TmemNames, SmemNames, ScaleNames
  <2>3. r[1] \in TmemNames /\ q[1] \in TmemNames
    BY <2>1, <2>2
  <2>4. PICK m \in TmemNames, n \in TmemNames, a \in {0, 1}, b \in {0, 1} :
            r = <<m, a>> /\ q = <<n, b>>
    <3>1. \A p \in Region : p[1] \in TmemNames => p[2] \in {0, 1} /\ p = <<p[1], p[2]>>
      BY RegionIs DEF TmemNames, SmemNames, ScaleNames
    <3> QED
      BY <2>3, <3>1
  <2>5. CASE Decoupled
    <3>1. DecoupledAt(m, a, x) /\ DecoupledAt(n, b, x)
      <4>1. x \in DecoupledColumn(<<m, a>>) /\ x \in DecoupledColumn(<<n, b>>)
        BY <2>1, <2>4, <2>5 DEF Column
      <4> QED
        BY <4>1, DecoupledColumns
    <3>4. m = "S" /\ n = "S"
      <4>1. m # n \/ a # b
        BY <2>4
      <4> QED
        BY <3>1, <4>1 DEF DecoupledAt, TmemNames, ScaleNames
    <3> QED
      BY <2>4, <2>5, <3>4
  <2>6. CASE ~Decoupled
    <3>1. BaselineAt(m, a, x) /\ BaselineAt(n, b, x)
      <4>1. x \in BaselineColumn(<<m, a>>) /\ x \in BaselineColumn(<<n, b>>)
        BY <2>1, <2>4, <2>6 DEF Column
      <4> QED
        BY <4>1, BaselineColumns
    <3>4. m # n \/ a # b
      BY <2>4
    <3>5. \/ a = b /\ \E p \in {"Plo", "Phi", "SFP", "SFV"} : (m = "S" /\ n = p) \/ (m = p /\ n = "S")
          \/ a # b /\ (\/ \E p \in {"SFQ", "SFK"} : (m = "S" /\ n = p) \/ (m = p /\ n = "S")
                      \/ \E p \in {"SFP", "SFV"} : (m = "SFQ" /\ n = p) \/ (m = p /\ n = "SFQ"))
      <4>1. CASE a = b
        BY <3>1, <3>4, <4>1 DEF BaselineAt, TmemNames, ScaleNames
      <4>2. CASE a # b
        BY <3>1, <4>2 DEF BaselineAt, TmemNames, ScaleNames
      <4> QED
        BY <4>1, <4>2
    <3> QED
      BY <2>4, <2>6, <3>5 DEF Pair
  <2> QED
    BY <2>5, <2>6
<1> QED
  BY <1>1, <1>2 DEF Clash

-----------------------------------------------------------------------------
(* How far the roles are apart. *)

Tally(i) ==
    /\ SLoaded(i) \in Int /\ PBegun(i) \in Int /\ PStored(i) \in Int /\ P2Stored(i) \in Int
    /\ ScalesFree(i) \in Int /\ ScalesOut(i) \in Int /\ ScalesTaken(i) \in Int /\ ScalesBack(i) \in Int
    /\ ORescaled(i) \in Int /\ OTaken(i) \in Int /\ OWritten(i) \in Int /\ BuffersHad(i) \in Int
    /\ QksIssued(i) \in Int /\ PvDone(i) \in Int /\ PvBegun(i) \in Int /\ OCommits(i) \in Int
    /\ EpRead(i) \in Int /\ EpFreed(i) \in Int /\ Done("S_full", i) \in Int
    /\ 0 <= PvDone(i) /\ PvDone(i) <= PvBegun(i) /\ PvBegun(i) <= PvDone(i) + 1
    /\ PvBegun(i) <= PStored(i) /\ PvBegun(i) <= ORescaled(i) /\ ORescaled(i) <= PvBegun(i) + 1
    /\ PvDone(i) <= P2Stored(i) /\ P2Stored(i) <= PStored(i) /\ PStored(i) <= PBegun(i)
    /\ PBegun(i) <= SLoaded(i) /\ SLoaded(i) <= P2Stored(i) + 1
    /\ SLoaded(i) <= Done("S_full", i) /\ Done("S_full", i) <= QksIssued(i)
    /\ QksIssued(i) <= SLoaded(i) + 1 /\ QksIssued(i) <= PvDone(i) + 2
    /\ Done("S_full", i) = QksIssued(i) - If1(Committed(<<"S_full", i>>))
    /\ ~Decoupled => QksIssued(i) <= PvDone(i) + 1
    /\ ScalesTaken(i) <= ScalesOut(i) /\ ScalesOut(i) <= ScalesTaken(i) + 1
    /\ ScalesFree(i) <= ScalesBack(i) + 1 /\ ScalesBack(i) <= ScalesTaken(i) /\ ScalesOut(i) <= ScalesFree(i)
    /\ OTaken(i) <= OCommits(i) /\ (Decoupled => OCommits(i) = PvDone(i))
    /\ Decoupled /\ PvBeforeNextP => PBegun(i) <= PvDone(i) + 1
    /\ ~CorrStoresO => /\ OWritten(i) <= BuffersHad(i) /\ BuffersHad(i) <= EpFreed(i) + 1
                       /\ EpFreed(i) <= EpRead(i) /\ EpRead(i) <= OWritten(i)
\* The stages: QK_1 of a block is issued behind QK_0, and each of them when softmax of the
\* other stage has let it go.
Stages ==
    /\ QksIssued(1) <= QksIssued(0) /\ QksIssued(0) <= QksIssued(1) + 1
    /\ QuantQK => QksIssued(0) <= SLoaded(1) + 1 /\ QksIssued(1) <= SLoaded(0)
Tallies == Tally(0) /\ Tally(1) /\ Stages

LEMMA TallyIs == ASSUME FlightInv, NEW i \in {0, 1} PROVE Tally(i)
<1>1. Flows(i) /\ MmShape /\ Ahead(i) /\ HandInv /\ SLoaded(i) <= QksIssued(i) /\ OTaken(i) <= OCommits(i)
      /\ ORescaled(i) <= PvBegun(i) + 1
  BY FlowsAre, AheadIs, Committals, ORescaledBound DEF FlightInv
<1>2. SmNumbers(i) /\ CoNumbers(i) /\ MmNumbers(i) /\ SmShape(i) /\ CoShape(i) /\ EpShape(i)
  BY <1>1 DEF Flows, SmShape, CoShape, MmShape
<1>3. PICK d, e, l, o : /\ d = If1(Committed(<<"S_full", i>>)) /\ d \in {0, 1} /\ l = Done("S_full", i)
                        /\ e = If1(Committed(<<"O_full", i>>)) /\ e \in {0, 1} /\ o = Done("O_full", i)
  BY DEF If1
<1>4. /\ SLoaded(i) \in Int /\ PBegun(i) \in Int /\ PStored(i) \in Int /\ P2Stored(i) \in Int
      /\ ScalesFree(i) \in Int /\ ScalesOut(i) \in Int /\ ScalesTaken(i) \in Int /\ ScalesBack(i) \in Int
      /\ ORescaled(i) \in Int /\ OTaken(i) \in Int /\ OWritten(i) \in Int /\ BuffersHad(i) \in Int
      /\ QksIssued(i) \in Int /\ PvDone(i) \in Int /\ PvBegun(i) \in Int /\ OCommits(i) \in Int
      /\ EpRead(i) \in Int /\ EpFreed(i) \in Int /\ l \in Int /\ o \in Int
  BY <1>1, <1>2, <1>3 DEF SmNumbers, CoNumbers, MmNumbers, EpShape, Flows
<1>5. /\ 0 <= PvDone(i) /\ PvDone(i) <= PvBegun(i) /\ PvBegun(i) <= PvDone(i) + 1
      /\ QksIssued(i) <= PvDone(i) + 2 /\ (~Decoupled => QksIssued(i) <= PvDone(i) + 1)
      /\ Decoupled => OCommits(i) = PvDone(i)
  BY <1>1 DEF MmShape
<1>6. /\ P2Stored(i) <= PStored(i) /\ PStored(i) <= PBegun(i) /\ PBegun(i) <= SLoaded(i)
      /\ SLoaded(i) <= P2Stored(i) + 1 /\ ScalesOut(i) <= ScalesFree(i)
  BY <1>2 DEF SmShape
<1>7. /\ SLoaded(i) <= l /\ l = QksIssued(i) - d /\ PvBegun(i) <= PStored(i) /\ PvBegun(i) <= ORescaled(i)
      /\ PvDone(i) <= P2Stored(i) /\ ScalesTaken(i) <= ScalesOut(i) /\ ScalesFree(i) <= ScalesBack(i) + 1
      /\ o = OCommits(i) - e
  BY <1>1, <1>3 DEF Flows
<1>8. QksIssued(i) <= SLoaded(i) + 1 /\ ScalesOut(i) <= ScalesTaken(i) + 1
  BY <1>1 DEF Ahead
<1>9. ScalesBack(i) <= ScalesTaken(i) /\ OWritten(i) <= BuffersHad(i)
  BY <1>2 DEF CoShape
<1>10. ~CorrStoresO => /\ BuffersHad(i) <= EpFreed(i) + 1 /\ EpFreed(i) <= EpRead(i) /\ EpRead(i) <= OWritten(i)
  BY <1>1, <1>2 DEF Flows, EpShape
<1>11. Decoupled /\ PvBeforeNextP => PBegun(i) <= PvDone(i) + 1
  <2>1. Decoupled /\ PvBeforeNextP => PBegun(i) <= o + 1
    BY <1>1, <1>3, StageIs DEF HandInv, PvBehind
  <2> QED
    BY <1>3, <1>4, <1>5, <1>7, <2>1
<1>12. l <= QksIssued(i)
  BY <1>3, <1>4, <1>7
<1> QED
  BY <1>1, <1>3, <1>4, <1>5, <1>6, <1>7, <1>8, <1>9, <1>10, <1>11, <1>12 DEF Tally

LEMMA StagesAre == ASSUME FlightInv PROVE Stages
<1>1. Flows(0) /\ Flows(1) /\ MmShape
  BY FlowsAre DEF FlightInv
<1>2. SmShape(0) /\ SmShape(1) /\ SmNumbers(0) /\ SmNumbers(1) /\ MmNumbers(0) /\ MmNumbers(1)
  BY <1>1 DEF Flows, SmShape, MmShape
<1>3. QksIssued(1) <= QksIssued(0) /\ QksIssued(0) <= QksIssued(1) + 1
  BY <1>1 DEF MmShape
<1>4. QuantQK => QksIssued(0) <= QksLet(1) /\ QksIssued(1) <= QksLet(0)
  <2>1. 1 - 0 = 1 /\ 1 - 1 = 0
    OBVIOUS
  <2>2. QuantQK => QksIssued(0) <= QksLet(1 - 0) /\ QksIssued(1) <= QksLet(1 - 1)
    BY <1>1 DEF Flows
  <2> QED
    BY <2>1, <2>2
<1>5. QksLet(1) <= SLoaded(1) + 1 /\ QksLet(0) = SLoaded(0)
  BY <1>2 DEF SmShape
<1> QED
  BY <1>2, <1>3, <1>4, <1>5 DEF Stages, SmNumbers, MmNumbers

LEMMA TalliesAre == FlightInv => Tallies
BY TallyIs, StagesAre DEF Tallies
LEMMA TalliesThen == FlightInv' => Tallies'
BY TalliesAre, PTL

LEMMA TallyBoth == ASSUME Tallies, NEW i \in {0, 1} PROVE Tally(i)
BY DEF Tallies
LEMMA TallyBothThen == ASSUME Tallies', NEW i \in {0, 1} PROVE Tally(i)'
BY DEF Tallies

-----------------------------------------------------------------------------
(* What a store destroys besides its own region. *)

LEMMA PutKeeps ==
    ASSUME NEW m, NEW r \in Region, NEW tag, NEW q \in Region, q # r, ~Clash(r, q)
    PROVE  Put(m, r, tag)[q] = m[q]
BY PutIs

LEMMA NamesIn ==
    /\ \A n \in {"Q", "S", "Plo", "Phi", "SFQ", "SFK", "SFP", "SFV", "O", "sSFP", "sScale", "sO"} :
          \A i \in {0, 1} : <<n, i>> \in Region
    /\ \A s \in Slot : <<"KV", s>> \in Region
BY RegionNames, StageIs

\* P: S of the stage, on the baseline.
LEMMA ClashP ==
    ASSUME NEW n \in {"Plo", "Phi"}, NEW i \in {0, 1}, NEW q \in Region, q # <<n, i>>, Clash(<<n, i>>, q)
    PROVE  ~Decoupled /\ q = <<"S", i>>
<1>1. <<n, i>> \in Region /\ (q[2] \in {0, 1} \/ q[1] = "KV") /\ q = <<q[1], q[2]>>
  BY NamesIn, RegionIs
<1>2. PICK r : r = <<n, i>> /\ r \in Region /\ r[1] = n /\ r[2] = i /\ r # q /\ Clash(r, q)
  BY <1>1
<1>3. /\ ~Pair(r, q, "sO", "Q") /\ ~(r[1] = "S")
      /\ \A m \in {"SFQ", "SFK"} : ~Pair(r, q, "S", m)
      /\ \A m \in {"SFP", "SFV"} : ~Pair(r, q, "SFQ", m)
      /\ \A m \in {"Plo", "Phi", "SFP", "SFV"} : Pair(r, q, "S", m) => q[1] = "S"
  BY <1>2 DEF Pair
<1>4. ~Decoupled /\ r[2] = q[2] /\ q[1] = "S"
  BY <1>2, <1>3, ClashIs
<1> QED
  BY <1>1, <1>2, <1>4

\* The outputs in O, the scale buffers and the ring overlap nothing.
LEMMA ClashNone ==
    ASSUME NEW r \in Region, r[1] \in {"O", "sSFP", "sScale", "KV"}, NEW q \in Region, q # r
    PROVE  ~Clash(r, q)
<1>1. /\ ~Pair(r, q, "sO", "Q") /\ ~(r[1] = "S")
      /\ \A m \in {"SFQ", "SFK"} : ~Pair(r, q, "S", m)
      /\ \A m \in {"SFP", "SFV"} : ~Pair(r, q, "SFQ", m)
      /\ \A m \in {"Plo", "Phi", "SFP", "SFV"} : ~Pair(r, q, "S", m)
  BY DEF Pair
<1> QED
  BY <1>1, ClashIs

\* Q and the output buffers overlap each other, if anything.
LEMMA ClashOut ==
    ASSUME NEW r \in Region, NEW q \in Region, q # r, Clash(r, q)
    PROVE  /\ r[1] = "sO" => OverlapSOSQ /\ q[1] = "Q"
           /\ r[1] = "Q" => OverlapSOSQ /\ q[1] = "sO"
<1>1. ASSUME r[1] \in {"sO", "Q"}
      PROVE  OverlapSOSQ /\ Pair(r, q, "sO", "Q")
  <2>1. /\ ~(r[1] = "S")
        /\ \A m \in {"SFQ", "SFK"} : ~Pair(r, q, "S", m)
        /\ \A m \in {"SFP", "SFV"} : ~Pair(r, q, "SFQ", m)
        /\ \A m \in {"Plo", "Phi", "SFP", "SFV"} : ~Pair(r, q, "S", m)
    BY <1>1 DEF Pair
  <2> QED
    BY <2>1, ClashIs
<1> QED
  BY <1>1 DEF Pair

\* S: on the decoupled layout the other stage's, on the baseline P and scale factors.
LEMMA ClashS ==
    ASSUME NEW i \in {0, 1}, NEW q \in Region, q # <<"S", i>>, Clash(<<"S", i>>, q)
    PROVE  \/ Decoupled /\ q[1] = "S"
           \/ ~Decoupled /\ q[1] \in {"Plo", "Phi"} /\ q[2] = i
           \/ ~Decoupled /\ q[1] \in ScaleNames
<1>1. PICK r : r = <<"S", i>> /\ r \in Region /\ r[1] = "S" /\ r[2] = i /\ r # q /\ Clash(r, q)
  BY NamesIn
<1>2. /\ ~Pair(r, q, "sO", "Q")
      /\ \A m \in {"SFQ", "SFK"} : Pair(r, q, "S", m) => q[1] = m
      /\ \A m \in {"SFP", "SFV"} : ~Pair(r, q, "SFQ", m)
      /\ \A m \in {"Plo", "Phi", "SFP", "SFV"} : Pair(r, q, "S", m) => q[1] = m
  BY <1>1 DEF Pair
<1>3. \/ Decoupled /\ q[1] = "S"
      \/ ~Decoupled /\ q[2] = i /\ q[1] \in {"Plo", "Phi", "SFP", "SFV"}
      \/ ~Decoupled /\ q[1] \in {"SFQ", "SFK"}
  BY <1>1, <1>2, ClashIs
<1> QED
  BY <1>3 DEF ScaleNames

\* Scale factors: on the baseline, S and other scale factors.
LEMMA ClashScale ==
    ASSUME NEW r \in Region, r[1] \in ScaleNames, NEW q \in Region, q # r, Clash(r, q)
    PROVE  /\ ~Decoupled
           /\ \/ q[1] \in ScaleNames
              \/ q[1] = "S" /\ (r[1] \in {"SFP", "SFV"} => q[2] = r[2])
<1>1. /\ ~Pair(r, q, "sO", "Q") /\ r[1] # "S"
      /\ \A m \in {"SFQ", "SFK"} : Pair(r, q, "S", m) => q[1] = "S" /\ r[1] = m
      /\ \A m \in {"SFP", "SFV"} : Pair(r, q, "SFQ", m) => q[1] \in {"SFQ", m}
      /\ \A m \in {"Plo", "Phi", "SFP", "SFV"} : Pair(r, q, "S", m) => q[1] = "S"
  BY DEF Pair, ScaleNames
<1>2. \/ ~Decoupled /\ r[2] = q[2] /\ q[1] = "S"
      \/ ~Decoupled /\ r[1] \in {"SFQ", "SFK"} /\ q[1] = "S"
      \/ ~Decoupled /\ q[1] \in {"SFQ", "SFP", "SFV"}
  BY <1>1, ClashIs
<1> QED
  BY <1>2 DEF ScaleNames

-----------------------------------------------------------------------------
(* What each role's steps touch. *)

SmTouches(i) ==
    \A q \in Region : \/ mem'[q] = mem[q]
                      \/ q \in {<<"sScale", i>>, <<"Plo", i>>, <<"Phi", i>>, <<"sSFP", i>>}
                      \/ ~Decoupled /\ q = <<"S", i>> /\ sm[i].at \in {"scale", "plo", "phi"}
LoadTouches(r) ==
    \A q \in Region : \/ mem'[q] = mem[q] \/ q = r
                      \/ OverlapSOSQ /\ r[1] = "Q" /\ q[1] = "sO"
\* The operation at work, apart from scale factors.
TcTouches(op) ==
    \A q \in Region : \/ mem'[q] = mem[q]
                      \/ q = <<"O", op.st>> /\ op.kind = "PV"
                      \/ q[1] \in {"Plo", "Phi"} /\ q[2] = op.st /\ ~Decoupled /\ op.kind = "QK"
                      \/ q = <<"S", op.st>> /\ (op.kind = "QK" \/ ~Decoupled)
                      \/ q[1] = "S" /\ op.kind = "QK" /\ (Decoupled \/ QuantQK)
                      \/ q[1] \in ScaleNames

LEMMA SmPut ==
    ASSUME NEW m, NEW i \in {0, 1}, NEW n \in {"sScale", "Plo", "Phi", "sSFP"}, NEW tag, NEW q \in Region
    PROVE  \/ Put(m, <<n, i>>, tag)[q] = m[q]
           \/ q = <<n, i>>
           \/ ~Decoupled /\ q = <<"S", i>> /\ n \in {"Plo", "Phi"}
<1>1. PICK r : r = <<n, i>> /\ r \in Region /\ r[1] = n
  BY NamesIn
<1>2. CASE n \in {"Plo", "Phi"}
  BY <1>1, <1>2, PutKeeps, ClashP
<1>3. CASE n \in {"sScale", "sSFP"}
  BY <1>1, <1>3, PutKeeps, ClashNone
<1> QED
  BY <1>2, <1>3

-----------------------------------------------------------------------------
(* What a step leaves as it was. *)

SameAt(names) == \A q \in Region : q[1] \in names => mem'[q] = mem[q]
SameCount(names) == \A b \in Barrier : b[1] \in names => bar'[b].done = bar[b].done /\ bar'[b].seen = bar[b].seen

LEMMA DoneKept ==
    ASSUME BarType, BarOK, NEW w, NEW a, Moves(w, a), NEW b \in Barrier, b[1] \notin {"P_full_O", "dealloc"}
    PROVE  /\ b \notin a => bar'[b].done = bar[b].done
           /\ b \in a => bar'[b].done = bar[b].done + 1
           /\ bar'[b].seen = bar[b].seen + If1(b \in w)
           /\ bar[b].seen \in Int /\ bar[b].done \in Int
<1>1. Arrivals(b) = bar[b].done /\ bar[b].done \in Int /\ bar[b].seen \in Int
  BY Ones
<1>2. Count(b) = 1
  BY DEF Count
<1>3. /\ bar'[b] \in BarRecord /\ bar'[b].left \in 1..1 /\ bar'[b].seen = bar[b].seen + If1(b \in w)
      /\ Arrivals(b)' = Arrivals(b) + If1(b \in a)
  BY <1>2 DEF Moves
<1>4. Arrivals(b)' = bar'[b].done
  <2>1. Arrivals(b)' = 1 * bar'[b].done + 1 - bar'[b].left
    BY <1>2 DEF Arrivals
  <2>2. bar'[b].done \in Int /\ bar'[b].left = 1
    BY <1>3 DEF BarRecord
  <2> QED
    BY <2>1, <2>2
<1> QED
  BY <1>1, <1>3, <1>4 DEF If1

LEMMA CountsSame ==
    ASSUME BarType, BarOK, NEW w, NEW a, Moves(w, a), NEW names, "P_full_O" \notin names, "dealloc" \notin names,
           \A b \in w : b[1] \notin names, \A b \in a : b[1] \notin names
    PROVE  SameCount(names)
<1> SUFFICES ASSUME NEW b \in Barrier, b[1] \in names
             PROVE  bar'[b].done = bar[b].done /\ bar'[b].seen = bar[b].seen
  BY DEF SameCount
<1>1. b \notin w /\ b \notin a /\ b[1] \notin {"P_full_O", "dealloc"}
  OBVIOUS
<1>2. bar'[b].done = bar[b].done /\ bar'[b].seen = bar[b].seen + If1(b \in w) /\ bar[b].seen \in Int
  BY <1>1, DoneKept
<1> QED
  BY <1>1, <1>2 DEF If1

LEMMA KvKept ==
    ASSUME Types, LdPlaced, MmPlaced, KvHolds, UNCHANGED <<ld, mm, tma>>, SameCount({"kv_full", "kv_empty"}), SameAt({"KV"})
    PROVE  LdPlaced' /\ MmPlaced' /\ KvHolds'
<1>1. \A s \in Slot : /\ UNCHANGED <<Done("kv_full", s), Seen("kv_full", s), Seen("kv_empty", s)>>
                      /\ mem'[<<"KV", s>>] = mem[<<"KV", s>>]
  BY NamesAre, NamesIn DEF SameCount, SameAt, Done, Seen
<1>2. ld.idx \in Slot /\ mm.idx \in Slot /\ mm.v \in Slot
  BY DEF Types, LdType, MmType, MmRecord
<1>3. UNCHANGED <<HoldsNext, HoldsV, MmNext, MmBlocks, LdNext>>
  BY DEF HoldsNext, HoldsV, MmNext, MmBlocks, LdNext, Last
<1>4. LdPlaced'
  BY <1>1, <1>2, <1>3 DEF LdPlaced
<1>5. MmPlaced'
  BY <1>1, <1>2, <1>3 DEF MmPlaced, Before
<1>6. KvHolds'
  BY <1>1, <1>2, <1>3 DEF KvHolds
<1> QED
  BY <1>4, <1>5, <1>6

LEMMA QKept ==
    ASSUME NEW i \in {0, 1}, QHolds(i), UNCHANGED <<mm, tma>>, SameCount({"q_full"}),
           mem'[<<"Q", i>>] = mem[<<"Q", i>>]
    PROVE  QHolds(i)'
<1>1. UNCHANGED <<Done("q_full", i), Seen("q_full", i)>>
  BY NamesAre, StageIs DEF SameCount, Done, Seen
<1>2. UNCHANGED HoldsQ(i)
  BY DEF HoldsQ, QTaken, QGiven, Last, MmOver
<1> QED
  BY <1>1, <1>2 DEF QHolds

LEMMA OpIs ==
    ASSUME TcType, NEW j \in DOMAIN tc
    PROVE  /\ tc[j] \in Op /\ tc[j].kind \in {"QK", "PV"} /\ tc[j].st \in {0, 1} /\ tc[j].slot \in Slot
           /\ \A r \in Operands(tc[j]) : r \in Region
           /\ <<"Q", tc[j].st>> \in Region /\ <<"KV", tc[j].slot>> \in Region /\ <<"O", tc[j].st>> \in Region
<1>1. tc[j] \in Op
  BY DEF TcType
<1>2. tc[j].kind \in {"QK", "PV"} /\ tc[j].st \in {0, 1} /\ tc[j].slot \in Slot
  BY <1>1, StageIs DEF Op
<1>3. SfkSlot(tc[j].st) \in {0, 1} /\ SfvSlot(tc[j].st) \in {0, 1}
  BY <1>2 DEF SfkSlot, SfvSlot
<1>4. \A r \in Operands(tc[j]) : r \in Region
  <2>1. CASE tc[j].kind = "QK"
    BY <1>2, <1>3, <2>1, NamesIn DEF Operands
  <2>2. CASE tc[j].kind = "PV"
    BY <1>2, <1>3, <2>2, NamesIn DEF Operands
  <2> QED
    BY <1>2, <2>1, <2>2
<1> QED
  BY <1>1, <1>2, <1>4, NamesIn

LEMMA OpKept ==
    ASSUME TcType, NEW j \in DOMAIN tc, OpHolds(tc[j]), RunHolds(j, tc[j]), UNCHANGED <<tc, mm>>,
           SameAt({"KV"} \cup ScaleNames), tc[j].kind = "QK" => mem'[<<"Q", tc[j].st>>] = mem[<<"Q", tc[j].st>>]
    PROVE  OpHolds(tc[j])' /\ RunHolds(j, tc[j])'
<1>1. UNCHANGED <<QksIssued(0), QksIssued(1)>>
  BY DEF QksIssued, MmBlocks, Last
<1>2. mem'[<<"KV", tc[j].slot>>] = mem[<<"KV", tc[j].slot>>] /\ tc[j].st \in {0, 1}
  BY OpIs DEF SameAt
<1>3. \A r \in Operands(tc[j]) : r[1] \in ScaleNames => mem'[r] = mem[r]
  BY OpIs DEF SameAt
<1>4. OpHolds(tc[j])'
  BY <1>1, <1>2 DEF OpHolds
<1>5. Scaled(tc[j]) => Scaled(tc[j])'
  BY <1>3 DEF Scaled
<1> QED
  BY <1>4, <1>5 DEF RunHolds

LEMMA SfKept ==
    ASSUME SfHolds, UNCHANGED <<tc, mm>>, SameAt(ScaleNames)
    PROVE  SfHolds'
<1>1. UNCHANGED <<QksIssued(0), QksIssued(1)>>
  BY DEF QksIssued, MmBlocks, Last
<1>2. mem'[<<"SFQ", 0>>] = mem[<<"SFQ", 0>>] /\ mem'[<<"SFQ", 1>>] = mem[<<"SFQ", 1>>]
      /\ mem'[<<"SFK", 0>>] = mem[<<"SFK", 0>>]
  BY NamesIn DEF SameAt, ScaleNames
<1>3. \A r : Copying(r)' <=> Copying(r)
  BY DEF Copying
<1> QED
  BY <1>1, <1>2, <1>3 DEF SfHolds, SfqHolds, SfkHolds

LEMMA SKept ==
    ASSUME NEW i, SHolds(i), UNCHANGED <<Done("S_full", i), SLoaded(i)>>, mem'[<<"S", i>>] = mem[<<"S", i>>]
    PROVE  SHolds(i)'
BY DEF SHolds

LEMMA PvsSame ==
    ASSUME UNCHANGED tc PROVE (\A i : (PvIn(i)' <=> PvIn(i)) /\ (PvClosed(i)' <=> PvClosed(i))) /\ (PvOnce => PvOnce')
BY DEF PvIn, PvClosed, PvOnce

LEMMA PKept ==
    ASSUME NEW i \in {0, 1}, PHolds(i), UNCHANGED <<PStored(i), P2Stored(i), PvBegun(i), PvDone(i)>>,
           PvIn(i)' => PvIn(i), PvClosed(i)' => PvClosed(i),
           \A n \in {"Plo", "Phi", "sSFP"} : mem'[<<n, i>>] = mem[<<n, i>>]
    PROVE  PHolds(i)'
<1>1. mem'[<<"Plo", i>>] = mem[<<"Plo", i>>] /\ mem'[<<"Phi", i>>] = mem[<<"Phi", i>>]
      /\ mem'[<<"sSFP", i>>] = mem[<<"sSFP", i>>]
  OBVIOUS
<1> QED
  BY <1>1 DEF PHolds

LEMMA ScaleKept ==
    ASSUME NEW i, ScaleHolds(i), UNCHANGED ScalesOut(i), ScalesTaken(i)' < ScalesOut(i) => ScalesTaken(i) < ScalesOut(i),
           mem'[<<"sScale", i>>] = mem[<<"sScale", i>>]
    PROVE  ScaleHolds(i)'
BY DEF ScaleHolds

LEMMA OKept ==
    ASSUME NEW i, OHolds(i), UNCHANGED <<ORescaled(i), PvBegun(i)>>, PvIn(i)' <=> PvIn(i), Rescaling(i) => Rescaling(i)',
           mem'[<<"O", i>>] = mem[<<"O", i>>]
    PROVE  OHolds(i)'
BY DEF OHolds

LEMMA OutKept ==
    ASSUME NEW i, OutHolds(i), UNCHANGED <<OWritten(i), EpFreed(i)>>, UNCHANGED out,
           mem'[<<"sO", i>>] = mem[<<"sO", i>>]
    PROVE  OutHolds(i)'
BY DEF OutHolds, Stored

-----------------------------------------------------------------------------
(* The softmax warpgroups: what they write. *)

SmAt(i) ==
    /\ SmWhere(i) /\ SmBlocks(i) \in Int
    /\ sm[i].at # "end" => IsBlock(sm[i].t, sm[i].k, SmBlocks(i) + 1)
    /\ SLoaded(i) = SmBlocks(i) + If1(sm[i].at \in {"scale", "plo", "phi", "corr", "sum"})
    /\ sm[i].at \in {"start", "tile", "s", "end", "scale"} =>
          PBegun(i) = SmBlocks(i) /\ PStored(i) = SmBlocks(i) /\ P2Stored(i) = SmBlocks(i)
    /\ sm[i].at = "plo" => PBegun(i) = SmBlocks(i) + 1 /\ PStored(i) = SmBlocks(i) /\ P2Stored(i) = SmBlocks(i)
    /\ sm[i].at = "phi" => PBegun(i) = SmBlocks(i) + 1 /\ PStored(i) = SmBlocks(i) + 1 /\ P2Stored(i) = SmBlocks(i)
    /\ sm[i].at \in {"corr", "sum"} =>
          PBegun(i) = SmBlocks(i) + 1 /\ PStored(i) = SmBlocks(i) + 1 /\ P2Stored(i) = SmBlocks(i) + 1
    /\ ScalesOut(i) = PBegun(i) + sm[i].t - 1
    /\ sm[i].at = "s" => ScalesFree(i) = SmBlocks(i) + sm[i].t
    /\ sm[i].at = "sum" => ScalesFree(i) = SmBlocks(i) + sm[i].t + 1 /\ sm[i].k = Blocks[sm[i].t]

LEMMA SmAtIs == ASSUME FlightInv, NEW i \in {0, 1} PROVE SmAt(i)
<1>1. SmWhere(i) /\ SmPlace(i)
  BY HandPlaces, StageIs DEF FlightInv, HandInv, Places
<1>2. SmBlocks(i) \in Int /\ sm[i].t \in Int
  BY <1>1, SmNumbersAre DEF SmNumbers, SmWhere
<1>3. sm[i].at # "end" => IsBlock(sm[i].t, sm[i].k, SmBlocks(i) + 1)
  BY <1>1, <1>2 DEF SmWhere, IsBlock, SmBlocks
<1>4. sm[i].at = "sum" => sm[i].k = Blocks[sm[i].t]
  BY <1>1 DEF SmPlace
<1>5. /\ sm[i].at \in {"start", "tile", "s", "end", "scale"} =>
           PBegun(i) = SmBlocks(i) /\ PStored(i) = SmBlocks(i) /\ P2Stored(i) = SmBlocks(i)
      /\ sm[i].at = "plo" => PBegun(i) = SmBlocks(i) + 1 /\ PStored(i) = SmBlocks(i) /\ P2Stored(i) = SmBlocks(i)
      /\ sm[i].at = "phi" => PBegun(i) = SmBlocks(i) + 1 /\ PStored(i) = SmBlocks(i) + 1 /\ P2Stored(i) = SmBlocks(i)
      /\ sm[i].at \in {"corr", "sum"} =>
           PBegun(i) = SmBlocks(i) + 1 /\ PStored(i) = SmBlocks(i) + 1 /\ P2Stored(i) = SmBlocks(i) + 1
  BY <1>2 DEF PBegun, PStored, P2Stored, If1
<1>6. /\ sm[i].at = "s" => ScalesFree(i) = SmBlocks(i) + sm[i].t
      /\ sm[i].at = "sum" => ScalesFree(i) = SmBlocks(i) + sm[i].t + 1
  BY <1>2 DEF ScalesFree, If1
<1>7. SLoaded(i) = SmBlocks(i) + If1(sm[i].at \in {"scale", "plo", "phi", "corr", "sum"})
      /\ ScalesOut(i) = PBegun(i) + sm[i].t - 1
  BY DEF SLoaded, ScalesOut
<1> QED
  BY <1>1, <1>2, <1>3, <1>4, <1>5, <1>6, <1>7 DEF SmAt

SmsAt == SmAt(0) /\ SmAt(1)
LEMMA SmsAtAre == FlightInv => SmsAt
BY SmAtIs DEF SmsAt
LEMMA SmsAtThen == FlightInv' => SmsAt'
BY SmsAtAre, PTL
LEMMA SmAtBothThen == ASSUME SmsAt', NEW i \in {0, 1} PROVE SmAt(i)'
BY DEF SmsAt

LEMMA PutAt ==
    ASSUME NEW m, NEW r, r \in Region, NEW tag, NEW p, p = Put(m, r, tag)
    PROVE  p[r] = tag
BY DEF Put

SmWrites(i, names) ==
    \A q \in Region : \/ mem'[q] = mem[q]
                      \/ \E n \in names : q = <<n, i>>
                      \/ ~Decoupled /\ q = <<"S", i>> /\ names \cap {"Plo", "Phi"} # {}

LEMMA SmQuietMem ==
    ASSUME NEW i \in {0, 1}, SoftmaxStart(i) \/ SoftmaxTile(i) PROVE SmWrites(i, {}) /\ UNCHANGED mem
BY DEF SoftmaxStart, SoftmaxTile, SmWrites

LEMMA SmLoadMem == ASSUME NEW i \in {0, 1}, SoftmaxLoadS(i) PROVE SmWrites(i, {"sScale"})
<1>1. \A q \in Region : mem'[q] = mem[q] \/ mem'[q] = Put(mem, <<"sScale", i>>, Garbage)[q]
  BY DEF SoftmaxLoadS
<1> QED
  BY <1>1, SmPut DEF SmWrites

LEMMA SmScaleMem ==
    ASSUME NEW i \in {0, 1}, SoftmaxScale(i)
    PROVE  /\ SmWrites(i, {"sScale", "Plo", "sSFP"})
           /\ mem'[<<"sScale", i>>] = IF sm[i].k > 1 THEN KeepIf(sm[i].ok, ScaleTag(sm[i].t, sm[i].k))
                                                     ELSE mem[<<"sScale", i>>]
<1>1. PICK m, p : /\ m = (IF sm[i].k > 1 THEN Put(mem, <<"sScale", i>>, KeepIf(sm[i].ok, ScaleTag(sm[i].t, sm[i].k)))
                                         ELSE mem)
                  /\ p = Put(m, <<"Plo", i>>, Garbage)
                  /\ mem' = IF QuantPV THEN Put(p, <<"sSFP", i>>, Garbage) ELSE p
  BY DEF SoftmaxScale
<1>2. \A q \in Region : m[q] = mem[q] \/ q = <<"sScale", i>>
  BY <1>1, SmPut
<1>3. \A q \in Region : p[q] = m[q] \/ q = <<"Plo", i>> \/ (~Decoupled /\ q = <<"S", i>>)
  BY <1>1, SmPut
<1>4. \A q \in Region : mem'[q] = p[q] \/ q = <<"sSFP", i>>
  BY <1>1, SmPut
<1>5. <<"sScale", i>> \in Region
  BY NamesIn
<1>6. mem'[<<"sScale", i>>] = m[<<"sScale", i>>]
  BY <1>3, <1>4, <1>5
<1>7. /\ sm[i].k > 1 => m[<<"sScale", i>>] = KeepIf(sm[i].ok, ScaleTag(sm[i].t, sm[i].k))
      /\ ~(sm[i].k > 1) => m = mem
  <2>1. CASE sm[i].k > 1
    <3>1. m = Put(mem, <<"sScale", i>>, KeepIf(sm[i].ok, ScaleTag(sm[i].t, sm[i].k)))
      BY <1>1, <2>1
    <3> QED
      BY <1>5, <2>1, <3>1, PutAt
  <2>2. CASE ~(sm[i].k > 1)
    BY <1>1, <2>2
  <2> QED
    BY <2>1, <2>2
<1> QED
  BY <1>2, <1>3, <1>4, <1>6, <1>7 DEF SmWrites

LEMMA SmStorePMem ==
    ASSUME NEW i \in {0, 1}, SoftmaxStoreP(i)
    PROVE  /\ SmWrites(i, {"Plo", "Phi", "sSFP"})
           /\ mem'[<<"Plo", i>>] = KeepIf(sm[i].ok, STag(sm[i].t, sm[i].k))
           /\ QuantPV => mem'[<<"sSFP", i>>] = KeepIf(sm[i].ok, STag(sm[i].t, sm[i].k))
<1>1. PICK m, p, tag : /\ tag = KeepIf(sm[i].ok, STag(sm[i].t, sm[i].k))
                       /\ m = Put(mem, <<"Plo", i>>, tag) /\ p = Put(m, <<"Phi", i>>, Garbage)
                       /\ mem' = IF QuantPV THEN Put(p, <<"sSFP", i>>, tag) ELSE p
  BY DEF SoftmaxStoreP
<1>2. \A q \in Region : m[q] = mem[q] \/ q = <<"Plo", i>> \/ (~Decoupled /\ q = <<"S", i>>)
  BY <1>1, SmPut
<1>3. \A q \in Region : p[q] = m[q] \/ q = <<"Phi", i>> \/ (~Decoupled /\ q = <<"S", i>>)
  BY <1>1, SmPut
<1>4. \A q \in Region : mem'[q] = p[q] \/ q = <<"sSFP", i>>
  BY <1>1, SmPut
<1>5. <<"Plo", i>> \in Region /\ <<"sSFP", i>> \in Region
  BY NamesIn
<1>6. mem'[<<"Plo", i>>] = tag
  <2>1. mem'[<<"Plo", i>>] = p[<<"Plo", i>>]
    BY <1>4, <1>5
  <2>2. p[<<"Plo", i>>] = m[<<"Plo", i>>]
    BY <1>3, <1>5
  <2>3. m[<<"Plo", i>>] = tag
    BY <1>1, <1>5, PutAt
  <2> QED
    BY <2>1, <2>2, <2>3
<1>7. QuantPV => mem'[<<"sSFP", i>>] = tag
  BY <1>1, <1>5, PutIs
<1> QED
  BY <1>1, <1>2, <1>3, <1>4, <1>6, <1>7 DEF SmWrites

LEMMA SmStoreP2Mem ==
    ASSUME NEW i \in {0, 1}, SoftmaxStoreP2(i)
    PROVE  /\ SmWrites(i, {"Phi"})
           /\ mem'[<<"Phi", i>>] = KeepIf(sm[i].ok, STag(sm[i].t, sm[i].k))
<1>1. mem' = Put(mem, <<"Phi", i>>, KeepIf(sm[i].ok, STag(sm[i].t, sm[i].k))) /\ <<"Phi", i>> \in Region
  BY NamesIn DEF SoftmaxStoreP2
<1> QED
  BY <1>1, SmPut, PutIs DEF SmWrites

LEMMA SmWaitMem == ASSUME NEW i \in {0, 1}, SoftmaxWaitCorr(i) PROVE SmWrites(i, {"sScale"})
<1>1. \A q \in Region : mem'[q] = mem[q] \/ mem'[q] = Put(mem, <<"sScale", i>>, Garbage)[q]
  BY DEF SoftmaxWaitCorr
<1> QED
  BY <1>1, SmPut DEF SmWrites

LEMMA SmSumMem ==
    ASSUME NEW i \in {0, 1}, SoftmaxSum(i)
    PROVE  /\ SmWrites(i, {"sScale"})
           /\ mem'[<<"sScale", i>>] = KeepIf(sm[i].ok, ScaleTag(sm[i].t, Blocks[sm[i].t] + 1))
<1>1. mem' = Put(mem, <<"sScale", i>>, KeepIf(sm[i].ok, ScaleTag(sm[i].t, Blocks[sm[i].t] + 1)))
      /\ <<"sScale", i>> \in Region
  BY NamesIn DEF SoftmaxSum
<1> QED
  BY <1>1, SmPut, PutIs DEF SmWrites

LEMMA SmTouchesAre == ASSUME NEW i \in {0, 1}, Softmax(i) PROVE SmTouches(i)
<1>1. CASE SoftmaxStart(i) \/ SoftmaxTile(i)
  BY <1>1, SmQuietMem DEF SmTouches
<1>2. CASE SoftmaxLoadS(i)
  BY <1>2, SmLoadMem DEF SmTouches, SmWrites
<1>3. CASE SoftmaxScale(i)
  BY <1>3, SmScaleMem DEF SmTouches, SmWrites, SoftmaxScale
<1>4. CASE SoftmaxStoreP(i)
  BY <1>4, SmStorePMem DEF SmTouches, SmWrites, SoftmaxStoreP
<1>5. CASE SoftmaxStoreP2(i)
  BY <1>5, SmStoreP2Mem DEF SmTouches, SmWrites, SoftmaxStoreP2
<1>6. CASE SoftmaxWaitCorr(i)
  BY <1>6, SmWaitMem DEF SmTouches, SmWrites
<1>7. CASE SoftmaxSum(i)
  BY <1>7, SmSumMem DEF SmTouches, SmWrites
<1> QED
  BY <1>1, <1>2, <1>3, <1>4, <1>5, <1>6, <1>7 DEF Softmax

-----------------------------------------------------------------------------
(* Softmax: every step keeps what the buffers hold. *)

LEMMA EnginesKept ==
    ASSUME FlightInv, Contents, UNCHANGED <<tma, tc, ld, mm>>, SameCount({"kv_full", "kv_empty", "q_full"}),
           SameAt({"KV"} \cup ScaleNames),
           \A j \in DOMAIN tc : tc[j].kind = "QK" => mem'[<<"Q", tc[j].st>>] = mem[<<"Q", tc[j].st>>]
    PROVE  /\ LdPlaced' /\ MmPlaced' /\ KvHolds' /\ PvOnce' /\ SfHolds'
           /\ \A j \in DOMAIN tc : OpHolds(tc[j])' /\ RunHolds(j, tc[j])'
<1>1. Types /\ TcType
  BY DEF FlightInv, HandInv, OperandInv, Types
<1>2. SameCount({"kv_full", "kv_empty"}) /\ SameAt({"KV"}) /\ SameAt(ScaleNames)
  BY DEF SameCount, SameAt
<1>3. LdPlaced' /\ MmPlaced' /\ KvHolds'
  BY <1>1, <1>2, KvKept DEF Contents
<1>4. PvOnce'
  BY PvsSame DEF Contents
<1>5. SfHolds'
  BY <1>2, SfKept DEF Contents
<1>6. ASSUME NEW j \in DOMAIN tc PROVE OpHolds(tc[j])' /\ RunHolds(j, tc[j])'
  <2>1. OpHolds(tc[j]) /\ RunHolds(j, tc[j])
    BY DEF Contents, TcHolds
  <2> QED
    BY <1>1, <2>1, OpKept
<1> QED
  BY <1>3, <1>4, <1>5, <1>6

\* All of it but the stage's own S, P and scale.
SmKept(i) == /\ LdPlaced' /\ MmPlaced' /\ KvHolds' /\ TcHolds' /\ PvOnce' /\ SfHolds'
             /\ StageHolds(1 - i)' /\ QHolds(i)' /\ OHolds(i)' /\ OutHolds(i)'

LEMMA SoftmaxFrame == ASSUME CInv, NEW i \in {0, 1}, Softmax(i) PROVE SmKept(i)
<1>0. i \in Stage /\ 1 - i \in {0, 1} /\ 1 - i # i /\ FlightInv /\ Contents /\ HandInv
  BY StageIs DEF CInv, FlightInv
<1>1. SmHere(i)
  BY <1>0, HandPlaces DEF SmHere, HandInv, OperandInv, Types, Places
<1>2. PICK w, a : SmStep(i, w, a)
  BY <1>0, <1>1, SoftmaxStep
<1>3. UNCHANGED <<tma, tc, ld, mm, co, ep>> /\ sm'[1 - i] = sm[1 - i] /\ Moves(w, a)
  BY <1>2 DEF SmStep
<1>4. UNCHANGED out
  BY DEF Softmax, SoftmaxStart, SoftmaxTile, SoftmaxLoadS, SoftmaxScale, SoftmaxStoreP, SoftmaxStoreP2,
         SoftmaxWaitCorr, SoftmaxSum
<1>5. (\A b \in w : b[1] \in {"S_full", "corr_empty"})
      /\ (\A b \in a : b[1] \in {"corr_full", "P_full_O", "P_full_2", "sfqk", "dealloc"})
  BY <1>2 DEF SmStep
<1>6. SameCount({"kv_full", "kv_empty", "q_full"})
  BY <1>1, <1>3, <1>5, CountsSame DEF SmHere
<1>7. \A j \in {0, 1} : Done("S_full", j)' = Done("S_full", j)
  <2> SUFFICES ASSUME NEW j \in {0, 1} PROVE Done("S_full", j)' = Done("S_full", j)
    OBVIOUS
  <2>1. <<"S_full", j>> \in Barrier /\ <<"S_full", j>> \notin a
    BY <1>5, NamesAre, StageIs
  <2>2. bar'[<<"S_full", j>>].done = bar[<<"S_full", j>>].done
    BY <1>1, <1>3, <2>1, DoneKept DEF SmHere
  <2> QED
    BY <2>2 DEF Done
<1>8. SmTouches(i)
  BY SmTouchesAre
<1>9. /\ SameAt({"KV"} \cup ScaleNames)
      /\ \A n \in {"Q", "O", "sO"} : \A j \in {0, 1} : mem'[<<n, j>>] = mem[<<n, j>>]
      /\ \A n \in {"S", "Plo", "Phi", "sSFP", "sScale"} : mem'[<<n, 1 - i>>] = mem[<<n, 1 - i>>]
  <2>1. SameAt({"KV"} \cup ScaleNames)
    BY <1>8 DEF SameAt, SmTouches, ScaleNames
  <2>2. \A n \in {"Q", "O", "sO"} : \A j \in {0, 1} : mem'[<<n, j>>] = mem[<<n, j>>]
    BY <1>8, NamesIn DEF SmTouches
  <2>3. \A n \in {"S", "Plo", "Phi", "sSFP", "sScale"} : mem'[<<n, 1 - i>>] = mem[<<n, 1 - i>>]
    BY <1>0, <1>8, NamesIn DEF SmTouches
  <2> QED
    BY <2>1, <2>2, <2>3
<1>10. TcType
  BY <1>0 DEF HandInv, OperandInv, Types
<1>11. LdPlaced' /\ MmPlaced' /\ KvHolds' /\ PvOnce' /\ SfHolds'
       /\ \A j \in DOMAIN tc : OpHolds(tc[j])' /\ RunHolds(j, tc[j])'
  <2>1. \A j \in DOMAIN tc : tc[j].kind = "QK" => mem'[<<"Q", tc[j].st>>] = mem[<<"Q", tc[j].st>>]
    BY <1>9, <1>10, OpIs
  <2> QED
    BY <1>0, <1>3, <1>6, <1>9, <2>1, EnginesKept
<1>12. TcHolds'
  <2>1. ASSUME NEW j \in DOMAIN tc PROVE Waits(tc[j])'
    <3>1. Waits(tc[j]) /\ mem'[<<"O", tc[j].st>>] = mem[<<"O", tc[j].st>>]
      BY <1>0, <1>9, <1>10, OpIs DEF Contents, TcHolds
    <3> QED
      BY <1>3, <3>1 DEF Waits
  <2> QED
    BY <1>3, <1>11, <2>1 DEF TcHolds
<1>13. \A j \in {0, 1} : QHolds(j)' /\ OHolds(j)' /\ OutHolds(j)'
  <2> SUFFICES ASSUME NEW j \in {0, 1} PROVE QHolds(j)' /\ OHolds(j)' /\ OutHolds(j)'
    OBVIOUS
  <2>1. QHolds(j) /\ OHolds(j) /\ OutHolds(j)
    BY <1>0 DEF Contents, StageHolds
  <2>2. SameCount({"q_full"})
    BY <1>6 DEF SameCount
  <2>3. QHolds(j)'
    BY <1>3, <1>9, <2>1, <2>2, QKept
  <2>4. UNCHANGED <<ORescaled(j), PvBegun(j), OWritten(j), EpFreed(j)>> /\ (PvIn(j)' <=> PvIn(j))
        /\ (Rescaling(j) => Rescaling(j)')
    BY <1>3, CoSame, MmSame, EpSame, PvsSame DEF Rescaling
  <2>5. OHolds(j)'
    BY <1>9, <2>1, <2>4, OKept
  <2>6. OutHolds(j)'
    BY <1>4, <1>9, <2>1, <2>4, OutKept
  <2> QED
    BY <2>3, <2>5, <2>6
<1>14. SHolds(1 - i)' /\ PHolds(1 - i)' /\ ScaleHolds(1 - i)'
  <2>1. SHolds(1 - i) /\ PHolds(1 - i) /\ ScaleHolds(1 - i)
    BY <1>0 DEF Contents, StageHolds
  <2>2. UNCHANGED <<SLoaded(1 - i), PStored(1 - i), P2Stored(1 - i), ScalesOut(1 - i), PvBegun(1 - i), PvDone(1 - i),
                    ScalesTaken(1 - i)>>
        /\ (PvIn(1 - i)' <=> PvIn(1 - i)) /\ (PvClosed(1 - i)' <=> PvClosed(1 - i))
    BY <1>3, SmSame, CoSame, MmSame, PvsSame
  <2>3. SHolds(1 - i)'
    BY <1>0, <1>7, <1>9, <2>1, <2>2, SKept
  <2>4. PHolds(1 - i)'
    BY <1>0, <1>9, <2>1, <2>2, PKept
  <2>5. ScaleHolds(1 - i)'
    BY <1>9, <2>1, <2>2, ScaleKept
  <2> QED
    BY <2>3, <2>4, <2>5
<1> QED
  BY <1>0, <1>11, <1>12, <1>13, <1>14 DEF SmKept, StageHolds

\* Where softmax i goes.
SmGoes(i, from, to, t, k) == /\ sm[i].at \in from /\ sm'[i].at = to /\ sm'[i].t = t /\ sm'[i].k = k
                             /\ sm'[1 - i] = sm[1 - i]
SmOk(i) == sm'[i].ok = sm[i].ok

LEMMA SmGo ==
    ASSUME SmType, NEW i \in {0, 1}
    PROVE  /\ SoftmaxStart(i) => SmGoes(i, {"start"}, "tile", sm[i].t, sm[i].k) /\ SmOk(i)
           /\ SoftmaxTile(i) => SmGoes(i, {"tile"}, "s", sm[i].t, sm[i].k) /\ SmOk(i)
           /\ SoftmaxLoadS(i) => /\ SmGoes(i, {"s"}, "scale", sm[i].t, sm[i].k)
                                 /\ sm'[i].ok = (mem[<<"S", i>>] = STag(sm[i].t, sm[i].k))
           /\ SoftmaxScale(i) => SmGoes(i, {"scale"}, "plo", sm[i].t, sm[i].k) /\ SmOk(i)
           /\ SoftmaxStoreP(i) => SmGoes(i, {"plo"}, "phi", sm[i].t, sm[i].k) /\ SmOk(i)
           /\ SoftmaxStoreP2(i) => SmGoes(i, {"phi"}, "corr", sm[i].t, sm[i].k) /\ SmOk(i)
           /\ SoftmaxWaitCorr(i) =>
                 /\ SmOk(i)
                 /\ \/ SmGoes(i, {"corr"}, "s", sm[i].t, sm[i].k + 1) /\ UNCHANGED mem
                    \/ SmGoes(i, {"corr"}, "sum", sm[i].t, sm[i].k)
           /\ SoftmaxSum(i) => /\ SmOk(i)
                               /\ \E at \in {"tile", "end"} : SmGoes(i, {"sum"}, at, sm[i].t + 1, 1)
<1>0. i \in Stage /\ 1 - i # i /\ 1 - i \in Stage /\ DOMAIN sm = Stage /\ sm[i] \in SmRecord
  BY StageIs DEF SmType
<1>2. PICK s : s = sm[i] /\ s \in SmRecord
  BY <1>0
<1>4. ASSUME SoftmaxStart(i) PROVE SmGoes(i, {"start"}, "tile", s.t, s.k) /\ SmOk(i)
  <2>1. PICK r : sm' = [sm EXCEPT ![i] = r] /\ r = [s EXCEPT !.at = "tile"]
    BY <1>2, <1>4 DEF SoftmaxStart
  <2>2. r.at = "tile" /\ r.t = s.t /\ r.k = s.k /\ r.ok = s.ok
    BY <1>2, <2>1 DEF SmRecord
  <2>3. sm[i].at \in {"start"}
    BY <1>4 DEF SoftmaxStart
  <2>4. sm'[i] = r /\ sm'[1 - i] = sm[1 - i]
    BY <1>0, <2>1
  <2> QED
    BY <1>2, <2>2, <2>3, <2>4 DEF SmOk, SmGoes
<1>5. ASSUME SoftmaxTile(i) PROVE SmGoes(i, {"tile"}, "s", s.t, s.k) /\ SmOk(i)
  <2>1. PICK r : sm' = [sm EXCEPT ![i] = r] /\ r = [s EXCEPT !.at = "s", !.cPh = 1 - @]
    BY <1>2, <1>5 DEF SoftmaxTile
  <2>2. r.at = "s" /\ r.t = s.t /\ r.k = s.k /\ r.ok = s.ok
    BY <1>2, <2>1 DEF SmRecord
  <2>3. sm[i].at \in {"tile"}
    BY <1>5 DEF SoftmaxTile
  <2>4. sm'[i] = r /\ sm'[1 - i] = sm[1 - i]
    BY <1>0, <2>1
  <2> QED
    BY <1>2, <2>2, <2>3, <2>4 DEF SmOk, SmGoes
<1>6. ASSUME SoftmaxLoadS(i) PROVE SmGoes(i, {"s"}, "scale", s.t, s.k) /\ sm'[i].ok = (mem[<<"S", i>>] = STag(s.t, s.k))
  <2>1. PICK r : sm' = [sm EXCEPT ![i] = r] /\ r = [s EXCEPT !.at = "scale", !.ok = (mem[<<"S", i>>] = STag(s.t, s.k))]
    BY <1>2, <1>6 DEF SoftmaxLoadS
  <2>2. r.at = "scale" /\ r.t = s.t /\ r.k = s.k /\ r.ok = (mem[<<"S", i>>] = STag(s.t, s.k))
    BY <1>2, <2>1 DEF SmRecord
  <2>3. sm[i].at \in {"s"}
    BY <1>6 DEF SoftmaxLoadS
  <2>4. sm'[i] = r /\ sm'[1 - i] = sm[1 - i]
    BY <1>0, <2>1
  <2> QED
    BY <1>2, <2>2, <2>3, <2>4 DEF SmOk, SmGoes
<1>7. ASSUME SoftmaxScale(i) PROVE SmGoes(i, {"scale"}, "plo", s.t, s.k) /\ SmOk(i)
  <2>1. PICK r : sm' = [sm EXCEPT ![i] = r] /\ r = [s EXCEPT !.at = "plo"]
    BY <1>2, <1>7 DEF SoftmaxScale
  <2>2. r.at = "plo" /\ r.t = s.t /\ r.k = s.k /\ r.ok = s.ok
    BY <1>2, <2>1 DEF SmRecord
  <2>3. sm[i].at \in {"scale"}
    BY <1>7 DEF SoftmaxScale
  <2>4. sm'[i] = r /\ sm'[1 - i] = sm[1 - i]
    BY <1>0, <2>1
  <2> QED
    BY <1>2, <2>2, <2>3, <2>4 DEF SmOk, SmGoes
<1>8. ASSUME SoftmaxStoreP(i) PROVE SmGoes(i, {"plo"}, "phi", s.t, s.k) /\ SmOk(i)
  <2>1. PICK r : sm' = [sm EXCEPT ![i] = r] /\ r = [s EXCEPT !.at = "phi"]
    BY <1>2, <1>8 DEF SoftmaxStoreP
  <2>2. r.at = "phi" /\ r.t = s.t /\ r.k = s.k /\ r.ok = s.ok
    BY <1>2, <2>1 DEF SmRecord
  <2>3. sm[i].at \in {"plo"}
    BY <1>8 DEF SoftmaxStoreP
  <2>4. sm'[i] = r /\ sm'[1 - i] = sm[1 - i]
    BY <1>0, <2>1
  <2> QED
    BY <1>2, <2>2, <2>3, <2>4 DEF SmOk, SmGoes
<1>9. ASSUME SoftmaxStoreP2(i) PROVE SmGoes(i, {"phi"}, "corr", s.t, s.k) /\ SmOk(i)
  <2>1. PICK r : sm' = [sm EXCEPT ![i] = r] /\ r = [s EXCEPT !.at = "corr"]
    BY <1>2, <1>9 DEF SoftmaxStoreP2
  <2>2. r.at = "corr" /\ r.t = s.t /\ r.k = s.k /\ r.ok = s.ok
    BY <1>2, <2>1 DEF SmRecord
  <2>3. sm[i].at \in {"phi"}
    BY <1>9 DEF SoftmaxStoreP2
  <2>4. sm'[i] = r /\ sm'[1 - i] = sm[1 - i]
    BY <1>0, <2>1
  <2> QED
    BY <1>2, <2>2, <2>3, <2>4 DEF SmOk, SmGoes
<1>10. ASSUME SoftmaxWaitCorr(i)
       PROVE  SmOk(i) /\ \/ SmGoes(i, {"corr"}, "s", s.t, s.k + 1) /\ UNCHANGED mem
                         \/ SmGoes(i, {"corr"}, "sum", s.t, s.k)
  <2>1. PICK r : sm' = [sm EXCEPT ![i] = r]
                 /\ \/ r = [s EXCEPT !.sPh = 1 - @, !.cPh = 1 - @, !.at = "s", !.k = @ + 1] /\ UNCHANGED mem
                    \/ r = [s EXCEPT !.sPh = 1 - @, !.cPh = 1 - @, !.at = "sum"]
    BY <1>2, <1>10 DEF SoftmaxWaitCorr, SmRecord
  <2>2. r.t = s.t /\ r.ok = s.ok /\ ((r.at = "s" /\ r.k = s.k + 1 /\ UNCHANGED mem) \/ (r.at = "sum" /\ r.k = s.k))
    BY <1>2, <2>1 DEF SmRecord
  <2>3. sm[i].at \in {"corr"}
    BY <1>10 DEF SoftmaxWaitCorr
  <2>4. sm'[i] = r /\ sm'[1 - i] = sm[1 - i]
    BY <1>0, <2>1
  <2> QED
    BY <1>2, <2>2, <2>3, <2>4 DEF SmOk, SmGoes
<1>11. ASSUME SoftmaxSum(i) PROVE SmOk(i) /\ \E at \in {"tile", "end"} : SmGoes(i, {"sum"}, at, s.t + 1, 1)
  <2>1. PICK r : sm' = [sm EXCEPT ![i] = r] /\ \E at \in {"tile", "end"} : r = [s EXCEPT !.at = at, !.t = @ + 1, !.k = 1]
    BY <1>2, <1>11 DEF SoftmaxSum
  <2>2. r.at \in {"tile", "end"} /\ r.t = s.t + 1 /\ r.k = 1 /\ r.ok = s.ok
    BY <1>2, <2>1 DEF SmRecord
  <2>3. sm[i].at \in {"sum"}
    BY <1>11 DEF SoftmaxSum
  <2>4. sm'[i] = r /\ sm'[1 - i] = sm[1 - i]
    BY <1>0, <2>1
  <2> QED
    BY <1>2, <2>2, <2>3, <2>4 DEF SmOk, SmGoes
<1> QED
  BY <1>2, <1>4, <1>5, <1>6, <1>7, <1>8, <1>9, <1>10, <1>11

\* While softmax stores P, no PV that reads P is on its way.
PFree(i) == sm[i].at = "plo" => PStored(i) <= PvDone(i) /\ P2Stored(i) <= PvDone(i) /\ PStored(i) <= PvBegun(i) /\ ~PvIn(i)
LEMMA PFreeIs == ASSUME FlightInv, Decoupled => PvBeforeNextP, NEW i \in {0, 1} PROVE PFree(i)
<1> SUFFICES ASSUME sm[i].at = "plo"
             PROVE  PStored(i) <= PvDone(i) /\ P2Stored(i) <= PvDone(i) /\ PStored(i) <= PvBegun(i) /\ ~PvIn(i)
  BY DEF PFree
<1>1. ~PvIn(i)
  BY POperandsKept DEF PvIn
<1>2. Tally(i) /\ SmAt(i)
  BY TallyIs, SmAtIs
<1>3. PICK b : b = SmBlocks(i) /\ b \in Int
  BY <1>2 DEF SmAt
<1>4. PBegun(i) = b + 1 /\ PStored(i) = b /\ P2Stored(i) = b
  BY <1>2, <1>3 DEF SmAt
<1>5. PBegun(i) <= PvDone(i) + 1
  BY <1>2 DEF Tally
<1> QED
  BY <1>1, <1>2, <1>3, <1>4, <1>5 DEF Tally

PFrees == (Decoupled => PvBeforeNextP) => PFree(0) /\ PFree(1)
LEMMA PFreesAre == FlightInv => PFrees
BY PFreeIs DEF PFrees
LEMMA PFreesThen == FlightInv' => PFrees'
BY PFreesAre, PTL

LEMMA SoftmaxS == ASSUME CInv, NEW i \in {0, 1}, Softmax(i) PROVE SHolds(i)' /\ Done("S_full", i)' = Done("S_full", i)
<1>0. i \in Stage /\ FlightInv /\ Contents /\ HandInv
  BY StageIs DEF CInv, FlightInv
<1>1. SmHere(i)
  BY <1>0, HandPlaces DEF SmHere, HandInv, OperandInv, Types, Places
<1>2. PICK w, a : SmStep(i, w, a)
  BY <1>0, <1>1, SoftmaxStep
<1>3. Done("S_full", i)' = Done("S_full", i)
  <2>1. <<"S_full", i>> \in Barrier /\ <<"S_full", i>> \notin a
    BY <1>0, <1>2, NamesAre DEF SmStep
  <2>2. bar'[<<"S_full", i>>].done = bar[<<"S_full", i>>].done
    BY <1>1, <1>2, <2>1, DoneKept DEF SmHere, SmStep
  <2> QED
    BY <2>2 DEF Done
<1>4. Tally(i) /\ SmAt(i) /\ SHolds(i)
  BY <1>0, TallyIs, SmAtIs DEF Contents, StageHolds
<1>5. SLoaded(i)' = SLoaded(i) \/ SLoaded(i)' = SLoaded(i) + 1
  BY <1>2, <1>4 DEF SmStep, SmDelta, If1, Tally
<1>6. PICK d : d = Done("S_full", i) /\ d \in Int
  BY <1>4 DEF Tally
<1>7. CASE SLoaded(i)' = SLoaded(i) + 1 \/ (SLoaded(i)' = SLoaded(i) /\ ~Decoupled /\ sm[i].at \in {"scale", "plo", "phi"})
  <2>1. d <= SLoaded(i)'
    <3>1. CASE SLoaded(i)' = SLoaded(i) + 1
      BY <1>4, <1>6, <3>1 DEF Tally
    <3>2. CASE SLoaded(i)' = SLoaded(i) /\ ~Decoupled /\ sm[i].at \in {"scale", "plo", "phi"}
      <4>1. PICK b : b = SmBlocks(i) /\ b \in Int
        BY <1>4 DEF SmAt
      <4>2. SLoaded(i) = b + 1 /\ P2Stored(i) = b
        BY <1>4, <3>2, <4>1 DEF SmAt, If1
      <4>3. d <= QksIssued(i) /\ QksIssued(i) <= PvDone(i) + 1 /\ PvDone(i) <= P2Stored(i)
        BY <1>4, <1>6, <3>2 DEF Tally
      <4> QED
        BY <1>4, <1>6, <3>2, <4>1, <4>2, <4>3 DEF Tally
    <3> QED
      BY <1>7, <3>1, <3>2
  <2>2. SLoaded(i)' \in Int
    BY <1>4, <1>7 DEF Tally
  <2>3. Done("S_full", i)' # SLoaded(i)' + 1
    BY <1>3, <1>6, <2>1, <2>2
  <2> QED
    BY <1>3, <2>3 DEF SHolds
<1>8. CASE SLoaded(i)' = SLoaded(i) /\ ~(~Decoupled /\ sm[i].at \in {"scale", "plo", "phi"})
  <2>1. mem'[<<"S", i>>] = mem[<<"S", i>>]
    BY <1>8, SmTouchesAre, NamesIn DEF SmTouches
  <2>2. SHolds(i)'
    BY <1>3, <1>4, <1>8, <2>1, SKept
  <2> QED
    BY <1>3, <2>2
<1> QED
  BY <1>5, <1>7, <1>8

\* What is known around a step of softmax i.
SmCtx(i) ==
    /\ SmAt(i) /\ SmAt(i)' /\ Tally(i) /\ Tally(i)' /\ PFree(i) /\ PFree(i)' /\ SmType
    /\ PHolds(i) /\ ScaleHolds(i) /\ SHolds(i) /\ sm[i].ok /\ Done("S_full", i)' = Done("S_full", i)
    /\ PvBegun(i)' = PvBegun(i) /\ PvDone(i)' = PvDone(i) /\ ScalesTaken(i)' = ScalesTaken(i)
    /\ ScalesBack(i)' = ScalesBack(i) /\ (PvIn(i)' <=> PvIn(i)) /\ (PvClosed(i)' <=> PvClosed(i))
    /\ (PvClosed(i) => PvIn(i))

LEMMA SmCtxIs ==
    ASSUME CInv, FlightInv', Decoupled => PvBeforeNextP, NEW i \in {0, 1}, Softmax(i) PROVE SmCtx(i)
<1>0. i \in Stage /\ FlightInv /\ Contents /\ HandInv
  BY StageIs DEF CInv, FlightInv
<1>1. SmHere(i) /\ SmType
  BY <1>0, HandPlaces DEF SmHere, HandInv, OperandInv, Types, Places
<1>2. PICK w, a : SmStep(i, w, a)
  BY <1>0, <1>1, SoftmaxStep
<1>3. UNCHANGED <<tc, mm, co>>
  BY <1>2 DEF SmStep
<1>4. PvBegun(i)' = PvBegun(i) /\ PvDone(i)' = PvDone(i) /\ ScalesTaken(i)' = ScalesTaken(i)
      /\ ScalesBack(i)' = ScalesBack(i) /\ (PvIn(i)' <=> PvIn(i)) /\ (PvClosed(i)' <=> PvClosed(i))
  BY <1>3, CoSame, MmSame, PvsSame
<1>5. SmAt(i) /\ Tally(i) /\ PFree(i)
  BY <1>0, SmAtIs, TallyIs, PFreeIs
<1>6. SmAt(i)' /\ Tally(i)' /\ PFree(i)'
  <2>1. SmsAt' /\ Tallies' /\ PFrees'
    BY SmsAtThen, TalliesThen, PFreesThen
  <2>2. PFree(0)' /\ PFree(1)'
    BY <2>1 DEF PFrees
  <2> QED
    BY <2>1, <2>2, SmAtBothThen, TallyBothThen
<1>7. PHolds(i) /\ ScaleHolds(i) /\ SHolds(i) /\ sm[i].ok
  BY <1>0 DEF Contents, StageHolds, OksHold
<1>8. Done("S_full", i)' = Done("S_full", i)
  BY SoftmaxS
<1>9. PvClosed(i) => PvIn(i)
  BY DEF PvClosed, PvIn
<1> QED
  BY <1>1, <1>4, <1>5, <1>6, <1>7, <1>8, <1>9 DEF SmCtx

\* Steps that move on in the block, and to the next one or the row sum.
LEMMA SmNumbersGo ==
    ASSUME NEW i \in {0, 1}, SmCtx(i)
    PROVE  \E b, c, t, k :
             /\ b = SmBlocks(i) /\ c = SmBlocks(i)' /\ t = sm[i].t /\ k = sm[i].k
             /\ b \in Int /\ c \in Int /\ t \in Int /\ k \in Int
             /\ \A from, to : SmGoes(i, from, to, t, k) => c = b
             /\ \A from, to : SmGoes(i, from, to, t, k + 1) => c = b + 1
             /\ \A from, to : SmGoes(i, from, to, t + 1, 1) /\ sm[i].at = "sum" => c = b + 1
             /\ sm[i].at # "end" => IsBlock(t, k, b + 1) /\ IsScale(t, k, b + t)
             /\ sm[i].at = "sum" => IsScale(t, Blocks[t] + 1, b + 1 + t)
<1>1. SmAt(i) /\ SmAt(i)' /\ SmWhere(i)
  BY DEF SmCtx, SmAt
<1>2. PICK b, c, t, k, s : b = SmBlocks(i) /\ c = SmBlocks(i)' /\ t = sm[i].t /\ k = sm[i].k /\ s = Start[t]
  OBVIOUS
<1>3. b \in Int /\ c \in Int /\ t \in Int /\ k \in Int /\ s \in Int /\ b = s + k - 1
  BY <1>1, <1>2 DEF SmAt, SmWhere, SmBlocks
<1>4. \A from, to : SmGoes(i, from, to, t, k) => c = b
  BY <1>2, <1>3 DEF SmGoes, SmBlocks
<1>5. \A from, to : SmGoes(i, from, to, t, k + 1) => c = b + 1
  BY <1>2, <1>3 DEF SmGoes, SmBlocks
<1>6. sm[i].at # "end" => Start[t + 1] = s + Blocks[t] /\ Blocks[t] \in Int /\ t \in Tile /\ 1 <= Blocks[t]
  BY <1>1, <1>2 DEF SmWhere
<1>7. \A from, to : SmGoes(i, from, to, t + 1, 1) /\ sm[i].at = "sum" => c = b + 1
  <2> SUFFICES ASSUME NEW from, NEW to, SmGoes(i, from, to, t + 1, 1), sm[i].at = "sum" PROVE c = b + 1
    OBVIOUS
  <2>1. k = Blocks[t]
    BY <1>1, <1>2 DEF SmAt
  <2>2. c = Start[t + 1] + 1 - 1
    BY <1>2 DEF SmGoes, SmBlocks
  <2> QED
    BY <1>3, <1>6, <2>1, <2>2
<1>8. sm[i].at # "end" => IsBlock(t, k, b + 1)
  BY <1>1, <1>2 DEF SmAt
<1>9. sm[i].at # "end" => IsScale(t, k, b + t)
  BY <1>2, <1>3, <1>6, <1>8 DEF IsBlock, IsScale
<1>10. sm[i].at = "sum" => IsScale(t, Blocks[t] + 1, b + 1 + t)
  <2> SUFFICES ASSUME sm[i].at = "sum" PROVE IsScale(t, Blocks[t] + 1, b + 1 + t)
    OBVIOUS
  <2>1. k = Blocks[t]
    BY <1>1, <1>2 DEF SmAt
  <2> QED
    BY <1>2, <1>3, <1>6, <2>1 DEF IsScale
<1> QED
  BY <1>2, <1>3, <1>4, <1>5, <1>7, <1>8, <1>9, <1>10

SmDone(i) == PHolds(i)' /\ ScaleHolds(i)' /\ sm'[i].ok

LEMMA SmQuietKeeps ==
    ASSUME NEW i \in {0, 1}, SmCtx(i), SoftmaxStart(i) \/ SoftmaxTile(i) PROVE SmDone(i)
<1>1. PICK b, c, t, k :
        /\ b = SmBlocks(i) /\ c = SmBlocks(i)' /\ t = sm[i].t /\ k = sm[i].k
        /\ b \in Int /\ c \in Int /\ t \in Int /\ k \in Int
        /\ \A from, to : SmGoes(i, from, to, t, k) => c = b
  BY SmNumbersGo
<1>2. SmOk(i) /\ sm[i].at \in {"start", "tile"} /\ sm'[i].at \in {"tile", "s"} /\ c = b /\ sm'[i].t = t
  BY <1>1, SmGo DEF SmCtx, SmGoes
<1>3. UNCHANGED <<PBegun(i), PStored(i), P2Stored(i)>>
  BY <1>1, <1>2 DEF SmCtx, SmAt
<1>4. UNCHANGED ScalesOut(i)
  BY <1>1, <1>2, <1>3 DEF SmCtx, SmAt
<1>5. UNCHANGED mem
  BY SmQuietMem
<1>6. PHolds(i)'
  BY <1>3, <1>5, PKept DEF SmCtx
<1>7. ScaleHolds(i)'
  BY <1>4, <1>5, ScaleKept DEF SmCtx
<1> QED
  BY <1>2, <1>6, <1>7 DEF SmDone, SmCtx, SmOk

\* S is there as it was made (softmax_step's wait on S_full).
LEMMA SmLoadKeeps == ASSUME NEW i \in {0, 1}, SmCtx(i), SoftmaxLoadS(i) PROVE SmDone(i)
<1>1. PICK b, c, t, k :
        /\ b = SmBlocks(i) /\ c = SmBlocks(i)' /\ t = sm[i].t /\ k = sm[i].k
        /\ b \in Int /\ c \in Int /\ t \in Int /\ k \in Int
        /\ \A from, to : SmGoes(i, from, to, t, k) => c = b
        /\ sm[i].at # "end" => IsBlock(t, k, b + 1)
  BY SmNumbersGo
<1>2. sm[i].at = "s" /\ sm'[i].at = "scale" /\ c = b /\ sm'[i].t = t /\ sm'[i].ok = (mem[<<"S", i>>] = STag(t, k))
  BY <1>1, SmGo DEF SmCtx, SmGoes
<1>3. UNCHANGED <<PBegun(i), PStored(i), P2Stored(i)>> /\ PBegun(i) = b
  BY <1>1, <1>2 DEF SmCtx, SmAt
<1>4. UNCHANGED ScalesOut(i) /\ ScalesOut(i) = b + t - 1 /\ ScalesFree(i) = b + t
  BY <1>1, <1>2, <1>3 DEF SmCtx, SmAt
<1>5. PHolds(i)'
  <2>1. \A n \in {"Plo", "Phi", "sSFP"} : mem'[<<n, i>>] = mem[<<n, i>>]
    BY SmLoadMem, NamesIn DEF SmWrites
  <2> QED
    BY <1>3, <2>1, PKept DEF SmCtx
<1>6. ScaleHolds(i)'
  <2>1. ScalesFree(i) <= ScalesBack(i) + 1 /\ ScalesBack(i) <= ScalesTaken(i)
        /\ ScalesBack(i) \in Int /\ ScalesTaken(i) \in Int
    BY DEF SmCtx, Tally
  <2>2. ~(ScalesTaken(i)' < ScalesOut(i)')
    BY <1>1, <1>4, <2>1 DEF SmCtx
  <2> QED
    BY <2>2 DEF ScaleHolds
<1>7. sm'[i].ok
  <2>1. SLoaded(i) = b /\ SLoaded(i)' = b + 1
    BY <1>1, <1>2 DEF SmCtx, SmAt, If1
  <2>2. Done("S_full", i) = b + 1
    BY <1>1, <2>1 DEF SmCtx, Tally
  <2> QED
    BY <1>1, <1>2, <2>1, <2>2 DEF SmCtx, SHolds
<1> QED
  BY <1>5, <1>6, <1>7 DEF SmDone

LEMMA SmScaleKeeps == ASSUME NEW i \in {0, 1}, SmCtx(i), SoftmaxScale(i) PROVE SmDone(i)
<1>1. PICK b, c, t, k :
        /\ b = SmBlocks(i) /\ c = SmBlocks(i)' /\ t = sm[i].t /\ k = sm[i].k
        /\ b \in Int /\ c \in Int /\ t \in Int /\ k \in Int
        /\ \A from, to : SmGoes(i, from, to, t, k) => c = b
        /\ sm[i].at # "end" => IsBlock(t, k, b + 1) /\ IsScale(t, k, b + t)
  BY SmNumbersGo
<1>2. sm[i].at = "scale" /\ sm'[i].at = "plo" /\ c = b /\ sm'[i].t = t /\ SmOk(i)
  BY <1>1, SmGo DEF SmCtx, SmGoes
<1>3. PBegun(i)' = b + 1
  BY <1>1, <1>2 DEF SmCtx, SmAt
<1>4. ScalesOut(i)' = b + t
  BY <1>1, <1>2, <1>3 DEF SmCtx, SmAt
<1>5. PHolds(i)'
  <2>1. PStored(i)' <= PvDone(i)' /\ P2Stored(i)' <= PvDone(i)' /\ PStored(i)' <= PvBegun(i)' /\ ~PvIn(i)'
    BY <1>2 DEF SmCtx, PFree
  <2>2. PStored(i)' \in Int /\ P2Stored(i)' \in Int /\ PvDone(i)' \in Int /\ PvBegun(i)' \in Int
    BY DEF SmCtx, Tally
  <2>3. ~(PvBegun(i)' < PStored(i)') /\ ~(PvDone(i)' < P2Stored(i)') /\ ~PvIn(i)' /\ ~PvClosed(i)'
    BY <2>1, <2>2 DEF SmCtx
  <2> QED
    BY <2>3 DEF PHolds
<1>6. ScaleHolds(i)'
  <2> SUFFICES ASSUME NEW u, NEW l, IsScale(u, l, ScalesOut(i)'), l > 1 PROVE mem'[<<"sScale", i>>] = ScaleTag(u, l)
    BY DEF ScaleHolds
  <2>1. u = t /\ l = k
    BY <1>1, <1>2, <1>4, ScaleUnique
  <2>2. mem'[<<"sScale", i>>] = KeepIf(sm[i].ok, ScaleTag(t, k))
    BY <1>1, <2>1, SmScaleMem
  <2> QED
    BY <2>1, <2>2 DEF KeepIf, SmCtx
<1> QED
  BY <1>2, <1>5, <1>6 DEF SmDone, SmCtx, SmOk

LEMMA SmStorePKeeps == ASSUME NEW i \in {0, 1}, SmCtx(i), SoftmaxStoreP(i) PROVE SmDone(i)
<1>1. PICK b, c, t, k :
        /\ b = SmBlocks(i) /\ c = SmBlocks(i)' /\ t = sm[i].t /\ k = sm[i].k
        /\ b \in Int /\ c \in Int /\ t \in Int /\ k \in Int
        /\ \A from, to : SmGoes(i, from, to, t, k) => c = b
        /\ sm[i].at # "end" => IsBlock(t, k, b + 1)
  BY SmNumbersGo
<1>2. sm[i].at = "plo" /\ sm'[i].at = "phi" /\ c = b /\ sm'[i].t = t /\ SmOk(i)
  BY <1>1, SmGo DEF SmCtx, SmGoes
<1>3. UNCHANGED <<PBegun(i), P2Stored(i)>> /\ PStored(i)' = b + 1
  BY <1>1, <1>2 DEF SmCtx, SmAt
<1>4. UNCHANGED ScalesOut(i)
  BY <1>1, <1>2, <1>3 DEF SmCtx, SmAt
<1>5. PHolds(i)'
  <2>1. P2Stored(i) <= PvDone(i) /\ ~PvIn(i) /\ P2Stored(i) \in Int /\ PvDone(i) \in Int
    BY <1>2 DEF SmCtx, PFree, Tally
  <2>2. ~(PvDone(i)' < P2Stored(i)') /\ ~PvClosed(i)'
    BY <1>3, <2>1 DEF SmCtx
  <2>3. mem'[<<"Plo", i>>] = STag(t, k) /\ (QuantPV => mem'[<<"sSFP", i>>] = STag(t, k))
    BY <1>1, SmStorePMem DEF SmCtx, KeepIf
  <2>4. ASSUME NEW u, NEW l, IsBlock(u, l, PStored(i)') PROVE u = t /\ l = k
    BY <1>1, <1>2, <1>3, <2>4, BlockUnique
  <2> QED
    BY <2>2, <2>3, <2>4 DEF PHolds
<1>6. ScaleHolds(i)'
  <2>1. mem'[<<"sScale", i>>] = mem[<<"sScale", i>>]
    BY SmStorePMem, NamesIn DEF SmWrites
  <2> QED
    BY <1>4, <2>1, ScaleKept DEF SmCtx
<1> QED
  BY <1>2, <1>5, <1>6 DEF SmDone, SmCtx, SmOk

LEMMA SmStoreP2Keeps == ASSUME NEW i \in {0, 1}, SmCtx(i), SoftmaxStoreP2(i) PROVE SmDone(i)
<1>1. PICK b, c, t, k :
        /\ b = SmBlocks(i) /\ c = SmBlocks(i)' /\ t = sm[i].t /\ k = sm[i].k
        /\ b \in Int /\ c \in Int /\ t \in Int /\ k \in Int
        /\ \A from, to : SmGoes(i, from, to, t, k) => c = b
        /\ sm[i].at # "end" => IsBlock(t, k, b + 1)
  BY SmNumbersGo
<1>2. sm[i].at = "phi" /\ sm'[i].at = "corr" /\ c = b /\ sm'[i].t = t /\ SmOk(i)
  BY <1>1, SmGo DEF SmCtx, SmGoes
<1>3. UNCHANGED <<PBegun(i), PStored(i)>> /\ P2Stored(i)' = b + 1
  BY <1>1, <1>2 DEF SmCtx, SmAt
<1>4. UNCHANGED ScalesOut(i)
  BY <1>1, <1>2, <1>3 DEF SmCtx, SmAt
<1>5. PHolds(i)'
  <2>1. mem'[<<"Plo", i>>] = mem[<<"Plo", i>>] /\ mem'[<<"sSFP", i>>] = mem[<<"sSFP", i>>]
    BY SmStoreP2Mem, NamesIn DEF SmWrites
  <2>2. mem'[<<"Phi", i>>] = STag(t, k)
    BY <1>1, SmStoreP2Mem DEF SmCtx, KeepIf
  <2>3. ASSUME NEW u, NEW l, IsBlock(u, l, P2Stored(i)') PROVE u = t /\ l = k
    BY <1>1, <1>2, <1>3, <2>3, BlockUnique
  <2> QED
    BY <1>3, <2>1, <2>2, <2>3 DEF PHolds, SmCtx
<1>6. ScaleHolds(i)'
  <2>1. mem'[<<"sScale", i>>] = mem[<<"sScale", i>>]
    BY SmStoreP2Mem, NamesIn DEF SmWrites
  <2> QED
    BY <1>4, <2>1, ScaleKept DEF SmCtx
<1> QED
  BY <1>2, <1>5, <1>6 DEF SmDone, SmCtx, SmOk

LEMMA SmWaitKeeps == ASSUME NEW i \in {0, 1}, SmCtx(i), SoftmaxWaitCorr(i) PROVE SmDone(i)
<1>1. PICK b, c, t, k :
        /\ b = SmBlocks(i) /\ c = SmBlocks(i)' /\ t = sm[i].t /\ k = sm[i].k
        /\ b \in Int /\ c \in Int /\ t \in Int /\ k \in Int
        /\ \A from, to : SmGoes(i, from, to, t, k) => c = b
        /\ \A from, to : SmGoes(i, from, to, t, k + 1) => c = b + 1
  BY SmNumbersGo
<1>2. /\ sm[i].at = "corr" /\ sm'[i].t = t /\ SmOk(i)
      /\ \/ sm'[i].at = "s" /\ c = b + 1 /\ UNCHANGED mem
         \/ sm'[i].at = "sum" /\ c = b
  BY <1>1, SmGo DEF SmCtx, SmGoes
<1>3. UNCHANGED <<PBegun(i), PStored(i), P2Stored(i)>> /\ PBegun(i) = b + 1
  BY <1>1, <1>2 DEF SmCtx, SmAt
<1>4. UNCHANGED ScalesOut(i) /\ ScalesOut(i)' = b + t
  BY <1>1, <1>2, <1>3 DEF SmCtx, SmAt
<1>5. PHolds(i)'
  <2>1. \A n \in {"Plo", "Phi", "sSFP"} : mem'[<<n, i>>] = mem[<<n, i>>]
    BY SmWaitMem, NamesIn DEF SmWrites
  <2> QED
    BY <1>3, <2>1, PKept DEF SmCtx
<1>6. ScaleHolds(i)'
  <2>1. CASE UNCHANGED mem
    BY <1>4, <2>1, ScaleKept DEF SmCtx
  <2>2. CASE sm'[i].at = "sum" /\ c = b
    <3>1. ScalesFree(i)' = b + t + 1
      BY <1>1, <1>2, <2>2 DEF SmCtx, SmAt
    <3>2. ScalesFree(i)' <= ScalesBack(i)' + 1 /\ ScalesBack(i)' <= ScalesTaken(i)'
          /\ ScalesBack(i)' \in Int /\ ScalesTaken(i)' \in Int
      BY DEF SmCtx, Tally
    <3>3. ~(ScalesTaken(i)' < ScalesOut(i)')
      BY <1>1, <1>4, <3>1, <3>2
    <3> QED
      BY <3>3 DEF ScaleHolds
  <2> QED
    BY <1>2, <2>1, <2>2
<1> QED
  BY <1>2, <1>5, <1>6 DEF SmDone, SmCtx, SmOk

LEMMA SmSumKeeps == ASSUME NEW i \in {0, 1}, SmCtx(i), SoftmaxSum(i) PROVE SmDone(i)
<1>1. PICK b, c, t, k :
        /\ b = SmBlocks(i) /\ c = SmBlocks(i)' /\ t = sm[i].t /\ k = sm[i].k
        /\ b \in Int /\ c \in Int /\ t \in Int /\ k \in Int
        /\ \A from, to : SmGoes(i, from, to, t + 1, 1) /\ sm[i].at = "sum" => c = b + 1
        /\ sm[i].at = "sum" => IsScale(t, Blocks[t] + 1, b + 1 + t)
  BY SmNumbersGo
<1>2. sm[i].at = "sum" /\ sm'[i].at \in {"tile", "end"} /\ c = b + 1 /\ sm'[i].t = t + 1 /\ SmOk(i)
  BY <1>1, SmGo DEF SmCtx, SmGoes
<1>3. UNCHANGED <<PBegun(i), PStored(i), P2Stored(i)>> /\ PBegun(i)' = b + 1
  BY <1>1, <1>2 DEF SmCtx, SmAt
<1>4. ScalesOut(i)' = b + 1 + t
  BY <1>1, <1>2, <1>3 DEF SmCtx, SmAt
<1>5. PHolds(i)'
  <2>1. \A n \in {"Plo", "Phi", "sSFP"} : mem'[<<n, i>>] = mem[<<n, i>>]
    BY SmSumMem, NamesIn DEF SmWrites
  <2> QED
    BY <1>3, <2>1, PKept DEF SmCtx
<1>6. ScaleHolds(i)'
  <2> SUFFICES ASSUME NEW u, NEW l, IsScale(u, l, ScalesOut(i)') PROVE mem'[<<"sScale", i>>] = ScaleTag(u, l)
    BY DEF ScaleHolds
  <2>1. u = t /\ l = Blocks[t] + 1
    BY <1>1, <1>2, <1>4, ScaleUnique
  <2>2. mem'[<<"sScale", i>>] = KeepIf(sm[i].ok, ScaleTag(t, Blocks[t] + 1))
    BY <1>1, SmSumMem
  <2> QED
    BY <2>1, <2>2 DEF KeepIf, SmCtx
<1> QED
  BY <1>2, <1>5, <1>6 DEF SmDone, SmCtx, SmOk

LEMMA SoftmaxContents ==
    ASSUME CInv, FlightInv', Decoupled => PvBeforeNextP, NEW i \in {0, 1}, Softmax(i) PROVE Contents'
<1>1. SmCtx(i)
  BY SmCtxIs
<1>2. SmDone(i)
  BY <1>1, SmQuietKeeps, SmLoadKeeps, SmScaleKeeps, SmStorePKeeps, SmStoreP2Keeps, SmWaitKeeps, SmSumKeeps DEF Softmax
<1>3. SmKept(i) /\ SHolds(i)'
  BY SoftmaxFrame, SoftmaxS
<1>4. StageHolds(i)'
  BY <1>2, <1>3 DEF SmKept, SmDone, StageHolds
<1>5. \A j \in {0, 1} : StageHolds(j)'
  <2> SUFFICES ASSUME NEW j \in {0, 1} PROVE StageHolds(j)'
    OBVIOUS
  <2>1. j = i \/ j = 1 - i
    OBVIOUS
  <2> QED
    BY <1>3, <1>4, <2>1 DEF SmKept
<1>6. OksHold'
  <2>1. UNCHANGED <<co, out>> /\ sm'[1 - i] = sm[1 - i]
    BY <1>1, SmGo DEF SmCtx, Softmax, SmGoes, SoftmaxStart, SoftmaxTile, SoftmaxLoadS, SoftmaxScale, SoftmaxStoreP,
         SoftmaxStoreP2, SoftmaxWaitCorr, SoftmaxSum
  <2>2. OksHold
    BY DEF CInv, Contents
  <2> QED
    BY <1>2, <2>1, <2>2 DEF OksHold, SmDone
<1> QED
  BY <1>3, <1>5, <1>6 DEF Contents, SmKept

-----------------------------------------------------------------------------
(* The epilogue warp. *)

LEMMA EpFreeGo ==
    ASSUME EpType, EpiFree
    PROVE  \E t, st : /\ t = ep.t /\ st = ep.st /\ t \in Int /\ st \in {0, 1} /\ ep.at = "free"
                      /\ EpFreed(st) = t - 1 /\ EpFreed(st)' = t /\ EpRead(st) = t
                      /\ EpFreed(1 - st)' = EpFreed(1 - st)
<1>1. PICK t, st : t = ep.t /\ st = ep.st /\ t \in Int /\ st \in {0, 1} /\ ep.at = "free"
  BY StageIs DEF EpType, EpiFree
<1>2. EpRead(st) = t /\ EpFreed(st) = t - 1
  BY <1>1 DEF EpFreed, EpRead, If1
<1>3. EpFreed(st)' = t /\ EpFreed(1 - st)' = EpFreed(1 - st)
  <2>1. CASE st = 0
    <3>1. ep'.at = "free" /\ ep'.t = t /\ ep'.st = 1
      BY <1>1, <2>1 DEF EpType, EpiFree
    <3>2. EpFreed(0)' = t /\ EpFreed(1)' = t - 1 /\ EpFreed(1) = t - 1
      BY <1>1, <2>1, <3>1 DEF EpFreed, If1
    <3> QED
      BY <2>1, <3>2
  <2>2. CASE st = 1
    <3>1. ep'.at # "free" /\ ep'.t = t + 1
      BY <1>1, <2>2 DEF EpType, EpiFree
    <3>2. EpFreed(1)' = t /\ EpFreed(0)' = t /\ EpFreed(0) = t
      BY <1>1, <2>2, <3>1 DEF EpFreed, If1
    <3> QED
      BY <2>2, <3>2
  <2> QED
    BY <1>1, <2>1, <2>2
<1> QED
  BY <1>1, <1>2, <1>3

LEMMA EpStoreGo ==
    ASSUME EpType, EpiStore PROVE \A i \in {0, 1} : EpFreed(i)' = EpFreed(i)
<1>1. ep.at = "store" /\ ep'.t = ep.t /\ ep.t \in Int /\ ep'.st \in {0, 1}
      /\ (ep'.at = "store" \/ (ep'.at = "free" /\ ep'.st = 0))
  BY StageIs DEF EpType, EpiStore
<1> QED
  BY <1>1 DEF EpFreed, If1

\* The bulk store takes the output of the tile and stage, whole.
LEMMA EpFreeOut ==
    ASSUME FlightInv, EpiFree, ~CorrStoresO, EpType, NEW i \in {0, 1}, OutHolds(i), DOMAIN out = Tile \X Stage
    PROVE  OutHolds(i)' /\ DOMAIN out' = Tile \X Stage
<1>0. UNCHANGED <<mem, co>>
  BY DEF EpiFree
<1>1. PICK t, st : t = ep.t /\ st = ep.st /\ t \in Int /\ st \in {0, 1} /\ st \in Stage
                   /\ EpFreed(st) = t - 1 /\ EpFreed(st)' = t /\ EpRead(st) = t
                   /\ EpFreed(1 - st)' = EpFreed(1 - st)
  BY EpFreeGo, StageIs
<1>2. out' = [out EXCEPT ![<<t, st>>] = Append(@, mem[<<"sO", st>>])] /\ DOMAIN out' = Tile \X Stage
  BY <1>1 DEF EpiFree
<1>3. OWritten(i)' = OWritten(i)
  BY <1>0, CoSame
<1>4. CASE i # st
  <2>1. EpFreed(i)' = EpFreed(i)
    <3>1. i = 1 - st
      BY <1>1, <1>4
    <3> QED
      BY <1>1, <3>1
  <2>2. \A u \in Tile : out'[<<u, i>>] = out[<<u, i>>]
    BY <1>1, <1>2, <1>4, StageIs
  <2> QED
    BY <1>0, <1>2, <1>3, <2>1, <2>2 DEF OutHolds, Stored
<1>5. CASE i = st
  <2>1. OWritten(i) = t
    <3>1. Tally(i)
      BY TallyIs
    <3> QED
      BY <1>1, <1>5, <3>1 DEF Tally
  <2>2. t \in Tile => mem[<<"sO", i>>] = Folded(t, Blocks[t]) /\ out[<<t, i>>] = <<>>
    <3>1. EpFreed(i) < t /\ ~(t <= EpFreed(i))
      BY <1>1, <1>5
    <3> QED
      BY <2>1, <3>1 DEF OutHolds, Stored
  <2>3. ASSUME NEW u \in Tile
        PROVE  out'[<<u, i>>] = IF u <= t THEN <<Folded(u, Blocks[u])>> ELSE <<>>
    <3>0. u \in Int
      BY TileIs
    <3>1. CASE u = t
      <4>1. out'[<<u, i>>] = Append(out[<<t, i>>], mem[<<"sO", st>>])
        BY <1>1, <1>2, <1>5, <3>1
      <4>2. out'[<<u, i>>] = Append(<<>>, Folded(t, Blocks[t]))
        BY <1>5, <2>2, <3>1, <4>1
      <4> QED
        BY <1>1, <3>1, <4>2
    <3>2. CASE u # t
      <4>1. out'[<<u, i>>] = out[<<u, i>>]
        BY <1>1, <1>2, <1>5, <3>2
      <4>2. u <= t <=> u <= t - 1
        BY <1>1, <3>0, <3>2
      <4> QED
        BY <1>1, <1>5, <4>1, <4>2 DEF OutHolds, Stored
    <3> QED
      BY <3>1, <3>2
  <2> QED
    BY <1>1, <1>2, <1>3, <1>5, <2>1, <2>3 DEF OutHolds, Stored
<1> QED
  BY <1>4, <1>5

LEMMA EpilogueContents == ASSUME CInv, Epilogue PROVE Contents'
<1>0. FlightInv /\ Contents /\ HandInv /\ EpType /\ EpHere /\ TcType /\ BarType /\ BarOK
  BY HandPlaces DEF CInv, FlightInv, HandInv, OperandInv, Types, EpHere, Places, EpPlace
<1>1. PICK w, a : EpStep(w, a)
  BY <1>0, EpilogueStep
<1>2. UNCHANGED <<tma, tc, ld, mm, sm, co, mem>> /\ Moves(w, a) /\ ~CorrStoresO
      /\ (\A b \in w : b[1] = "epi_full") /\ (\A b \in a : b[1] = "epi_empty")
  BY <1>1 DEF EpStep, Epilogue, EpiStore, EpiFree
<1>3. SameCount({"kv_full", "kv_empty", "q_full", "S_full"})
  BY <1>0, <1>2, CountsSame
<1>4. SameCount({"kv_full", "kv_empty", "q_full"}) /\ SameCount({"q_full"})
      /\ \A i \in {0, 1} : Done("S_full", i)' = Done("S_full", i)
  BY <1>3, NamesAre, StageIs DEF SameCount, Done
<1>5. SameAt({"KV"} \cup ScaleNames) /\ \A n : \A i : mem'[<<n, i>>] = mem[<<n, i>>]
  BY <1>2 DEF SameAt
<1>6. LdPlaced' /\ MmPlaced' /\ KvHolds' /\ PvOnce' /\ SfHolds'
      /\ \A j \in DOMAIN tc : OpHolds(tc[j])' /\ RunHolds(j, tc[j])'
  BY <1>0, <1>2, <1>4, <1>5, EnginesKept
<1>7. TcHolds'
  <2>1. ASSUME NEW j \in DOMAIN tc PROVE Waits(tc[j])'
    BY <1>0, <1>2 DEF Contents, TcHolds, Waits
  <2> QED
    BY <1>2, <1>6, <2>1 DEF TcHolds
<1>8. ASSUME NEW i \in {0, 1} PROVE StageHolds(i)' /\ DOMAIN out' = Tile \X Stage
  <2>1. StageHolds(i) /\ DOMAIN out = Tile \X Stage
    BY <1>0 DEF Contents, OksHold
  <2>2. QHolds(i)'
    BY <1>2, <1>4, <1>5, <2>1, QKept DEF StageHolds
  <2>3. /\ UNCHANGED <<SLoaded(i), PStored(i), P2Stored(i), ScalesOut(i), PvBegun(i), PvDone(i), ScalesTaken(i),
                       ORescaled(i), OWritten(i)>>
        /\ (PvIn(i)' <=> PvIn(i)) /\ (PvClosed(i)' <=> PvClosed(i)) /\ (Rescaling(i) => Rescaling(i)')
    BY <1>2, SmSame, CoSame, MmSame, PvsSame DEF Rescaling
  <2>4. SHolds(i)'
    BY <1>4, <1>5, <2>1, <2>3, SKept DEF StageHolds
  <2>5. PHolds(i)'
    BY <1>5, <2>1, <2>3, PKept DEF StageHolds
  <2>6. ScaleHolds(i)'
    BY <1>5, <2>1, <2>3, ScaleKept DEF StageHolds
  <2>7. OHolds(i)'
    BY <1>5, <2>1, <2>3, OKept DEF StageHolds
  <2>8. OutHolds(i)' /\ DOMAIN out' = Tile \X Stage
    <3>1. CASE EpiFree
      BY <1>0, <1>2, <2>1, <3>1, EpFreeOut DEF StageHolds
    <3>2. CASE EpiStore
      <4>1. UNCHANGED out /\ EpFreed(i)' = EpFreed(i)
        BY <1>0, <3>2, EpStoreGo DEF EpiStore
      <4> QED
        BY <1>5, <2>1, <2>3, <4>1, OutKept DEF StageHolds
    <3> QED
      BY <3>1, <3>2 DEF Epilogue
  <2> QED
    BY <2>2, <2>4, <2>5, <2>6, <2>7, <2>8 DEF StageHolds
<1>9. OksHold'
  BY <1>0, <1>2, <1>8 DEF Contents, OksHold
<1> QED
  BY <1>6, <1>7, <1>8, <1>9 DEF Contents

-----------------------------------------------------------------------------
(* The correction warps: where they go. *)

CoGoes(from, to, t, k, st) == co.at = from /\ co'.at \in to /\ co'.t = t /\ co'.k = k /\ co'.st = st
CoOk == co'.ok = co.ok
OIs(t, k) == mem[<<"O", co.st>>] = Folded(t, k)
ScaleIs(t, k) == mem[<<"sScale", co.st>>] = ScaleTag(t, k)

LEMMA CoQuietGo ==
    ASSUME CoType, CorrStart \/ CorrFirst
    PROVE  /\ UNCHANGED <<mem, out>> /\ CoOk
           /\ \/ CoGoes("start", {"first"}, co.t, co.k, co.st)
              \/ co.st = 0 /\ CoGoes("first", {"first"}, co.t, co.k, 1)
              \/ co.st = 1 /\ CoGoes("first", {"scale", "sum"}, co.t, 2, 0)
<1>1. PICK c : c = co /\ c \in CoRecord /\ c.st \in {0, 1}
  BY StageIs DEF CoType, CoRecord
<1>2. CASE CorrStart
  <2>1. co' = [c EXCEPT !.at = "first"] /\ c.at = "start" /\ UNCHANGED <<mem, out>>
    BY <1>1, <1>2 DEF CorrStart
  <2>2. co'.at = "first" /\ co'.t = c.t /\ co'.k = c.k /\ co'.st = c.st /\ co'.ok = c.ok
    BY <1>1, <2>1 DEF CoRecord
  <2> QED
    BY <1>1, <2>1, <2>2 DEF CoGoes, CoOk
<1>3. CASE CorrFirst
  <2>1. c.at = "first" /\ UNCHANGED <<mem, out>>
        /\ \/ c.st = 0 /\ co' = [c EXCEPT !.st = 1]
           \/ \E x \in {"scale", "sum"} : c.st = 1 /\ co' = [c EXCEPT !.at = x, !.st = 0, !.k = 2, !.cPh = 1 - @]
    BY <1>1, <1>3 DEF CorrFirst
  <2>2. \/ c.st = 0 /\ co'.at = "first" /\ co'.t = c.t /\ co'.k = c.k /\ co'.st = 1 /\ co'.ok = c.ok
        \/ c.st = 1 /\ co'.at \in {"scale", "sum"} /\ co'.t = c.t /\ co'.k = 2 /\ co'.st = 0 /\ co'.ok = c.ok
    BY <1>1, <2>1 DEF CoRecord
  <2> QED
    BY <1>1, <2>1, <2>2 DEF CoGoes, CoOk
<1> QED
  BY <1>2, <1>3

LEMMA MemDomain == ASSUME NEW p, DOMAIN p = Region, NEW r, NEW x, NEW q, q # r, q \in Region
    PROVE [p EXCEPT ![r] = x][q] = p[q]
  OBVIOUS

LEMMA CoBeginGo ==
    ASSUME DOMAIN mem = Region, NEW c, c \in CoRecord, BeginRescale(c)
    PROVE  /\ co'.at = "rescale" /\ co'.t = c.t /\ co'.k = c.k /\ co'.st = c.st
           /\ co'.ok = (c.ok /\ mem[<<"O", c.st>>] = Folded(c.t, c.k - 1))
           /\ \A q : q \in Region /\ q # <<"O", c.st>> => mem'[q] = mem[q]
<1>1. /\ co' = [c EXCEPT !.at = "rescale", !.ok = (c.ok /\ mem[<<"O", c.st>>] = Folded(c.t, c.k - 1))]
      /\ mem' = [mem EXCEPT ![<<"O", c.st>>] = Garbage] \/ mem' = mem
  BY DEF BeginRescale
<1>2. ASSUME NEW q, q \in Region, q # <<"O", c.st>> PROVE mem'[q] = mem[q]
  <2>1. CASE mem' = [mem EXCEPT ![<<"O", c.st>>] = Garbage]
    BY <1>2, <2>1, MemDomain
  <2>2. CASE mem' = mem
    BY <2>2
  <2> QED
    BY <1>1, <2>1, <2>2
<1>3. co'.at = "rescale" /\ co'.t = c.t /\ co'.k = c.k /\ co'.st = c.st
      /\ co'.ok = (c.ok /\ mem[<<"O", c.st>>] = Folded(c.t, c.k - 1))
  BY <1>1 DEF CoRecord
<1> QED
  BY <1>2, <1>3

OnlyO == \A q : q \in Region /\ q # <<"O", co.st>> => mem'[q] = mem[q]

LEMMA CoScaleGo ==
    ASSUME DOMAIN mem = Region, CoType, CorrScale
    PROVE  \/ /\ Decoupled /\ CoGoes("scale", {"acc"}, co.t, co.k, co.st) /\ UNCHANGED mem
              /\ co'.ok = ScaleIs(co.t, co.k)
           \/ /\ ~Decoupled /\ CoGoes("scale", {"rescale"}, co.t, co.k, co.st) /\ OnlyO
              /\ co'.ok = (ScaleIs(co.t, co.k) /\ OIs(co.t, co.k - 1))
<1>1. PICK c : c = [co EXCEPT !.ok = ScaleIs(co.t, co.k)]
  OBVIOUS
<1>2. c \in CoRecord /\ c.t = co.t /\ c.k = co.k /\ c.st = co.st /\ c.at = co.at /\ c.ok = ScaleIs(co.t, co.k)
  BY <1>1 DEF CoType, CoRecord, ScaleIs
<1>3. co.at = "scale"
  BY DEF CorrScale
<1>4. CASE Decoupled
  <2>1. co' = [c EXCEPT !.at = "acc"] /\ UNCHANGED mem
    BY <1>1, <1>4 DEF CorrScale, WaitsForPv, ScaleIs
  <2>2. co'.at = "acc" /\ co'.t = c.t /\ co'.k = c.k /\ co'.st = c.st /\ co'.ok = c.ok
    BY <1>2, <2>1 DEF CoRecord
  <2> QED
    BY <1>2, <1>3, <1>4, <2>1, <2>2 DEF CoGoes
<1>5. CASE ~Decoupled
  <2>1. BeginRescale(c)
    BY <1>1, <1>5 DEF CorrScale, WaitsForPv, ScaleIs
  <2>2. /\ co'.at = "rescale" /\ co'.t = c.t /\ co'.k = c.k /\ co'.st = c.st
        /\ co'.ok = (c.ok /\ mem[<<"O", c.st>>] = Folded(c.t, c.k - 1))
        /\ \A q : q \in Region /\ q # <<"O", c.st>> => mem'[q] = mem[q]
    BY <1>2, <2>1, CoBeginGo
  <2> QED
    BY <1>2, <1>3, <1>5, <2>2 DEF CoGoes, OnlyO, OIs
<1> QED
  BY <1>4, <1>5

LEMMA CoWaitOGo ==
    ASSUME DOMAIN mem = Region, CoType, CorrWaitO
    PROVE  /\ CoGoes("acc", {"rescale"}, co.t, co.k, co.st) /\ OnlyO
           /\ co'.ok = (co.ok /\ OIs(co.t, co.k - 1))
<1>1. co \in CoRecord /\ BeginRescale(co) /\ co.at = "acc"
  BY DEF CoType, CorrWaitO
<1> QED
  BY <1>1, CoBeginGo DEF CoGoes, OnlyO, OIs

LEMMA CoRescaledGo ==
    ASSUME CoType, CorrRescaled
    PROVE  /\ CoOk /\ OnlyO /\ UNCHANGED out
           /\ DOMAIN mem = Region => mem'[<<"O", co.st>>] = KeepIf(co.ok, Rescaled(co.t, co.k - 1))
           /\ \/ co.st = 0 /\ CoGoes("rescale", {"scale"}, co.t, co.k, 1)
              \/ co.st = 1 /\ co.k = Blocks[co.t] /\ CoGoes("rescale", {"sum"}, co.t, co.k + 1, 0)
              \/ co.st = 1 /\ co.k # Blocks[co.t] /\ CoGoes("rescale", {"scale"}, co.t, co.k + 1, 0)
<1>1. PICK c : c = co /\ c \in CoRecord /\ c.st \in {0, 1}
  BY StageIs DEF CoType, CoRecord
<1>2. /\ mem' = [mem EXCEPT ![<<"O", co.st>>] = KeepIf(co.ok, Rescaled(co.t, co.k - 1))]
      /\ c.at = "rescale" /\ UNCHANGED out
  BY <1>1 DEF CorrRescaled
<1>3. OnlyO /\ (DOMAIN mem = Region => mem'[<<"O", co.st>>] = KeepIf(co.ok, Rescaled(co.t, co.k - 1)))
  BY <1>1, <1>2, NamesIn DEF OnlyO
<1>4. CASE c.st = 0
  <2>1. co' = [c EXCEPT !.at = "scale", !.st = 1]
    BY <1>1, <1>4 DEF CorrRescaled
  <2>2. co'.at = "scale" /\ co'.t = c.t /\ co'.k = c.k /\ co'.st = 1 /\ co'.ok = c.ok
    BY <1>1, <2>1 DEF CoRecord
  <2> QED
    BY <1>1, <1>2, <1>3, <1>4, <2>2 DEF CoGoes, CoOk
<1>5. CASE c.st = 1
  <2>1. PICK x : x = (IF c.k = Blocks[c.t] THEN "sum" ELSE "scale")
    OBVIOUS
  <2>a. co' = [c EXCEPT !.cPh = 1 - @, !.oPh = IF Decoupled THEN 1 - @ ELSE @, !.at = x, !.st = 0, !.k = @ + 1]
    <3>1. CASE c.k = Blocks[c.t]
      BY <1>1, <1>5, <2>1, <3>1 DEF CorrRescaled
    <3>2. CASE c.k # Blocks[c.t]
      BY <1>1, <1>5, <2>1, <3>2 DEF CorrRescaled
    <3> QED
      BY <3>1, <3>2
  <2>2. co'.at = x /\ co'.t = c.t /\ co'.k = c.k + 1 /\ co'.st = 0 /\ co'.ok = c.ok
    BY <1>1, <2>a DEF CoRecord
  <2> QED
    BY <1>1, <1>2, <1>3, <1>5, <2>1, <2>2 DEF CoGoes, CoOk
<1> QED
  BY <1>1, <1>4, <1>5

LEMMA CoSumGo ==
    ASSUME CoType, CorrSum
    PROVE  /\ CoGoes("sum", {"o"}, co.t, co.k, co.st) /\ UNCHANGED <<mem, out>>
           /\ co'.ok = ScaleIs(co.t, Blocks[co.t] + 1)
<1>1. PICK c : c = co /\ c \in CoRecord
  BY DEF CoType
<1>2. co' = [c EXCEPT !.at = "o", !.ok = ScaleIs(co.t, Blocks[co.t] + 1)] /\ c.at = "sum" /\ UNCHANGED <<mem, out>>
  BY <1>1 DEF CorrSum, ScaleIs
<1>3. co'.at = "o" /\ co'.t = c.t /\ co'.k = c.k /\ co'.st = c.st /\ co'.ok = ScaleIs(co.t, Blocks[co.t] + 1)
  BY <1>1, <1>2 DEF CoRecord
<1> QED
  BY <1>1, <1>2, <1>3 DEF CoGoes

OnlyOut == \A q : q \in Region /\ q # <<"sO", co.st>> => mem'[q] = mem[q] \/ (OverlapSOSQ /\ q[1] = "Q")

LEMMA PutOut ==
    ASSUME CoType, NEW tag, mem' = Put(mem, <<"sO", co.st>>, tag) PROVE OnlyOut /\ mem'[<<"sO", co.st>>] = tag
<1>1. <<"sO", co.st>> \in Region
  BY NamesIn, StageIs DEF CoType, CoRecord
<1>2. mem'[<<"sO", co.st>>] = tag
  BY <1>1, PutAt
<1>3. ASSUME NEW q, q \in Region, q # <<"sO", co.st>> PROVE mem'[q] = mem[q] \/ (OverlapSOSQ /\ q[1] = "Q")
  <2>1. CASE Clash(<<"sO", co.st>>, q)
    BY <1>1, <1>3, <2>1, ClashOut
  <2>2. CASE ~Clash(<<"sO", co.st>>, q)
    BY <1>1, <1>3, <2>2, PutKeeps
  <2> QED
    BY <2>1, <2>2
<1> QED
  BY <1>2, <1>3 DEF OnlyOut

LEMMA CoBufferGo ==
    ASSUME CoType, CorrWaitLastO \/ CorrWaitBuffer
    PROVE  /\ CoOk /\ UNCHANGED out /\ OnlyOut
           /\ \/ CorrStoresO /\ CoGoes("o", {"write"}, co.t, co.k, co.st)
              \/ UNCHANGED mem /\ CoGoes("o", {"buffer"}, co.t, co.k, co.st)
              \/ CoGoes("buffer", {"write"}, co.t, co.k, co.st)
<1>1. PICK c : c = co /\ c \in CoRecord
  BY DEF CoType
<1>2. CASE CorrWaitLastO
  <2>1. PICK x : /\ co' = [c EXCEPT !.at = x] /\ c.at = "o" /\ UNCHANGED out
                 /\ \/ x = "write" /\ CorrStoresO /\ mem' = Put(mem, <<"sO", co.st>>, Garbage)
                    \/ x = "buffer" /\ UNCHANGED mem
    BY <1>1, <1>2 DEF CorrWaitLastO
  <2>2. co'.at = x /\ co'.t = c.t /\ co'.k = c.k /\ co'.st = c.st /\ co'.ok = c.ok
    BY <1>1, <2>1 DEF CoRecord
  <2>3. OnlyOut
    BY <2>1, PutOut DEF OnlyOut
  <2> QED
    BY <1>1, <2>1, <2>2, <2>3 DEF CoGoes, CoOk
<1>3. CASE CorrWaitBuffer
  <2>1. co' = [c EXCEPT !.at = "write"] /\ c.at = "buffer" /\ UNCHANGED out /\ mem' = Put(mem, <<"sO", co.st>>, Garbage)
    BY <1>1, <1>3 DEF CorrWaitBuffer
  <2>2. co'.at = "write" /\ co'.t = c.t /\ co'.k = c.k /\ co'.st = c.st /\ co'.ok = c.ok
    BY <1>1, <2>1 DEF CoRecord
  <2>3. OnlyOut
    BY <2>1, PutOut
  <2> QED
    BY <1>1, <2>1, <2>2, <2>3 DEF CoGoes, CoOk
<1> QED
  BY <1>2, <1>3

LEMMA CoWriteGo ==
    ASSUME CoType, CorrWriteO, NEW t, t = co.t, NEW st, st = co.st
    PROVE  /\ st \in {0, 1} /\ CoOk /\ OnlyOut
           /\ co.ok /\ OIs(t, Blocks[t]) => mem'[<<"sO", st>>] = Folded(t, Blocks[t])
           /\ CorrStoresO => out' = [out EXCEPT ![<<t, st>>] = Append(@, mem'[<<"sO", st>>])]
           /\ ~CorrStoresO => out' = out
           /\ \/ st = 0 /\ CoGoes("write", {"sum"}, t, co.k, 1)
              \/ st = 1 /\ CoGoes("write", {"first", "end"}, t + 1, co.k, 0)
<1>1. PICK c : c = co /\ c \in CoRecord /\ c.st \in {0, 1}
  BY StageIs DEF CoType, CoRecord
<1>2. PICK res : /\ res = KeepIf(co.ok /\ mem[<<"O", co.st>>] = Folded(co.t, Blocks[co.t]), Folded(co.t, Blocks[co.t]))
                 /\ mem' = Put(mem, <<"sO", co.st>>, res) /\ c.at = "write"
                 /\ out' = IF CorrStoresO THEN [out EXCEPT ![<<co.t, co.st>>] = Append(@, res)] ELSE out
  BY <1>1 DEF CorrWriteO
<1>3. co.ok /\ OIs(co.t, Blocks[co.t]) => res = Folded(co.t, Blocks[co.t])
  BY <1>2 DEF KeepIf, OIs
<1>4. OnlyOut /\ mem'[<<"sO", co.st>>] = res
  BY <1>2, PutOut
<1>5. \/ st = 0 /\ CoOk /\ CoGoes("write", {"sum"}, t, co.k, 1)
      \/ st = 1 /\ CoOk /\ CoGoes("write", {"first", "end"}, t + 1, co.k, 0)
  <2>1. CASE c.st = 0
    <3>1. co' = [c EXCEPT !.at = "sum", !.st = 1]
      BY <1>1, <2>1 DEF CorrWriteO
    <3>2. co'.at = "sum" /\ co'.t = c.t /\ co'.k = c.k /\ co'.st = 1 /\ co'.ok = c.ok
      BY <1>1, <3>1 DEF CoRecord
    <3> QED
      BY <1>1, <1>2, <2>1, <3>2 DEF CoGoes, CoOk
  <2>2. CASE c.st = 1
    <3>1. PICK x \in {"first", "end"} :
              co' = [c EXCEPT !.at = x, !.t = @ + 1, !.st = 0, !.oPh = 1 - @, !.cPh = 1 - @, !.ePh = 1 - @]
      <4>1. CASE c.t + 1 \in Tile
        <5>1. co' = [c EXCEPT !.at = "first", !.t = @ + 1, !.st = 0, !.oPh = 1 - @, !.cPh = 1 - @, !.ePh = 1 - @]
          BY <1>1, <2>2, <4>1 DEF CorrWriteO
        <5> QED
          BY <5>1
      <4>2. CASE c.t + 1 \notin Tile
        <5>1. co' = [c EXCEPT !.at = "end", !.t = @ + 1, !.st = 0, !.oPh = 1 - @, !.cPh = 1 - @, !.ePh = 1 - @]
          BY <1>1, <2>2, <4>2 DEF CorrWriteO
        <5> QED
          BY <5>1
      <4> QED
        BY <4>1, <4>2
    <3>2. co'.at = x /\ co'.t = c.t + 1 /\ co'.k = c.k /\ co'.st = 0 /\ co'.ok = c.ok
      BY <1>1, <3>1 DEF CoRecord
    <3> QED
      BY <1>1, <1>2, <2>2, <3>1, <3>2 DEF CoGoes, CoOk
  <2> QED
    BY <1>1, <2>1, <2>2
<1> QED
  BY <1>1, <1>2, <1>3, <1>4, <1>5

-----------------------------------------------------------------------------
(* The correction warps: which block, scale and row sum they are at. *)

CoAt ==
    /\ CoWhere /\ CoPlace
    /\ co.at = "start" => co.t = 1 /\ \A i \in {0, 1} : ORescaled(i) = Start[1]
    /\ co.at \in {"scale", "acc", "rescale"} => /\ IsBlock(co.t, co.k - 1, ORescaled(co.st)) /\ co.k > 1
                                                /\ IsBlock(co.t, co.k, ORescaled(co.st) + 1)
    /\ co.at = "scale" => IsScale(co.t, co.k, ScalesTaken(co.st) + 1)
    /\ co.at = "sum" => IsScale(co.t, Blocks[co.t] + 1, ScalesTaken(co.st) + 1)
    /\ CoEnding => OWritten(co.st) = co.t - 1 /\ co.t \in Tile
    /\ co.at = "write" => IsBlock(co.t, Blocks[co.t], ORescaled(co.st))

CoNow(t, k, s, b) ==
        /\ t = co.t /\ k = co.k /\ s = Start[t] /\ b = Blocks[t] /\ t \in Tile
        /\ t \in Int /\ k \in Int /\ s \in Int /\ b \in Int /\ 1 <= b /\ CoIn
        /\ ORescaled(co.st) = s + k - 1
        /\ co.at \in {"scale", "sum"} => ScalesTaken(co.st) = s + t + k - 2
        /\ CoEnding => OWritten(co.st) = t - 1

LEMMA CoAtIs == ASSUME FlightInv PROVE CoAt
<1>1. CoWhere /\ CoPlace
  BY HandPlaces DEF FlightInv, HandInv, Places
<1>2. co.st \in {0, 1} /\ If1(co.st < co.st) = 0
  BY <1>1 DEF CoWhere, If1
<1>3. co.at = "start" => co.t = 1 /\ \A i \in {0, 1} : ORescaled(i) = Start[1]
  <2>1. Start[1] \in Int
    BY StartIs
  <2> QED
    BY <1>1, <2>1 DEF CoPlace, ORescaled, CoIn, If1
<1>4. ASSUME co.at \notin {"start", "first", "end"}
      PROVE  \E t, k, s, b : CoNow(t, k, s, b)
  <2>1. CoIn /\ co.at # "end" /\ co.at # "start"
    BY <1>4 DEF CoIn
  <2>2. PICK t, k, s, b : /\ t = co.t /\ k = co.k /\ s = Start[t] /\ b = Blocks[t] /\ t \in Tile
                          /\ t \in Int /\ k \in Int /\ s \in Int /\ b \in Int /\ 1 <= b
    BY <1>1, <2>1 DEF CoWhere
  <2>3. ORescaled(co.st) = s + k - 1
    BY <1>2, <2>1, <2>2 DEF ORescaled, If1
  <2>4. co.at \in {"scale", "sum"} => ScalesTaken(co.st) = s + t + k - 2
    <3>1. CoRounds = s + t - 1 + k - 1
      BY <2>1, <2>2 DEF CoRounds
    <3>2. co.at \in {"scale", "sum"} => If1(co.st = co.st /\ co.at \in {"acc", "rescale", "o", "buffer", "write"}) = 0
      BY DEF If1
    <3> QED
      BY <1>2, <2>2, <3>1, <3>2 DEF ScalesTaken
  <2>5. CoEnding => OWritten(co.st) = t - 1
    <3>1. If1(CoEnding /\ co.st < co.st) = 0
      BY <1>1 DEF CoWhere, If1
    <3> QED
      BY <2>2, <3>1 DEF OWritten
  <2> QED
    BY <2>1, <2>2, <2>3, <2>4, <2>5 DEF CoNow
<1>5. ASSUME co.at \in {"scale", "acc", "rescale"}
      PROVE  /\ IsBlock(co.t, co.k - 1, ORescaled(co.st)) /\ IsBlock(co.t, co.k, ORescaled(co.st) + 1) /\ co.k > 1
             /\ co.at = "scale" => IsScale(co.t, co.k, ScalesTaken(co.st) + 1)
  <2>p. PICK t, k, s, b : CoNow(t, k, s, b)
    BY <1>4, <1>5
  <2>1. /\ t = co.t /\ k = co.k /\ s = Start[t] /\ b = Blocks[t] /\ t \in Tile
        /\ t \in Int /\ k \in Int /\ s \in Int /\ b \in Int /\ 1 <= b /\ CoIn
        /\ ORescaled(co.st) = s + k - 1
        /\ co.at \in {"scale", "sum"} => ScalesTaken(co.st) = s + t + k - 2
        /\ CoEnding => OWritten(co.st) = t - 1
    BY <2>p DEF CoNow
  <2>2. 2 <= k /\ k <= b
    BY <1>1, <1>5, <2>1 DEF CoPlace
  <2>3. k - 1 \in 1..b /\ k \in 1..b /\ s + (k - 1) = s + k - 1 /\ s + k = s + k - 1 + 1 /\ k > 1
        /\ k \in 1..(b + 1) /\ s + t - 1 + k = s + t + k - 2 + 1
    BY <2>1, <2>2
  <2>4. IsBlock(t, k - 1, s + k - 1) /\ IsBlock(t, k, s + k - 1 + 1)
    BY <2>1, <2>3 DEF IsBlock
  <2>5. IsScale(t, k, s + t + k - 2 + 1)
    BY <2>1, <2>3 DEF IsScale
  <2> QED
    BY <2>1, <2>3, <2>4, <2>5
<1>6. ASSUME CoEnding
      PROVE  /\ co.at = "sum" => IsScale(co.t, Blocks[co.t] + 1, ScalesTaken(co.st) + 1)
             /\ OWritten(co.st) = co.t - 1 /\ co.t \in Tile
             /\ co.at = "write" => IsBlock(co.t, Blocks[co.t], ORescaled(co.st))
  <2>0. co.at \notin {"start", "first", "end"}
    BY <1>6 DEF CoEnding
  <2>p. PICK t, k, s, b : CoNow(t, k, s, b)
    BY <1>4, <2>0
  <2>1. /\ t = co.t /\ k = co.k /\ s = Start[t] /\ b = Blocks[t] /\ t \in Tile
        /\ t \in Int /\ k \in Int /\ s \in Int /\ b \in Int /\ 1 <= b /\ CoIn
        /\ ORescaled(co.st) = s + k - 1
        /\ co.at \in {"scale", "sum"} => ScalesTaken(co.st) = s + t + k - 2
        /\ CoEnding => OWritten(co.st) = t - 1
    BY <2>p DEF CoNow
  <2>2. k = b + 1
    BY <1>1, <1>6, <2>1 DEF CoPlace
  <2>3. b \in 1..b /\ s + b = s + k - 1 /\ b + 1 \in 1..(b + 1) /\ s + t - 1 + (b + 1) = s + t + k - 2 + 1
    BY <2>1, <2>2
  <2>4. IsBlock(t, b, s + k - 1)
    BY <2>1, <2>3 DEF IsBlock
  <2>5. IsScale(t, b + 1, s + t + k - 2 + 1)
    BY <2>1, <2>3 DEF IsScale
  <2> QED
    BY <1>6, <2>1, <2>4, <2>5
<1>7. co.at \in {"sum", "write"} => CoEnding
  BY DEF CoEnding
<1> QED
  BY <1>1, <1>3, <1>5, <1>6, <1>7 DEF CoAt
LEMMA CoAtNow == FlightInv => CoAt
  BY CoAtIs
LEMMA CoAtThen == FlightInv' => CoAt'
  BY CoAtNow, PTL

-----------------------------------------------------------------------------
(* While the correction warps rescale or read O, as many PVs were begun as O *)
(* was rescaled for, and they are over.                                      *)

CoFree == co.at \in {"rescale", "write"} => ORescaled(co.st) = PvBegun(co.st) /\ ~PvIn(co.st)

LEMMA CoFreeIs == ASSUME FlightInv PROVE CoFree
<1> SUFFICES ASSUME co.at \in {"rescale", "write"}, NEW i, i = co.st PROVE ORescaled(i) = PvBegun(i) /\ ~PvIn(i)
  BY DEF CoFree
<1>1. CoWhere /\ CoPlace /\ MmHere /\ i \in {0, 1} /\ CoIn
  BY HandPlaces DEF FlightInv, HandInv, Places, CoIn, CoWhere
<1>2. Tally(i)
  BY <1>1, TallyIs
<1>3. ~PvIn(i)
  BY <1>1, CorrectionAlone DEF PvIn
<1>4. CASE Decoupled
  <2>1. Start[co.t] \in Int /\ co.k \in Int
    BY <1>1 DEF CoWhere
  <2>2. ORescaled(i) = OTaken(i)
    BY <1>1, <1>4, <2>1 DEF ORescaled, OTaken, CoIn, If1
  <2> QED
    BY <1>2, <1>3, <1>4, <2>2 DEF Tally
<1>5. CASE ~Decoupled /\ co.at = "rescale"
  <2>1. PICK s, c, ss, sc, bs, bc :
             /\ s = sm[i].t /\ c = co.t /\ ss = Start[s] /\ sc = Start[c] /\ bs = Blocks[s] /\ bc = Blocks[c]
             /\ s \in Int /\ c \in Int /\ ss \in Int /\ sc \in Int /\ 0 <= sc /\ 1 <= c /\ c <= Tiles + 1
             /\ s < c => PBegun(i) <= sc
             /\ s = c => ss = sc
             /\ c < s => bc \in Int /\ sc + bc <= ss
             /\ ss <= PBegun(i) /\ ScalesOut(i) = PBegun(i) + s - 1 /\ PBegun(i) \in Int
    BY <1>1, SmCoApart DEF FlightInv
  <2>2. ORescaled(i) = sc + co.k - 1 /\ 2 <= co.k /\ co.k <= bc /\ bc \in Int /\ co.k \in Int
    <3>1. CoIn /\ ~CoEnding /\ If1(i < co.st) = 0 /\ co.k \in Int /\ Blocks[co.t] \in Int
      BY <1>1, <1>5 DEF CoIn, CoEnding, CoWhere, If1
    <3> QED
      BY <1>1, <1>5, <2>1, <3>1, CoRescales
  <2>3. ScalesTaken(i) = sc + c - 1 + co.k
    <3>1. CoRounds = sc + c - 1 + co.k - 1
      BY <1>5, <2>1, <2>2 DEF CoRounds, CoIn
    <3>2. If1(i < co.st) = 0 /\ If1(i = co.st /\ co.at \in {"acc", "rescale", "o", "buffer", "write"}) = 1
      BY <1>1, <1>5 DEF If1
    <3> QED
      BY <2>1, <2>2, <3>1, <3>2 DEF ScalesTaken
  <2>4. sc + c - 1 + co.k <= PBegun(i) + s - 1
    BY <1>2, <2>1, <2>3 DEF Tally
  <2>5. sc + co.k <= PBegun(i)
    BY <2>1, <2>2, <2>4
  <2> QED
    BY <1>2, <1>3, <1>5, <2>1, <2>2, <2>5 DEF Tally
<1>6. CASE ~Decoupled /\ co.at = "write"
  <2>1. PICK c, sc, bc : /\ c = co.t /\ sc = Start[c] /\ bc = Blocks[c] /\ c \in Int /\ sc \in Int /\ bc \in Int
                         /\ 1 <= bc /\ 1 <= c /\ c \in Tile /\ c <= Tiles /\ Start[c + 1] = sc + bc
                         /\ c \in 0..Tiles
    <3>1. co.at # "end"
      BY <1>6
    <3> QED
      BY <1>1, <3>1 DEF CoWhere
  <2>2. ORescaled(i) = sc + bc
    <3>1. CoEnding /\ If1(i < co.st) = 0
      BY <1>1, <1>6 DEF CoEnding, CoWhere, If1
    <3> QED
      BY <1>1, <1>6, <2>1, <3>1, CoRescales
  <2>3. OTaken(i) = c
    <3>1. If1(CoEnding /\ (i < co.st \/ (i = co.st /\ co.at \in {"buffer", "write"}))) = 1
      BY <1>6 DEF If1, CoEnding
    <3> QED
      BY <1>6, <2>1, <3>1 DEF OTaken
  <2>4. c <= OCommits(i)
    BY <1>2, <2>3 DEF Tally
  <2>5. sc + bc <= PvDone(i)
    BY <1>1, <1>6, <2>1, <2>4, CommitsSay
  <2> QED
    BY <1>2, <1>3, <2>1, <2>2, <2>5 DEF Tally
<1> QED
  BY <1>4, <1>5, <1>6
LEMMA CoFreeNow == FlightInv => CoFree
  BY CoFreeIs
LEMMA CoFreeThen == FlightInv' => CoFree'
  BY CoFreeNow, PTL

\* The first block of a tile.
LEMMA NoSecond ==
    ASSUME NEW t, t \in 1..(Tiles + 1), NEW u, NEW l, NEW n, n = Start[t] + 1, IsBlock(u, l, n)
    PROVE  l = 1
<1>1. CASE t \in Tile
  <2>1. IsBlock(t, 1, n)
    BY <1>1, StartIs, TileIs DEF IsBlock
  <2> QED
    BY <2>1, BlockUnique
<1>2. CASE t \notin Tile
  <2>1. t = Tiles + 1 /\ Tiles \in Int
    BY <1>2, StartIs, TileIs
  <2>2. u \in Int /\ 1 <= u /\ u <= Tiles /\ l \in Int /\ l <= Blocks[u] /\ Blocks[u] \in Int /\ Start[u] \in Int
        /\ n = Start[u] + l /\ u \in 1..(Tiles + 1)
    BY BlockIs
  <2>3. Start[u] + Blocks[u] <= Start[t] /\ Start[t] \in Int
    BY <2>1, <2>2, StartGrows, StartIs
  <2> QED
    BY <2>2, <2>3
<1> QED
  BY <1>1, <1>2

-----------------------------------------------------------------------------
(* Output buffers laid over Q: one tile, and all of it multiplied by Q when  *)
(* the first output is written.                                              *)

QOver == \A j \in {0, 1} :
    /\ HoldsQ(j) = 0 /\ Done("q_full", j) = Seen("q_full", j) /\ ~Landing(<<"q_full", j>>)
    /\ ld.at \notin {"q0", "q1"} /\ \A m \in DOMAIN tc : tc[m].kind # "QK"

LEMMA OutAfterS ==
    ASSUME FlightInv, CoEnding \/ co.t # 1, Tiles = 1, NEW i \in {0, 1}
    PROVE  Blocks[1] <= PBegun(i)
<1>1. CoWhere /\ CoPlace
  BY HandPlaces DEF FlightInv, HandInv, Places
<1>2. Tally(i)
  BY TallyIs
<1>3. PICK s, c, ss, sc, bs, bc :
           /\ s = sm[i].t /\ c = co.t /\ ss = Start[s] /\ sc = Start[c] /\ bs = Blocks[s] /\ bc = Blocks[c]
           /\ s \in Int /\ c \in Int /\ ss \in Int /\ sc \in Int /\ 0 <= sc /\ 1 <= c /\ c <= Tiles + 1
           /\ s < c => PBegun(i) <= sc
           /\ s = c => ss = sc
           /\ c < s => bc \in Int /\ sc + bc <= ss
           /\ ss <= PBegun(i) /\ ScalesOut(i) = PBegun(i) + s - 1 /\ PBegun(i) \in Int
  BY SmCoApart DEF FlightInv
<1>4. PICK b : b = Blocks[1] /\ b \in Int /\ 1 <= b /\ Start[1] = 0 /\ Start[2] = b
  <2>1. 1 \in 1..Tiles /\ 1 + 1 = 2
    BY StartIs
  <2> QED
    BY <2>1, StartIs
<1>5. SmWhere(i) /\ s <= 2 /\ 1 <= s
  BY <1>3, HandPlaces DEF FlightInv, SmWhere
<1>6. CASE c = 1
  <2>1. CoEnding /\ CoIn /\ co.k = b + 1
    BY <1>1, <1>3, <1>4, <1>6 DEF CoPlace, CoEnding, CoIn
  <2>2. b <= ScalesTaken(i)
    <3>1. CoRounds = b
      <4>1. sc = 0
        BY <1>3, <1>4, <1>6
      <4> QED
        BY <1>3, <1>4, <1>6, <2>1, <4>1 DEF CoRounds
    <3>2. If1(i < co.st) \in {0, 1} /\ If1(i = co.st /\ co.at \in {"acc", "rescale", "o", "buffer", "write"}) \in {0, 1}
      BY DEF If1
    <3> QED
      BY <1>3, <1>4, <1>6, <3>1, <3>2 DEF ScalesTaken
  <2> QED
    BY <1>2, <1>3, <1>4, <1>5, <1>6, <2>2 DEF Tally
<1>7. CASE c = 2
  <2>1. ~CoIn
    BY <1>1, <1>3, <1>7 DEF CoPlace, CoIn
  <2>2. b + 1 <= ScalesTaken(i)
    <3>1. CoRounds = sc + c - 1 /\ sc = b
      BY <1>3, <1>4, <1>7, <2>1 DEF CoRounds
    <3>2. If1(i < co.st) \in {0, 1} /\ If1(i = co.st /\ co.at \in {"acc", "rescale", "o", "buffer", "write"}) \in {0, 1}
      BY DEF If1
    <3> QED
      BY <1>3, <1>4, <1>7, <3>1, <3>2 DEF ScalesTaken
  <2> QED
    BY <1>2, <1>3, <1>4, <1>5, <1>7, <2>2 DEF Tally
<1> QED
  BY <1>3, <1>6, <1>7

LEMMA OverlapOver ==
    ASSUME FlightInv, LdPlaced, OverlapSOSQ, CoEnding \/ co.t # 1
    PROVE  QOver
<1>1. ~Decoupled /\ Tiles = 1 /\ OperandInv
  BY ConfigAssumption DEF Tiles, FlightInv, HandInv
<1>2. PICK b : b = Blocks[1] /\ b \in Int /\ 1 <= b /\ Start[1] = 0 /\ Start[2] = b /\ 1 \in Tile /\ 2 \notin Tile
  <2>1. 1 \in 1..Tiles /\ 1 + 1 = 2 /\ 2 \notin 1..Tiles
    BY <1>1, StartIs
  <2> QED
    BY <2>1, StartIs, TileIs
<1>3. \A i \in {0, 1} : b <= SLoaded(i) /\ SLoaded(i) <= Done("S_full", i) /\ b <= QksIssued(i) /\ Tally(i)
  BY <1>1, <1>2, OutAfterS, TallyIs DEF Tally
<1>4. MmPlace /\ MmWhere /\ MmNumbers(0) /\ MmNumbers(1) /\ mm.st \in {0, 1} /\ mm.t \in Int /\ MmStarts
  <2>1. MmPlace /\ MmHere /\ AllNumbers /\ Types
    BY HandPlaces DEF FlightInv
  <2>2. MmType
    BY <2>1 DEF MmHere
  <2> QED
    BY <2>1, <2>2, MmIsSomewhere, MmStartsIs DEF AllNumbers, MmWhere
<1>5. (Last \/ MmOver) /\ \A i \in {0, 1} : QksIssued(i) = b
  <2>1. CASE mm.t = 1
    <3>1. PICK k : k = mm.k /\ k \in Int /\ 0 <= k /\ k <= b /\ ~MmOver
      BY <1>1, <1>2, <1>4, <2>1 DEF MmWhere
    <3>2. MmBlocks = k
      BY <1>2, <2>1, <3>1 DEF MmBlocks
    <3>3. Last
      <4>1. ~(1 < mm.st)
        BY <1>4
      <4>2. QksIssued(1) = k
        BY <1>1, <3>1, <3>2, <4>1 DEF QksIssued, If1
      <4> QED
        BY <1>2, <1>3, <2>1, <3>1, <4>2 DEF Last
    <3>4. k = b
      BY <1>2, <2>1, <3>1, <3>3 DEF Last
    <3> QED
      BY <3>1, <3>2, <3>3, <3>4 DEF QksIssued, If1
  <2>2. CASE mm.t = 2
    <3>1. MmOver /\ mm.k = 0 /\ mm.st = 0 /\ ~Last
      BY <1>1, <1>2, <1>4, <2>2 DEF MmPlace, Last
    <3>2. MmBlocks = b
      BY <1>2, <2>2, <3>1 DEF MmBlocks
    <3>3. mm.at \notin {"p", "p2"} /\ \A i \in {0, 1} : ~(i < mm.st)
      BY <3>1 DEF MmOver
    <3> QED
      BY <1>1, <1>2, <3>1, <3>2, <3>3 DEF QksIssued, If1
  <2>3. 1 <= mm.t /\ mm.t <= 2
    BY <1>1, <1>4 DEF MmWhere
  <2> QED
    BY <1>4, <2>1, <2>2, <2>3
<1>6. ASSUME NEW m \in DOMAIN tc, tc[m].kind = "QK" PROVE FALSE
  <2>1. PICK i : i = tc[m].st /\ i \in {0, 1} /\ QkFlies(tc[m])
    BY <1>6, PvsInFlight
  <2>2. Committed(<<"S_full", i>>)
    BY <1>6, <2>1 DEF QkFlies, Committed
  <2>3. Done("S_full", i) = b - 1
    BY <1>3, <1>5, <2>1, <2>2 DEF Tally, If1
  <2> QED
    BY <1>2, <1>3, <2>1, <2>3 DEF Tally
<1>7. ASSUME NEW j \in {0, 1} PROVE QTaken(j) = 1 /\ QGiven = 1
  <2>1. CASE Last
    <3>1. mm.t = 1 /\ mm.k = b /\ ~MmOver
      BY <1>1, <1>2, <1>4, <2>1, TileIs DEF Last, MmWhere
    <3> QED
      BY <1>2, <2>1, <3>1 DEF QTaken, QGiven, If1
  <2>2. CASE MmOver
    <3>1. mm.t = 2 /\ ~Last
      BY <1>1, <1>2, <1>4, <2>2 DEF MmWhere, Last
    <3> QED
      BY <2>2, <3>1 DEF QTaken, QGiven, If1
  <2> QED
    BY <1>5, <2>1, <2>2
<1>8. ASSUME NEW j \in {0, 1} PROVE QLoaded(j) \in Int /\ QLoaded(j) <= 1 /\ (QLoaded(j) = 1 => ld.at # (IF j = 0 THEN "q0" ELSE "q1"))
  <2>1. ld.t \in Int /\ 1 <= ld.t /\ ld.t <= 2 /\ (ld.at # "end" => ld.t = 1) /\ (ld.at = "end" => ld.t = 2)
    <3>1. ld.t \in 1..(Tiles + 1) /\ (ld.at = "end" => ld.t = Tiles + 1)
      BY DEF LdPlaced
    <3>2. ld.at # "end" => ld.t \in Tile
      BY <1>1 DEF OperandInv, LdInv, LdPlace
    <3> QED
      BY <1>1, <1>2, <3>1, <3>2
  <2>2. ld.at = "q1" => ld.k = 1
    BY DEF LdPlaced
  <2>3. CASE ld.at = "end"
    BY <2>1, <2>3 DEF QLoaded, If1
  <2>4. CASE ld.at # "end"
    BY <2>1, <2>2, <2>4 DEF QLoaded, If1
  <2> QED
    BY <2>3, <2>4
<1>9. ASSUME NEW j \in {0, 1}
      PROVE  /\ HoldsQ(j) = 0 /\ Done("q_full", j) = Seen("q_full", j) /\ ~Landing(<<"q_full", j>>)
             /\ ld.at # (IF j = 0 THEN "q0" ELSE "q1")
  <2>1. PICK d, s, e, l : /\ d = Done("q_full", j) /\ s = Seen("q_full", j) /\ e = Seen("q_empty", j)
                          /\ l = If1(Landing(<<"q_full", j>>)) /\ l \in {0, 1}
    BY DEF If1
  <2>2. d \in Int /\ s \in Int /\ e \in Int /\ s <= d /\ d = e - l /\ s = 1
    BY <1>1, <1>7, <2>1, QFacts, StageIs
  <2>3. e = QLoaded(j)
    BY <1>1, <2>1, StageIs DEF OperandInv, LdInv, LdQ
  <2>4. d = 1 /\ l = 0 /\ QLoaded(j) = 1
    BY <1>8, <2>1, <2>2, <2>3
  <2>5. HoldsQ(j) = 0
    BY <1>7 DEF HoldsQ
  <2> QED
    BY <1>8, <2>1, <2>2, <2>4, <2>5 DEF If1
<1>10. ld.at \notin {"q0", "q1"}
  BY <1>9
<1> QED
  BY <1>6, <1>9, <1>10 DEF QOver

-----------------------------------------------------------------------------
(* The correction warps: what their steps touch and count. *)

CoTouch ==
    \A q \in Region : \/ mem'[q] = mem[q]
                      \/ q = <<"O", co.st>> /\ (co.at = "rescale" \/ (co'.at = "rescale" /\ co'.st = co.st))
                      \/ q = <<"sO", co.st>> /\ co.at \in {"o", "buffer", "write"}
                      \/ OverlapSOSQ /\ q[1] = "Q" /\ co.at \in {"o", "buffer", "write"}

LEMMA CoTouchIs ==
    ASSUME DOMAIN mem = Region, CoType, Correction
    PROVE  /\ CoTouch
           /\ co.at \notin {"o", "buffer", "write"} => UNCHANGED out
           /\ UNCHANGED <<tma, tc, ld, mm, sm, ep>>
<1>0. UNCHANGED <<tma, tc, ld, mm, sm, ep>>
  BY DEF Correction, CorrStart, CorrFirst, CorrToRescale, CorrRescaled, CorrSum, CorrWaitLastO, CorrWaitBuffer, CorrWriteO
<1>1. CASE CorrStart \/ CorrFirst
  BY <1>0, <1>1, CoQuietGo DEF CoTouch
<1>2. CASE CorrToRescale
  <2>1. UNCHANGED out /\ (CorrScale \/ CorrWaitO)
    BY <1>2 DEF CorrToRescale
  <2>2. (OnlyO /\ co'.at = "rescale" /\ co'.st = co.st) \/ UNCHANGED mem
    BY <2>1, CoScaleGo, CoWaitOGo DEF CoGoes
  <2> QED
    BY <1>0, <2>1, <2>2 DEF CoTouch, OnlyO
<1>3. CASE CorrRescaled
  BY <1>0, <1>3, CoRescaledGo DEF CoTouch, OnlyO, CoGoes
<1>4. CASE CorrSum
  BY <1>0, <1>4, CoSumGo DEF CoTouch, CoGoes
<1>5. CASE CorrWaitLastO \/ CorrWaitBuffer
  <2>1. OnlyOut /\ co.at \in {"o", "buffer", "write"}
    BY <1>5, CoBufferGo DEF CoGoes
  <2> QED
    BY <1>0, <2>1 DEF CoTouch, OnlyOut
<1>6. CASE CorrWriteO
  <2>1. OnlyOut /\ co.at \in {"o", "buffer", "write"}
    BY <1>6, CoWriteGo DEF CoGoes
  <2> QED
    BY <1>0, <2>1 DEF CoTouch, OnlyOut
<1> QED
  BY <1>1, <1>2, <1>3, <1>4, <1>5, <1>6 DEF Correction

\* All but O, the outputs and the verdict on the correction warps' own reads.
CoKept == /\ LdPlaced' /\ MmPlaced' /\ KvHolds' /\ TcHolds' /\ PvOnce' /\ SfHolds'
          /\ \A j \in {0, 1} : QHolds(j)' /\ SHolds(j)' /\ PHolds(j)' /\ ScaleHolds(j)'

LEMMA CorrectionFrame == ASSUME CInv, FlightInv', Correction PROVE CoKept
<1>0. FlightInv /\ Contents /\ HandInv /\ CoType /\ CoHere /\ TcType /\ BarType /\ BarOK /\ DOMAIN mem = Region
      /\ LdPlaced
  BY HandPlaces DEF CInv, FlightInv, HandInv, OperandInv, Types, CoHere, Places, Contents, MemType
<1>1. PICK w, a : CoStep(w, a)
  BY <1>0, CorrectionStep
<1>2. UNCHANGED <<tma, tc, ld, mm, sm, ep>> /\ Moves(w, a)
      /\ (\A b \in w : b[1] \in {"corr_full", "O_full", "epi_empty"})
      /\ (\A b \in a : b[1] \in {"corr_empty", "P_full_O", "epi_full", "dealloc"})
  BY <1>1 DEF CoStep
<1>3. SameCount({"kv_full", "kv_empty", "q_full", "S_full"})
  BY <1>0, <1>2, CountsSame
<1>4. SameCount({"kv_full", "kv_empty", "q_full"}) /\ SameCount({"q_full"})
      /\ \A i \in {0, 1} : Done("S_full", i)' = Done("S_full", i)
  BY <1>3, NamesAre, StageIs DEF SameCount, Done
<1>5. CoTouch
  BY <1>0, CoTouchIs
<1>6. SameAt({"KV"} \cup ScaleNames)
      /\ \A n \in {"S", "Plo", "Phi", "sSFP", "sScale"} : \A j \in {0, 1} : mem'[<<n, j>>] = mem[<<n, j>>]
  <2>1. SameAt({"KV"} \cup ScaleNames)
    BY <1>5 DEF SameAt, CoTouch, ScaleNames
  <2> QED
    BY <1>5, <2>1, NamesIn DEF CoTouch
<1>7. \A j \in {0, 1} : mem'[<<"Q", j>>] = mem[<<"Q", j>>] \/ QOver
  <2> SUFFICES ASSUME NEW j \in {0, 1}, mem'[<<"Q", j>>] # mem[<<"Q", j>>] PROVE QOver
    OBVIOUS
  <2>1. OverlapSOSQ /\ co.at \in {"o", "buffer", "write"}
    BY <1>5, NamesIn DEF CoTouch
  <2> QED
    BY <1>0, <2>1, OverlapOver DEF CoEnding
<1>8. LdPlaced' /\ MmPlaced' /\ KvHolds' /\ PvOnce' /\ SfHolds'
      /\ \A j \in DOMAIN tc : OpHolds(tc[j])' /\ RunHolds(j, tc[j])'
  <2>1. \A j \in DOMAIN tc : tc[j].kind = "QK" => mem'[<<"Q", tc[j].st>>] = mem[<<"Q", tc[j].st>>]
    BY <1>0, <1>7, OpIs DEF QOver
  <2> QED
    BY <1>0, <1>2, <1>4, <1>6, <2>1, EnginesKept
<1>9. TcHolds'
  <2>1. ASSUME NEW j \in DOMAIN tc PROVE Waits(tc[j])'
    <3>1. CASE mem'[<<"O", tc[j].st>>] = mem[<<"O", tc[j].st>>]
      BY <1>0, <1>2, <3>1 DEF Contents, TcHolds, Waits
    <3>2. CASE mem'[<<"O", tc[j].st>>] # mem[<<"O", tc[j].st>>]
      <4>1. tc[j].st = co.st /\ (co.at = "rescale" \/ (co'.at = "rescale" /\ co'.st = co.st))
        BY <1>0, <1>5, <3>2, OpIs DEF CoTouch
      <4>2. PICK p : p = co.st
        OBVIOUS
      <4>3. CASE co.at = "rescale"
        <5>1. ~PvIn(p)
          BY <1>0, <4>2, <4>3, CoFreeNow DEF CoFree
        <5> QED
          BY <1>2, <4>1, <4>2, <5>1 DEF PvIn, Waits
      <4>4. CASE co'.at = "rescale" /\ co'.st = p
        <5>1. ~PvIn(p)'
          BY <4>4, CoFreeThen DEF CoFree
        <5> QED
          BY <1>2, <4>1, <4>2, <5>1 DEF PvIn, Waits
      <4> QED
        BY <4>1, <4>2, <4>3, <4>4
    <3> QED
      BY <3>1, <3>2
  <2> QED
    BY <1>2, <1>8, <2>1 DEF TcHolds
<1>10. ASSUME NEW j \in {0, 1} PROVE QHolds(j)' /\ SHolds(j)' /\ PHolds(j)' /\ ScaleHolds(j)'
  <2>1. StageHolds(j)
    BY <1>0 DEF Contents
  <2>2. QHolds(j)'
    <3>1. CASE mem'[<<"Q", j>>] = mem[<<"Q", j>>]
      BY <1>2, <1>4, <2>1, <3>1, QKept DEF StageHolds
    <3>2. CASE QOver
      <4>1. HoldsQ(j) = 0 /\ Done("q_full", j) = Seen("q_full", j) /\ ~Landing(<<"q_full", j>>)
        BY <3>2 DEF QOver
      <4>2. HoldsQ(j)' = 0 /\ Done("q_full", j)' = Done("q_full", j) /\ Seen("q_full", j)' = Seen("q_full", j)
        BY <1>2, <1>4, <4>1, NamesAre, StageIs DEF HoldsQ, QTaken, QGiven, Last, MmOver, SameCount, Done, Seen
      <4>3. Done("q_full", j)' \in Int
        <5>1. Done("q_full", j) \in Nat
          BY <1>0, QFacts, StageIs DEF HandInv
        <5> QED
          BY <4>2, <5>1
      <4> QED
        BY <1>2, <4>1, <4>2, <4>3 DEF QHolds, Landing
    <3> QED
      BY <1>7, <3>1, <3>2
  <2>3. UNCHANGED <<SLoaded(j), PStored(j), P2Stored(j), ScalesOut(j), PvBegun(j), PvDone(j)>>
        /\ (PvIn(j)' <=> PvIn(j)) /\ (PvClosed(j)' <=> PvClosed(j))
    BY <1>2, SmSame, MmSame, PvsSame
  <2>4. SHolds(j)'
    BY <1>4, <1>6, <2>1, <2>3, SKept DEF StageHolds
  <2>5. PHolds(j)'
    BY <1>6, <2>1, <2>3, PKept DEF StageHolds
  <2>6. ScaleHolds(j)'
    <3>1. Tally(j) /\ ScalesTaken(j)' = ScalesTaken(j) + If1(<<"corr_full", j>> \in w)
      BY <1>0, <1>1, TallyIs DEF CoStep, CoDelta
    <3>2. ScalesTaken(j)' < ScalesOut(j) => ScalesTaken(j) < ScalesOut(j)
      BY <3>1 DEF Tally, If1
    <3> QED
      BY <1>6, <2>1, <2>3, <3>2, ScaleKept DEF StageHolds
  <2> QED
    BY <2>2, <2>4, <2>5, <2>6
<1> QED
  BY <1>8, <1>9, <1>10 DEF CoKept

\* What a step counts: O rescaled in stages r, outputs written in stages o.
CoCounts(r, o) == \A j \in {0, 1} : /\ ORescaled(j)' = ORescaled(j) + If1(j \in r)
                                    /\ OWritten(j)' = OWritten(j) + If1(j \in o)

LEMMA CoCountsGo ==
    ASSUME CoAt, NEW t, t = co.t, NEW k, k = co.k, NEW st, st = co.st
    PROVE  /\ CoGoes("start", {"first"}, t, k, st) => CoCounts({0, 1}, {})
           /\ CoGoes("first", {"first"}, t, k, 1) => CoCounts({}, {})
           /\ CoGoes("first", {"scale", "sum"}, t, 2, 0) => CoCounts({}, {})
           /\ \A from \in {"scale", "acc"} : CoGoes(from, {"acc", "rescale"}, t, k, st) => CoCounts({}, {})
           /\ st = 0 /\ CoGoes("rescale", {"scale"}, t, k, 1) => CoCounts({st}, {})
           /\ st = 1 /\ CoGoes("rescale", {"sum", "scale"}, t, k + 1, 0) => CoCounts({st}, {})
           /\ \A from \in {"sum", "o", "buffer"} : CoGoes(from, {"o", "buffer", "write"}, t, k, st) => CoCounts({}, {})
           /\ st = 0 /\ CoGoes("write", {"sum"}, t, k, 1) => CoCounts({st}, {st})
           /\ st = 1 /\ CoGoes("write", {"first", "end"}, t + 1, k, 0) => CoCounts({st}, {st})
<1>1. PICK s, b, s1 : /\ s = Start[t] /\ b = Blocks[t] /\ s1 = Start[t + 1] /\ s \in Int /\ t \in Int /\ k \in Int
                      /\ st \in {0, 1} /\ (co.at # "end" => b \in Int /\ s1 = s + b)
                      /\ (CoEnding => k = b + 1)
  BY DEF CoAt, CoWhere, CoPlace
<1>2. ASSUME NEW j \in {0, 1}
      PROVE  /\ ORescaled(j) = s + If1(co.at # "start") + (IF CoIn THEN k - 2 + If1(j < st) ELSE 0)
             /\ OWritten(j) = t - 1 + If1(CoEnding /\ j < st)
  BY <1>1 DEF ORescaled, OWritten
<1>3. ASSUME NEW j \in {0, 1}, NEW at, co'.at = at, NEW u, co'.t = u, NEW l, co'.k = l, NEW e, co'.st = e
      PROVE  /\ ORescaled(j)' = Start[u] + If1(at # "start")
                                + (IF at \notin {"start", "first", "end"} THEN l - 2 + If1(j < e) ELSE 0)
             /\ OWritten(j)' = u - 1 + If1(at \in {"sum", "o", "buffer", "write"} /\ j < e)
  BY <1>3 DEF ORescaled, OWritten, CoIn, CoEnding
<1>4. ASSUME NEW j \in {0, 1}
      PROVE  /\ CoGoes("start", {"first"}, t, k, st) => ORescaled(j)' = ORescaled(j) + 1 /\ OWritten(j)' = OWritten(j)
             /\ CoGoes("first", {"first"}, t, k, 1) => ORescaled(j)' = ORescaled(j) /\ OWritten(j)' = OWritten(j)
             /\ CoGoes("first", {"scale", "sum"}, t, 2, 0) => ORescaled(j)' = ORescaled(j) /\ OWritten(j)' = OWritten(j)
  BY <1>1, <1>2, <1>3 DEF CoGoes, CoIn, CoEnding, If1
<1>5. ASSUME NEW j \in {0, 1}
      PROVE  /\ \A from \in {"scale", "acc"} : CoGoes(from, {"acc", "rescale"}, t, k, st) =>
                    ORescaled(j)' = ORescaled(j) /\ OWritten(j)' = OWritten(j)
             /\ \A from \in {"sum", "o", "buffer"} : CoGoes(from, {"o", "buffer", "write"}, t, k, st) =>
                    ORescaled(j)' = ORescaled(j) /\ OWritten(j)' = OWritten(j)
  BY <1>1, <1>2, <1>3 DEF CoGoes, CoIn, CoEnding, If1
<1>6. ASSUME NEW j \in {0, 1}
      PROVE  /\ st = 0 /\ CoGoes("rescale", {"scale"}, t, k, 1) =>
                    ORescaled(j)' = ORescaled(j) + If1(j = st) /\ OWritten(j)' = OWritten(j)
             /\ st = 1 /\ CoGoes("rescale", {"sum", "scale"}, t, k + 1, 0) =>
                    ORescaled(j)' = ORescaled(j) + If1(j = st) /\ OWritten(j)' = OWritten(j)
  BY <1>1, <1>2, <1>3 DEF CoGoes, CoIn, CoEnding, If1
<1>7. ASSUME NEW j \in {0, 1}
      PROVE  /\ st = 0 /\ CoGoes("write", {"sum"}, t, k, 1) =>
                    ORescaled(j)' = ORescaled(j) + If1(j = st) /\ OWritten(j)' = OWritten(j) + If1(j = st)
             /\ st = 1 /\ CoGoes("write", {"first", "end"}, t + 1, k, 0) =>
                    ORescaled(j)' = ORescaled(j) + If1(j = st) /\ OWritten(j)' = OWritten(j) + If1(j = st)
  BY <1>1, <1>2, <1>3 DEF CoGoes, CoIn, CoEnding, If1
<1>8. ASSUME NEW j \in {0, 1} PROVE ORescaled(j) \in Int /\ OWritten(j) \in Int
  BY <1>1, <1>2 DEF If1
<1>9. /\ \A j \in {0, 1} : If1(j \in {}) = 0 /\ If1(j \in {0, 1}) = 1 /\ If1(j \in {st}) = If1(j = st)
      /\ \A j \in {0, 1} : ORescaled(j) + 0 = ORescaled(j) /\ OWritten(j) + 0 = OWritten(j)
  BY <1>8 DEF If1
<1> QED
  BY <1>4, <1>5, <1>6, <1>7, <1>9 DEF CoCounts

\* What is known around a step of the correction warps.
CoCtx ==
    /\ CoAt /\ CoAt' /\ CoFree /\ CoFree' /\ CoType /\ DOMAIN mem = Region
    /\ co.ok /\ DOMAIN out = Tile \X Stage
    /\ UNCHANGED <<tc, mm, sm, ep>>
    /\ \A j \in {0, 1} : /\ Tally(j) /\ Tally(j)' /\ OHolds(j) /\ OutHolds(j) /\ ScaleHolds(j)
                         /\ PvBegun(j)' = PvBegun(j) /\ ScalesOut(j)' = ScalesOut(j) /\ EpFreed(j)' = EpFreed(j)
                         /\ (PvIn(j)' <=> PvIn(j)) /\ (PvIn(j) => 1 <= PvBegun(j))

LEMMA CoCtxIs == ASSUME CInv, FlightInv', Correction PROVE CoCtx
<1>0. FlightInv /\ Contents /\ CoType /\ DOMAIN mem = Region /\ CoAt /\ CoAt' /\ CoFree /\ CoFree' /\ Tallies /\ Tallies'
  BY CoAtNow, CoAtThen, CoFreeNow, CoFreeThen, TalliesAre, TalliesThen
     DEF CInv, FlightInv, HandInv, OperandInv, Types, MemType
<1>1. UNCHANGED <<tma, tc, ld, mm, sm, ep>>
  BY <1>0, CoTouchIs
<1>2. ASSUME NEW j \in {0, 1}
      PROVE  /\ Tally(j) /\ Tally(j)' /\ OHolds(j) /\ OutHolds(j) /\ ScaleHolds(j)
             /\ PvBegun(j)' = PvBegun(j) /\ ScalesOut(j)' = ScalesOut(j) /\ EpFreed(j)' = EpFreed(j)
             /\ (PvIn(j)' <=> PvIn(j)) /\ (PvIn(j) => 1 <= PvBegun(j))
  <2>1. Tally(j) /\ Tally(j)' /\ OHolds(j) /\ OutHolds(j) /\ ScaleHolds(j)
    BY <1>0, TallyBoth, TallyBothThen DEF Contents, StageHolds
  <2>2. PvBegun(j)' = PvBegun(j) /\ ScalesOut(j)' = ScalesOut(j) /\ EpFreed(j)' = EpFreed(j) /\ (PvIn(j)' <=> PvIn(j))
    BY <1>1, SmSame, MmSame, EpSame, PvsSame
  <2>3. PvIn(j) => 1 <= PvBegun(j)
    <3> SUFFICES ASSUME NEW m \in DOMAIN tc, tc[m].kind = "PV", tc[m].st = j PROVE 1 <= PvBegun(j)
      BY DEF PvIn
    <3>1. tc[m].t \in Tile /\ tc[m].k \in 1..Blocks[tc[m].t] /\ Start[tc[m].t] + tc[m].k = PvBegun(j)
      BY <1>0, PvsInFlight DEF PvFlies
    <3>2. Start[tc[m].t] \in Int /\ 0 <= Start[tc[m].t] /\ tc[m].k \in Int /\ 1 <= tc[m].k
      BY <3>1, StartIs, TileIs
    <3> QED
      BY <3>1, <3>2
  <2> QED
    BY <2>1, <2>2, <2>3
<1> QED
  BY <1>0, <1>1, <1>2 DEF CoCtx, Contents, OksHold

CoDone == (\A j \in {0, 1} : OHolds(j)' /\ OutHolds(j)') /\ co'.ok /\ DOMAIN out' = Tile \X Stage

\* The stages a step leaves alone.
LEMMA CoOther ==
    ASSUME CoCtx, NEW j \in {0, 1}, NEW r, NEW o, CoCounts(r, o)
    PROVE  /\ j \notin r /\ mem'[<<"O", j>>] = mem[<<"O", j>>] /\ ~Rescaling(j) => OHolds(j)'
           /\ j \notin o /\ mem'[<<"sO", j>>] = mem[<<"sO", j>>] /\ UNCHANGED out => OutHolds(j)'
<1>1. OHolds(j) /\ OutHolds(j) /\ PvBegun(j)' = PvBegun(j) /\ EpFreed(j)' = EpFreed(j) /\ (PvIn(j)' <=> PvIn(j)) /\ Tally(j)
  BY DEF CoCtx
<1>2. ORescaled(j)' = ORescaled(j) + If1(j \in r) /\ OWritten(j)' = OWritten(j) + If1(j \in o)
      /\ ORescaled(j) \in Int /\ OWritten(j) \in Int
  BY <1>1 DEF CoCounts, Tally
<1>3. ASSUME j \notin r, mem'[<<"O", j>>] = mem[<<"O", j>>], ~Rescaling(j) PROVE OHolds(j)'
  <2>1. ORescaled(j)' = ORescaled(j)
    BY <1>2, <1>3 DEF If1
  <2> QED
    BY <1>1, <1>3, <2>1, OKept
<1>4. ASSUME j \notin o, mem'[<<"sO", j>>] = mem[<<"sO", j>>], UNCHANGED out PROVE OutHolds(j)'
  <2>1. OWritten(j)' = OWritten(j)
    BY <1>2, <1>4 DEF If1
  <2> QED
    BY <1>1, <1>4, <2>1, OutKept
<1> QED
  BY <1>3, <1>4

\* O of the stage as it is when the correction warps turn to it.
LEMMA CoFindsO ==
    ASSUME CoCtx, NEW st, st = co.st, ~Rescaling(st), ~PvIn(st), ORescaled(st) = PvBegun(st),
           NEW t, NEW k, IsBlock(t, k, ORescaled(st))
    PROVE  mem[<<"O", st>>] = Folded(t, k)
<1>1. st \in {0, 1} /\ OHolds(st)
  BY DEF CoCtx, CoAt, CoWhere
<1> QED
  BY <1>1 DEF OHolds

\* The scale, or row sum, that has just been handed over.
LEMMA CoFindsScale ==
    ASSUME CoCtx, NEW st, st = co.st, ScalesTaken(st)' = ScalesTaken(st) + 1,
           NEW t, NEW k, k > 1, IsScale(t, k, ScalesTaken(st) + 1)
    PROVE  mem[<<"sScale", st>>] = ScaleTag(t, k)
<1>1. st \in {0, 1} /\ ScaleHolds(st) /\ Tally(st) /\ Tally(st)' /\ ScalesOut(st)' = ScalesOut(st)
  BY DEF CoCtx, CoAt, CoWhere
<1>2. ScalesOut(st) = ScalesTaken(st) + 1 /\ ScalesTaken(st) < ScalesOut(st)
  BY <1>1 DEF Tally
<1> QED
  BY <1>1, <1>2 DEF ScaleHolds

LEMMA CoTakes ==
    ASSUME CoAt, NEW t, t = co.t, NEW k, k = co.k, NEW st, st = co.st,
           \E from \in {"scale", "sum"} : CoGoes(from, {"acc", "rescale", "o"}, t, k, st)
    PROVE  ScalesTaken(st)' = ScalesTaken(st) + 1
<1>1. /\ CoIn /\ CoIn' /\ Start[t] \in Int /\ t \in Int /\ k \in Int /\ st \in {0, 1} /\ If1(st < st) = 0
  BY DEF CoGoes, CoIn, CoAt, CoWhere, If1
<1>2. CoRounds = Start[t] + t - 1 + k - 1 /\ CoRounds' = Start[t] + t - 1 + k - 1
  BY <1>1 DEF CoRounds, CoGoes
<1>3. ScalesTaken(st) = CoRounds
  <2>1. If1(st = co.st /\ co.at \in {"acc", "rescale", "o", "buffer", "write"}) = 0
    BY DEF CoGoes, If1
  <2> QED
    BY <1>1, <1>2, <2>1 DEF ScalesTaken
<1>4. ScalesTaken(st)' = CoRounds' + 1
  <2>1. If1(st = co'.st /\ co'.at \in {"acc", "rescale", "o", "buffer", "write"}) = 1 /\ co'.st = st
    BY DEF CoGoes, If1
  <2>2. ScalesTaken(st)' = CoRounds' + If1(st < co'.st) + If1(st = co'.st /\ co'.at \in {"acc", "rescale", "o", "buffer", "write"})
    BY DEF ScalesTaken, If1
  <2> QED
    BY <1>1, <1>2, <2>1, <2>2
<1> QED
  BY <1>1, <1>2, <1>3, <1>4

LEMMA CoQuietKeeps == ASSUME CoCtx, CorrStart \/ CorrFirst PROVE CoDone
<1>1. UNCHANGED <<mem, out>> /\ co'.ok /\ DOMAIN out' = Tile \X Stage /\ CoAt /\ CoType
  BY CoQuietGo DEF CoCtx, CoOk
<1>2. co.at \in {"start", "first"} /\ \A j \in {0, 1} : ~Rescaling(j)
  BY DEF CorrStart, CorrFirst, Rescaling
<1>3. ASSUME CoCounts({}, {}) PROVE CoDone
  BY <1>1, <1>2, <1>3, CoOther DEF CoDone
<1>4. ASSUME CoGoes("start", {"first"}, co.t, co.k, co.st) PROVE CoDone
  <2>1. co.at = "start" /\ CoCounts({0, 1}, {})
    BY <1>1, <1>4, CoCountsGo DEF CoGoes
  <2>2. ASSUME NEW j \in {0, 1} PROVE OHolds(j)'
    <3>1. /\ ORescaled(j)' = ORescaled(j) + 1 /\ ORescaled(j) = Start[1] /\ Start[1] = 0 /\ PvBegun(j)' = PvBegun(j)
          /\ Tally(j) /\ (PvIn(j)' <=> PvIn(j)) /\ (PvIn(j) => 1 <= PvBegun(j))
      BY <1>1, <2>1, StartIs DEF CoCounts, CoAt, CoCtx, If1
    <3>2. ORescaled(j) \in Int /\ PvBegun(j) \in Int /\ 0 <= PvBegun(j) /\ PvBegun(j) <= ORescaled(j)
      BY <3>1 DEF Tally
    <3>3. ORescaled(j)' = 1 /\ PvBegun(j)' = 0 /\ ~PvIn(j)'
      BY <3>1, <3>2
    <3>4. \A t, k : IsBlock(t, k, 1) => k = 1
      <4>1. 1 \in 1..(Tiles + 1) /\ 1 = Start[1] + 1
        BY <3>1, StartIs
      <4> QED
        BY <4>1, NoSecond
    <3> QED
      BY <3>3, <3>4 DEF OHolds
  <2>3. ASSUME NEW j \in {0, 1} PROVE OutHolds(j)'
    BY <1>1, <2>1, CoOther
  <2> QED
    BY <1>1, <2>2, <2>3 DEF CoDone
<1> QED
  BY <1>1, <1>3, <1>4, CoQuietGo, CoCountsGo

\* O is the last block's, folded, when its rescale begins.
LEMMA CoBeginKeeps ==
    ASSUME CoCtx, NEW from \in {"scale", "acc"}, NEW t, t = co.t, NEW k, k = co.k, NEW st, st = co.st,
           CoGoes(from, {"rescale"}, t, k, st), OnlyO, UNCHANGED out
    PROVE  /\ OIs(t, k - 1)
           /\ \A j \in {0, 1} : OHolds(j)' /\ OutHolds(j)'
<1>1. CoAt /\ st \in {0, 1} /\ CoCounts({}, {}) /\ Tally(st)
  <2>1. CoGoes(from, {"acc", "rescale"}, t, k, st)
    BY DEF CoGoes
  <2>2. CoAt /\ st \in {0, 1}
    BY DEF CoCtx, CoAt, CoWhere
  <2>3. CoCounts({}, {})
    BY <2>1, <2>2, CoCountsGo
  <2>4. Tally(st)
    BY <2>2 DEF CoCtx
  <2> QED
    BY <2>2, <2>3, <2>4
<1>2. ORescaled(st)' = ORescaled(st) /\ ORescaled(st) \in Int
  BY <1>1 DEF CoCounts, If1, Tally
<1>3. ORescaled(st)' = PvBegun(st)' /\ ~PvIn(st)'
  BY DEF CoCtx, CoFree, CoGoes
<1>4. ORescaled(st) = PvBegun(st) /\ ~PvIn(st)
  BY <1>1, <1>2, <1>3 DEF CoCtx
<1>5. OIs(t, k - 1)
  <2>1. IsBlock(t, k - 1, ORescaled(st)) /\ ~Rescaling(st)
    BY <1>1 DEF CoAt, CoGoes, Rescaling
  <2> QED
    BY <1>4, <2>1, CoFindsO DEF OIs
<1>6. OHolds(st)'
  <2>1. Rescaling(st)' /\ ORescaled(st)' # PvBegun(st)' + 1
    BY <1>2, <1>3 DEF CoGoes, Rescaling
  <2> QED
    BY <1>3, <2>1 DEF OHolds
<1>7. ASSUME NEW j \in {0, 1}, j # st PROVE OHolds(j)'
  <2>1. mem'[<<"O", j>>] = mem[<<"O", j>>] /\ ~Rescaling(j)
    BY <1>7, NamesIn DEF OnlyO, Rescaling
  <2> QED
    BY <1>1, <2>1, CoOther
<1>8. ASSUME NEW j \in {0, 1} PROVE OutHolds(j)'
  <2>1. mem'[<<"sO", j>>] = mem[<<"sO", j>>]
    BY NamesIn DEF OnlyO
  <2> QED
    BY <1>1, <2>1, CoOther
<1> QED
  BY <1>5, <1>6, <1>7, <1>8

\* The scale is the block's.
LEMMA CoReadsScale ==
    ASSUME CoCtx, NEW t, t = co.t, NEW k, k = co.k, NEW st, st = co.st,
           CoGoes("scale", {"acc", "rescale"}, t, k, st)
    PROVE  ScaleIs(t, k)
<1>1. CoGoes("scale", {"acc", "rescale", "o"}, t, k, st) /\ CoAt
  BY DEF CoGoes, CoCtx
<1>2. ScalesTaken(st)' = ScalesTaken(st) + 1
  BY <1>1, CoTakes
<1>3. IsScale(t, k, ScalesTaken(st) + 1) /\ k > 1
  BY <1>1 DEF CoAt, CoGoes
<1> QED
  BY <1>2, <1>3, CoFindsScale DEF ScaleIs

LEMMA CoReadsSum ==
    ASSUME CoCtx, NEW t, t = co.t, NEW k, k = co.k, NEW st, st = co.st, CoGoes("sum", {"o"}, t, k, st)
    PROVE  ScaleIs(t, Blocks[t] + 1)
<1>1. CoGoes("sum", {"acc", "rescale", "o"}, t, k, st) /\ CoAt
  BY DEF CoGoes, CoCtx
<1>2. ScalesTaken(st)' = ScalesTaken(st) + 1
  BY <1>1, CoTakes
<1>3. IsScale(t, Blocks[t] + 1, ScalesTaken(st) + 1)
  BY <1>1 DEF CoAt, CoGoes
<1>4. Blocks[t] + 1 > 1
  <2>1. t \in Tile
    BY <1>3 DEF IsScale
  <2> QED
    BY <2>1, StartIs, TileIs
<1> QED
  BY <1>2, <1>3, <1>4, CoFindsScale DEF ScaleIs

LEMMA CoToRescaleKeeps == ASSUME CoCtx, CorrToRescale PROVE CoDone
<1>1. CoAt /\ CoType /\ co.st \in {0, 1} /\ UNCHANGED out /\ (CorrScale \/ CorrWaitO) /\ DOMAIN mem = Region
      /\ DOMAIN out' = Tile \X Stage /\ co.ok
  BY DEF CoCtx, CorrToRescale, CoAt, CoWhere
<1>2. PICK t, k, st : t = co.t /\ k = co.k /\ st = co.st
  OBVIOUS
<1>3. CASE CorrWaitO
  <2>1. CoGoes("acc", {"rescale"}, t, k, st) /\ OnlyO /\ co'.ok = (co.ok /\ OIs(t, k - 1))
    BY <1>1, <1>2, <1>3, CoWaitOGo
  <2>2. OIs(t, k - 1) /\ \A j \in {0, 1} : OHolds(j)' /\ OutHolds(j)'
    BY <1>1, <1>2, <2>1, CoBeginKeeps
  <2> QED
    BY <1>1, <2>1, <2>2 DEF CoDone
<1>4. CASE CorrScale
  <2>1. CASE CoGoes("scale", {"rescale"}, t, k, st) /\ OnlyO /\ co'.ok = (ScaleIs(t, k) /\ OIs(t, k - 1))
    <3>1. OIs(t, k - 1) /\ \A j \in {0, 1} : OHolds(j)' /\ OutHolds(j)'
      BY <1>1, <1>2, <2>1, CoBeginKeeps
    <3>2. CoGoes("scale", {"acc", "rescale"}, t, k, st)
      BY <2>1 DEF CoGoes
    <3>3. ScaleIs(t, k)
      BY <1>2, <3>2, CoReadsScale
    <3> QED
      BY <1>1, <2>1, <3>1, <3>3 DEF CoDone
  <2>2. CASE CoGoes("scale", {"acc"}, t, k, st) /\ UNCHANGED mem /\ co'.ok = ScaleIs(t, k)
    <3>1. CoGoes("scale", {"acc", "rescale"}, t, k, st)
      BY <2>2 DEF CoGoes
    <3>2. ScaleIs(t, k) /\ CoCounts({}, {})
      BY <1>1, <1>2, <3>1, CoReadsScale, CoCountsGo
    <3>3. ASSUME NEW j \in {0, 1} PROVE OHolds(j)' /\ OutHolds(j)'
      <4>1. ~Rescaling(j)
        BY <2>2 DEF Rescaling, CoGoes
      <4> QED
        BY <1>1, <2>2, <3>2, <4>1, CoOther
    <3> QED
      BY <1>1, <2>2, <3>2, <3>3 DEF CoDone
  <2> QED
    BY <1>1, <1>2, <1>4, <2>1, <2>2, CoScaleGo
<1> QED
  BY <1>1, <1>3, <1>4

LEMMA CoRescaledKeeps == ASSUME CoCtx, CorrRescaled PROVE CoDone
<1>1. CoAt /\ CoType /\ co.st \in {0, 1} /\ DOMAIN mem = Region /\ co.ok /\ DOMAIN out = Tile \X Stage
  BY DEF CoCtx, CoAt, CoWhere
<1>2. PICK t, k, st : t = co.t /\ k = co.k /\ st = co.st
  OBVIOUS
<1>3. CoOk /\ OnlyO /\ UNCHANGED out /\ mem'[<<"O", st>>] = KeepIf(co.ok, Rescaled(t, k - 1))
  BY <1>1, <1>2, CoRescaledGo
<1>4. co.at = "rescale" /\ CoCounts({st}, {})
  <2>1. CASE st = 0 /\ CoGoes("rescale", {"scale"}, t, k, 1)
    BY <1>1, <1>2, <2>1, CoCountsGo DEF CoGoes
  <2>2. CASE st = 1 /\ CoGoes("rescale", {"sum"}, t, k + 1, 0)
    <3>1. CoGoes("rescale", {"sum", "scale"}, t, k + 1, 0)
      BY <2>2 DEF CoGoes
    <3> QED
      BY <1>1, <1>2, <2>2, <3>1, CoCountsGo DEF CoGoes
  <2>3. CASE st = 1 /\ CoGoes("rescale", {"scale"}, t, k + 1, 0)
    <3>1. CoGoes("rescale", {"sum", "scale"}, t, k + 1, 0)
      BY <2>3 DEF CoGoes
    <3> QED
      BY <1>1, <1>2, <2>3, <3>1, CoCountsGo DEF CoGoes
  <2> QED
    BY <1>1, <1>2, <2>1, <2>2, <2>3, CoRescaledGo
<1>5. /\ ORescaled(st) = PvBegun(st) /\ ~PvIn(st) /\ IsBlock(t, k, ORescaled(st) + 1) /\ ORescaled(st) \in Int
      /\ PvBegun(st)' = PvBegun(st) /\ (PvIn(st)' <=> PvIn(st)) /\ st \in {0, 1}
  BY <1>1, <1>2, <1>4 DEF CoCtx, CoFree, CoAt, Tally
<1>6. ORescaled(st)' = ORescaled(st) + 1
  BY <1>4, <1>5 DEF CoCounts, If1
<1>7. OHolds(st)'
  <2>1. mem'[<<"O", st>>] = Rescaled(t, k - 1)
    BY <1>1, <1>3 DEF KeepIf
  <2>2. ~PvIn(st)' /\ ORescaled(st)' # PvBegun(st)' /\ IsBlock(t, k, ORescaled(st)')
    BY <1>5, <1>6
  <2>3. \A u, l : IsBlock(u, l, ORescaled(st)') => u = t /\ l = k
    BY <2>2, BlockUnique
  <2> QED
    BY <2>1, <2>2, <2>3 DEF OHolds, IsBlock
<1>8. ASSUME NEW j \in {0, 1}, j # st PROVE OHolds(j)'
  <2>1. mem'[<<"O", j>>] = mem[<<"O", j>>] /\ ~Rescaling(j)
    BY <1>2, <1>3, <1>8, NamesIn DEF OnlyO, Rescaling
  <2> QED
    BY <1>4, <1>8, <2>1, CoOther
<1>9. ASSUME NEW j \in {0, 1} PROVE OutHolds(j)'
  <2>1. mem'[<<"sO", j>>] = mem[<<"sO", j>>]
    BY <1>3, NamesIn DEF OnlyO
  <2> QED
    BY <1>3, <1>4, <2>1, CoOther
<1> QED
  BY <1>1, <1>3, <1>7, <1>8, <1>9 DEF CoDone, CoOk

LEMMA CoSumKeeps == ASSUME CoCtx, CorrSum PROVE CoDone
<1>1. CoAt /\ CoType /\ co.st \in {0, 1} /\ DOMAIN out = Tile \X Stage
  BY DEF CoCtx, CoAt, CoWhere
<1>2. PICK t, k, st : t = co.t /\ k = co.k /\ st = co.st
  OBVIOUS
<1>3. CoGoes("sum", {"o"}, t, k, st) /\ UNCHANGED <<mem, out>> /\ co'.ok = ScaleIs(t, Blocks[t] + 1)
  BY <1>1, <1>2, CoSumGo
<1>4. ScaleIs(t, Blocks[t] + 1)
  BY <1>2, <1>3, CoReadsSum
<1>5. CoCounts({}, {})
  <2>1. CoGoes("sum", {"o", "buffer", "write"}, t, k, st)
    BY <1>3 DEF CoGoes
  <2> QED
    BY <1>1, <1>2, <2>1, CoCountsGo
<1>6. ASSUME NEW j \in {0, 1} PROVE OHolds(j)' /\ OutHolds(j)'
  <2>1. ~Rescaling(j)
    BY <1>3 DEF Rescaling, CoGoes
  <2> QED
    BY <1>3, <1>5, <2>1, CoOther
<1> QED
  BY <1>1, <1>3, <1>4, <1>6 DEF CoDone

\* The output buffer is taken: it holds nothing the epilogue still has to store.
LEMMA CoBufferKeeps == ASSUME CoCtx, CorrWaitLastO \/ CorrWaitBuffer PROVE CoDone
<1>1. CoAt /\ CoAt' /\ CoType /\ co.st \in {0, 1} /\ DOMAIN out = Tile \X Stage /\ co.ok
  BY DEF CoCtx, CoAt, CoWhere
<1>2. PICK t, k, st : t = co.t /\ k = co.k /\ st = co.st
  OBVIOUS
<1>3. CoOk /\ UNCHANGED out /\ OnlyOut
  BY <1>1, CoBufferGo
<1>4. PICK from \in {"o", "buffer"} :
         /\ CoGoes(from, {"buffer", "write"}, t, k, st)
         /\ UNCHANGED mem \/ CoGoes(from, {"write"}, t, k, st)
  <2>1. CASE CoGoes("o", {"write"}, t, k, st)
    BY <2>1 DEF CoGoes
  <2>2. CASE UNCHANGED mem /\ CoGoes("o", {"buffer"}, t, k, st)
    BY <2>2 DEF CoGoes
  <2>3. CASE CoGoes("buffer", {"write"}, t, k, st)
    BY <2>3 DEF CoGoes
  <2> QED
    BY <1>1, <1>2, <2>1, <2>2, <2>3, CoBufferGo
<1>5. CoCounts({}, {})
  <2>1. CoGoes(from, {"o", "buffer", "write"}, t, k, st)
    BY <1>4 DEF CoGoes
  <2> QED
    BY <1>1, <1>2, <2>1, CoCountsGo
<1>6. ASSUME NEW j \in {0, 1} PROVE OHolds(j)'
  <2>1. ~Rescaling(j)
    BY <1>4 DEF Rescaling, CoGoes
  <2>2. mem'[<<"O", j>>] = mem[<<"O", j>>]
    BY <1>3, NamesIn DEF OnlyOut
  <2> QED
    BY <1>5, <2>1, <2>2, CoOther
<1>7. ASSUME NEW j \in {0, 1} PROVE OutHolds(j)'
  <2>1. CASE mem'[<<"sO", j>>] = mem[<<"sO", j>>]
    BY <1>3, <1>5, <2>1, CoOther
  <2>2. CASE j = st /\ CoGoes(from, {"write"}, t, k, st)
    <3>1. Tally(j) /\ Tally(j)' /\ OutHolds(j) /\ EpFreed(j)' = EpFreed(j)
      BY DEF CoCtx
    <3>2. OWritten(j)' = OWritten(j) /\ OWritten(j) \in Int /\ EpFreed(j) \in Int
      BY <1>5, <3>1 DEF CoCounts, If1, Tally
    <3>3. Stored(j)' = Stored(j)
      BY <3>1, <3>2 DEF Stored
    <3>4. ~CorrStoresO => OWritten(j)' <= EpFreed(j)'
      <4> SUFFICES ASSUME ~CorrStoresO PROVE OWritten(j)' <= EpFreed(j)'
        OBVIOUS
      <4>1. If1(j = co'.st /\ co'.at = "write") = 1
        BY <2>2 DEF CoGoes, If1
      <4>2. BuffersHad(j)' = OWritten(j)' + If1(j = co'.st /\ co'.at = "write")
        BY DEF BuffersHad, If1
      <4>3. BuffersHad(j)' = OWritten(j)' + 1 /\ OWritten(j)' \in Int /\ BuffersHad(j)' <= EpFreed(j)' + 1 /\ EpFreed(j)' \in Int
        <5>1. ~CorrStoresO /\ OWritten(j)' \in Int /\ EpFreed(j)' \in Int /\ BuffersHad(j)' <= EpFreed(j)' + 1
          BY <3>1 DEF Tally
        <5> QED
          BY <4>1, <4>2, <5>1
      <4> QED
        BY <4>3
    <3> QED
      BY <1>3, <3>1, <3>2, <3>3, <3>4 DEF OutHolds
  <2> QED
    BY <1>2, <1>3, <1>4, <2>1, <2>2, NamesIn DEF OnlyOut
<1> QED
  BY <1>1, <1>3, <1>6, <1>7 DEF CoDone, CoOk

\* The output of a tile and stage: O after the tile's last block.
LEMMA CoWriteKeeps == ASSUME CoCtx, CorrWriteO PROVE CoDone
<1>1. CoAt /\ CoType /\ CoWhere /\ DOMAIN out = Tile \X Stage /\ co.ok
  BY DEF CoCtx, CoAt
<1>2. PICK t, k, st : t = co.t /\ k = co.k /\ st = co.st
  OBVIOUS
<1>3. /\ st \in {0, 1} /\ CoOk /\ OnlyOut /\ co.at = "write"
      /\ co.ok /\ OIs(t, Blocks[t]) => mem'[<<"sO", st>>] = Folded(t, Blocks[t])
      /\ CorrStoresO => out' = [out EXCEPT ![<<t, st>>] = Append(@, mem'[<<"sO", st>>])]
      /\ ~CorrStoresO => out' = out
      /\ \/ st = 0 /\ CoGoes("write", {"sum"}, t, co.k, 1)
         \/ st = 1 /\ CoGoes("write", {"first", "end"}, t + 1, co.k, 0)
  BY <1>1, <1>2, CoWriteGo DEF CoGoes
<1>4. CoCounts({st}, {st})
  <2>1. CASE st = 0 /\ CoGoes("write", {"sum"}, t, k, 1)
    BY <1>1, <1>2, <2>1, CoCountsGo
  <2>2. CASE st = 1 /\ CoGoes("write", {"first", "end"}, t + 1, k, 0)
    BY <1>1, <1>2, <2>2, CoCountsGo
  <2>3. \/ st = 0 /\ CoGoes("write", {"sum"}, t, co.k, 1)
        \/ st = 1 /\ CoGoes("write", {"first", "end"}, t + 1, co.k, 0)
    BY <1>3
  <2> QED
    BY <1>2, <2>1, <2>2, <2>3
<1>5. /\ ORescaled(st) = PvBegun(st) /\ ~PvIn(st) /\ ORescaled(st) \in Int /\ IsBlock(t, Blocks[t], ORescaled(st))
      /\ PvBegun(st)' = PvBegun(st) /\ (PvIn(st)' <=> PvIn(st)) /\ OWritten(st) = t - 1 /\ t \in Tile /\ t \in Int
      /\ OWritten(st) \in Int /\ Tally(st) /\ Tally(st)' /\ OutHolds(st) /\ EpFreed(st)' = EpFreed(st)
  BY <1>1, <1>2, <1>3 DEF CoCtx, CoFree, CoAt, Tally, CoEnding, CoWhere
<1>6. ORescaled(st)' = ORescaled(st) + 1 /\ OWritten(st)' = t
  BY <1>3, <1>4, <1>5 DEF CoCounts, If1
<1>7. mem'[<<"sO", st>>] = Folded(t, Blocks[t])
  <2>1. ~Rescaling(st)
    BY <1>3 DEF Rescaling
  <2>2. mem[<<"O", st>>] = Folded(t, Blocks[t])
    BY <1>2, <1>5, <2>1, CoFindsO
  <2> QED
    BY <1>1, <1>2, <1>3, <2>2 DEF OIs
<1>8. OHolds(st)'
  <2>1. t + 1 \in 1..(Tiles + 1) /\ Start[t + 1] = Start[t] + Blocks[t] /\ Start[t] \in Int /\ Blocks[t] \in Int
    BY <1>1, <1>2, <1>3 DEF CoWhere
  <2>2. ORescaled(st)' = Start[t + 1] + 1
    BY <1>5, <1>6, <2>1 DEF IsBlock
  <2>3. \A u, l : IsBlock(u, l, ORescaled(st)') => l = 1
    BY <2>1, <2>2, NoSecond
  <2>4. ~PvIn(st)' /\ ORescaled(st)' # PvBegun(st)'
    BY <1>5, <1>6
  <2> QED
    BY <2>3, <2>4 DEF OHolds, IsBlock
<1>9. ASSUME NEW j \in {0, 1}, j # st PROVE OHolds(j)' /\ (CorrStoresO \/ OutHolds(j)')
  <2>1. mem'[<<"O", j>>] = mem[<<"O", j>>] /\ mem'[<<"sO", j>>] = mem[<<"sO", j>>] /\ ~Rescaling(j)
    BY <1>2, <1>3, <1>9, NamesIn DEF OnlyOut, Rescaling
  <2>2. OHolds(j)'
    BY <1>4, <1>9, <2>1, CoOther
  <2>3. CASE ~CorrStoresO
    <3>1. UNCHANGED out
      BY <1>3, <2>3
    <3> QED
      BY <1>4, <1>9, <2>1, <2>2, <3>1, CoOther
  <2> QED
    BY <2>2, <2>3
<1>10. CASE ~CorrStoresO
  <2>1. OutHolds(st)'
    <3>1. Stored(st) = Stored(st)' /\ out' = out /\ EpFreed(st) \in Int
      BY <1>3, <1>5, <1>10 DEF Stored, Tally
    <3>2. \A u \in Tile : out[<<u, st>>] = IF u <= Stored(st) THEN <<Folded(u, Blocks[u])>> ELSE <<>>
      BY <1>5 DEF OutHolds
    <3>3. \A u \in Tile : u = OWritten(st)' => mem'[<<"sO", st>>] = Folded(u, Blocks[u])
      BY <1>6, <1>7
    <3> QED
      BY <3>1, <3>2, <3>3 DEF OutHolds
  <2> QED
    BY <1>1, <1>3, <1>8, <1>9, <1>10, <2>1 DEF CoDone, CoOk, OutHolds
<1>11. CASE CorrStoresO
  <2>1. Stored(st) = t - 1 /\ Stored(st)' = t
    BY <1>5, <1>6, <1>11 DEF Stored
  <2>2. out[<<t, st>>] = <<>>
    <3>1. ~(t <= Stored(st))
      BY <1>5, <2>1
    <3> QED
      BY <1>5, <3>1 DEF OutHolds
  <2>3. <<t, st>> \in DOMAIN out /\ DOMAIN out' = Tile \X Stage
    BY <1>1, <1>3, <1>5, <1>11 DEF Stage
  <2>4. out'[<<t, st>>] = <<Folded(t, Blocks[t])>>
    <3>1. out'[<<t, st>>] = Append(out[<<t, st>>], mem'[<<"sO", st>>])
      BY <1>3, <1>11, <2>3
    <3> QED
      BY <1>7, <2>2, <3>1
  <2>5. \A u, j : <<u, j>> # <<t, st>> => out'[<<u, j>>] = out[<<u, j>>] \/ <<u, j>> \notin DOMAIN out
    BY <1>3, <1>11
  <2>6. OutHolds(st)'
    <3>1. ASSUME NEW u \in Tile, u # t PROVE out'[<<u, st>>] = IF u <= t THEN <<Folded(u, Blocks[u])>> ELSE <<>>
      <4>1. out'[<<u, st>>] = out[<<u, st>>]
        BY <1>1, <1>3, <2>5, <3>1 DEF Stage
      <4>2. out[<<u, st>>] = IF u <= t - 1 THEN <<Folded(u, Blocks[u])>> ELSE <<>>
        BY <1>5, <2>1 DEF OutHolds
      <4>3. u \in Int /\ (u <= t - 1 <=> u <= t)
        BY <1>1, <1>5, <3>1, TileIs
      <4> QED
        BY <4>1, <4>2, <4>3
    <3>2. t <= t
      BY <1>5
    <3>3. \A u \in Tile : out'[<<u, st>>] = IF u <= t THEN <<Folded(u, Blocks[u])>> ELSE <<>>
      BY <2>4, <3>1, <3>2
    <3> QED
      BY <1>11, <2>1, <3>3 DEF OutHolds
  <2>7. ASSUME NEW j \in {0, 1}, j # st PROVE OutHolds(j)'
    <3>1. Stored(j)' = Stored(j)
      BY <1>4, <1>11, <2>7 DEF CoCounts, Stored, If1, CoCtx, Tally
    <3>2. \A u \in Tile : out'[<<u, j>>] = out[<<u, j>>]
      BY <1>1, <2>5, <2>7 DEF Stage
    <3>3. OutHolds(j)
      BY DEF CoCtx
    <3> QED
      BY <1>11, <3>1, <3>2, <3>3 DEF OutHolds
  <2> QED
    BY <1>1, <1>3, <1>8, <1>9, <2>3, <2>6, <2>7 DEF CoDone, CoOk
<1> QED
  BY <1>10, <1>11

\* Every step of the correction warps keeps what the buffers hold.
LEMMA CorrectionContents == ASSUME CInv, FlightInv', Correction PROVE Contents'
<1>1. CoCtx /\ CoKept
  BY CoCtxIs, CorrectionFrame
<1>2. CoDone
  BY <1>1, CoQuietKeeps, CoToRescaleKeeps, CoRescaledKeeps, CoSumKeeps, CoBufferKeeps, CoWriteKeeps DEF Correction
<1>3. sm'[0].ok /\ sm'[1].ok
  BY <1>1 DEF CoCtx, CInv, Contents, OksHold
<1> QED
  BY <1>1, <1>2, <1>3 DEF CoDone, CoKept, Contents, StageHolds, OksHold

===============================================================================
