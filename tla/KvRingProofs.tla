---------------------------- MODULE KvRingProofs ----------------------------
(***************************************************************************)
(* KvRing for any number of slots, parts and laps.  RingInv is inductive:  *)
(* one step of a role moves one of the four counts of one slot by one, and *)
(* the guard of the step is the parity or the order that lets it.          *)
(***************************************************************************)
EXTENDS KvRing, TLAPS

\* An advance takes a role past the slot it is at and past no other
\* (PipelineState.advance).
LEMMA AdvancePasses ==
    ASSUME NEW s \in RingState, NEW i \in Slot
    PROVE  /\ Advance(s) \in RingState
           /\ Passed(Advance(s), i) = Passed(s, i) + (IF i = s.index THEN 1 ELSE 0)
           /\ Passed(s, s.index) = s.lap
           /\ Passed(s, i) \in Nat
BY RingAssumption DEF Advance, Passed, RingState, Slot

\* A role's phase bit stays the parity of its lap.
LEMMA AdvanceParity ==
    ASSUME NEW s \in RingState
    PROVE  /\ s.phase = s.lap % 2 => Advance(s).phase = Advance(s).lap % 2
           /\ s.phase = (s.lap + 1) % 2 => Advance(s).phase = (Advance(s).lap + 1) % 2
BY RingAssumption DEF Advance, RingState, Slot

\* One parity bit tells two neighbouring counts apart.
LEMMA ParityTells ==
    ASSUME NEW n \in Nat, NEW lap \in Nat
    PROVE  /\ lap <= n + 1 /\ n <= lap /\ Passes(n, (lap + 1) % 2) => n = lap
           /\ lap <= n /\ n <= lap + 1 /\ Passes(n, lap % 2) => n = lap + 1
BY DEF Passes

\* The four counts of a slot are numbers.
LEMMA CountsNat ==
    ASSUME TypeOK
    PROVE  \A i \in Slot : /\ Passed(prod, i) \in Nat /\ Passed(wait, i) \in Nat
                           /\ Passed(rel, i) \in Nat /\ Passed(drn, i) \in Nat
                           /\ full[i] \in Nat /\ empty[i] \in Nat
BY AdvancePasses DEF TypeOK

\* The state the kernel starts the ring in (barrier init, make_pipeline_state).
LEMMA InitInv == Init => RingInv
<1> SUFFICES ASSUME Init PROVE RingInv
  OBVIOUS
<1>1. \A i \in Slot : /\ Passed(prod, i) = 0 /\ Passed(wait, i) = 0
                      /\ Passed(rel, i) = 0 /\ Passed(drn, i) = 0
  BY DEF Init, State, Passed, Slot
<1>2. TypeOK
  BY RingAssumption DEF Init, State, TypeOK, RingState, Slot, Garbage
<1>3. PhaseIsParity
  BY DEF Init, State, PhaseIsParity
<1>4. InOrder /\ BarriersCount /\ SlotContent
  BY <1>1 DEF Init, InOrder, BarriersCount, SlotContent
<1> QED
  BY <1>2, <1>3, <1>4 DEF RingInv

\* The parity the load warp passed on is that of its own lap: the slot is empty.
LEMMA LoadFindsEmpty ==
    ASSUME RingInv, Load
    PROVE  LET j == prod.index
           IN  empty[j] = prod.lap /\ Passed(drn, j) = Passed(prod, j) /\ pending[j] = {}
<1> DEFINE j == prod.index
<1> USE DEF RingInv
<1>1. prod \in RingState /\ j \in Slot
  BY DEF TypeOK, RingState
<1>2. Passed(prod, j) = prod.lap /\ prod.lap \in Nat
  BY <1>1, AdvancePasses DEF RingState
<1>3. empty[j] \in Nat /\ empty[j] <= prod.lap /\ prod.lap <= empty[j] + 1
  BY <1>1, <1>2, CountsNat DEF InOrder, BarriersCount
<1>4. Passes(empty[j], (prod.lap + 1) % 2)
  BY DEF Load, PhaseIsParity
<1>5. empty[j] = prod.lap
  BY <1>2, <1>3, <1>4, ParityTells
<1>6. Passed(drn, j) = Passed(prod, j)
  BY <1>1, <1>2, <1>5 DEF BarriersCount
<1>7. full[j] = Passed(prod, j)
  BY <1>1, <1>6, CountsNat DEF InOrder
<1> QED
  BY <1>1, <1>2, <1>5, <1>6, <1>7 DEF BarriersCount

\* load_KV keeps the invariant: it takes a slot nothing reads.
LEMMA LoadInv == RingInv /\ Load => RingInv'
<1> SUFFICES ASSUME RingInv, Load PROVE RingInv'
  OBVIOUS
<1> DEFINE j == prod.index
<1> USE DEF RingInv
<1>1. prod \in RingState /\ j \in Slot /\ prod' = Advance(prod)
  BY DEF Load, TypeOK, RingState
<1>2. empty[j] = prod.lap /\ Passed(drn, j) = Passed(prod, j) /\ pending[j] = {}
  BY LoadFindsEmpty
<1>3. \A i \in Slot : Passed(prod, i)' = Passed(prod, i) + (IF i = j THEN 1 ELSE 0)
  BY <1>1, AdvancePasses DEF Passed
<1>4. \A i \in Slot : UNCHANGED <<Passed(wait, i), Passed(rel, i), Passed(drn, i)>>
  BY DEF Load, Passed
<1>5. TypeOK'
  BY <1>1, AdvancePasses DEF Load, TypeOK, Armed, Garbage
<1>6. PhaseIsParity'
  BY <1>1, AdvanceParity DEF Load, PhaseIsParity
<1>7. \A i \in Slot : /\ Passed(prod, i) \in Nat /\ Passed(drn, i) \in Nat /\ full[i] \in Nat
  BY CountsNat
<1>8. InOrder'
  BY <1>1, <1>2, <1>3, <1>4, <1>7 DEF Load, InOrder
<1>9. BarriersCount'
  BY <1>1, <1>2, <1>3, <1>4, <1>7, RingAssumption DEF Load, BarriersCount, TypeOK, Armed
<1>10. SlotContent'
  BY <1>1, <1>2, <1>3, <1>7 DEF Load, SlotContent, TypeOK, Armed
<1> QED
  BY <1>5, <1>6, <1>8, <1>9, <1>10

\* A landing part keeps the invariant; only the last one completes the phase.
LEMMA LandInv ==
    ASSUME NEW i \in Slot, NEW p \in Parts, RingInv, Land(i, p)
    PROVE  RingInv'
<1> USE DEF RingInv
<1>1. /\ pending[i] # {} /\ full[i] \in Nat
      /\ pending' = [pending EXCEPT ![i] = @ \ {p}]
      /\ full' = IF pending[i] = {p} THEN [full EXCEPT ![i] = @ + 1] ELSE full
      /\ buf' = [buf EXCEPT ![i][p] = Passed(prod, i) - 1]
  BY CountsNat DEF Land
<1>2. \A s \in Slot : UNCHANGED <<Passed(prod, s), Passed(wait, s), Passed(rel, s), Passed(drn, s)>>
  BY DEF Land, Passed
<1>3. \A s \in Slot : /\ Passed(prod, s) \in Nat /\ Passed(wait, s) \in Nat
                      /\ full[s] \in Nat
  BY CountsNat
<1>4. full[i] = Passed(prod, i) - 1
  BY <1>1, <1>3 DEF BarriersCount
<1>5. TypeOK'
  BY <1>1, <1>3 DEF Land, TypeOK
<1>6. PhaseIsParity'
  BY DEF Land, PhaseIsParity
<1>7. pending'[i] = {} <=> pending[i] = {p}
  BY <1>1, p \in pending[i] DEF Land, TypeOK
<1>8. BarriersCount'
  <2>1. ASSUME NEW s \in Slot, s # i
        PROVE  empty'[s] = Passed(drn, s) /\ full'[s] = full[s] /\ pending'[s] = pending[s]
    BY <1>1, <2>1 DEF Land, TypeOK, BarriersCount
  <2>2. full'[i] = Passed(prod, i) - (IF pending'[i] = {} THEN 0 ELSE 1)
    BY <1>1, <1>3, <1>4, <1>7 DEF TypeOK
  <2>3. empty' = empty
    BY DEF Land
  <2> QED
    BY <1>2, <2>1, <2>2, <2>3 DEF BarriersCount
<1>9. InOrder'
  BY <1>1, <1>2, <1>3, <1>4 DEF InOrder, TypeOK
<1>10. SlotContent'
  BY <1>1, <1>2 DEF SlotContent, TypeOK
<1> QED
  BY <1>5, <1>6, <1>8, <1>9, <1>10

\* The MMA warp's consumer_wait keeps the invariant.
LEMMA WaitInv == RingInv /\ Wait => RingInv'
<1> SUFFICES ASSUME RingInv, Wait PROVE RingInv'
  OBVIOUS
<1> DEFINE j == wait.index
<1> USE DEF RingInv
<1>1. wait \in RingState /\ j \in Slot /\ wait' = Advance(wait)
  BY DEF Wait, TypeOK, RingState
<1>2. \A i \in Slot : /\ Passed(prod, i) \in Nat /\ Passed(wait, i) \in Nat
                      /\ Passed(rel, i) \in Nat /\ Passed(drn, i) \in Nat /\ full[i] \in Nat
  BY CountsNat
\* The parity the MMA warp passed on is that of its own lap: the item is there.
<1>3. full[j] = Passed(wait, j) + 1
  <2>1. Passed(wait, j) = wait.lap /\ wait.lap \in Nat
    BY <1>1, AdvancePasses DEF RingState
  <2>2. wait.lap <= full[j] /\ full[j] <= wait.lap + 1
    BY <1>1, <1>2, <2>1 DEF InOrder
  <2>3. Passes(full[j], wait.lap % 2)
    BY DEF Wait, PhaseIsParity
  <2> QED
    BY <1>1, <1>2, <2>1, <2>2, <2>3, ParityTells
<1>4. \A i \in Slot : Passed(wait, i)' = Passed(wait, i) + (IF i = j THEN 1 ELSE 0)
  BY <1>1, AdvancePasses DEF Passed
<1>5. \A i \in Slot : UNCHANGED <<Passed(prod, i), Passed(rel, i), Passed(drn, i)>>
  BY DEF Wait, Passed
<1>6. TypeOK' /\ PhaseIsParity'
  BY <1>1, AdvancePasses, AdvanceParity DEF Wait, TypeOK, PhaseIsParity
<1>7. InOrder'
  BY <1>2, <1>3, <1>4, <1>5 DEF Wait, InOrder
<1>8. BarriersCount' /\ SlotContent'
  BY <1>5 DEF Wait, BarriersCount, SlotContent
<1> QED
  BY <1>6, <1>7, <1>8

\* consumer_release keeps the invariant.
LEMMA ReleaseInv == RingInv /\ Release => RingInv'
<1> SUFFICES ASSUME RingInv, Release PROVE RingInv'
  OBVIOUS
<1> USE DEF RingInv
<1>1. rel \in RingState /\ rel.index \in Slot /\ rel' = Advance(rel)
  BY DEF Release, TypeOK, RingState
<1>2. \A i \in Slot : /\ Passed(wait, i) \in Nat /\ Passed(rel, i) \in Nat /\ Passed(drn, i) \in Nat
  BY CountsNat
<1>3. \A i \in Slot : Passed(rel, i)' = Passed(rel, i) + (IF i = rel.index THEN 1 ELSE 0)
  BY <1>1, AdvancePasses DEF Passed
<1>4. \A i \in Slot : UNCHANGED <<Passed(prod, i), Passed(wait, i), Passed(drn, i)>>
  BY DEF Release, Passed
<1>5. TypeOK' /\ PhaseIsParity'
  BY <1>1, AdvancePasses DEF Release, TypeOK, PhaseIsParity
<1>6. InOrder'
  BY <1>1, <1>2, <1>3, <1>4 DEF Release, Releasable, InOrder
<1>7. BarriersCount' /\ SlotContent'
  BY <1>4 DEF Release, BarriersCount, SlotContent
<1> QED
  BY <1>5, <1>6, <1>7

\* The arrival of the commit on the empty barrier keeps the invariant.
LEMMA DrainInv == RingInv /\ Drain => RingInv'
<1> SUFFICES ASSUME RingInv, Drain PROVE RingInv'
  OBVIOUS
<1> USE DEF RingInv
<1>1. drn \in RingState /\ drn.index \in Slot /\ drn' = Advance(drn)
  BY DEF Drain, TypeOK, RingState
<1>2. \A i \in Slot : /\ Passed(prod, i) \in Nat /\ Passed(rel, i) \in Nat
                      /\ Passed(drn, i) \in Nat /\ empty[i] \in Nat
  BY CountsNat
<1>3. \A i \in Slot : Passed(drn, i)' = Passed(drn, i) + (IF i = drn.index THEN 1 ELSE 0)
  BY <1>1, AdvancePasses DEF Passed
<1>4. \A i \in Slot : UNCHANGED <<Passed(prod, i), Passed(wait, i), Passed(rel, i)>>
  BY DEF Drain, Passed
<1>5. TypeOK' /\ PhaseIsParity'
  BY <1>1, <1>2, AdvancePasses DEF Drain, TypeOK, PhaseIsParity
<1>6. InOrder'
  BY <1>1, <1>2, <1>3, <1>4 DEF Drain, InOrder
<1>7. BarriersCount' /\ SlotContent'
  BY <1>1, <1>2, <1>3, <1>4 DEF Drain, BarriersCount, SlotContent, TypeOK
<1> QED
  BY <1>5, <1>6, <1>7

\* Every step of every role keeps the invariant.
LEMMA StepInv == RingInv /\ [Next]_vars => RingInv'
<1> SUFFICES ASSUME RingInv, [Next]_vars PROVE RingInv'
  OBVIOUS
<1>1. CASE Load
  BY <1>1, LoadInv
<1>2. CASE \E i \in Slot : \E p \in Parts : Land(i, p)
  BY <1>2, LandInv
<1>3. CASE Wait
  BY <1>3, WaitInv
<1>4. CASE Release
  BY <1>4, ReleaseInv
<1>5. CASE Drain
  BY <1>5, DrainInv
<1>6. CASE UNCHANGED vars
  BY <1>6 DEF vars, RingInv, TypeOK, PhaseIsParity, InOrder, BarriersCount, SlotContent, Passed
<1> QED
  BY <1>1, <1>2, <1>3, <1>4, <1>5, <1>6 DEF Next

\* RingInv holds of every state of the ring (load_KV, consumer_wait,
\* consumer_release and the commits of the MMA warp).
THEOREM RingInvariant == Spec => []RingInv
<1>1. RingInv /\ [Next]_vars => RingInv'
  BY StepInv
<1> QED
  BY InitInv, <1>1, PTL DEF Spec, SafeSpec

\* The types of the ring's state.
THEOREM RingTypes == Spec => []TypeOK
<1>1. RingInv => TypeOK
  BY DEF RingInv
<1> QED
  BY <1>1, RingInvariant, PTL

\* A slot in use by the MMA warp or the tensor core holds every part of the item
\* the MMA warp waited for, untouched by any load.
THEOREM HeldItemCorrect == Spec => []HeldItem
<1>1. RingInv => HeldItem
  <2> SUFFICES ASSUME RingInv, NEW i \in Slot, Passed(drn, i) < Passed(wait, i)
               PROVE  /\ pending[i] = {}
                      /\ \A p \in Parts : buf[i][p] = Passed(wait, i) - 1
    BY DEF HeldItem
  <2>1. /\ Passed(prod, i) \in Nat /\ Passed(wait, i) \in Nat /\ Passed(drn, i) \in Nat
        /\ full[i] \in Nat
    BY CountsNat DEF RingInv
  <2>2. full[i] = Passed(prod, i) /\ Passed(prod, i) = Passed(wait, i) /\ Passed(prod, i) > 0
    BY <2>1 DEF RingInv, InOrder
  <2>3. pending[i] = {}
    BY <2>1, <2>2 DEF RingInv, BarriersCount
  <2> QED
    BY <2>2, <2>3 DEF RingInv, SlotContent
<1> QED
  BY <1>1, RingInvariant, PTL

\* The parity a role waits for is that of the phase it means, on the full and on
\* the empty barrier of every slot.
THEOREM ParityIsExact == Spec => []ParityExact
<1>1. RingInv => ParityExact
  <2> SUFFICES ASSUME RingInv, NEW i \in Slot
               PROVE  /\ full[i] - Passed(wait, i) \in {0, 1}
                      /\ Passed(prod, i) - empty[i] \in {0, 1}
    BY DEF ParityExact
  <2>1. /\ Passed(prod, i) \in Nat /\ Passed(wait, i) \in Nat /\ Passed(drn, i) \in Nat
        /\ Passed(rel, i) \in Nat /\ full[i] \in Nat /\ empty[i] \in Nat
    BY CountsNat DEF RingInv
  <2>2. /\ Passed(wait, i) <= full[i] /\ full[i] <= Passed(wait, i) + 1
        /\ empty[i] <= Passed(prod, i) /\ Passed(prod, i) <= empty[i] + 1
    BY <2>1 DEF RingInv, InOrder, BarriersCount
  <2> QED
    BY <2>1, <2>2
<1> QED
  BY <1>1, RingInvariant, PTL

\* A slot is loaded again only after the last operation that read it is done and
\* its last load has landed.
THEOREM NeverOverruns == Spec => NoOverrun
<1>1. RingInv /\ [Next]_vars => [LoadsAfterDrain]_vars
  <2> SUFFICES ASSUME RingInv, [Next]_vars, NEW i \in Slot, Passed(prod', i) > Passed(prod, i)
               PROVE  Passed(drn, i) = Passed(prod, i) /\ pending[i] = {}
    BY DEF LoadsAfterDrain
  <2>1. Passed(prod, i) \in Nat /\ prod \in RingState
    BY CountsNat DEF RingInv, TypeOK
  <2>2. Load
    <3>1. prod' # prod
      BY <2>1
    <3> QED
      BY <3>1 DEF Next, Land, Wait, Release, Drain, vars
  <2>3. i = prod.index
    BY <2>1, <2>2, AdvancePasses DEF Load
  <2> QED
    BY <2>1, <2>2, <2>3, LoadFindsEmpty
<1> QED
  BY <1>1, RingInvariant, PTL DEF Spec, SafeSpec, NoOverrun
=============================================================================
