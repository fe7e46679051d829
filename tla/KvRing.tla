------------------------------- MODULE KvRing -------------------------------
(***************************************************************************)
(* The ring of shared-memory slots through which K and V reach the tensor  *)
(* core: the load warp (load_KV), the bulk-copy engine, the MMA warp       *)
(* (consumer_wait, consumer_release) and the tensor core, whose commit     *)
(* gives a slot back.  A slot has a full and an empty barrier, of which a  *)
(* wait sees one parity bit.  Nothing else keeps the four apart.           *)
(*                                                                         *)
(* Every role walks the slots in the same order.  lap counts the rounds a  *)
(* role has made; the program keeps only its parity (phase).  An item is   *)
(* known by its slot and the lap in which it is loaded.                    *)
(***************************************************************************)
EXTENDS Integers

CONSTANTS
    Stages,    \* kv_stage
    Parts,     \* what one barrier phase waits for: the operand and its scale factors
    Laps       \* bound on the rounds of the load warp

ASSUME RingAssumption == /\ Stages \in Nat \ {0}
                         /\ Parts # {}
                         /\ Laps \in Nat

Slot == 0..(Stages - 1)

VARIABLES
    prod,      \* kv_producer_state of the load warp
    wait,      \* mma_kv_consumer_state, where the MMA warp waits
    rel,       \* mma_kv_release_state, the next slot it releases
    drn,       \* the next slot the tensor core gives back
    full,      \* completed phases of the full barriers
    empty,     \* completed phases of the empty barriers
    pending,   \* parts of the slot's load that have not landed
    buf        \* lap of the item each part of a slot belongs to

vars == <<prod, wait, rel, drn, full, empty, pending, buf>>

Garbage == -1

State(phase) == [index |-> 0, phase |-> phase, lap |-> 0]

AdvanceOneTooFar(s) ==
    IF s.index = Stages THEN [index |-> 0, phase |-> 1 - s.phase, lap |-> s.lap + 1]
                        ELSE [s EXCEPT !.index = @ + 1]
AdvanceKeepsPhase(s) ==
    IF s.index = Stages - 1 THEN [s EXCEPT !.index = 0, !.lap = @ + 1]
                            ELSE [s EXCEPT !.index = @ + 1]

Advance(s) ==
    IF s.index = Stages - 1
    THEN [index |-> 0, phase |-> 1 - s.phase, lap |-> s.lap + 1]
    ELSE [index |-> s.index + 1, phase |-> s.phase, lap |-> s.lap]

\* How often a role at s has been past slot i.
Passed(s, i) == s.lap + (IF i < s.index THEN 1 ELSE 0)

\* mbarrier_wait(bar, parity) returns.
Passes(done, parity) == done % 2 # parity

\* The bytes the full barrier is armed with: tma_copy_bytes counts every part.
ArmedFirst == {CHOOSE p \in Parts : TRUE}
Armed == Parts

Init ==
    /\ prod = State(1)            \* buffers start out empty: phase 1
    /\ wait = State(0) /\ rel = State(0) /\ drn = State(0)
    /\ full = [i \in Slot |-> 0] /\ empty = [i \in Slot |-> 0]
    /\ pending = [i \in Slot |-> {}]
    /\ buf = [i \in Slot |-> [p \in Parts |-> Garbage]]

\* load_KV: wait for the slot, arm the full barrier, start the copies.
Load ==
    LET i == prod.index
    IN  /\ prod.lap < Laps
        /\ Passes(empty[i], prod.phase)
        /\ pending' = [pending EXCEPT ![i] = Armed]
        /\ buf' = [buf EXCEPT ![i] = [p \in Parts |-> Garbage]]
        /\ prod' = Advance(prod)
        /\ UNCHANGED <<wait, rel, drn, full, empty>>

\* One part lands; the last one completes the phase.
Land(i, p) ==
    /\ p \in pending[i]
    /\ pending' = [pending EXCEPT ![i] = @ \ {p}]
    /\ buf' = [buf EXCEPT ![i][p] = Passed(prod, i) - 1]
    /\ full' = IF pending[i] = {p} THEN [full EXCEPT ![i] = @ + 1] ELSE full
    /\ UNCHANGED <<prod, wait, rel, drn, empty>>

\* consumer_wait, and on with the state; the slot is in use from here.
Wait ==
    /\ Passes(full[wait.index], wait.phase)
    /\ wait' = Advance(wait)
    /\ UNCHANGED <<prod, rel, drn, full, empty, pending, buf>>

\* The next slot to release has been waited for.
ReleasableButLast == LET after == Advance(rel) IN Passed(after, after.index) < Passed(wait, after.index)
ReleasableEarly == Passed(rel, rel.index) <= Passed(wait, rel.index)
Releasable == Passed(rel, rel.index) < Passed(wait, rel.index)

\* consumer_release of the oldest slot waited for: a commit behind its last reader.
Release ==
    /\ Releasable
    /\ rel' = Advance(rel)
    /\ UNCHANGED <<prod, wait, drn, full, empty, pending, buf>>

\* The readers of the oldest slot released are done: the commit arrives.
Drain ==
    /\ Passed(drn, drn.index) < Passed(rel, drn.index)
    /\ empty' = [empty EXCEPT ![drn.index] = @ + 1]
    /\ drn' = Advance(drn)
    /\ UNCHANGED <<prod, wait, rel, full, pending, buf>>

Next == \/ Load \/ (\E i \in Slot : \E p \in Parts : Land(i, p))
        \/ Wait \/ Release \/ Drain

\* The load warp, the copy engine, the MMA warp and the tensor core all run.
Fairness == /\ WF_vars(Load) /\ (\A i \in Slot : \A p \in Parts : WF_vars(Land(i, p)))
            /\ WF_vars(Wait) /\ WF_vars(Release) /\ WF_vars(Drain)

SafeSpec == Init /\ [][Next]_vars
Spec == SafeSpec /\ Fairness

-----------------------------------------------------------------------------

RingState == [index : Slot, phase : 0..1, lap : Nat]

\* The four positions lie in the ring (PipelineState.index, .phase), the barrier
\* counts are numbers.
TypeOK ==
    /\ prod \in RingState /\ wait \in RingState /\ rel \in RingState /\ drn \in RingState
    /\ full \in [Slot -> Nat] /\ empty \in [Slot -> Nat]
    /\ pending \in [Slot -> SUBSET Parts]
    /\ buf \in [Slot -> [Parts -> Int]]

\* Between the MMA warp's wait on a slot and the end of the last operation that
\* reads it, the slot holds every part of the item the warp waited for (the one
\* of its own lap), and no load is writing to it.
HeldItem ==
    \A i \in Slot : Passed(drn, i) < Passed(wait, i) =>
        /\ pending[i] = {}
        /\ \A p \in Parts : buf[i][p] = Passed(wait, i) - 1

\* A parity is never ambiguous: on either barrier of a slot the waiter is at
\* most one phase behind and never ahead, so that the parity its state carries
\* is that of the phase it means.
ParityExact ==
    \A i \in Slot : /\ full[i] - Passed(wait, i) \in {0, 1}
                    /\ Passed(prod, i) - empty[i] \in {0, 1}

LoadsAfterDrain ==
    \A i \in Slot : Passed(prod', i) > Passed(prod, i) =>
        Passed(drn, i) = Passed(prod, i) /\ pending[i] = {}

\* The load warp may be a full ring ahead of the tensor core and never more: no
\* slot is loaded again (load_KV) before what read it last is done and its own
\* load has landed.
NoOverrun == [][LoadsAfterDrain]_vars

\* Every item the load warp brings is consumed and its slot given back: no wait
\* (load_KV, consumer_wait) is for ever, and the roles stop only when all is done.
AllConsumed == <>(\A i \in Slot : Passed(drn, i) = Laps)

-----------------------------------------------------------------------------
(* What holds of every reachable state, slot by slot. *)

\* The phase bit of a role is the parity of its lap.
PhaseIsParity ==
    /\ prod.phase = (prod.lap + 1) % 2
    /\ wait.phase = wait.lap % 2

\* The roles follow one another round the ring.
InOrder ==
    \A i \in Slot :
        /\ Passed(drn, i) <= Passed(rel, i)
        /\ Passed(rel, i) <= Passed(wait, i)
        /\ Passed(wait, i) <= full[i]
        /\ full[i] <= Passed(prod, i)
        /\ Passed(prod, i) <= Passed(drn, i) + 1

\* What the barriers count.
BarriersCount ==
    \A i \in Slot :
        /\ empty[i] = Passed(drn, i)
        /\ full[i] = Passed(prod, i) - (IF pending[i] = {} THEN 0 ELSE 1)

\* What a slot holds of the item loaded last.
SlotContent ==
    \A i \in Slot : \A p \in Parts :
        Passed(prod, i) > 0 /\ p \notin pending[i] => buf[i][p] = Passed(prod, i) - 1

\* All of it together, which every step of load_KV, consumer_wait,
\* consumer_release and the commits preserves.
RingInv == TypeOK /\ PhaseIsParity /\ InOrder /\ BarriersCount /\ SlotContent
=============================================================================
