------------------------------ MODULE WarpSteps ------------------------------
(***************************************************************************)
(* The words that the programs of the warp-specialized kernels are written *)
(* in.  In a kernel every warp runs a fixed program: the same waits,       *)
(* accesses and arrivals whatever the data.  A program is a sequence of    *)
(* steps; the state machine that interprets them is in WarpKernels.        *)
(*                                                                         *)
(* A region of memory holds what it is about: a tile and a block of its    *)
(* inner loop, or block 0 for what belongs to the whole tile; and Garbage  *)
(* once another region that shares its place was written, or when it was   *)
(* made of things that do not belong together.  A region that sums over    *)
(* blocks is about the last one added.                                     *)
(***************************************************************************)
EXTENDS Mbarrier, Sequences, FiniteSets, SequencesExt

\* f itself, as a table that TLC fills in once.
Table(f) == f @@ <<>>

-----------------------------------------------------------------------------
(* Memory.  A region is <<name, slot, CTA>>.                                *)

Of(tile, block) == <<tile, block>>
Garbage == Of(0, 0)

At(name, c) == <<name, 0, c>>

\* What things together are about.
Together(values) ==
    LET tiles  == {v[1] : v \in values}
        blocks == {v[2] : v \in values} \ {0}
    IN  IF Garbage \in values \/ Cardinality(tiles) # 1 \/ Cardinality(blocks) > 1 THEN Garbage
        ELSE Of(CHOOSE k \in tiles : TRUE, IF blocks = {} THEN 0 ELSE CHOOSE m \in blocks : TRUE)

\* A region is written from other regions, or with a value that is the kernel's input.
\* A sum is right only over the block before it: what it is added to, or comes after.
Fill(value, to)          == [from |-> {}, with |-> {value}, to |-> to, prior |-> {}]
Put(from, to)            == [from |-> from, with |-> {}, to |-> to, prior |-> {}]
PutAfter(prior, from, to) == [from |-> from, with |-> {}, to |-> to, prior |-> {prior}]
Plus(from, to)           == PutAfter(to, from, to)
PutOrPlus(first, from, to) == IF first THEN Put(from, to) ELSE Plus(from, to)

\* Two places, given by their beginning and width, have something in common.
Meet(a, b) == a[1] < b[1] + b[2] /\ b[1] < a[1] + a[2]

-----------------------------------------------------------------------------
(* Barriers.  A barrier is <<pipeline, side, slot, CTA, arrivals of a phase>>. *)

\* A ring of buffers: full for its consumers, empty for its producers.
Pipe(name, stages, producers, consumers) ==
    [name |-> name, stages |-> stages, full |-> producers, empty |-> consumers]
Bar(name, slot, c, arrivals) == <<name, "bar", slot, c, arrivals>>
Count(b) == b[5]

\* n counts the uses of a pipeline.
Slot(p, n)     == n % p.stages
Full(p, n, c)  == <<p.name, "full", Slot(p, n), c, p.full>>
Empty(p, n, c) == <<p.name, "empty", Slot(p, n), c, p.empty>>

\* A wait is for a completion of a barrier: by its parity, which the program names,
\* or by the count of what was done, as cp.async.bulk and wgmma groups are waited for.
For(b, turn)  == [on |-> b, turn |-> turn, parity |-> TRUE]
Done(b, turn) == [on |-> b, turn |-> turn, parity |-> FALSE]

TakeEachUse(p, n, c) == For(Full(p, n, c), n + 1)
Take(p, n, c) == For(Full(p, n, c), n \div p.stages + 1)
Room(p, n, c) == For(Empty(p, n, c), n \div p.stages)

\* producer_tail: the consumers are done with the last of n uses.
Drained(p, n, c) == Room(p, n + p.stages - 1, c)

-----------------------------------------------------------------------------
(* Steps.  A role waits, has an effect itself, hands effects to the tensor *)
(* cores and the copy engine.  Waits with nothing in between are taken     *)
(* together with what they guard.                                          *)

Effect(moves, arrives) == [move |-> moves, arrive |-> arrives]
Nothing == Effect({}, {})
Signal(bars) == Effect({}, bars)

Step(waits, effect)   == [wait |-> waits, do |-> effect, mma |-> <<>>, copy |-> Nothing]
Issue(waits, effects) == [Step(waits, Nothing) EXCEPT !.mma = effects]
Copy(waits, copy)     == [Step(waits, Nothing) EXCEPT !.copy = copy]
StepAndCopy(waits, effect, copy) == [Step(waits, effect) EXCEPT !.copy = copy]
Wait(waits) == Step(waits, Nothing)

\* TMA loads of a CTA land in any order, or else in the order of their issue.
Load(reorder, waits, load) == IF reorder THEN Copy(waits, load) ELSE Step(waits, load)

\* The steps of each i of a range, one after the other.
Loop(first, last, Body(_)) == FlattenSeq([i \in 1..(last - first + 1) |-> Body(first + i - 1)])
When(condition, steps) == IF condition THEN steps ELSE <<>>
=============================================================================
