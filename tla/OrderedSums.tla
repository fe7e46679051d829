---------------------------- MODULE OrderedSums ----------------------------
(***************************************************************************)
(* What the deterministic backward pass promises about its accumulators,   *)
(* without CTAs, semaphores or copies: each is summed up from its          *)
(* contributions in one order, which no run can change.                    *)
(***************************************************************************)
EXTENDS Naturals, Sequences

VARIABLES order,     \* by accumulator: its contributions, first to last
          sums       \* by accumulator: the contributions added so far

Init == sums = [x \in DOMAIN order |-> <<>>]

Add(x) ==
    /\ Len(sums[x]) < Len(order[x])
    /\ sums' = [sums EXCEPT ![x] = Append(@, order[x][Len(@) + 1])]
    /\ UNCHANGED order

Next == \E x \in DOMAIN order : Add(x)

Spec == Init /\ [][Next]_<<order, sums>> /\ WF_<<order, sums>>(Next)
=============================================================================
