------------------------------ MODULE Mbarrier ------------------------------
(***************************************************************************)
(* The shared-memory barrier every role of the kernel waits on.  The       *)
(* program sees one parity bit of it: a phase completes when its arrivals  *)
(* are all in, and a wait names the parity of the phase it is waiting for. *)
(* The record keeps the whole number of completed phases, of which the     *)
(* program only observes the parity, and the number of waits passed, which *)
(* it does not observe at all; the two tell whether a parity was taken for *)
(* the right phase.                                                        *)
(***************************************************************************)
EXTENDS Integers

NewBarrier(count) == [done |-> 0, left |-> count, seen |-> 0]

\* mbarrier_wait(bar, parity) returns: the current phase no longer has that parity.
Passes(b, parity) == b.done % 2 # parity

\* One arrival; the last one of a phase completes it and re-arms the count.
ArriveAt(b, count) ==
    IF b.left = 1 THEN [b EXCEPT !.done = @ + 1, !.left = count]
                  ELSE [b EXCEPT !.left = @ - 1]

\* The waiter goes on: program state does not change, its history does.
Pass(b) == [b EXCEPT !.seen = @ + 1]
=============================================================================
