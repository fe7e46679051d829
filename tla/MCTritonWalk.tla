---------------------------- MODULE MCTritonWalk ----------------------------
(***************************************************************************)
(* Calls of the Triton kernels, with tiles of a few rows and keys.         *)
(***************************************************************************)
EXTENDS TritonWalk

Tiles(m1, n1, m2, n2) == [m1 |-> m1, n1 |-> n1, m2 |-> m2, n2 |-> n2, slice |-> 2]

\* As in the code: the block a program keeps is the longer one, a multiple
\* of the step, and equally long in both kernels of a pair.
SmallBlock ==
    [split |-> Tiles(2, 4, 4, 2), onekernel |-> Tiles(2, 4, 4, 2),
     fused |-> Tiles(2, 4, 4, 2), pair |-> Tiles(4, 4, 4, 2),
     prefill |-> Tiles(2, 2, 4, 4), fusedfwd |-> Tiles(2, 2, 4, 2),
     decode |-> Tiles(2, 2, 2, 2)]

Call(kernel, causal, q, k) ==
    [kernel |-> kernel, causal |-> causal, q |-> q, k |-> k, group |-> 1, pad |-> 0,
     cache |-> k, fresh |-> 0, splits |-> 1, counted |-> FALSE]

Grouped(c)  == [c EXCEPT !.group = 2]
Packed(c)   == [c EXCEPT !.pad = 5]        \* beside a longer sequence
Decode(causal, q, k, fresh, cache, splits) ==
    [Call("decode", causal, q, k) EXCEPT !.fresh = fresh, !.cache = cache,
        !.splits = splits, !.counted = cache > k]

Shapes == {<<1, 1>>, <<4, 4>>, <<5, 5>>, <<3, 7>>, <<2, 9>>, <<7, 3>>, <<9, 2>>, <<6, 8>>}
Backward == {"split", "onekernel", "fused", "pair"}
Forward  == {"prefill", "fusedfwd"}

SmallCalls ==
    {Call(f, causal, s[1], s[2]) :
        f \in Backward \cup Forward, causal \in BOOLEAN, s \in Shapes}
    \cup {Grouped(Call(f, causal, 3, 5)) : f \in Backward \cup Forward, causal \in BOOLEAN}
    \cup {Packed(Call(f, causal, 3, 4)) : f \in Backward \cup Forward, causal \in BOOLEAN}
    \cup {Packed(Call(f, TRUE, 4, 0)) : f \in Backward \cup Forward}
    \cup {Decode(FALSE, 1, 6, 0, 6, 2), Decode(TRUE, 2, 6, 2, 6, 2),
          Decode(TRUE, 2, 5, 2, 7, 2), Grouped(Decode(FALSE, 1, 5, 1, 8, 2)),
          Decode(FALSE, 1, 7, 3, 7, 3), Decode(TRUE, 3, 2, 1, 6, 3)}

CompiledTable == LET calls == SmallCalls IN [c \in calls |-> Launches(c)]
=============================================================================
