-------------------------- MODULE MCBackwardOrder --------------------------
(* Calls of the deterministic backward kernels. *)
EXTENDS BackwardOrder

\* A call of the SM100 kernel with one head, and what may differ from it.
Plain ==
    [arch |-> "sm100", cluster |-> 1, mask |-> "none", left |-> Unbounded, right |-> Unbounded,
     seqlenQ |-> 4, seqlenK |-> 4, spt |-> FALSE, wide |-> FALSE, sparse |-> FALSE,
     stages |-> 2, staging |-> 2, subtile |-> 1, hbs |-> 1, group |-> 1, swizzle |-> 1,
     partial |-> {}, full |-> {}, resident |-> 3]

Causal(q, k) == [Plain EXCEPT !.mask = "causal", !.spt = TRUE, !.seqlenQ = q, !.seqlenK = k]
Window(l, r, q, k) ==
    [Plain EXCEPT !.mask = "local", !.left = l, !.right = r, !.seqlenQ = q, !.seqlenK = k]

\* Row blocks 0 to 3, two to a sparse one; the last lies behind the sequence.
Sparse ==
    [Plain EXCEPT !.sparse = TRUE, !.subtile = 2, !.seqlenQ = 6, !.seqlenK = 6, !.stages = 1,
                  !.partial = {<<0, 0, 1>>, <<0, 1, 0>>, <<0, 2, 1>>},
                  !.full = {<<0, 0, 0>>, <<0, 2, 0>>}]

\* Two heads of a group, and three heads in L2 sections of two.
Grouped == [Plain EXCEPT !.seqlenQ = 2, !.stages = 1, !.hbs = 2, !.group = 2]
Sections == [Plain EXCEPT !.seqlenQ = 2, !.stages = 1, !.hbs = 3, !.swizzle = 2]

\* Short sequences of all lengths, one add to a row block.
Short(q, k) == {[c EXCEPT !.stages = 1] :
                   c \in {[Plain EXCEPT !.seqlenQ = q, !.seqlenK = k], Causal(q, k)}
                         \cup {[Window(w[1], w[2], q, k) EXCEPT !.spt = TRUE] :
                                 w \in {<<0, 0>>, <<2, 1>>, <<1, Unbounded>>, <<Unbounded, 1>>}}}

\* SM90: a group of two heads whose first block of keys no row looks at.
EmptyBlock ==
    [Window(0, 0, 2, 4) EXCEPT !.arch = "sm90", !.spt = TRUE, !.stages = 1, !.hbs = 2, !.group = 2]

Kernels ==
    UNION {Short(q, k) : q \in 1..4, k \in 1..5}
    \cup {
    Plain, Causal(3, 6), Causal(6, 5), Causal(2, 8), [Plain EXCEPT !.cluster = 2, !.seqlenK = 7],
    Window(2, 0, 6, 6),
    [Window(1, 1, 5, 6) EXCEPT !.spt = TRUE],
    [Causal(4, 8) EXCEPT !.cluster = 2, !.wide = TRUE],
    [Causal(4, 8) EXCEPT !.cluster = 2, !.wide = TRUE, !.staging = 1],
    [Causal(4, 6) EXCEPT !.arch = "sm90"],
    Sparse, [Sparse EXCEPT !.spt = TRUE],
    Grouped, [Grouped EXCEPT !.swizzle = 2, !.arch = "sm90"],
    Sections, EmptyBlock}

\* Each on a device that holds most of its CTAs together, and on one that holds
\* a single CTA, which must end before the next is launched.
Sound == {[c EXCEPT !.resident = r] : c \in Kernels, r \in {1, 3}}

=============================================================================
