------------------------- MODULE WideForwardPrograms -------------------------
(***************************************************************************)
(* The forward kernel at head dimension 256: a pair of CTAs takes a query  *)
(* tile through the blocks of K and V, both in halves of the head          *)
(* dimension.  In each CTA a load warp fills shared memory, four softmax   *)
(* warps turn S into P and four correction warps rescale O and write it    *)
(* out; the MMA warp of the leading CTA drives the tensor cores of both.   *)
(***************************************************************************)
EXTENDS WarpSteps

\* A grid of tiles, each with its own CTAs (is_persistent and use_clc_scheduler are off).
Launches ==
    [kernel : {"wide"}, tiles : {1}, blocks : Nat \ {0}, reorder : BOOLEAN]

Cta == {0, 1}
Halves == 2         \* iterations_qk = iterations_pv

-----------------------------------------------------------------------------
(* Memory and barriers.                                                    *)

\* First column and width in tensor memory, by slot.  P takes the place of S, and so do
\* the statistics for the correction; Sh is S after the first half of K, Or is O rescaled.
Columns(name, s) ==
    CASE name \in {"S", "Sh"} -> <<s * 128, 128>>
      [] name = "P"     -> <<s * 128, 64>>
      [] name = "stats" -> <<s * 128 + 64, 2>>
      [] name \in {"O", "Or"} -> <<256 + s * 128, 128>>

Overlap(t, x, y) ==
    LET tensors == {"S", "Sh", "P", "stats", "O", "Or"}
    IN  /\ {x[1], y[1]} \subseteq tensors
        /\ Meet(Columns(x[1], x[2]), Columns(y[1], y[2]))

\* Stages; arrivals of both CTAs where the leader waits.
Pipes ==
    [load_q   |-> Pipe("load_q", Halves, 2, 1), load_kv |-> Pipe("load_kv", 4, 2, 1),
     mma_s    |-> Pipe("mma_s", 2, 1, 2),       p_mma   |-> Pipe("p_mma", 2, 2, 1),
     s_corr   |-> Pipe("s_corr", 2, 1, 1),      sum     |-> Pipe("sum", 1, 1, 1),
     mma_corr |-> Pipe("mma_corr", 1, 1, 2)]

FullOf(pipe, n)  == {Full(Pipes[pipe], n, c) : c \in Cta}
EmptyOf(pipe, n) == {Empty(Pipes[pipe], n, c) : c \in Cta}
Got(pipe, n, c)   == Take(Pipes[pipe], n, c)
Space(pipe, n, c) == Room(Pipes[pipe], n, c)
Gone(pipe, n, c)  == Drained(Pipes[pipe], n, c)

\* The ring holds K of block 0, then K of block b and V of the block before it, last V.
KUse(b, h)    == (IF b = 0 THEN 0 ELSE Halves * (2 * b - 1)) + h
VUse(t, b, h) == (IF b = t.blocks - 1 THEN Halves * (2 * b + 1) ELSE Halves * (2 * b + 2)) + h
KvSlot(n) == Slot(Pipes.load_kv, n)

-----------------------------------------------------------------------------
(* The load warp.                                                          *)

LoadWarp(t, c) ==
    LET Get(pipe, n, value, to) ==
            Load(t.reorder, {Space(pipe, n, c)}, Effect({Fill(value, to)}, {Full(Pipes[pipe], n, 0)}))
        Q(h) == << Get("load_q", h, Of(1, 0), <<"Q", h, c>>) >>
        Kv(name, n, b) == << Get("load_kv", n, Of(1, b + 1), <<name, KvSlot(n), c>>) >>
        K(b) == LET Half(h) == Kv("K", KUse(b, h), b) IN Loop(0, Halves - 1, Half)
        V(b) == LET Half(h) == Kv("V", VUse(t, b, h), b) IN Loop(0, Halves - 1, Half)
        Block(b) == K(b) \o V(b - 1)
    IN  Loop(0, Halves - 1, Q) \o K(0) \o Loop(1, t.blocks - 1, Block) \o V(t.blocks - 1)
        \o << Wait({Gone("load_kv", 2 * Halves * t.blocks, c), Gone("load_q", Halves, c)}) >>

-----------------------------------------------------------------------------
(* The MMA warp of the leading CTA.                                        *)

Both(name, slot) == {<<name, slot, c>> : c \in Cta}
SSlot(b) == Slot(Pipes.mma_s, b)
PSlot(b) == Slot(Pipes.p_mma, b)

\* S = Q @ K.T by halves of what is summed over; O += P @ V by halves of the columns of O.
QK(t, b, h) ==
    LET n == KUse(b, h)
        before == IF h = 0 THEN {} ELSE {"Sh"}
        after  == IF h = Halves - 1 THEN "S" ELSE "Sh"
        last   == h = Halves - 1
        Half(c) == Put({<<"Q", h, c>>} \cup Both("K", KvSlot(n)) \cup {<<x, SSlot(b), c>> : x \in before},
                       <<after, SSlot(b), c>>)
    IN  Issue({Got("load_kv", n, 0)} \cup (IF h = 0 THEN {Space("mma_s", b, 0)} ELSE {})
                  \cup (IF b = 0 THEN {Got("load_q", h, 0)} ELSE {}),
              << Effect({Half(c) : c \in Cta},
                        EmptyOf("load_kv", n) \cup (IF last THEN FullOf("mma_s", b) ELSE {})
                            \cup (IF b = t.blocks - 1 THEN EmptyOf("load_q", h) ELSE {})) >>)

PV(t, b, h) ==
    LET n == VUse(t, b, h)
        before == IF b = 0 THEN {} ELSE {"Or"}
        Half(c) == Put({<<"P", PSlot(b), c>>} \cup Both("V", KvSlot(n)) \cup {<<x, h, c>> : x \in before},
                       <<"O", h, c>>)
    IN  Issue({Got("load_kv", n, 0)}
                  \cup (IF h = 0 THEN {Got("p_mma", b, 0), Space("mma_corr", b, 0)} ELSE {}),
              << Effect({Half(c) : c \in Cta},
                        EmptyOf("load_kv", n)
                            \cup (IF h = Halves - 1 THEN FullOf("mma_corr", b) \cup EmptyOf("p_mma", b)
                                  ELSE {})) >>)

Mma(t) ==
    LET MmaS(b) == LET Half(h) == << QK(t, b, h) >> IN Loop(0, Halves - 1, Half)
        MmaO(b) == LET Half(h) == << PV(t, b, h) >> IN Loop(0, Halves - 1, Half)
        Block(b) == MmaS(b) \o MmaO(b - 1)
    IN  MmaS(0) \o Loop(1, t.blocks - 1, Block) \o MmaO(t.blocks - 1)
        \o << Wait({Gone("mma_s", t.blocks, 0), Gone("mma_corr", t.blocks, 0)}) >>

-----------------------------------------------------------------------------
(* Softmax and correction.                                                 *)

\* S is given back before P and the statistics are written in its place.
SoftmaxStep(c, b) ==
    LET rS == <<"rS", 0, c>>
        To(name) == Effect({Put({rS}, <<name, SSlot(b), c>>)}, {})
    IN  << Step({Got("mma_s", b, c)},
                Effect({Put({<<"S", SSlot(b), c>>}, rS)}, {Empty(Pipes.mma_s, b, 0)})),
           Step({Space("s_corr", b, c)}, [To("stats") EXCEPT !.arrive = {Full(Pipes.s_corr, b, c)}]),
           Step({Space("p_mma", b, c)}, [To("P") EXCEPT !.arrive = {Full(Pipes.p_mma, b, 0)}]) >>

Softmax(t, c) ==
    LET Block(b) == SoftmaxStep(c, b)
    IN  Loop(0, t.blocks - 1, Block)
        \o << Step({Space("sum", 0, c)},
                   Effect({Put({<<"rS", 0, c>>}, <<"sSum", 0, c>>)}, {Full(Pipes.sum, 0, c)})),
              Wait({Gone("p_mma", t.blocks, c), Gone("s_corr", t.blocks, c)}) >>

Rescale(c, b) ==
    LET stats == <<"stats", SSlot(b), c>>
        scale == <<"scale", 0, c>>
        Half(h) == PutAfter(<<"O", h, c>>, {scale}, <<"Or", h, c>>)
    IN  << Step({Got("s_corr", b, c)},
                Effect({Put({stats}, scale)}, {Empty(Pipes.s_corr, b, c)})),
           Step({Got("mma_corr", b - 1, c)},
                Effect({Half(h) : h \in 0..(Halves - 1)}, {Empty(Pipes.mma_corr, b - 1, 0)})) >>

Correction(t, c) ==
    LET last == t.blocks - 1
        sum == <<"row_sum", 0, c>>
        Block(b) == Rescale(c, b)
    IN  << Step({Got("s_corr", 0, c)}, Signal({Empty(Pipes.s_corr, 0, c)})) >>
        \o Loop(1, last, Block)
        \o << Step({Got("sum", 0, c)},
                   Effect({Put({<<"sSum", 0, c>>}, sum)}, {Empty(Pipes.sum, 0, c)})),
              Step({Got("mma_corr", last, c)},
                   Effect({Put({<<"O", h, c>>, sum}, <<"gO", h, c>>) : h \in 0..(Halves - 1)},
                          {Empty(Pipes.mma_corr, last, 0)})) >>

-----------------------------------------------------------------------------
Roles(t) == {<<"mma", 0>>} \cup ({"load", "softmax", "correction"} \X Cta)

Program(t, r) ==
    CASE r[1] = "mma" -> Mma(t) [] r[1] = "load" -> LoadWarp(t, r[2])
      [] r[1] = "softmax" -> Softmax(t, r[2]) [] r[1] = "correction" -> Correction(t, r[2])

Result(t) == [r \in {"gO"} \X (0..(Halves - 1)) \X Cta |-> Of(1, t.blocks)]
=============================================================================
