--------------------------- MODULE TritonPrograms ---------------------------
(***************************************************************************)
(* What each program of a Triton kernel (flash_attn_triton_amd) does for   *)
(* one sequence and one KV head: which blocks of the score matrix its      *)
(* inner loops add up, what it stores, in which order.  Every kernel cuts  *)
(* the matrix in its own way: forward by rows, backward by keys for dK and *)
(* dV and again by rows for dQ (or by keys with atomic adds), decoding by  *)
(* ranges of keys whose partial results a second kernel reduces.           *)
(*                                                                         *)
(* A score is a pair <<query head, row, key>>.                             *)
(***************************************************************************)
EXTENDS Integers, Sequences, FiniteSets, SequencesExt

CONSTANT Block   \* by family of kernels, its tile sizes; see BlockAssumption

Families == {"split", "onekernel", "fused", "pair", "prefill", "fusedfwd", "decode"}

\* m1 x n1: a step of a program with a block of keys; m2 x n2: of one with
\* a block of rows; slice: into how many parts a step on the diagonal goes.
ASSUME BlockAssumption ==
    /\ DOMAIN Block = Families
    /\ \A f \in Families :
         LET b == Block[f] IN
         /\ {b.m1, b.n1, b.m2, b.n2, b.slice} \subseteq Nat \ {0}
         /\ b.m1 % b.slice = 0 /\ b.n2 % b.slice = 0 /\ b.m2 % b.n2 = 0
    /\ Block.onekernel.n1 = Block.onekernel.m2

Smaller(a, b) == IF a < b THEN a ELSE b
Larger(a, b)  == IF a > b THEN a ELSE b
CeilDiv(a, b) == (a + b - 1) \div b

\* A call: the kernels, causal or not, the length of the sequence's queries
\* and keys, the query heads of a KV head, by how much the longest sequence
\* of the batch is longer; for decoding the room of the cache, the keys to
\* be appended, the splits, and whether the cache's length is given.
IsCall(c) ==
    /\ c.kernel \in Families /\ c.causal \in BOOLEAN /\ c.counted \in BOOLEAN
    /\ {c.q, c.group, c.splits} \subseteq Nat \ {0}
    /\ {c.k, c.pad, c.fresh} \subseteq Nat /\ c.cache \in Nat
    /\ c.k <= c.cache /\ c.fresh <= c.k
    /\ ~c.counted => c.cache = c.k

B(c)     == Block[c.kernel]
Heads(c) == 0 .. c.group - 1
Rows(c)  == 0 .. c.q - 1
Keys(c)  == 0 .. c.k - 1
Delta(c) == c.q - c.k                                         \* delta_qk

Seen(c, row, key) == c.causal => row - Delta(c) >= key
Allowed(c) == {s \in Heads(c) \X Rows(c) \X Keys(c) : Seen(c, s[2], s[3])}

\* Buffers.  Memory nobody wrote holds scores of no row or of no key.
OutRows == 0                    \* O, or dQ
OutKeys == 1                    \* dK and dV
Partial(s) == 2 + s             \* decoding: the result of a split
Nothing == -1

-----------------------------------------------------------------------------
(* The steps of a program.                                                 *)

Sum(S)    == [op |-> "sum", pairs |-> S]          \* into its registers
Add(S)    == [op |-> "add", pairs |-> S]          \* and atomically to dQ
Enter(S)  == [op |-> "append", keys |-> S]        \* new keys to the cache

\* The registers to the part of a buffer that is the program's own.
Store(buf, heads, rows, keys) ==
    [op |-> "store", buf |-> buf, heads |-> heads, rows |-> rows, keys |-> keys]
StoreKeys(c, ks) == Store(OutKeys, Heads(c), Rows(c) \cup {Nothing}, ks)
StoreRows(c, buf, h, rs) == Store(buf, {h}, rs, (0 .. c.cache) \cup {Nothing})
Reduce(c, h, r) == [op |-> "reduce", head |-> h, row |-> r]

\* steps blocks of size, from the first row or key on.
Span(first, steps, size) ==
    [i \in 1 .. Larger(steps, 0) |-> first + (i - 1) * size .. first + i * size - 1]

Scores(c, h, rows, keys, mask) ==
    {s \in {h} \X (rows \cap Rows(c)) \X keys : mask => Seen(c, s[2], s[3])}

\* Wrong, for the checks: without the mask on the keys.
KeyBlockWhole(c, p) == p * B(c).n1 .. (p + 1) * B(c).n1 - 1
KeyBlock(c, p) == (p * B(c).n1 .. (p + 1) * B(c).n1 - 1) \cap Keys(c)
RowBlock(c, p) == (p * B(c).m2 .. (p + 1) * B(c).m2 - 1) \cap Rows(c)

\* _bwd_dkdv_inner: the keys of the program against a span of rows.
DkdvInner(c, h, p, span, mask) ==
    Sum(UNION {Scores(c, h, span[i], KeyBlock(c, p), mask) : i \in DOMAIN span})

\* _bwd_dq_inner: the rows of the program against a span of keys, up to end.
DqInner(c, h, p, span, end, mask) ==
    Sum(UNION {Scores(c, h, RowBlock(c, p), span[i] \cap 0 .. end - 1, mask) :
                 i \in DOMAIN span})

\* _bwd_dkdvdq_inner: each program starts at another block of rows, so that
\* fewer add to the same rows of dQ at once.
Rotated(p, n) == [i \in 1 .. n |-> ((p * 17 + i - 1) % n) + 1]
DkdvDqInner(c, h, p, span, mask) ==
    LET order == Rotated(p, Len(span)) IN
    [i \in DOMAIN span |-> Add(Scores(c, h, span[order[i]], KeyBlock(c, p), mask))]

-----------------------------------------------------------------------------
(* Where the diagonal crosses a program's keys or rows.                    *)

\* start_m of the masked steps over the rows.
DiagonalStart(c, p) ==
    LET first == p * B(c).n1 + Delta(c) IN
    IF Delta(c) >= 0 THEN first
    ELSE (Larger(first, 0) \div B(c).m1) * B(c).m1

DiagonalLength(c, p) ==
    Smaller(c.q, B(c).n1 + (IF Delta(c) >= 0 THEN 0
                            ELSE Larger(p * B(c).n1 + Delta(c) - DiagonalStart(c, p), 0)))

MaskM(c) == B(c).m1 \div B(c).slice                      \* MASK_BLOCK_M
MaskN(c) == B(c).n2 \div B(c).slice                      \* MASK_BLOCK_N

\* Whether a block of keys has no masked step (pid < num_blocks_skip).
BeforeDiagonal(c, p) == p < (-Delta(c)) \div B(c).n1
DiagonalSteps(c, p) == CeilDiv(DiagonalLength(c, p), MaskM(c))

MaskedRows(c, p, steps) == Span(DiagonalStart(c, p), steps, MaskM(c))
RowsBelow(c, p, steps) ==
    LET first == DiagonalStart(c, p) + steps * MaskM(c)
    IN  Span(first, CeilDiv(c.q - first, B(c).m1), B(c).m1)

PerHead(c, F(_)) == FlattenSeq([i \in 1 .. c.group |-> F(i - 1)])

\* dK and dV of a block of keys.
DkdvCausal(c, p) ==
    LET steps == IF BeforeDiagonal(c, p) THEN 0 ELSE DiagonalSteps(c, p)
        OfHead(h) == <<DkdvInner(c, h, p, MaskedRows(c, p, steps), TRUE),
                       DkdvInner(c, h, p, RowsBelow(c, p, steps), FALSE)>>
    IN  PerHead(c, OfHead) \o <<StoreKeys(c, KeyBlock(c, p))>>
DkdvNoncausal(c, p) ==
    LET OfHead(h) == <<DkdvInner(c, h, p, Span(0, CeilDiv(c.q, B(c).m1), B(c).m1), FALSE)>>
    IN  PerHead(c, OfHead) \o <<StoreKeys(c, KeyBlock(c, p))>>

\* dQ of a block of rows, from the diagonal back to the first key.
RowsSeeNothing(c, p) == (p + 1) * B(c).m2 < Delta(c)
DqCausal(c, p) ==
    LET end   == Larger(Smaller((p + 1) * B(c).m2 - Delta(c), c.k), 0)
        first == Larger(end - B(c).m2, 0)
        steps == CeilDiv(end - first, MaskN(c))
        rest  == end - steps * MaskN(c)
        more  == CeilDiv(rest, B(c).n2)
        OfHead(h) ==
          <<DqInner(c, h, p, Span(first, steps, MaskN(c)), end, TRUE),
            DqInner(c, h, p, Span(Larger(rest - more * B(c).n2, 0), more, B(c).n2),
                    rest, FALSE),
            StoreRows(c, OutRows, h, RowBlock(c, p))>>
    IN  IF RowsSeeNothing(c, p) THEN <<>> ELSE PerHead(c, OfHead)
DqNoncausal(c, p) ==
    LET OfHead(h) == <<DqInner(c, h, p, Span(0, CeilDiv(c.k, B(c).n2), B(c).n2), c.k, FALSE),
                       StoreRows(c, OutRows, h, RowBlock(c, p))>>
    IN  PerHead(c, OfHead)

-----------------------------------------------------------------------------
(* bwd_prefill_split.py: a kernel for dK and dV, then one for dQ.          *)

SplitDkdvCausal(c, p)    == DkdvCausal(c, p)
SplitDkdvNoncausal(c, p) == DkdvNoncausal(c, p)
SplitDqCausal(c, p)      == DqCausal(c, p)
SplitDqNoncausal(c, p)   == DqNoncausal(c, p)

(* bwd_prefill_onekernel.py: one kernel, whose programs do both in turn    *)
(* where the block number is one of a block of keys, or of rows.           *)

HasKeys(c, p) == p * B(c).n1 < c.k
HasRows(c, p) == p * B(c).m2 < c.q
OneKernelDkdvCausal(c, p)    == IF HasKeys(c, p) THEN DkdvCausal(c, p) ELSE <<>>
OneKernelDqCausal(c, p)      == IF HasRows(c, p) THEN DqCausal(c, p) ELSE <<>>
OneKernelCausal(c, p)        == OneKernelDkdvCausal(c, p) \o OneKernelDqCausal(c, p)
OneKernelNoncausal(c, p) ==
    (IF HasKeys(c, p) THEN DkdvNoncausal(c, p) ELSE <<>>)
    \o (IF HasRows(c, p) THEN DqNoncausal(c, p) ELSE <<>>)

(* bwd_prefill_fused.py: the programs of the blocks of keys add to dQ too  *)
(* (fused), or two kernels as in bwd_prefill_split.py (pair).              *)

DkdvDqCausal(c, p) ==
    LET steps == DiagonalSteps(c, p)
        OfHead(h) == DkdvDqInner(c, h, p, MaskedRows(c, p, steps), TRUE)
                     \o DkdvDqInner(c, h, p, RowsBelow(c, p, steps), FALSE)
    IN  PerHead(c, OfHead) \o <<StoreKeys(c, KeyBlock(c, p))>>
DkdvDqNoncausal(c, p) ==
    LET OfHead(h) == DkdvDqInner(c, h, p, Span(0, CeilDiv(c.q, B(c).m1), B(c).m1), FALSE)
    IN  PerHead(c, OfHead) \o <<StoreKeys(c, KeyBlock(c, p))>>
PairDkdvCausal(c, p)    == DkdvCausal(c, p)
PairDkdvNoncausal(c, p) == DkdvNoncausal(c, p)
PairDqCausal(c, p)      == DqCausal(c, p)
PairDqNoncausal(c, p)   == DqNoncausal(c, p)

-----------------------------------------------------------------------------
(* fwd_prefill.py and the forward kernel of bwd_prefill_fused.py.          *)

\* n_blocks: the blocks of keys a block of rows sees.
BlocksSeen(c, p) ==
    LET all == CeilDiv(c.k, B(c).n2) IN
    IF c.causal THEN Smaller(all, CeilDiv((p + 1) * B(c).m2 - Delta(c), B(c).n2)) ELSE all

\* n_extra_tokens
ExtraKeys(c) == IF c.k < B(c).n2 THEN B(c).n2 - c.k ELSE c.k % B(c).n2
BlocksMasked(c, p) ==
    LET padded == ExtraKeys(c) # 0
        modulo == ~padded /\ c.q % B(c).m2 = 0
    IN  Smaller(BlocksSeen(c, p),
                IF c.causal THEN B(c).m2 \div B(c).n2 + (IF modulo THEN 0 ELSE 1)
                ELSE IF padded THEN 1 ELSE 0)

\* _attn_fwd_inner over the blocks from .. upto - 1.  Keys beyond the last
\* one are masked in the last block of the masked steps only.
FwdInner(c, h, p, from, upto, masked) ==
    LET n == B(c).n2
        Held(i) == IF masked /\ i + 1 = upto /\ ExtraKeys(c) # 0
                   THEN (i * n .. (i + 1) * n - 1) \cap Keys(c)
                   ELSE i * n .. (i + 1) * n - 1
    IN  Sum(UNION {Scores(c, h, RowBlock(c, p), Held(i), masked) : i \in from .. upto - 1})

AttnFwd(c, p, h) ==
    LET seen == BlocksSeen(c, p)
        full == seen - BlocksMasked(c, p)
        store == StoreRows(c, OutRows, h, RowBlock(c, p))
    IN  IF p * B(c).m2 > c.q THEN <<>>
        ELSE IF seen <= 0 THEN <<store>>
        ELSE <<FwdInner(c, h, p, 0, full, FALSE),
               FwdInner(c, h, p, full, seen, TRUE), store>>
FusedAttnFwd(c, p, h) == AttnFwd(c, p, h)

-----------------------------------------------------------------------------
(* fwd_decode.py                                                           *)

SplitSize(c) == CeilDiv(c.cache, c.splits)
BoundsChecks(c) == SplitSize(c) % B(c).n2 > 0 \/ c.counted
Fresh(c) == c.k - c.fresh .. c.k - 1        \* where the new keys go

\* Every program appends all the new keys, whatever its split.
AppendNew(c) == IF c.fresh = 0 THEN <<>> ELSE <<Enter(Fresh(c))>>

ScoreSplit(c, p, h, s) ==
    LET n  == B(c).n2
        lo == s * SplitSize(c)
        hi == Smaller((s + 1) * SplitSize(c), c.k)
        blocks == CeilDiv(hi - lo, n)
        held == lo .. IF BoundsChecks(c) THEN hi - 1 ELSE lo + blocks * n - 1
    IN  Sum(Scores(c, h, RowBlock(c, p), held, c.causal))

\* Wrong, for the checks: only the first split appends.
FwdSplitKFirst(c, p, h, s) ==
    (IF s = 0 THEN AppendNew(c) ELSE <<>>)
    \o <<ScoreSplit(c, p, h, s), StoreRows(c, Partial(s), h, RowBlock(c, p))>>
FwdSplitK(c, p, h, s) ==
    AppendNew(c) \o <<ScoreSplit(c, p, h, s), StoreRows(c, Partial(s), h, RowBlock(c, p))>>
SplitKReduce(c, h, r) == <<Reduce(c, h, r)>>

-----------------------------------------------------------------------------
(* The launches of a call: its kernels in order, the programs of each.     *)

KeyPrograms(c) == 0 .. CeilDiv(c.k + c.pad, B(c).n1) - 1
RowPrograms(c) == 0 .. CeilDiv(c.q + c.pad, B(c).m2) - 1
Over(ps) == {<<p>> : p \in ps}

Launch(grid, Text(_)) == [p \in grid |-> Text(p)]

SplitBackward(c) ==
    LET Dkdv(p) == IF c.causal THEN SplitDkdvCausal(c, p[1]) ELSE SplitDkdvNoncausal(c, p[1])
        Dq(p)   == IF c.causal THEN SplitDqCausal(c, p[1]) ELSE SplitDqNoncausal(c, p[1])
    IN  <<Launch(Over(KeyPrograms(c)), Dkdv), Launch(Over(RowPrograms(c)), Dq)>>

OneKernelBackward(c) ==
    LET Both(p) == IF c.causal THEN OneKernelCausal(c, p[1]) ELSE OneKernelNoncausal(c, p[1])
        longest == Larger(c.q, c.k) + c.pad
    IN  <<Launch(Over(0 .. CeilDiv(longest, B(c).n1) - 1), Both)>>

FusedBackward(c) ==
    LET All(p)  == IF c.causal THEN DkdvDqCausal(c, p[1]) ELSE DkdvDqNoncausal(c, p[1])
        Dkdv(p) == IF c.causal THEN PairDkdvCausal(c, p[1]) ELSE PairDkdvNoncausal(c, p[1])
        Dq(p)   == IF c.causal THEN PairDqCausal(c, p[1]) ELSE PairDqNoncausal(c, p[1])
    IN  IF c.kernel = "fused" THEN <<Launch(Over(KeyPrograms(c)), All)>>
        ELSE <<Launch(Over(KeyPrograms(c)), Dkdv), Launch(Over(RowPrograms(c)), Dq)>>

PrefillForward(c) ==
    LET Text(p) == AttnFwd(c, p[1], p[2]) IN
    <<Launch(RowPrograms(c) \X Heads(c), Text)>>
FusedForward(c) ==
    LET Text(p) == FusedAttnFwd(c, p[1], p[2]) IN
    <<Launch(RowPrograms(c) \X Heads(c), Text)>>

DecodeForward(c) ==
    LET Split(p) == FwdSplitK(c, p[1], p[2], p[3])
        Row(p)   == SplitKReduce(c, p[1], p[2])
    IN  <<Launch(RowPrograms(c) \X Heads(c) \X (0 .. c.splits - 1), Split),
          Launch(Heads(c) \X Rows(c), Row)>>

Launches(c) ==
    CASE c.kernel = "split"     -> SplitBackward(c)
      [] c.kernel = "onekernel" -> OneKernelBackward(c)
      [] c.kernel \in {"fused", "pair"} -> FusedBackward(c)
      [] c.kernel = "prefill"   -> PrefillForward(c)
      [] c.kernel = "fusedfwd"  -> FusedForward(c)
      [] c.kernel = "decode"    -> DecodeForward(c)

IsBackward(c) == c.kernel \in {"split", "onekernel", "fused", "pair"}
=============================================================================
