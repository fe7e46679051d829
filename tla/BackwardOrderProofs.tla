------------------------ MODULE BackwardOrderProofs ------------------------
(***************************************************************************)
(* BackwardOrder for calls of any size, any number of CTAs and any windows. *)
(***************************************************************************)
EXTENDS BackwardOrder, FiniteSetTheorems, SequenceTheorems, TLAPS

LEMMA DivBounds ==
    ASSUME NEW a \in Int, NEW b \in Nat \ {0}
    PROVE  /\ a \div b \in Int /\ (a \div b) * b <= a /\ a < (a \div b) * b + b
           /\ a % b = a - (a \div b) * b /\ a % b \in 0..(b - 1)
           /\ a = (a \div b) * b + (a % b) /\ (a >= 0 => a \div b >= 0)
OBVIOUS

LEMMA DivUnique ==
    ASSUME NEW a \in Int, NEW b \in Nat \ {0}, NEW q \in Int, q * b <= a, a < q * b + b
    PROVE  a \div b = q /\ a % b = a - q * b
OBVIOUS

LEMMA CeilDivPositive ==
    ASSUME NEW a \in Nat \ {0}, NEW b \in Nat \ {0} PROVE CeilDiv(a, b) \in Nat \ {0}
BY DEF CeilDiv

-----------------------------------------------------------------------------
(* SingleTileLPTBwdScheduler hands out every block of every head.          *)

LEMMA NumBlockPositive == ASSUME NEW c, IsCall(c) PROVE NumBlock(c) \in Nat \ {0}
<1>1. c.seqlenK \in Nat \ {0} /\ TileN \in Nat \ {0} /\ c.cluster \in Nat \ {0}
  BY CallsAssumption DEF IsCall
<1>2. CeilDiv(c.seqlenK, TileN) \in Nat \ {0}
  BY <1>1, CeilDivPositive
<1> QED
  BY <1>1, <1>2, CeilDivPositive DEF NumBlock

\* A product grows with its factor.
LEMMA Times ==
    ASSUME NEW a \in Int, NEW b \in Int, NEW w \in Nat, a <= b
    PROVE  a * w <= b * w /\ a * w \in Int /\ b * w \in Int
OBVIOUS

LEMMA TimesLess ==
    ASSUME NEW a \in Int, NEW b \in Int, NEW w \in Nat, a * w < b * w
    PROVE  a < b
OBVIOUS

LEMMA Product ==
    ASSUME NEW x \in Nat, NEW y \in Nat, NEW z \in Nat PROVE x * (y * z) = (x * z) * y
OBVIOUS

\* The tiles of an L2 section: blocks outside, its heads inside.
Sections(c) == c.hbs \div c.swizzle
Width(c, s) == IF s < Sections(c) THEN c.swizzle ELSE Larger(c.hbs % c.swizzle, 1)

LEMMA SectionHeads ==
    ASSUME NEW c, IsCall(c)
    PROVE  /\ Sections(c) \in Nat /\ c.hbs % c.swizzle \in Nat
           /\ c.hbs = Sections(c) * c.swizzle + (c.hbs % c.swizzle)
           /\ c.hbs % c.swizzle < c.swizzle
           /\ \A s : Width(c, s) \in Nat \ {0} /\ Width(c, s) <= c.swizzle
<1>1. c.hbs \in Nat \ {0} /\ c.swizzle \in Nat \ {0}
  BY DEF IsCall
<1>2. c.hbs \in Int
  BY <1>1
<1>3. /\ Sections(c) \in Int /\ Sections(c) * c.swizzle <= c.hbs
      /\ c.hbs < Sections(c) * c.swizzle + c.swizzle
      /\ c.hbs % c.swizzle = c.hbs - Sections(c) * c.swizzle
      /\ c.hbs % c.swizzle \in 0..(c.swizzle - 1)
  BY <1>1, <1>2, DivBounds DEF Sections
<1>4. Sections(c) \in Nat /\ c.hbs % c.swizzle \in Nat
  BY <1>1, <1>3
<1>5. \A s : Width(c, s) = c.swizzle \/ Width(c, s) = Larger(c.hbs % c.swizzle, 1)
  BY DEF Width
<1>6. \A s : Width(c, s) \in Nat \ {0} /\ Width(c, s) <= c.swizzle
  BY <1>1, <1>3, <1>4, <1>5 DEF Larger
<1> QED
  BY <1>1, <1>3, <1>4, <1>6

\* Where a tile lies in its section.
LEMMA TileIsPlaced ==
    ASSUME NEW c, IsCall(c), NEW t \in Tiles(c)
    PROVE  \E s \in Nat, b \in 0..(NumBlock(c) - 1), r \in Nat :
              /\ r < Width(c, s) /\ s * c.swizzle + r < c.hbs
              /\ t = s * (c.swizzle * NumBlock(c)) + b * Width(c, s) + r
              /\ HeadBatch(c, t) = s * c.swizzle + r
              /\ NBlockOf(c, t) = IF c.spt THEN NumBlock(c) - 1 - b ELSE b
<1> DEFINE nb == NumBlock(c)   w == c.swizzle   size == w * nb
           s == t \div size    l == t % size    v == Width(c, s)
           b == l \div v       r == l % v
<1>1. nb \in Nat \ {0} /\ w \in Nat \ {0} /\ c.hbs \in Nat \ {0}
  BY NumBlockPositive DEF IsCall
<1>2. size \in Nat \ {0}
  BY <1>1
<1>3. t \in Nat /\ t < nb * c.hbs
  BY <1>1 DEF Tiles
<1>4. /\ SectionWidth(c, t) = v /\ Section(c, t) = s /\ L2Mod(c, t) = l
      /\ HeadBatch(c, t) = s * w + r
      /\ NBlockOf(c, t) = IF c.spt THEN nb - 1 - b ELSE b
  BY DEF SectionWidth, Section, L2Mod, HeadBatch, NBlockOf, Width, Sections
<1>5. t = s * size + l /\ l \in 0..(size - 1) /\ s \in Nat
  <2> HIDE DEF size
  <2>1. t \in Int /\ t >= 0
    BY <1>3
  <2>2. /\ s \in Int /\ t = s * size + l /\ l \in 0..(size - 1) /\ (t >= 0 => s >= 0)
    BY <1>2, <2>1, DivBounds
  <2> QED
    BY <2>1, <2>2
<1>6. v \in Nat \ {0} /\ v <= w
  BY SectionHeads
<1> HIDE DEF s, l, v
<1>7. b \in Int /\ l = b * v + r /\ r \in 0..(v - 1)
  <2>1. l \in Int
    BY <1>2, <1>5
  <2> QED
    BY <1>6, <2>1, DivBounds
<1> HIDE DEF b, r, nb, w
<1> DEFINE f == Sections(c)   rem == c.hbs % c.swizzle
<1>8. f \in Nat /\ rem \in Nat /\ c.hbs = f * w + rem /\ rem < w
  BY SectionHeads DEF w
<1>9. v = IF s < f THEN w ELSE Larger(rem, 1)
  BY DEF v, Width, w
<1> HIDE DEF f, rem
<1>10. b < nb /\ s * w + r < c.hbs
  <2>1. CASE s < f
    <3>1. b * w < nb * w
      BY <1>1, <1>5, <1>7, <1>9, <2>1
    <3>2. (s + 1) * w <= f * w
      BY <1>1, <1>5, <1>8, <2>1, Times
    <3>3. (s + 1) * w = s * w + w /\ s * w \in Int /\ f * w \in Int
      BY <1>1, <1>5, <1>8
    <3> QED
      BY <1>1, <1>7, <1>8, <1>9, <2>1, <3>1, <3>2, <3>3, TimesLess
  <2>2. CASE ~(s < f)
    <3>1. f * size <= s * size /\ f * size \in Int /\ s * size \in Int
      BY <1>2, <1>5, <1>8, <2>2, Times
    <3>2. nb * c.hbs = f * size + nb * rem /\ nb * rem \in Int
      BY <1>1, <1>8
    <3>3. s * size + l < f * size + nb * rem
      BY <1>3, <1>5, <3>2
    <3>4. s = f
      <4>1. CASE s > f
        <5>1. (f + 1) * size <= s * size
          BY <1>2, <1>5, <1>8, <4>1, Times
        <5>2. (f + 1) * size = f * size + size
          BY <1>2, <1>8
        <5>3. nb * rem <= size
          BY <1>1, <1>8
        <5> QED
          BY <1>2, <1>5, <3>1, <3>2, <3>3, <5>1, <5>2, <5>3
      <4> QED
        BY <1>5, <1>8, <2>2, <4>1
    <3>5. l < nb * rem
      BY <1>5, <3>1, <3>2, <3>3, <3>4
    <3>6. rem > 0 /\ v = rem
      BY <1>1, <1>5, <1>8, <1>9, <2>2, <3>5 DEF Larger
    <3>7. b * rem < nb * rem
      BY <1>1, <1>5, <1>7, <1>8, <3>5, <3>6
    <3>8. b < nb
      BY <1>1, <1>7, <1>8, <3>7, TimesLess
    <3> QED
      BY <1>1, <1>7, <1>8, <3>4, <3>6, <3>8
  <2> QED
    BY <2>1, <2>2
<1>11. b >= 0
  BY <1>5, <1>6, <1>7
<1>12. /\ s \in Nat /\ b \in 0..(nb - 1) /\ r \in Nat /\ r < v
  BY <1>1, <1>5, <1>6, <1>7, <1>10, <1>11
<1>13. t = s * size + b * v + r
  <2>1. s * size \in Int /\ b * v \in Int /\ r \in Int
    BY <1>2, <1>5, <1>6, <1>7
  <2> QED
    BY <1>5, <1>7, <2>1
<1> QED
  BY <1>4, <1>10, <1>12, <1>13 DEF size, v, w, nb

LEMMA TilesDiffer ==
    ASSUME NEW c, IsCall(c), NEW t \in Tiles(c), NEW u \in Tiles(c),
           HeadBatch(c, t) = HeadBatch(c, u), NBlockOf(c, t) = NBlockOf(c, u)
    PROVE  t = u
<1>1. PICK s \in Nat, b \in 0..(NumBlock(c) - 1), r \in Nat :
              /\ r < Width(c, s) /\ s * c.swizzle + r < c.hbs
              /\ t = s * (c.swizzle * NumBlock(c)) + b * Width(c, s) + r
              /\ HeadBatch(c, t) = s * c.swizzle + r
              /\ NBlockOf(c, t) = IF c.spt THEN NumBlock(c) - 1 - b ELSE b
  BY TileIsPlaced
<1>2. PICK s2 \in Nat, b2 \in 0..(NumBlock(c) - 1), r2 \in Nat :
              /\ r2 < Width(c, s2) /\ s2 * c.swizzle + r2 < c.hbs
              /\ u = s2 * (c.swizzle * NumBlock(c)) + b2 * Width(c, s2) + r2
              /\ HeadBatch(c, u) = s2 * c.swizzle + r2
              /\ NBlockOf(c, u) = IF c.spt THEN NumBlock(c) - 1 - b2 ELSE b2
  BY TileIsPlaced
<1>3. b = b2
  <2>1. NumBlock(c) \in Nat
    BY NumBlockPositive
  <2> QED
    BY <1>1, <1>2, <2>1
<1> DEFINE w == c.swizzle
<1>4. w \in Nat \ {0} /\ r < w /\ r2 < w /\ s * w + r = s2 * w + r2
  <2>1. c.swizzle \in Nat \ {0} /\ Width(c, s) \in Nat /\ Width(c, s) <= c.swizzle
        /\ Width(c, s2) \in Nat /\ Width(c, s2) <= c.swizzle
    BY SectionHeads DEF IsCall
  <2> QED
    BY <1>1, <1>2, <2>1
<1> HIDE DEF w
<1>5. s = s2
  <2>1. s * w < s2 * w + w /\ s2 * w < s * w + w /\ s * w \in Int /\ s2 * w \in Int
    BY <1>4
  <2>2. (s + 1) * w = s * w + w /\ (s2 + 1) * w = s2 * w + w
    BY <1>4
  <2>3. s * w < (s2 + 1) * w /\ s2 * w < (s + 1) * w
    BY <2>1, <2>2
  <2>4. s < s2 + 1
    BY <1>4, <2>3, TimesLess
  <2>5. s2 < s + 1
    BY <1>4, <2>3, TimesLess
  <2> QED
    BY <2>4, <2>5
<1>6. r = r2
  BY <1>4, <1>5
<1> QED
  BY <1>1, <1>2, <1>3, <1>5, <1>6

LEMMA TileOfBlock ==
    ASSUME NEW c, IsCall(c), NEW hb \in 0..(c.hbs - 1), NEW n \in 0..(NumBlock(c) - 1)
    PROVE  \E t \in Tiles(c) : HeadBatch(c, t) = hb /\ NBlockOf(c, t) = n
<1> DEFINE nb == NumBlock(c)    w == c.swizzle     size == w * nb
           s == hb \div w       r == hb % w        v == Width(c, s)
           b == IF c.spt THEN nb - 1 - n ELSE n
           l == b * v + r       t == s * size + l
           f == Sections(c)     rem == c.hbs % c.swizzle
<1>1. nb \in Nat \ {0} /\ w \in Nat \ {0} /\ c.hbs \in Nat \ {0} /\ hb \in Nat /\ hb < c.hbs
      /\ hb \in Int
  BY NumBlockPositive DEF IsCall
<1>2. b \in Nat /\ b < nb /\ (n = IF c.spt THEN nb - 1 - b ELSE b)
  BY <1>1
<1>3. v \in Nat \ {0} /\ v <= w /\ v = IF s < f THEN w ELSE Larger(rem, 1)
  BY SectionHeads DEF Width
<1>4. f \in Nat /\ rem \in Nat /\ c.hbs = f * w + rem /\ rem < w
  BY SectionHeads
<1>5. \A x : (x \div size = s => SectionWidth(c, x) = v)
  BY DEF SectionWidth, Section, Width, Sections
<1>6. \A x : /\ HeadBatch(c, x) = (x \div size) * w + ((x % size) % SectionWidth(c, x))
             /\ NBlockOf(c, x) = IF c.spt THEN nb - 1 - ((x % size) \div SectionWidth(c, x))
                                 ELSE (x % size) \div SectionWidth(c, x)
  BY DEF HeadBatch, NBlockOf, Section, L2Mod
<1>7. Tiles(c) = 0..(nb * c.hbs - 1)
  BY DEF Tiles
<1>8. /\ s \in Int /\ hb = s * w + r /\ r \in 0..(w - 1) /\ (hb >= 0 => s >= 0)
  BY <1>1, DivBounds
<1> HIDE DEF b, v, s, r, nb, w, f, rem
<1>9. s \in Nat /\ r \in Nat /\ r < w
  BY <1>1, <1>8
<1>10. s <= f /\ (s = f => r < rem) /\ r < v
  <2>1. s * w <= f * w + rem /\ s * w \in Int /\ f * w \in Int
    BY <1>1, <1>4, <1>8, <1>9
  <2>2. (f + 1) * w = f * w + w
    BY <1>1, <1>4
  <2>3. s * w < (f + 1) * w
    BY <1>1, <1>4, <2>1, <2>2
  <2>4. s < f + 1
    BY <1>1, <1>4, <1>8, <2>3, TimesLess
  <2>5. s = f => r < rem
    BY <1>1, <1>4, <1>8, <2>1
  <2> QED
    BY <1>3, <1>4, <1>9, <2>4, <2>5 DEF Larger
<1>11. size \in Nat \ {0}
  BY <1>1
<1>12. l \in Nat /\ l < nb * v /\ nb * v <= size /\ nb * v \in Nat
  <2>1. (b + 1) * v <= nb * v /\ (b + 1) * v = b * v + v /\ b * v \in Nat /\ nb * v \in Nat
    BY <1>1, <1>2, <1>3
  <2>2. v * nb <= w * nb /\ v * nb = nb * v
    BY <1>1, <1>3
  <2>3. b * v + r \in Nat /\ b * v + r < nb * v
    BY <1>3, <1>9, <1>10, <2>1
  <2> QED
    BY <2>1, <2>2, <2>3
<1>13. l \div v = b /\ l % v = r
  <2>1. b * v <= l /\ l < b * v + v /\ l \in Int /\ b * v \in Int /\ b \in Int
    BY <1>2, <1>3, <1>9, <1>10
  <2>2. l - b * v = r
    BY <1>9, <2>1
  <2> HIDE DEF l
  <2>3. l \div v = b /\ l % v = l - b * v
    BY <1>3, <2>1, DivUnique
  <2> QED
    BY <2>2, <2>3
<1> HIDE DEF l
<1>14. t < nb * c.hbs /\ t \in Nat
  <2>1. s * size \in Nat /\ t \in Nat
    BY <1>9, <1>11, <1>12
  <2>2. nb * c.hbs = f * size + nb * rem /\ nb * rem \in Nat /\ f * size \in Nat
    BY <1>1, <1>4
  <2>3. CASE s = f
    <3>1. v = rem
      BY <1>3, <1>4, <1>9, <1>10, <2>3 DEF Larger
    <3> QED
      BY <1>12, <2>1, <2>2, <2>3, <3>1
  <2>4. CASE s # f
    <3>1. (s + 1) * size <= f * size /\ (s + 1) * size = s * size + size
      BY <1>4, <1>9, <1>10, <1>11, <2>4
    <3> QED
      BY <1>11, <1>12, <2>1, <2>2, <3>1
  <2> QED
    BY <2>3, <2>4
<1> HIDE DEF size
<1>15. t \div size = s /\ t % size = l
  <2>1. s * size \in Nat /\ s * size <= t /\ t < s * size + size /\ t - s * size = l
    BY <1>9, <1>11, <1>12
  <2>2. t \in Int /\ s \in Int
    BY <1>9, <1>14
  <2> HIDE DEF t
  <2> QED
    BY <1>11, <2>1, <2>2, DivUnique
<1> HIDE DEF t
<1>16. SectionWidth(c, t) = v
  BY <1>5, <1>15
<1>17. HeadBatch(c, t) = hb
  BY <1>6, <1>8, <1>13, <1>15, <1>16
<1>18. NBlockOf(c, t) = n
  BY <1>2, <1>6, <1>13, <1>15, <1>16
<1>19. t \in Tiles(c)
  BY <1>1, <1>7, <1>14
<1> QED
  BY <1>17, <1>18, <1>19

-----------------------------------------------------------------------------
(* Ranges of row blocks, and turns.                                        *)

LEMMA CallNumbers ==
    ASSUME NEW c, IsCall(c)
    PROVE  /\ PairN(c) \in Nat \ {0} /\ RowBlocks(c) \in Nat \ {0} /\ NumBlock(c) \in Nat \ {0}
           /\ Diagonal(c) \in Int /\ Right(c) \in Int /\ c.left \in Int
           /\ TileM \in Nat \ {0} /\ TileN \in Nat \ {0} /\ c.cluster \in Nat \ {0}
           /\ c.seqlenQ \in Nat \ {0} /\ c.seqlenK \in Nat \ {0}
           /\ c.stages \in Nat \ {0} /\ c.staging \in {1, 2} /\ c.subtile \in Nat \ {0}
           /\ c.hbs \in Nat \ {0} /\ c.group \in Nat \ {0} /\ c.hbs % c.group = 0
<1>1. /\ c.cluster \in {1, 2} /\ c.left \in Int /\ c.right \in Int
      /\ c.seqlenQ \in Nat \ {0} /\ c.seqlenK \in Nat \ {0}
      /\ c.stages \in Nat \ {0} /\ c.staging \in Nat \ {0} /\ c.subtile \in Nat \ {0}
      /\ c.hbs \in Nat \ {0} /\ c.group \in Nat \ {0} /\ c.hbs % c.group = 0 /\ c.staging <= 2
  BY DEF IsCall, Unbounded
<1>2. TileM \in Nat \ {0} /\ TileN \in Nat \ {0}
  BY CallsAssumption
<1>3. RowBlocks(c) \in Nat \ {0}
  BY <1>1, <1>2, CeilDivPositive DEF RowBlocks
<1> QED
  BY <1>1, <1>2, <1>3, NumBlockPositive DEF PairN, Diagonal, Right

LEMMA CeilDivInt == ASSUME NEW a \in Int, NEW b \in Nat \ {0} PROVE CeilDiv(a, b) \in Int
BY DEF CeilDiv

LEMMA CeilDivGrows ==
    ASSUME NEW a \in Int, NEW c \in Int, NEW b \in Nat \ {0}, a <= c
    PROVE  CeilDiv(a, b) <= CeilDiv(c, b)
<1> DEFINE x == a + b - 1   y == c + b - 1
<1>1. x \in Int /\ y \in Int /\ x <= y
  OBVIOUS
<1> HIDE DEF x, y
<1>2. x \div b <= y \div b
  BY <1>1, DivBounds
<1> QED
  BY <1>2 DEF x, y, CeilDiv

\* get_m_block_min_max returns row blocks of the sequence.
LEMMA Windows ==
    ASSUME NEW c, IsCall(c), NEW n \in Nat
    PROVE  MBlockMin(c, n) \in Nat /\ MBlockMax(c, n) \in Int /\ MBlockMax(c, n) <= RowBlocks(c)
<1>1. /\ PairN(c) \in Nat \ {0} /\ RowBlocks(c) \in Nat \ {0} /\ TileM \in Nat \ {0}
      /\ Diagonal(c) \in Int /\ Right(c) \in Int /\ c.left \in Int
  BY CallNumbers
<1> DEFINE a == n * PairN(c) - Diagonal(c) - Right(c)
           e == (n + 1) * PairN(c) - Diagonal(c) + c.left
<1>2. a \in Int /\ e \in Int
  BY <1>1
<1> HIDE DEF a, e
<1>3. a \div TileM \in Int /\ CeilDiv(e, TileM) \in Int
  BY <1>1, <1>2, DivBounds, CeilDivInt
<1>4. MBlockMin(c, n) = IF RightBound(c) THEN Larger(0, a \div TileM) ELSE 0
  BY DEF MBlockMin, a
<1>5. MBlockMax(c, n) = IF LeftBound(c) THEN Smaller(RowBlocks(c), CeilDiv(e, TileM)) ELSE RowBlocks(c)
  BY DEF MBlockMax, e
<1> QED
  BY <1>1, <1>3, <1>4, <1>5 DEF Larger, Smaller

\* A left-hand window moves on with the block of keys, and starts within the sequence.
LEMMA WindowMoves ==
    ASSUME NEW c, IsCall(c), NEW n \in Nat, NEW m \in Nat, n <= m
    PROVE  /\ MBlockMax(c, n) <= MBlockMax(c, m)
           /\ c.mask = "local" /\ ~c.spt /\ c.left # Unbounded => MBlockMax(c, n) >= 0
<1>1. /\ PairN(c) \in Nat \ {0} /\ RowBlocks(c) \in Nat \ {0} /\ TileM \in Nat \ {0}
      /\ Diagonal(c) \in Int /\ c.left \in Int
  BY CallNumbers
<1> DEFINE e(k) == (k + 1) * PairN(c) - Diagonal(c) + c.left
<1>2. e(n) \in Int /\ e(m) \in Int /\ e(n) <= e(m)
  <2>1. (n + 1) * PairN(c) <= (m + 1) * PairN(c)
    BY <1>1, Times
  <2>2. (n + 1) * PairN(c) \in Int /\ (m + 1) * PairN(c) \in Int
    BY <1>1
  <2> QED
    BY <1>1, <2>1, <2>2
<1>3. \A k \in Nat : MBlockMax(c, k) = IF LeftBound(c) THEN Smaller(RowBlocks(c), CeilDiv(e(k), TileM))
                                       ELSE RowBlocks(c)
  BY DEF MBlockMax
<1>4. CeilDiv(e(n), TileM) <= CeilDiv(e(m), TileM) /\ CeilDiv(e(n), TileM) \in Int
      /\ CeilDiv(e(m), TileM) \in Int
  <2> HIDE DEF e
  <2> QED
    BY <1>1, <1>2, CeilDivGrows, CeilDivInt
<1>5. MBlockMax(c, n) <= MBlockMax(c, m)
  <2> HIDE DEF e
  <2> QED
    BY <1>1, <1>3, <1>4 DEF Smaller
<1>6. ASSUME c.mask = "local", ~c.spt, c.left # Unbounded
      PROVE  MBlockMax(c, n) >= 0
  <2>1. Diagonal(c) < PairN(c) + c.left + TileM
    BY <1>6 DEF IsCall, Diagonal, PairN
  <2>2. (n + 1) * PairN(c) >= PairN(c) /\ (n + 1) * PairN(c) \in Int
    BY <1>1
  <2>3. e(n) + TileM - 1 >= 0
    BY <1>1, <2>1, <2>2
  <2> HIDE DEF e
  <2> DEFINE x == e(n) + TileM - 1
  <2>4. x \in Int /\ x >= 0
    BY <1>1, <1>2, <2>3
  <2> HIDE DEF x
  <2>5. x \div TileM >= 0
    BY <1>1, <2>4, DivBounds
  <2>6. CeilDiv(e(n), TileM) >= 0
    BY <2>5 DEF CeilDiv, x
  <2> QED
    BY <1>1, <1>3, <1>4, <2>6 DEF Smaller
<1> QED
  BY <1>5, <1>6

\* Without a window every block of keys has rows to go through: a causal mask
\* leaves the last row every key.
LEMMA AlwaysRows ==
    ASSUME NEW c, IsCall(c), NEW n \in 0..(NumBlock(c) - 1), c.mask # "local"
    PROVE  MBlockMin(c, n) < MBlockMax(c, n)
<1>1. /\ PairN(c) \in Nat \ {0} /\ RowBlocks(c) \in Nat \ {0} /\ TileM \in Nat \ {0}
      /\ TileN \in Nat \ {0} /\ c.cluster \in Nat \ {0} /\ NumBlock(c) \in Nat \ {0}
      /\ c.seqlenQ \in Nat \ {0} /\ c.seqlenK \in Nat \ {0}
  BY CallNumbers
<1>2. MBlockMax(c, n) = RowBlocks(c)
  BY DEF MBlockMax, LeftBound
<1>3. CASE ~RightBound(c)
  BY <1>1, <1>2, <1>3 DEF MBlockMin
<1>4. CASE RightBound(c)
  <2>1. c.mask = "causal"
    BY <1>4 DEF RightBound
  <2> DEFINE a == n * PairN(c) - Diagonal(c)
             k == CeilDiv(c.seqlenK, TileN)
  <2>2. n * PairN(c) < c.seqlenK
    <3>1. k \in Nat \ {0} /\ (k - 1) * TileN < c.seqlenK
      <4> DEFINE x == c.seqlenK + TileN - 1
      <4>1. x \in Int
        BY <1>1
      <4> HIDE DEF x
      <4>2. (x \div TileN) * TileN <= x /\ x \div TileN \in Int
        BY <1>1, <4>1, DivBounds
      <4>3. k = x \div TileN
        BY DEF CeilDiv, x
      <4>4. (k - 1) * TileN = k * TileN - TileN
        BY <1>1, <4>2, <4>3
      <4>5. k \in Nat \ {0}
        BY <1>1, CeilDivPositive
      <4> HIDE DEF k
      <4> QED
        BY <1>1, <4>2, <4>3, <4>4, <4>5 DEF x
    <3> HIDE DEF k
    <3>2. n * c.cluster < k
      <4> DEFINE x == k + c.cluster - 1
      <4>1. x \in Int
        BY <1>1, <3>1
      <4>2. NumBlock(c) = x \div c.cluster
        BY DEF NumBlock, CeilDiv, k
      <4> HIDE DEF x
      <4>3. (x \div c.cluster) * c.cluster <= x
        BY <1>1, <4>1, DivBounds
      <4>4. (n + 1) * c.cluster <= NumBlock(c) * c.cluster
        BY <1>1, Times
      <4>5. (n + 1) * c.cluster = n * c.cluster + c.cluster /\ n * c.cluster \in Nat
            /\ NumBlock(c) * c.cluster \in Nat
        BY <1>1
      <4> QED
        BY <1>1, <3>1, <4>2, <4>3, <4>4, <4>5 DEF x
    <3>3. n * c.cluster \in Nat /\ n * PairN(c) = (n * c.cluster) * TileN
      BY <1>1, Product DEF PairN
    <3> DEFINE p == n * c.cluster   q == k - 1
    <3>4. p \in Int /\ q \in Int /\ p <= q /\ q * TileN < c.seqlenK /\ n * PairN(c) = p * TileN
      BY <3>1, <3>2, <3>3
    <3> HIDE DEF p, q
    <3>5. p * TileN <= q * TileN /\ p * TileN \in Int /\ q * TileN \in Int
      BY <1>1, <3>4, Times
    <3> QED
      BY <1>1, <3>4, <3>5
  <2>3. a \in Int /\ a < c.seqlenQ
    <3>1. n * PairN(c) \in Nat
      BY <1>1
    <3> QED
      BY <1>1, <2>2, <3>1 DEF Diagonal
  <2>4. MBlockMin(c, n) = Larger(0, a \div TileM)
    <3>1. MBlockMin(c, n) = Larger(0, (n * PairN(c) - Diagonal(c) - 0) \div TileM)
      BY <1>4, <2>1 DEF MBlockMin, Right
    <3>2. n * PairN(c) - Diagonal(c) - 0 = n * PairN(c) - Diagonal(c)
      BY <1>1, CallNumbers
    <3> QED
      BY <3>1, <3>2
  <2> HIDE DEF a
  <2>5. a \div TileM < RowBlocks(c) /\ a \div TileM \in Int
    <3> DEFINE x == c.seqlenQ + TileM - 1
    <3>1. x \in Int /\ x >= a + TileM
      BY <1>1, <2>3
    <3>2. RowBlocks(c) = x \div TileM
      BY DEF RowBlocks, CeilDiv
    <3> HIDE DEF x
    <3>3. (a \div TileM) * TileM <= a /\ x < (x \div TileM) * TileM + TileM
          /\ a \div TileM \in Int /\ x \div TileM \in Int
      BY <1>1, <2>3, <3>1, DivBounds
    <3>4. (a \div TileM) * TileM < (x \div TileM) * TileM
      BY <1>1, <2>3, <3>1, <3>3
    <3> QED
      BY <1>1, <3>2, <3>3, <3>4, TimesLess
  <2> QED
    BY <1>1, <1>2, <2>4, <2>5 DEF Larger
<1> QED
  BY <1>3, <1>4

-----------------------------------------------------------------------------
(* Sets in ascending order.                                                *)

\* Every element has a rank of its own.
LEMMA AscendingOK ==
    ASSUME NEW S \in SUBSET Int, IsFiniteSet(S)
    PROVE  /\ Cardinality(S) \in Nat /\ Ascending(S) \in [1..Cardinality(S) -> S]
           /\ \A x \in S : \E i \in 1..Cardinality(S) : Ascending(S)[i] = x
           /\ \A i, j \in 1..Cardinality(S) : i < j => Ascending(S)[i] < Ascending(S)[j]
<1> DEFINE below(x) == {y \in S : y < x}
           n == Cardinality(S)
           rank == [x \in S |-> Cardinality(below(x)) + 1]
<1>1. n \in Nat
  BY FS_CardinalityType
<1>2. ASSUME NEW x \in S
      PROVE  /\ IsFiniteSet(below(x))
             /\ Cardinality(below(x)) \in Nat /\ Cardinality(below(x)) < n
  <2>1. below(x) \in SUBSET S /\ x \notin below(x)
    OBVIOUS
  <2>2. /\ IsFiniteSet(below(x)) /\ Cardinality(below(x)) <= n
        /\ n = Cardinality(below(x)) => S = below(x)
    BY <2>1, FS_Subset
  <2>3. Cardinality(below(x)) \in Nat
    BY <2>2, FS_CardinalityType
  <2> QED
    BY <1>1, <2>1, <2>2, <2>3
<1>3. ASSUME NEW x \in S, NEW y \in S, x < y
      PROVE  Cardinality(below(x)) < Cardinality(below(y))
  <2>1. below(x) \in SUBSET below(y) /\ x \in below(y) /\ x \notin below(x)
    <3>1. \A z \in below(x) : z \in S /\ z < y
      <4>1. x \in Int /\ y \in Int /\ \A z \in S : z \in Int
        OBVIOUS
      <4> QED
        BY <1>3, <4>1
    <3>2. x \in Int /\ ~(x < x)
      OBVIOUS
    <3> QED
      BY <1>3, <3>1, <3>2
  <2>2. /\ Cardinality(below(x)) <= Cardinality(below(y))
        /\ Cardinality(below(y)) = Cardinality(below(x)) => below(y) = below(x)
    BY <1>2, <2>1, FS_Subset
  <2>3. Cardinality(below(x)) \in Int /\ Cardinality(below(y)) \in Int
    BY <1>1, <1>2
  <2> QED
    BY <2>1, <2>2, <2>3
<1>a. \A x \in S : rank[x] = Cardinality(below(x)) + 1
  OBVIOUS
<1>4. rank \in [S -> 1..n]
  BY <1>1, <1>2
<1> HIDE DEF below
<1>5. \A x, y \in S : rank[x] = rank[y] => x = y
  BY <1>1, <1>2, <1>3
<1> HIDE DEF rank
<1>6. rank \in Injection(S, 1..n)
  BY <1>4, <1>5 DEF Injection, IsInjective
<1>7. IsFiniteSet(1..n) /\ Cardinality(1..n) = n
  BY <1>1, FS_Interval
<1>8. rank \in Surjection(S, 1..n)
  BY <1>6, <1>7, FS_Injection
<1>9. \A i \in 1..n : \E x \in S : rank[x] = i
  BY <1>8 DEF Surjection
<1>10. \A i \in 1..n : \E x \in S : Cardinality(below(x)) = i - 1
  <2> TAKE i \in 1..n
  <2>1. PICK x \in S : rank[x] = i
    BY <1>9
  <2> QED
    BY <1>1, <1>2, <2>1 DEF rank
<1>11. Ascending(S) = [i \in 1..n |-> CHOOSE x \in S : Cardinality(below(x)) = i - 1]
  BY DEF Ascending, below
<1>12. \A i \in 1..n : Ascending(S)[i] \in S /\ Cardinality(below(Ascending(S)[i])) = i - 1
  <2> TAKE i \in 1..n
  <2>1. Ascending(S)[i] = CHOOSE x \in S : Cardinality(below(x)) = i - 1
    BY <1>11
  <2>2. \E x \in S : Cardinality(below(x)) = i - 1
    BY <1>10
  <2> QED
    BY <2>1, <2>2
<1>13. Ascending(S) \in [1..n -> S]
  BY <1>11, <1>12
<1>14. \A x \in S : \E i \in 1..n : Ascending(S)[i] = x
  <2> TAKE x \in S
  <2>1. rank[x] \in 1..n /\ rank[x] = Cardinality(below(x)) + 1
    BY <1>4, <1>a
  <2>2. rank[x] - 1 = Cardinality(below(x)) /\ Cardinality(below(x)) \in Int
    BY <1>1, <1>2, <2>1
  <2>3. PICK y \in S : y = Ascending(S)[rank[x]] /\ Cardinality(below(y)) = Cardinality(below(x))
    BY <1>12, <2>1, <2>2
  <2>4. rank[y] = rank[x]
    BY <1>a, <2>3
  <2> QED
    BY <1>5, <2>1, <2>3, <2>4
<1>15. ASSUME NEW i \in 1..n, NEW j \in 1..n, i < j
       PROVE  Ascending(S)[i] < Ascending(S)[j]
  <2> DEFINE x == Ascending(S)[i]   y == Ascending(S)[j]
  <2>1. x \in S /\ y \in S /\ Cardinality(below(x)) = i - 1 /\ Cardinality(below(y)) = j - 1
    BY <1>12
  <2> HIDE DEF x, y
  <2>2. x # y /\ ~(y < x)
    BY <1>1, <1>3, <1>15, <2>1
  <2>3. x < y
    BY <2>1, <2>2
  <2> QED
    BY <2>3 DEF x, y
<1> QED
  BY <1>1, <1>13, <1>14, <1>15

-----------------------------------------------------------------------------
(* The row blocks of a tile.                                               *)

\* Blocks of row blocks the lists of a sparse mask name for a block of keys.
ListedIn(P, hb, n) == {x[3] : x \in {y \in P : y[1] = hb /\ y[2] = n}}
Listed(c, hb, n) == ListedIn(c.partial \cup c.full, hb, n)

LEMMA SparseSets ==
    ASSUME NEW c, IsCall(c), NEW hb, NEW n, NEW P \in SUBSET (c.partial \cup c.full)
    PROVE  IsFiniteSet(ListedIn(P, hb, n)) /\ ListedIn(P, hb, n) \in SUBSET Nat
<1> DEFINE Q == {y \in P : y[1] = hb /\ y[2] = n}
           T == {x[3] : x \in Q}
           f == [x \in Q |-> x[3]]
<1>1. IsFiniteSet(c.partial \cup c.full) /\ c.partial \cup c.full \subseteq Nat \X Nat \X Nat
  BY DEF IsCall
<1>2. Q \in SUBSET (c.partial \cup c.full)
  OBVIOUS
<1>3. IsFiniteSet(Q) /\ \A x \in Q : x[3] \in Nat
  <2>1. IsFiniteSet(Q)
    BY <1>1, <1>2, FS_Subset
  <2>2. \A x \in Q : x \in Nat \X Nat \X Nat
    BY <1>1, <1>2
  <2> QED
    BY <2>1, <2>2
<1> HIDE DEF Q
<1>4. f \in Surjection(Q, T)
  BY DEF Surjection
<1>5. IsFiniteSet(T)
  <2> HIDE DEF f, T
  <2> QED
    BY <1>3, <1>4, FS_Surjection
<1>6. T \in SUBSET Nat
  BY <1>3
<1> QED
  BY <1>5, <1>6 DEF Q, ListedIn

\* The entries of an ascending list are those of the set.
LEMMA AscendingSeq ==
    ASSUME NEW S \in SUBSET Nat, IsFiniteSet(S)
    PROVE  /\ Ascending(S) \in Seq(Nat)
           /\ \A i \in DOMAIN Ascending(S) : Ascending(S)[i] \in S
           /\ \A x \in S : \E i \in DOMAIN Ascending(S) : Ascending(S)[i] = x
<1>1. S \in SUBSET Int
  OBVIOUS
<1>2. /\ Cardinality(S) \in Nat /\ Ascending(S) \in [1..Cardinality(S) -> S]
      /\ \A x \in S : \E i \in 1..Cardinality(S) : Ascending(S)[i] = x
  BY <1>1, AscendingOK
<1>3. Ascending(S) \in [1..Cardinality(S) -> Nat]
  BY <1>2
<1>4. Ascending(S) \in Seq(Nat)
  BY <1>2, <1>3, SeqDef
<1> QED
  BY <1>2, <1>4

LEMMA SparseListOK ==
    ASSUME NEW c, IsCall(c), NEW hb, NEW n
    PROVE  /\ SparseList(c, hb, n) \in Seq(Nat)
           /\ \A i \in DOMAIN SparseList(c, hb, n) : SparseList(c, hb, n)[i] \in Listed(c, hb, n)
           /\ \A x \in Listed(c, hb, n) :
                 \E i \in DOMAIN SparseList(c, hb, n) : SparseList(c, hb, n)[i] = x
<1> DEFINE S == ListedIn(c.partial, hb, n)   T == ListedIn(c.full, hb, n)
<1>1. IsFiniteSet(S) /\ S \in SUBSET Nat /\ IsFiniteSet(T) /\ T \in SUBSET Nat
  <2>1. c.partial \in SUBSET (c.partial \cup c.full) /\ c.full \in SUBSET (c.partial \cup c.full)
    OBVIOUS
  <2>2. IsFiniteSet(S) /\ S \in SUBSET Nat
    BY <2>1, SparseSets
  <2>3. IsFiniteSet(T) /\ T \in SUBSET Nat
    BY <2>1, SparseSets
  <2> QED
    BY <2>2, <2>3
<1>2. Listed(c, hb, n) = S \cup T
  BY DEF Listed, ListedIn
<1>3. SparseList(c, hb, n) = Ascending(S) \o Ascending(T)
  BY DEF SparseList, ListedIn
<1> HIDE DEF S, T
<1> DEFINE a == Ascending(S)   b == Ascending(T)
<1>4. /\ a \in Seq(Nat) /\ (\A i \in DOMAIN a : a[i] \in S) /\ (\A x \in S : \E i \in DOMAIN a : a[i] = x)
      /\ b \in Seq(Nat) /\ (\A i \in DOMAIN b : b[i] \in T) /\ (\A x \in T : \E i \in DOMAIN b : b[i] = x)
  BY <1>1, AscendingSeq
<1> HIDE DEF a, b
<1>5. a \o b \in Seq(Nat)
  BY <1>4
<1>6. \A i \in DOMAIN (a \o b) : \/ i \in DOMAIN a /\ (a \o b)[i] = a[i]
                                 \/ i - Len(a) \in DOMAIN b /\ (a \o b)[i] = b[i - Len(a)]
  BY <1>4
<1>7. /\ \A i \in DOMAIN a : i \in DOMAIN (a \o b) /\ (a \o b)[i] = a[i]
      /\ \A i \in DOMAIN b : i + Len(a) \in DOMAIN (a \o b) /\ (a \o b)[i + Len(a)] = b[i]
  BY <1>4
<1>8. \A i \in DOMAIN (a \o b) : (a \o b)[i] \in S \cup T
  BY <1>4, <1>6
<1>9. \A x \in S \cup T : \E i \in DOMAIN (a \o b) : (a \o b)[i] = x
  <2> TAKE x \in S \cup T
  <2>1. CASE x \in S
    BY <1>4, <1>7, <2>1
  <2>2. CASE x \in T
    BY <1>4, <1>7, <2>2
  <2> QED
    BY <2>1, <2>2
<1> QED
  BY <1>2, <1>3, <1>5, <1>8, <1>9 DEF a, b

\* get_m_block_from_iter_bwd: the row blocks of the listed ones, subtile by subtile.
LEMMA SparseVisits ==
    ASSUME NEW c, IsCall(c), c.sparse, NEW hb, NEW n
    PROVE  /\ Visits(c, hb, n) \in Seq(Nat)
           /\ \A i \in DOMAIN Visits(c, hb, n) : Visits(c, hb, n)[i] \div c.subtile \in Listed(c, hb, n)
           /\ \A m \in Nat : m \div c.subtile \in Listed(c, hb, n) =>
                 \E i \in DOMAIN Visits(c, hb, n) : Visits(c, hb, n)[i] = m
<1> DEFINE list == SparseList(c, hb, n)   k == c.subtile
           v == [i \in 1..(Len(list) * k) |-> list[(i - 1) \div k + 1] * k + ((i - 1) % k)]
<1>1. Visits(c, hb, n) = v
  BY DEF Visits
<1>2. /\ list \in Seq(Nat) /\ (\A i \in DOMAIN list : list[i] \in Listed(c, hb, n))
      /\ \A x \in Listed(c, hb, n) : \E i \in DOMAIN list : list[i] = x
  BY SparseListOK
<1>3. k \in Nat \ {0}
  BY CallNumbers
<1> HIDE DEF list, k
<1>4. Len(list) \in Nat /\ DOMAIN list = 1..Len(list) /\ \A i \in DOMAIN list : list[i] \in Nat
  BY <1>2
<1>5. Len(list) * k \in Nat
  BY <1>3, <1>4
<1>6. ASSUME NEW i \in 1..(Len(list) * k)
      PROVE  \E j \in DOMAIN list, r \in 0..(k - 1) : v[i] = list[j] * k + r
  <2> DEFINE x == i - 1   q == x \div k   r == x % k
  <2>1. x \in Int /\ x >= 0 /\ x < Len(list) * k
    BY <1>3, <1>4, <1>5
  <2> HIDE DEF x
  <2>2. q \in Int /\ x = q * k + r /\ r \in 0..(k - 1) /\ q >= 0 /\ q * k <= x
    BY <1>3, <2>1, DivBounds
  <2>3. v[i] = list[q + 1] * k + r
    BY <1>6 DEF x
  <2> HIDE DEF q, r
  <2>4. q * k < Len(list) * k
    BY <1>3, <1>4, <1>5, <2>1, <2>2
  <2>5. Len(list) \in Int
    BY <1>4
  <2>6. q < Len(list)
    BY <1>3, <2>2, <2>4, <2>5, TimesLess
  <2>7. q + 1 \in DOMAIN list
    BY <1>4, <2>2, <2>6
  <2> QED
    BY <2>2, <2>3, <2>7
<1>7. \A i \in 1..(Len(list) * k) : v[i] \in Nat /\ v[i] \div k \in Listed(c, hb, n)
  <2> TAKE i \in 1..(Len(list) * k)
  <2>1. PICK j \in DOMAIN list, r \in 0..(k - 1) : v[i] = list[j] * k + r
    BY <1>6
  <2> DEFINE y == list[j]   z == v[i]
  <2>2. y \in Nat /\ y \in Int /\ z = y * k + r /\ y * k \in Nat
    BY <1>3, <1>4, <2>1
  <2>3. y \in Listed(c, hb, n)
    BY <1>2
  <2> HIDE DEF y, z
  <2>4. z \in Int /\ z >= 0 /\ y * k <= z /\ z < y * k + k
    BY <1>3, <2>2
  <2>5. z \div k = y
    BY <1>3, <2>2, <2>4, DivUnique
  <2> QED
    BY <2>3, <2>4, <2>5 DEF z
<1>8. v \in Seq(Nat) /\ DOMAIN v = 1..(Len(list) * k)
  <2>1. v \in [1..(Len(list) * k) -> Nat]
    BY <1>7
  <2> HIDE DEF v
  <2> QED
    BY <1>5, <2>1, SeqDef
<1>9. ASSUME NEW m \in Nat, m \div k \in Listed(c, hb, n)
      PROVE  \E i \in DOMAIN v : v[i] = m
  <2> DEFINE y == m \div k   r == m % k
  <2>1. m \in Int
    OBVIOUS
  <2>2. y \in Int /\ m = y * k + r /\ r \in 0..(k - 1)
    BY <1>3, <2>1, DivBounds
  <2>3. PICK j \in DOMAIN list : list[j] = y
    BY <1>2, <1>9
  <2> HIDE DEF y, r
  <2> DEFINE q == j - 1   x == q * k + r
  <2>4. q \in Int /\ q >= 0 /\ q + 1 <= Len(list) /\ j = q + 1
    BY <1>4, <2>3
  <2> HIDE DEF q
  <2>5. /\ x \in Int /\ x >= 0 /\ q * k <= x /\ x < q * k + k /\ x - q * k = r
        /\ x < (q + 1) * k /\ (q + 1) * k \in Int
    BY <1>3, <2>2, <2>4
  <2>6. (q + 1) * k <= Len(list) * k
    <3>1. q + 1 \in Int /\ Len(list) \in Int /\ k \in Nat
      BY <1>3, <1>4, <2>4
    <3> QED
      BY <2>4, <3>1, Times
  <2> HIDE DEF x
  <2>7. x \div k = q /\ x % k = r
    <3>1. x \div k = q /\ x % k = x - q * k
      BY <1>3, <2>4, <2>5, DivUnique
    <3> QED
      BY <2>5, <3>1
  <2> DEFINE i == x + 1
  <2>8. i \in 1..(Len(list) * k) /\ i - 1 = x
    BY <1>5, <2>5, <2>6
  <2> HIDE DEF i
  <2>9. v[i] = list[(i - 1) \div k + 1] * k + ((i - 1) % k)
    BY <2>8
  <2> HIDE DEF v
  <2>10. v[i] = m
    BY <2>2, <2>3, <2>4, <2>7, <2>8, <2>9
  <2> QED
    BY <1>8, <2>8, <2>10
<1> HIDE DEF v
<1> QED
  BY <1>1, <1>7, <1>8, <1>9 DEF k

LEMMA PlainVisits ==
    ASSUME NEW c, IsCall(c), ~c.sparse, NEW hb, NEW n \in Nat
    PROVE  /\ Visits(c, hb, n) \in Seq(Nat)
           /\ Len(Visits(c, hb, n)) = Larger(MBlockMax(c, n) - MBlockMin(c, n), 0)
           /\ \A i \in DOMAIN Visits(c, hb, n) : Visits(c, hb, n)[i] = MBlockMin(c, n) + i - 1
<1> DEFINE len == Larger(MBlockMax(c, n) - MBlockMin(c, n), 0)
           v == [i \in 1..len |-> MBlockMin(c, n) + i - 1]
<1>1. Visits(c, hb, n) = v
  BY DEF Visits
<1>2. MBlockMin(c, n) \in Nat /\ len \in Nat
  BY Windows DEF Larger
<1> HIDE DEF len
<1>3. v \in [1..len -> Nat]
  BY <1>2
<1>4. v \in Seq(Nat)
  BY <1>2, <1>3, SeqDef
<1>5. DOMAIN v = 1..len
  OBVIOUS
<1>6. Len(v) = len
  <2> HIDE DEF v
  <2> QED
    BY <1>2, <1>4, <1>5
<1> QED
  BY <1>1, <1>4, <1>5, <1>6 DEF len

-----------------------------------------------------------------------------

\* The call and what its CTAs derive from it stay; so does the order.
Fixed ==
    /\ call \in Calls /\ IsCall(call)
    /\ work = [t \in Tiles(call) |-> WorkTile(call, t)]
    /\ order = [x \in Cells(call) |-> TheOrder(call, x)]
    /\ DOMAIN cta = Tiles(call)

LEMMA FixedInit == ASSUME Init PROVE Fixed
BY CallsAssumption DEF Init, Fixed

LEMMA StaysFixed == ASSUME Fixed, [Next]_vars PROVE Fixed' /\ UNCHANGED <<call, work, order>>
<1>1. UNCHANGED <<call, work, order>> /\ DOMAIN cta' = DOMAIN cta
  BY ZenonT(40) DEF Next, Step, EpilogueStep, Launch, AddPart, SkipPart, SettlePart, EndRow, EndRows, SkipRow,
         StoreGradient, EndGradient, Land, Goto, NextRow, NextPart, vars
<1> QED
  BY <1>1 DEF Fixed

\* The call, its tiles' row blocks and the promised order never change (the
\* kernel derives all of them from its arguments).
THEOREM AlwaysFixed == Spec => []Fixed
<1>1. Fixed /\ [Next]_vars => Fixed'
  BY StaysFixed
<1> QED
  BY <1>1, FixedInit, PTL DEF Spec

\* SingleTileLPTBwdScheduler gives each block of each head and batch to one CTA,
\* whatever the L2 sections, whose last one may be short of heads.
THEOREM TilesPartition == Spec => []EveryTileOnce
<1>1. Fixed => EveryTileOnce
  <2> SUFFICES ASSUME Fixed, NEW n \in 0..(NumBlock(call) - 1), NEW hb \in 0..(call.hbs - 1)
               PROVE  Cardinality({t \in Tiles(call) : N(t) = n /\ Hb(t) = hb}) = 1
    BY DEF EveryTileOnce
  <2>1. \A t \in Tiles(call) : N(t) = NBlockOf(call, t) /\ Hb(t) = HeadBatch(call, t)
    BY DEF Fixed, N, Hb, WorkTile
  <2>2. PICK t \in Tiles(call) : HeadBatch(call, t) = hb /\ NBlockOf(call, t) = n
    BY TileOfBlock DEF Fixed
  <2>3. \A u \in Tiles(call) : HeadBatch(call, u) = hb /\ NBlockOf(call, u) = n => u = t
    BY <2>2, TilesDiffer DEF Fixed
  <2>4. {u \in Tiles(call) : N(u) = n /\ Hb(u) = hb} = {t}
    BY <2>1, <2>2, <2>3
  <2> QED
    BY <2>4, FS_Singleton
<1> QED
  BY <1>1, AlwaysFixed, PTL

-----------------------------------------------------------------------------
(* What a CTA derives from its tile, and the turns it waits for.           *)

LEMMA RowFacts ==
    ASSUME Fixed, NEW t \in Tiles(call)
    PROVE  /\ Hb(t) = HeadBatch(call, t) /\ N(t) = NBlockOf(call, t)
           /\ Hb(t) \in 0..(call.hbs - 1) /\ N(t) \in 0..(NumBlock(call) - 1)
           /\ Len(Rows(t)) \in Nat /\ DOMAIN Rows(t) = 1..Len(Rows(t))
           /\ Rows(t) = <<>> <=> Len(Rows(t)) = 0
           /\ work[t].works <=> Rows(t) # <<>>
           /\ work[t].sends = SendsGradient(call, Hb(t), N(t)) /\ (work[t].works => work[t].sends)
           /\ work[t].mMin \in Nat /\ work[t].mMax \in Int /\ work[t].mMax <= RowBlocks(call)
           /\ work[t].mMin = MBlockMin(call, N(t)) /\ work[t].mMax = MBlockMax(call, N(t))
<1> DEFINE hb == HeadBatch(call, t)   n == NBlockOf(call, t)   v == Visits(call, hb, n)
<1>1. IsCall(call) /\ work = [u \in Tiles(call) |-> WorkTile(call, u)]
  BY DEF Fixed
<1>2. work[t] = WorkTile(call, t)
  BY <1>1
<1>3. Hb(t) = hb /\ N(t) = n /\ work[t].mMin = MBlockMin(call, n) /\ work[t].mMax = MBlockMax(call, n)
      /\ work[t].works = ProcessTile(call, hb, n)
      /\ Rows(t) = [i \in DOMAIN v |-> [m |-> v[i], lock |-> LockValue(call, hb, n, v[i]),
                                       oob |-> OutOfRows(call, n, v[i])]]
  BY <1>2 DEF Hb, N, Rows, WorkTile
<1>4. hb \in 0..(call.hbs - 1) /\ n \in 0..(NumBlock(call) - 1) /\ n \in Nat
  <2>1. PICK s \in Nat, b \in 0..(NumBlock(call) - 1), r \in Nat :
              /\ r < Width(call, s) /\ s * call.swizzle + r < call.hbs
              /\ t = s * (call.swizzle * NumBlock(call)) + b * Width(call, s) + r
              /\ HeadBatch(call, t) = s * call.swizzle + r
              /\ NBlockOf(call, t) = IF call.spt THEN NumBlock(call) - 1 - b ELSE b
    BY <1>1, TileIsPlaced
  <2>2. NumBlock(call) \in Nat \ {0} /\ call.hbs \in Nat /\ call.swizzle \in Nat
    BY <1>1, NumBlockPositive DEF IsCall
  <2>3. s * call.swizzle \in Nat
    BY <2>2
  <2> QED
    BY <2>1, <2>2, <2>3
<1>5. v \in Seq(Nat)
  BY <1>1, <1>4, SparseVisits, PlainVisits
<1> HIDE DEF v
<1>6. Len(v) \in Nat /\ DOMAIN v = 1..Len(v) /\ DOMAIN Rows(t) = DOMAIN v
      /\ (v = <<>> <=> Len(v) = 0)
  BY <1>3, <1>5
<1>7. Len(Rows(t)) = Len(v) /\ (Rows(t) = <<>> <=> Len(Rows(t)) = 0)
  <2> DEFINE row(i) == [m |-> v[i], lock |-> LockValue(call, hb, n, v[i]),
                        oob |-> OutOfRows(call, n, v[i])]
             R == {row(i) : i \in 1..Len(v)}
             s == [i \in 1..Len(v) |-> row(i)]
  <2>1. s \in [1..Len(v) -> R]
    OBVIOUS
  <2>2. Rows(t) = s
    BY <1>3, <1>6
  <2>3. DOMAIN s = 1..Len(v)
    OBVIOUS
  <2> HIDE DEF s, R
  <2>4. s \in Seq(R)
    BY <1>6, <2>1, SeqDef
  <2> QED
    BY <1>6, <2>2, <2>3, <2>4
<1>8. work[t].works <=> Rows(t) # <<>>
  <2>1. CASE call.sparse
    BY <1>3, <1>6, <1>7, <2>1 DEF ProcessTile, v
  <2>2. CASE ~call.sparse
    <3>1. Len(v) = Larger(MBlockMax(call, n) - MBlockMin(call, n), 0)
      BY <1>1, <1>4, <2>2, PlainVisits DEF v
    <3>2. MBlockMin(call, n) \in Nat /\ MBlockMax(call, n) \in Int
      BY <1>1, <1>4, Windows
    <3>3. ProcessTile(call, hb, n) <=> MBlockMin(call, n) < MBlockMax(call, n)
      BY <1>1, <1>4, <2>2, AlwaysRows DEF ProcessTile
    <3>4. Rows(t) # <<>> <=> MBlockMin(call, n) < MBlockMax(call, n)
      BY <1>7, <3>1, <3>2 DEF Larger
    <3> QED
      BY <1>3, <3>3, <3>4
  <2> QED
    BY <2>1, <2>2
<1>9. MBlockMin(call, n) \in Nat /\ MBlockMax(call, n) \in Int /\ MBlockMax(call, n) <= RowBlocks(call)
  BY <1>1, <1>4, Windows
<1>10. Len(Rows(t)) \in Nat /\ DOMAIN Rows(t) = 1..Len(Rows(t))
  BY <1>6, <1>7
<1>13. work[t].sends = SendsGradient(call, hb, n) /\ (work[t].works => work[t].sends)
  <2>1. work[t].sends = SendsGradient(call, hb, n)
    BY <1>2 DEF WorkTile
  <2>2. ASSUME work[t].works PROVE work[t].sends
    <3>1. ProcessTile(call, hb, n)
      BY <1>3, <2>2
    <3>2. SendsGradient(call, hb, n)
      BY <3>1 DEF SendsGradient
    <3> QED
      BY <2>1, <3>2
  <2> QED
    BY <2>1, <2>2
<1> HIDE DEF hb, n
<1>11. /\ work[t].mMin \in Nat /\ work[t].mMax \in Int /\ work[t].mMax <= RowBlocks(call)
       /\ work[t].mMin = MBlockMin(call, N(t)) /\ work[t].mMax = MBlockMax(call, N(t))
  BY <1>3, <1>9
<1>12. Hb(t) \in 0..(call.hbs - 1) /\ N(t) \in 0..(NumBlock(call) - 1)
  BY <1>3, <1>4
<1> QED
  BY <1>3, <1>7, <1>8, <1>10, <1>11, <1>12, <1>13 DEF hb, n

\* The blocks of keys that have a row block on their sparse lists.
RowContributorSet(c, hb, row) ==
    {x[2] : x \in {y \in c.partial \cup c.full : y[1] = hb /\ y[3] = row}}

LEMMA RowContributors ==
    ASSUME NEW c, IsCall(c), NEW hb, NEW row
    PROVE  IsFiniteSet(RowContributorSet(c, hb, row)) /\ RowContributorSet(c, hb, row) \in SUBSET Nat
<1> DEFINE Q == {y \in c.partial \cup c.full : y[1] = hb /\ y[3] = row}
           T == {x[2] : x \in Q}
           f == [x \in Q |-> x[2]]
<1>1. IsFiniteSet(c.partial \cup c.full) /\ c.partial \cup c.full \subseteq Nat \X Nat \X Nat
  BY DEF IsCall
<1>2. Q \in SUBSET (c.partial \cup c.full)
  OBVIOUS
<1>3. IsFiniteSet(Q) /\ \A x \in Q : x[2] \in Nat
  <2>1. IsFiniteSet(Q)
    BY <1>1, <1>2, FS_Subset
  <2>2. \A x \in Q : x \in Nat \X Nat \X Nat
    BY <1>1, <1>2
  <2> QED
    BY <2>1, <2>2
<1> HIDE DEF Q
<1>4. f \in Surjection(Q, T)
  BY DEF Surjection
<1>5. IsFiniteSet(T)
  <2> HIDE DEF f, T
  <2> QED
    BY <1>3, <1>4, FS_Surjection
<1>6. T \in SUBSET Nat
  BY <1>3
<1> QED
  BY <1>5, <1>6 DEF Q, RowContributorSet

LEMMA MaxForInt ==
    ASSUME NEW c, IsCall(c), NEW m \in Nat PROVE NBlockMaxFor(c, m) \in Int
<1>1. /\ PairN(c) \in Nat \ {0} /\ TileM \in Nat \ {0} /\ TileN \in Nat \ {0}
      /\ Diagonal(c) \in Int /\ Right(c) \in Int /\ c.seqlenK \in Nat \ {0}
  BY CallNumbers
<1>2. GlobalMax(c) \in Int
  BY <1>1, CeilDivInt DEF GlobalMax
<1> DEFINE e == (m + 1) * TileM + Diagonal(c) + Right(c)
<1>3. e \in Int
  BY <1>1
<1> HIDE DEF e
<1>4. CeilDiv(e, PairN(c)) \in Int
  BY <1>1, <1>3, CeilDivInt
<1> QED
  BY <1>2, <1>4 DEF NBlockMaxFor, Smaller, e

LEMMA LockInt ==
    ASSUME NEW c, IsCall(c), NEW hb, NEW n \in Nat, NEW m \in Nat
    PROVE  LockValue(c, hb, n, m) \in Int
<1>1. CASE c.sparse
  <2> DEFINE S == RowContributorSet(c, hb, m \div c.subtile)
             T == {k \in S : IF c.spt THEN k > n ELSE k < n}
  <2>1. IsFiniteSet(S)
    BY RowContributors
  <2>2. IsFiniteSet(T)
    BY <2>1, FS_Subset
  <2>3. Cardinality(T) \in Nat
    BY <2>2, FS_CardinalityType
  <2>4. LockValue(c, hb, n, m) = Cardinality(T)
    BY <1>1 DEF LockValue, WriteOrder, RowContributorSet
  <2> QED
    BY <2>3, <2>4
<1>2. CASE ~c.sparse /\ c.spt
  BY <1>2, MaxForInt DEF LockValue
<1>3. CASE ~c.sparse /\ ~c.spt
  BY <1>3 DEF LockValue
<1> QED
  BY <1>1, <1>2, <1>3

\* A row block of a tile.
LEMMA RowOK ==
    ASSUME Fixed, NEW t \in Tiles(call), NEW i \in DOMAIN Rows(t)
    PROVE  /\ Rows(t)[i].m \in Nat /\ Rows(t)[i].lock \in Int /\ Rows(t)[i].oob \in BOOLEAN
           /\ Rows(t)[i].lock = LockValue(call, Hb(t), N(t), Rows(t)[i].m)
           /\ ~Rows(t)[i].oob => Rows(t)[i].m \in 0..(RowBlocks(call) - 1)
           /\ call.sparse => Rows(t)[i].m \div call.subtile \in Listed(call, Hb(t), N(t))
           /\ ~call.sparse => /\ ~Rows(t)[i].oob /\ Rows(t)[i].m = work[t].mMin + i - 1
                              /\ Rows(t)[i].m < work[t].mMax
                              /\ i = Len(Rows(t)) => Rows(t)[i].m = work[t].mMax - 1
<1> DEFINE v == Visits(call, Hb(t), N(t))   m == Rows(t)[i].m
<1>1. IsCall(call) /\ work[t] = WorkTile(call, t)
  BY DEF Fixed
<1>2. /\ Hb(t) = HeadBatch(call, t) /\ N(t) = NBlockOf(call, t)
      /\ Hb(t) \in 0..(call.hbs - 1) /\ N(t) \in 0..(NumBlock(call) - 1)
      /\ Len(Rows(t)) \in Nat /\ DOMAIN Rows(t) = 1..Len(Rows(t))
      /\ work[t].mMin \in Nat /\ work[t].mMax \in Int /\ work[t].mMax <= RowBlocks(call)
      /\ work[t].mMin = MBlockMin(call, N(t)) /\ work[t].mMax = MBlockMax(call, N(t))
  BY RowFacts
<1>3. N(t) \in Nat
  BY <1>2
<1>4. Rows(t) = [j \in DOMAIN v |-> [m |-> v[j], lock |-> LockValue(call, Hb(t), N(t), v[j]),
                                    oob |-> OutOfRows(call, N(t), v[j])]]
  BY <1>1, <1>2 DEF WorkTile, Rows
<1>5. v \in Seq(Nat)
  BY <1>1, <1>3, SparseVisits, PlainVisits
<1> HIDE DEF v
<1>6. i \in DOMAIN v /\ m = v[i] /\ v[i] \in Nat /\ DOMAIN v = 1..Len(v) /\ Len(v) \in Nat
      /\ DOMAIN Rows(t) = DOMAIN v
  BY <1>4, <1>5
<1>7. Rows(t)[i].lock = LockValue(call, Hb(t), N(t), m) /\ Rows(t)[i].oob = OutOfRows(call, N(t), m)
  BY <1>4, <1>6
<1> HIDE DEF m
<1>8. m \in Nat /\ LockValue(call, Hb(t), N(t), m) \in Int
  BY <1>1, <1>3, <1>6, LockInt
<1>9. RowBlocks(call) \in Nat
  BY <1>1, CallNumbers
<1>10. CASE call.sparse
  <2>1. m \div call.subtile \in Listed(call, Hb(t), N(t))
    BY <1>1, <1>6, <1>10, SparseVisits DEF v
  <2>2. OutOfRows(call, N(t), m) <=> ~(m < work[t].mMax)
    BY <1>2, <1>8, <1>10 DEF OutOfRows
  <2>3. OutOfRows(call, N(t), m) \in BOOLEAN
    BY <1>10 DEF OutOfRows
  <2>4. ~OutOfRows(call, N(t), m) => m \in 0..(RowBlocks(call) - 1)
    BY <1>2, <1>8, <1>9, <2>2
  <2> QED
    BY <1>7, <1>8, <1>10, <2>1, <2>3, <2>4 DEF m
<1>11. CASE ~call.sparse
  <2>1. /\ Len(v) = Larger(work[t].mMax - work[t].mMin, 0)
        /\ m = work[t].mMin + i - 1
    <3>1. /\ Len(v) = Larger(MBlockMax(call, N(t)) - MBlockMin(call, N(t)), 0)
          /\ \A j \in DOMAIN v : v[j] = MBlockMin(call, N(t)) + j - 1
      BY <1>1, <1>3, <1>11, PlainVisits DEF v
    <3> QED
      BY <1>2, <1>6, <3>1
  <2>2. Len(Rows(t)) = Len(v) /\ i \in 1..Len(v)
    <3>1. 1..Len(Rows(t)) = 1..Len(v) /\ i \in 1..Len(v)
      BY <1>2, <1>6
    <3> DEFINE a == Len(Rows(t))   b == Len(v)
    <3>2. a \in Nat /\ b \in Nat /\ 1..a = 1..b /\ i \in 1..b
      BY <1>2, <1>6, <3>1
    <3> HIDE DEF a, b
    <3>3. a \in 1..b /\ b \in 1..a
      BY <3>2
    <3>4. a = b
      BY <3>2, <3>3
    <3> QED
      BY <3>2, <3>4 DEF a, b
  <2>3. m < work[t].mMax /\ (i = Len(Rows(t)) => m = work[t].mMax - 1)
    BY SMTT(30), <1>2, <1>6, <2>1, <2>2 DEF Larger
  <2>4. ~OutOfRows(call, N(t), m) /\ OutOfRows(call, N(t), m) \in BOOLEAN
    BY <1>11 DEF OutOfRows
  <2> QED
    BY <1>2, <1>7, <1>8, <1>9, <1>11, <2>1, <2>3, <2>4 DEF m
<1> QED
  BY <1>10, <1>11

\* Ranks tell the blocks of a row apart.
LEMMA RanksDiffer ==
    ASSUME NEW S \in SUBSET Nat, IsFiniteSet(S), NEW a \in S, NEW b \in S, a < b
    PROVE  /\ Cardinality({k \in S : k < a}) # Cardinality({k \in S : k < b})
           /\ Cardinality({k \in S : k > a}) # Cardinality({k \in S : k > b})
<1>1. {k \in S : k < a} \in SUBSET {k \in S : k < b} /\ {k \in S : k > b} \in SUBSET {k \in S : k > a}
  <2>1. \A k \in S : k \in Int /\ (k < a => k < b) /\ (k > b => k > a)
    OBVIOUS
  <2> QED
    BY <2>1
<1>2. a \in {k \in S : k < b} /\ a \notin {k \in S : k < a}
      /\ b \in {k \in S : k > a} /\ b \notin {k \in S : k > b}
  OBVIOUS
<1> DEFINE A == {k \in S : k < a}   B == {k \in S : k < b}
           C == {k \in S : k > b}   D == {k \in S : k > a}
<1>3. IsFiniteSet(B) /\ IsFiniteSet(D)
  <2>1. B \in SUBSET S /\ D \in SUBSET S
    OBVIOUS
  <2> QED
    BY <2>1, FS_Subset
<1> HIDE DEF A, B, C, D
<1>4. Cardinality(A) # Cardinality(B)
  BY <1>1, <1>2, <1>3, FS_Subset DEF A, B
<1>5. Cardinality(C) # Cardinality(D)
  BY <1>1, <1>2, <1>3, FS_Subset DEF C, D
<1> QED
  BY <1>4, <1>5 DEF A, B, C, D

\* The value waited for tells the blocks of keys apart that add to a row block
\* (_dq_semaphore_lock_value, compute_dq_write_order).
LEMMA LockTells ==
    ASSUME Fixed, NEW t \in Tiles(call), NEW u \in Tiles(call),
           NEW i \in DOMAIN Rows(t), NEW j \in DOMAIN Rows(u),
           Hb(t) = Hb(u), Rows(t)[i].m = Rows(u)[j].m, Rows(t)[i].lock = Rows(u)[j].lock
    PROVE  t = u
<1> DEFINE hb == Hb(t)   a == N(t)   b == N(u)   m == Rows(t)[i].m
<1>1. IsCall(call) /\ a \in Nat /\ b \in Nat /\ m \in Nat
  <2>1. NumBlock(call) \in Nat
    BY NumBlockPositive DEF Fixed
  <2> QED
    BY <2>1, RowFacts, RowOK DEF Fixed
<1>2. LockValue(call, hb, a, m) = LockValue(call, hb, b, m)
  BY RowOK
<1>3. a = b
  <2>1. CASE call.sparse
    <3> DEFINE row == m \div call.subtile   S == RowContributorSet(call, hb, row)
    <3>1. row \in Listed(call, hb, a) /\ row \in Listed(call, hb, b)
      BY <2>1, RowOK
    <3>2. \A n : row \in Listed(call, hb, n) => n \in S
      BY DEF Listed, ListedIn, RowContributorSet
    <3>3. a \in S /\ b \in S
      BY <3>1, <3>2
    <3>4. IsFiniteSet(S) /\ S \in SUBSET Nat
      BY <1>1, RowContributors
    <3>5. \A n : LockValue(call, hb, n, m) = Cardinality({k \in S : IF call.spt THEN k > n ELSE k < n})
      BY <2>1 DEF LockValue, WriteOrder, RowContributorSet
    <3> HIDE DEF S, hb, a, b, m
    <3>6. CASE call.spt
      <4>1. \A n : LockValue(call, hb, n, m) = Cardinality({k \in S : k > n})
        BY <3>5, <3>6
      <4>2. Cardinality({k \in S : k > a}) = Cardinality({k \in S : k > b})
        BY <1>2, <4>1
      <4>3. ~(a < b) /\ ~(b < a)
        BY <3>3, <3>4, <4>2, RanksDiffer
      <4> QED
        BY <1>1, <4>3
    <3>7. CASE ~call.spt
      <4>1. \A n : LockValue(call, hb, n, m) = Cardinality({k \in S : k < n})
        BY <3>5, <3>7
      <4>2. Cardinality({k \in S : k < a}) = Cardinality({k \in S : k < b})
        BY <1>2, <4>1
      <4>3. ~(a < b) /\ ~(b < a)
        BY <3>3, <3>4, <4>2, RanksDiffer
      <4> QED
        BY <1>1, <4>3
    <3> QED
      BY <3>6, <3>7
  <2>2. CASE ~call.sparse
    <3>1. NBlockMaxFor(call, m) \in Int
      BY <1>1, MaxForInt
    <3> HIDE DEF hb, a, b, m
    <3> QED
      BY <1>1, <1>2, <2>2, <3>1 DEF LockValue
  <2> QED
    BY <2>1, <2>2
<1> QED
  BY <1>1, <1>3, RowFacts, TilesDiffer

-----------------------------------------------------------------------------
(* The invariant.  A CTA has the turn of a row block from its first add to *)
(* it until it passes the turn on, which is when that row block's adds are *)
(* over or, where the release is delayed, those of the one behind it are   *)
(* under way.                                                              *)

CtaRecord ==
    [at : {"idle", "add", "settle", "row", "end", "skip", "done"}, i : Nat \ {0}, stage : Nat,
     copied : Nat, skipped : Nat, out : {1, 2}, ep : {"wait", "sent", "done"}]

\* With its reduce warps at p, a CTA has the turn of its i-th of len row blocks.
InTurn(p, delay, len, i) ==
    IF delay
    THEN \/ p.at = "add" /\ i = p.i - (IF p.stage = 0 THEN 1 ELSE 0)
         \/ p.at = "settle" /\ (i = p.i \/ (p.stage = 0 /\ i = p.i - 1))
         \/ p.at = "end" /\ i = len
    ELSE \/ p.at = "add" /\ p.stage > 0 /\ i = p.i
         \/ p.at \in {"settle", "row"} /\ i = p.i

\* It has passed that turn on.
TurnOver(p, delay, len, i) ==
    \/ p.at \in {"skip", "done"}
    \/ IF delay
       THEN \/ p.at \in {"add", "settle"} /\ i < p.i - (IF p.stage = 0 THEN 1 ELSE 0)
            \/ p.at = "end" /\ i < len
       ELSE \/ p.at \in {"add", "settle", "row"} /\ i < p.i
            \/ p.at = "end"

Held(t) ==
    {i \in DOMAIN Rows(t) :
        ~Rows(t)[i].oob /\ InTurn(cta[t], DelayRelease(call), Len(Rows(t)), i)}
Over(t, i) == TurnOver(cta[t], DelayRelease(call), Len(Rows(t)), i)

\* The turn of row block m, one of the tile's own or one its window leaves out.
Passed(t, m) ==
    \/ \E i \in DOMAIN Rows(t) : Rows(t)[i].m = m /\ Over(t, i)
    \/ /\ m >= work[t].mMax
       /\ At(t, "done") \/ (At(t, "skip") /\ m < work[t].mMax + cta[t].skipped)

RowSem(t, i) == QSem(Hb(t), Rows(t)[i].m)
Skips(c) == ~c.spt /\ ~c.sparse /\ LeftBound(c)

Types ==
    /\ launched \in 0..Cardinality(Tiles(call))
    /\ cta \in [Tiles(call) -> CtaRecord]
    /\ sem \in [Semaphores(call) -> Nat]
    /\ DOMAIN added = Cells(call)
    /\ \A b \in bulk : b.tile \in Tiles(call) /\ b.cell \in Cells(call) /\ b.seq \in Nat

ShapeOf(t) ==
    /\ t >= launched => cta[t] = Idle
    /\ cta[t].i <= Larger(1, Len(Rows(t))) /\ cta[t].stage < call.stages
    /\ cta[t].at \in {"add", "settle", "row"} => Rows(t) # <<>>
    /\ At(t, "row") => ~DelayRelease(call)
    /\ At(t, "end") /\ Rows(t) # <<>> => cta[t].i = Len(Rows(t))
    /\ ~At(t, "idle") /\ cta[t].ep # "done" => call.group > 1
    /\ cta[t].ep = "sent" => ~At(t, "idle")
    /\ At(t, "skip") => Skips(call) /\ work[t].mMax + cta[t].skipped < RowBlocks(call)
    /\ ~At(t, "skip") /\ ~At(t, "done") => cta[t].skipped = 0
Shape == \A t \in Tiles(call) : ShapeOf(t)

\* The semaphore stands at the lock value of whoever has the turn.
TurnsKept == \A t \in Tiles(call) : \A i \in Held(t) : sem[RowSem(t, i)] = Rows(t)[i].lock

\* An add under way to dQ is one to a row block whose turn its CTA has.
RowAddOK(b) ==
    /\ b.seq <= cta[b.tile].copied
    /\ b.seq = cta[b.tile].copied => ~At(b.tile, "add")
    /\ \E i \in Held(b.tile) :
        /\ \E stage \in 0..(call.stages - 1) :
               b.cell = QCell(Hb(b.tile), Rows(b.tile)[i].m, stage)
        /\ b.seq = cta[b.tile].copied => i = cta[b.tile].i
RowAdds == \A b \in bulk : b.cell[1] = "Q" => RowAddOK(b)

\* The same for dK and dV, whose turns are waited for head by head.
OutputAdds ==
    \A b \in bulk : b.cell[1] # "Q" =>
        cta[b.tile].ep = "sent" /\ b.cell = KvCell(Output(b.tile), Hb(b.tile), N(b.tile))
OutputTurns ==
    \A t \in Tiles(call) : cta[t].ep = "sent" =>
        sem[KvSem(Output(t), Hb(t), N(t))] = Hb(t) % call.group

\* Where tiles pass turns on that they never waited for: no more turns than tiles
\* that passed theirs, and a turn comes only behind all the tiles before it.
PassedBy(hb, m) == {t \in Tiles(call) : Hb(t) = hb /\ Passed(t, m)}
NoTurnsAhead ==
    \A hb \in 0..(call.hbs - 1), m \in 0..(RowBlocks(call) - 1) :
        sem[QSem(hb, m)] <= Cardinality(PassedBy(hb, m))
InOrder ==
    \A t \in Tiles(call) : \A i \in DOMAIN Rows(t) : Over(t, i) => N(t) < sem[RowSem(t, i)]
Counted == Skips(call) => NoTurnsAhead /\ InOrder

Inv ==
    /\ Fixed /\ Types /\ Shape
    /\ TurnsKept /\ RowAdds /\ OutputAdds /\ OutputTurns /\ Counted

\* There are n naturals below n.
LEMMA BelowIsFinite ==
    ASSUME NEW n \in Nat
    PROVE  IsFiniteSet(0..(n - 1)) /\ Cardinality(0..(n - 1)) = n
<1>1. 0 \in Int /\ n - 1 \in Int
  OBVIOUS
<1> QED
  BY <1>1, FS_Interval

LEMMA TilesFinite ==
    ASSUME NEW c, IsCall(c)
    PROVE  /\ IsFiniteSet(Tiles(c)) /\ Tiles(c) \in SUBSET Nat
           /\ Cardinality(Tiles(c)) \in Nat /\ Tiles(c) = 0..(Cardinality(Tiles(c)) - 1)
<1> DEFINE k == NumBlock(c) * c.hbs
<1>1. k \in Nat
  BY CallNumbers
<1>2. Tiles(c) = 0..(k - 1)
  BY DEF Tiles
<1> HIDE DEF k
<1>3. IsFiniteSet(0..(k - 1)) /\ Cardinality(0..(k - 1)) = k
  BY <1>1, BelowIsFinite
<1> QED
  BY <1>1, <1>2, <1>3

LEMMA IdleIsRecord == Idle \in CtaRecord
BY DEF Idle, CtaRecord

LEMMA InitInv == ASSUME Init PROVE Inv
<1>1. Fixed
  BY FixedInit
<1>2. IsCall(call) /\ \A t \in Tiles(call) : cta[t] = Idle
  BY <1>1 DEF Init, Fixed
<1>3. \A t \in Tiles(call) : cta[t].at = "idle" /\ cta[t].ep = "wait" /\ cta[t].i = 1
                             /\ cta[t].stage = 0 /\ cta[t].skipped = 0
  BY <1>2 DEF Idle
<1>4. Types
  <2>1. launched \in 0..Cardinality(Tiles(call))
    BY <1>2, TilesFinite DEF Init
  <2>2. cta \in [Tiles(call) -> CtaRecord]
    BY IdleIsRecord DEF Init
  <2> QED
    BY <2>1, <2>2 DEF Init, Types
<1>5. Shape
  <2> SUFFICES ASSUME NEW t \in Tiles(call) PROVE ShapeOf(t)
    BY DEF Shape
  <2>1. call.stages \in Nat \ {0} /\ Len(Rows(t)) \in Nat
    BY <1>1, <1>2, CallNumbers, RowFacts
  <2> QED
    BY <1>2, <1>3, <2>1 DEF ShapeOf, At, Larger
<1>6. \A t \in Tiles(call) : Held(t) = {} /\ \A i : ~Over(t, i)
  BY <1>3 DEF Held, Over, InTurn, TurnOver
<1>7. TurnsKept
  BY <1>6 DEF TurnsKept
<1>8. RowAdds /\ OutputAdds
  BY DEF Init, RowAdds, OutputAdds
<1>9. OutputTurns
  BY <1>3 DEF OutputTurns
<1>10. Counted
  <2>1. InOrder
    BY <1>6 DEF InOrder
  <2>2. NoTurnsAhead
    <3> SUFFICES ASSUME NEW hb \in 0..(call.hbs - 1), NEW m \in 0..(RowBlocks(call) - 1)
                 PROVE  sem[QSem(hb, m)] <= Cardinality(PassedBy(hb, m))
      BY DEF NoTurnsAhead
    <3>1. sem[QSem(hb, m)] = 0
      BY DEF Init, QSem, Semaphores
    <3>2. PassedBy(hb, m) \in SUBSET Tiles(call)
      BY DEF PassedBy
    <3>3. Cardinality(PassedBy(hb, m)) \in Nat
      BY <1>2, <3>2, TilesFinite, FS_Subset, FS_CardinalityType
    <3> QED
      BY <3>1, <3>3
  <2> QED
    BY <2>1, <2>2 DEF Counted
<1> QED
  BY <1>1, <1>4, <1>5, <1>7, <1>8, <1>9, <1>10 DEF Inv

-----------------------------------------------------------------------------
(* Where the loops go on.                                                  *)

\* From p to q at the end of one of len row blocks, and of a part of it.
ToNextRow(p, q, len) ==
    IF p.i = len THEN q.at = "end" /\ q.i = p.i /\ q.stage = p.stage /\ q.copied = p.copied
    ELSE q.at = "add" /\ q.i = p.i + 1 /\ q.stage = 0 /\ q.copied = p.copied + 1
ToNextPart(p, q, len) ==
    IF p.stage + 1 < call.stages
    THEN q.at = "add" /\ q.i = p.i /\ q.stage = p.stage + 1 /\ q.copied = p.copied + 1
    ELSE IF DelayRelease(call) THEN ToNextRow(p, q, len)
    ELSE q.at = "row" /\ q.i = p.i /\ q.stage = p.stage /\ q.copied = p.copied

\* Only the reduce warps of tile t move.
OnlyRows(t) ==
    /\ cta' \in [Tiles(call) -> CtaRecord]
    /\ \A u \in Tiles(call) : u # t => cta'[u] = cta[u]
    /\ cta'[t].out = cta[t].out /\ cta'[t].ep = cta[t].ep

LEMMA RecordMoves ==
    ASSUME Types, NEW t \in Tiles(call), NEW q \in CtaRecord, cta' = [cta EXCEPT ![t] = q]
    PROVE  /\ cta' \in [Tiles(call) -> CtaRecord] /\ cta'[t] = q
           /\ \A u \in Tiles(call) : u # t => cta'[u] = cta[u]
BY DEF Types

LEMMA GotoOK ==
    ASSUME Types, NEW t \in Tiles(call), NEW where \in {"settle", "row", "end", "skip", "done"},
           Goto(t, where)
    PROVE  /\ OnlyRows(t) /\ cta'[t].skipped = cta[t].skipped
           /\ cta'[t].at = where /\ cta'[t].i = cta[t].i /\ cta'[t].stage = cta[t].stage
           /\ cta'[t].copied = cta[t].copied
<1> DEFINE p == cta[t]   q == [p EXCEPT !.at = where]
<1>1. p \in CtaRecord
  BY DEF Types
<1>2. cta' = [cta EXCEPT ![t] = q]
  BY DEF Goto
<1> HIDE DEF p
<1>3. /\ q \in CtaRecord /\ q.at = where /\ q.i = p.i /\ q.stage = p.stage /\ q.copied = p.copied
      /\ q.skipped = p.skipped /\ q.out = p.out /\ q.ep = p.ep
  BY <1>1 DEF CtaRecord
<1> HIDE DEF q
<1> QED
  BY <1>2, <1>3, RecordMoves DEF OnlyRows, p

LEMMA NextRowOK ==
    ASSUME Types, NEW t \in Tiles(call), NextRow(t)
    PROVE  /\ OnlyRows(t) /\ cta'[t].skipped = cta[t].skipped
           /\ ToNextRow(cta[t], cta'[t], Len(Rows(t)))
<1>1. CASE cta[t].i = Len(Rows(t))
  BY <1>1, GotoOK DEF NextRow, ToNextRow
<1>2. CASE cta[t].i # Len(Rows(t))
  <2> DEFINE p == cta[t]
             q == [p EXCEPT !.at = "add", !.stage = 0, !.i = @ + 1, !.copied = p.copied + 1]
  <2>1. p \in CtaRecord
    BY DEF Types
  <2>2. cta' = [cta EXCEPT ![t] = q]
    BY <1>2 DEF NextRow, Copied
  <2> HIDE DEF p
  <2>a. p.i + 1 \in Nat \ {0} /\ p.copied + 1 \in Nat
    BY <2>1 DEF CtaRecord
  <2> DEFINE k == p.i + 1   d == p.copied + 1
  <2>b. q = [p EXCEPT !.at = "add", !.stage = 0, !.i = k, !.copied = d]
    OBVIOUS
  <2>c. k \in Nat \ {0} /\ d \in Nat /\ k = p.i + 1 /\ d = p.copied + 1
    BY <2>a
  <2> HIDE DEF q, k, d
  <2>d. /\ q \in CtaRecord /\ q.at = "add" /\ q.i = k /\ q.stage = 0 /\ q.copied = d
        /\ q.skipped = p.skipped /\ q.out = p.out /\ q.ep = p.ep
    BY <2>1, <2>b, <2>c DEF CtaRecord
  <2>3. /\ q \in CtaRecord /\ q.at = "add" /\ q.i = p.i + 1 /\ q.stage = 0
        /\ q.copied = p.copied + 1
        /\ q.skipped = p.skipped /\ q.out = p.out /\ q.ep = p.ep
    BY <2>c, <2>d
  <2> HIDE DEF q
  <2> QED
    BY <1>2, <2>2, <2>3, RecordMoves DEF OnlyRows, ToNextRow, p
<1> QED
  BY <1>1, <1>2

LEMMA NextPartOK ==
    ASSUME Types, NEW t \in Tiles(call), NextPart(t)
    PROVE  /\ OnlyRows(t) /\ cta'[t].skipped = cta[t].skipped
           /\ ToNextPart(cta[t], cta'[t], Len(Rows(t)))
<1>1. CASE cta[t].stage + 1 < call.stages
  <2> DEFINE p == cta[t]
             q == [p EXCEPT !.at = "add", !.stage = @ + 1, !.copied = p.copied + 1]
  <2>1. p \in CtaRecord
    BY DEF Types
  <2>2. cta' = [cta EXCEPT ![t] = q]
    BY <1>1 DEF NextPart, Copied
  <2> HIDE DEF p
  <2>a. p.stage + 1 \in Nat /\ p.copied + 1 \in Nat
    BY <2>1 DEF CtaRecord
  <2> DEFINE k == p.stage + 1   d == p.copied + 1
  <2>b. q = [p EXCEPT !.at = "add", !.stage = k, !.copied = d]
    OBVIOUS
  <2>c. k \in Nat /\ d \in Nat /\ k = p.stage + 1 /\ d = p.copied + 1
    BY <2>a
  <2> HIDE DEF q, k, d
  <2>d. /\ q \in CtaRecord /\ q.at = "add" /\ q.i = p.i /\ q.stage = k /\ q.copied = d
        /\ q.skipped = p.skipped /\ q.out = p.out /\ q.ep = p.ep
    BY <2>1, <2>b, <2>c DEF CtaRecord
  <2>3. /\ q \in CtaRecord /\ q.at = "add" /\ q.i = p.i /\ q.stage = p.stage + 1
        /\ q.copied = p.copied + 1
        /\ q.skipped = p.skipped /\ q.out = p.out /\ q.ep = p.ep
    BY <2>c, <2>d
  <2> HIDE DEF q
  <2> QED
    BY <1>1, <2>2, <2>3, RecordMoves DEF OnlyRows, ToNextPart, p
<1>2. CASE ~(cta[t].stage + 1 < call.stages) /\ DelayRelease(call)
  BY <1>2, NextRowOK DEF NextPart, ToNextPart
<1>3. CASE ~(cta[t].stage + 1 < call.stages) /\ ~DelayRelease(call)
  BY <1>3, GotoOK DEF NextPart, ToNextPart
<1> QED
  BY <1>1, <1>2, <1>3

-----------------------------------------------------------------------------
(* Semaphores and cells.                                                   *)

LEMMA RowPlaces ==
    ASSUME NEW hb \in 0..(call.hbs - 1), NEW m \in 0..(RowBlocks(call) - 1)
    PROVE  /\ QSem(hb, m) \in Semaphores(call)
           /\ \A stage \in 0..(call.stages - 1) : QCell(hb, m, stage) \in Cells(call)
BY DEF QSem, QCell, Semaphores, Cells

LEMMA OutputPlaces ==
    ASSUME IsCall(call), NEW hb \in 0..(call.hbs - 1), NEW n \in 0..(NumBlock(call) - 1),
           NEW o \in Outputs(call)
    PROVE  /\ KvSem(o, hb, n) \in Semaphores(call) /\ KvCell(o, hb, n) \in Cells(call)
           /\ o \in {"K", "V"}
<1> DEFINE g == call.group   k == call.hbs \div g   x == hb \div g
<1>1. g \in Nat \ {0} /\ call.hbs \in Nat /\ call.hbs % g = 0 /\ hb \in Nat /\ hb < call.hbs
  BY CallNumbers
<1>2. call.hbs \in Int /\ hb \in Int
  BY <1>1
<1> HIDE DEF g
<1>3. call.hbs = k * g + (call.hbs % g) /\ k \in Int
  BY <1>1, <1>2, DivBounds
<1>4. x \in Int /\ x * g <= hb /\ (hb >= 0 => x >= 0)
  BY <1>1, <1>2, DivBounds
<1> HIDE DEF k, x
<1>5. x * g < k * g
  <2>1. k * g \in Int /\ x * g \in Int
    BY <1>1, <1>3, <1>4
  <2>2. call.hbs = k * g
    BY <1>1, <1>3, <2>1
  <2> QED
    BY <1>1, <1>4, <2>1, <2>2
<1>6. x < k
  BY <1>1, <1>3, <1>4, <1>5, TimesLess
<1>7. x \in 0..(k - 1)
  BY <1>1, <1>3, <1>4, <1>6
<1>8. /\ <<o, x, n>> \in Outputs(call) \X (0..(k - 1)) \X (0..(NumBlock(call) - 1))
      /\ <<o, x, n, 0>> \in Outputs(call) \X (0..(k - 1)) \X (0..(NumBlock(call) - 1)) \X {0}
  BY <1>7
<1>9. /\ KvSem(o, hb, n) = <<o, x, n>> /\ KvCell(o, hb, n) = <<o, x, n, 0>>
      /\ o \in {"K", "V"}
  BY DEF KvSem, KvCell, x, g, Outputs
<1>10. /\ <<o, x, n>> \in Semaphores(call) /\ <<o, x, n, 0>> \in Cells(call)
  BY <1>8 DEF Semaphores, Cells, k, g
<1> QED
  BY <1>9, <1>10

LEMMA ArriveOK ==
    ASSUME Types, NEW s \in Semaphores(call), ArriveInc(s)
    PROVE  /\ sem' \in [Semaphores(call) -> Nat] /\ sem'[s] = sem[s] + 1
           /\ \A r \in Semaphores(call) : r # s => sem'[r] = sem[r]
BY DEF Types, ArriveInc

LEMMA HeldOK ==
    ASSUME Fixed, NEW t \in Tiles(call), NEW i \in Held(t)
    PROVE  /\ i \in DOMAIN Rows(t) /\ ~Rows(t)[i].oob /\ RowSem(t, i) \in Semaphores(call)
           /\ Hb(t) \in 0..(call.hbs - 1) /\ Rows(t)[i].m \in 0..(RowBlocks(call) - 1)
<1>1. i \in DOMAIN Rows(t) /\ ~Rows(t)[i].oob
  BY DEF Held
<1>2. Hb(t) \in 0..(call.hbs - 1) /\ Rows(t)[i].m \in 0..(RowBlocks(call) - 1)
  BY <1>1, RowFacts, RowOK
<1> QED
  BY <1>1, <1>2, RowPlaces DEF RowSem

\* Nobody else has a turn that t has.
LEMMA OneHolder ==
    ASSUME Fixed, TurnsKept, NEW t \in Tiles(call), NEW k \in Held(t),
           NEW u \in Tiles(call), NEW i \in Held(u), u # t
    PROVE  RowSem(u, i) # RowSem(t, k)
<1> SUFFICES ASSUME RowSem(u, i) = RowSem(t, k) PROVE FALSE
  OBVIOUS
<1>1. Hb(u) = Hb(t) /\ Rows(u)[i].m = Rows(t)[k].m
  BY DEF RowSem, QSem
<1>2. Rows(u)[i].lock = Rows(t)[k].lock
  BY DEF TurnsKept
<1> QED
  BY <1>1, <1>2, HeldOK, LockTells

\* Those of dK and dV, while a CTA's epilogue is at work.
LEMMA SentPlaces ==
    ASSUME Inv, NEW t \in Tiles(call), cta[t].ep # "done", ~At(t, "idle")
    PROVE  /\ KvSem(Output(t), Hb(t), N(t)) \in Semaphores(call)
           /\ KvSem(Output(t), Hb(t), N(t))[1] # "Q"
           /\ KvCell(Output(t), Hb(t), N(t)) \in Cells(call)
           /\ KvCell(Output(t), Hb(t), N(t))[1] # "Q"
<1>1. IsCall(call) /\ call.group > 1 /\ cta[t] \in CtaRecord
  BY DEF Inv, Fixed, Types, Shape, ShapeOf
<1>2. Output(t) \in {"K", "V"}
  BY <1>1 DEF Output, OutputOrder, CtaRecord
<1>3. Output(t) \in Outputs(call)
  BY <1>1, <1>2, CallNumbers DEF Outputs
<1>4. Hb(t) \in 0..(call.hbs - 1) /\ N(t) \in 0..(NumBlock(call) - 1)
  BY RowFacts DEF Inv
<1>5. KvSem(Output(t), Hb(t), N(t))[1] = Output(t) /\ KvCell(Output(t), Hb(t), N(t))[1] = Output(t)
  BY DEF KvSem, KvCell
<1> QED
  BY <1>1, <1>2, <1>3, <1>4, <1>5, OutputPlaces

\* The tiles whose CTA does not move.
LEMMA Still ==
    ASSUME UNCHANGED <<call, work>>, NEW u, cta'[u] = cta[u]
    PROVE  /\ Held(u)' = Held(u) /\ (ShapeOf(u) /\ (u >= launched' => u >= launched) => ShapeOf(u)')
           /\ \A i : Over(u, i)' <=> Over(u, i)
           /\ \A m : Passed(u, m)' <=> Passed(u, m)
           /\ \A b : b.tile = u => (RowAddOK(b)' <=> RowAddOK(b))
<1>1. Held(u)' = Held(u)
  BY DEF Held, Rows
<1>2. \A i : Over(u, i)' <=> Over(u, i)
  BY DEF Over, Rows
<1>3. \A m : Passed(u, m)' <=> Passed(u, m)
  BY <1>2 DEF Passed, Rows, At
<1>4. \A b : b.tile = u => (RowAddOK(b)' <=> RowAddOK(b))
  BY <1>1 DEF RowAddOK, At, QCell, Hb, Rows
<1> QED
  BY <1>1, <1>2, <1>3, <1>4 DEF ShapeOf, At, Rows, Skips

-----------------------------------------------------------------------------
(* What every step of a CTA's reduce warps keeps.                          *)

\* Tile t passes the turn of row block m on, which nobody else has.
PassOn(t, m) ==
    /\ ArriveInc(QSem(Hb(t), m))
    /\ \A u \in Tiles(call) : u # t => \A i \in Held(u) : RowSem(u, i) # QSem(Hb(t), m)
    /\ Skips(call) => ~Passed(t, m) /\ Passed(t, m)'

\* No semaphore goes back, and those of dK and dV stay.
LEMMA SemsGrow ==
    ASSUME Fixed, Types, NEW t \in Tiles(call),
           sem' = sem \/ \E m \in 0..(RowBlocks(call) - 1) : PassOn(t, m)
    PROVE  /\ sem' \in [Semaphores(call) -> Nat]
           /\ \A s \in Semaphores(call) : sem'[s] >= sem[s] /\ (s[1] # "Q" => sem'[s] = sem[s])
           /\ \A u \in Tiles(call) : u # t => \A i \in Held(u) : sem'[RowSem(u, i)] = sem[RowSem(u, i)]
<1>0. sem \in [Semaphores(call) -> Nat] /\ Hb(t) \in 0..(call.hbs - 1)
  BY RowFacts DEF Types
<1>1. CASE sem' = sem
  <2>1. \A s \in Semaphores(call) : sem[s] \in Nat
    BY <1>0
  <2> QED
    BY <1>0, <1>1, <2>1
<1>2. CASE \E m \in 0..(RowBlocks(call) - 1) : PassOn(t, m)
  <2>1. PICK m \in 0..(RowBlocks(call) - 1) : PassOn(t, m)
    BY <1>2
  <2> DEFINE s == QSem(Hb(t), m)
  <2>2. s \in Semaphores(call) /\ s[1] = "Q"
    BY <1>0, RowPlaces DEF QSem
  <2>3. ArriveInc(s) /\ \A u \in Tiles(call) : u # t => \A i \in Held(u) : RowSem(u, i) # s
    BY <2>1 DEF PassOn
  <2> HIDE DEF s
  <2>4. /\ sem' \in [Semaphores(call) -> Nat] /\ sem'[s] = sem[s] + 1
        /\ \A r \in Semaphores(call) : r # s => sem'[r] = sem[r]
    BY <2>2, <2>3, ArriveOK
  <2>5. \A r \in Semaphores(call) : sem'[r] >= sem[r]
    <3>1. \A r \in Semaphores(call) : sem[r] \in Nat
      BY <1>0
    <3> QED
      BY <2>4, <3>1
  <2>6. \A u \in Tiles(call) : \A i \in Held(u) : RowSem(u, i) \in Semaphores(call)
    BY HeldOK
  <2> QED
    BY <2>2, <2>3, <2>4, <2>5, <2>6
<1> QED
  BY <1>1, <1>2

\* dK and dV, when their warps do nothing.
LEMMA OutputsStay ==
    ASSUME Inv, UNCHANGED <<call, work>>,
           \A u \in Tiles(call) : cta'[u].out = cta[u].out /\ cta'[u].ep = cta[u].ep,
           \A b \in bulk' : b.cell[1] # "Q" => b \in bulk,
           \A s \in Semaphores(call) : s[1] # "Q" => sem'[s] = sem[s]
    PROVE  OutputAdds' /\ OutputTurns'
<1>1. Tiles(call)' = Tiles(call) /\ \A u \in Tiles(call) : Hb(u)' = Hb(u) /\ N(u)' = N(u)
                                                        /\ Output(u)' = Output(u)
  BY DEF Tiles, NumBlock, Hb, N, Output, OutputOrder
<1>2. OutputAdds'
  <2> SUFFICES ASSUME NEW b \in bulk', b.cell[1] # "Q"
               PROVE  (cta[b.tile].ep = "sent" /\ b.cell = KvCell(Output(b.tile), Hb(b.tile), N(b.tile)))'
    BY DEF OutputAdds
  <2>1. b \in bulk /\ b.tile \in Tiles(call)
    BY DEF Inv, Types
  <2>2. cta[b.tile].ep = "sent" /\ b.cell = KvCell(Output(b.tile), Hb(b.tile), N(b.tile))
    BY <2>1 DEF Inv, OutputAdds
  <2> QED
    BY <1>1, <2>1, <2>2 DEF KvCell
<1>3. OutputTurns'
  <2> SUFFICES ASSUME NEW u \in Tiles(call), cta'[u].ep = "sent"
               PROVE  sem'[KvSem(Output(u), Hb(u), N(u))'] = Hb(u)' % call'.group
    BY <1>1 DEF OutputTurns
  <2>1. cta[u].ep = "sent" /\ sem[KvSem(Output(u), Hb(u), N(u))] = Hb(u) % call.group
    BY DEF Inv, OutputTurns
  <2>2. KvSem(Output(u), Hb(u), N(u))' = KvSem(Output(u), Hb(u), N(u))
    BY <1>1 DEF KvSem
  <2>3. KvSem(Output(u), Hb(u), N(u)) \in Semaphores(call) /\ KvSem(Output(u), Hb(u), N(u))[1] # "Q"
    <3>1. cta[u].ep # "done" /\ ~At(u, "idle")
      BY <2>1 DEF Inv, Shape, ShapeOf
    <3> QED
      BY <3>1, SentPlaces
  <2> QED
    BY <1>1, <2>1, <2>2, <2>3
<1> QED
  BY <1>2, <1>3

\* The bound on the turns of a row block.
LEMMA TurnsCounted ==
    ASSUME Inv, Skips(call), UNCHANGED <<call, work>>, NEW t \in Tiles(call),
           \A u \in Tiles(call) : u # t => cta'[u] = cta[u],
           sem' = sem \/ \E m \in 0..(RowBlocks(call) - 1) : PassOn(t, m),
           \A m \in 0..(RowBlocks(call) - 1) : Passed(t, m) => Passed(t, m)'
    PROVE  NoTurnsAhead'
<1> SUFFICES ASSUME NEW hb \in 0..(call.hbs - 1), NEW m \in 0..(RowBlocks(call) - 1)
             PROVE  sem'[QSem(hb, m)] <= Cardinality(PassedBy(hb, m)')
  BY DEF NoTurnsAhead, QSem, RowBlocks
<1> DEFINE A == PassedBy(hb, m)   B == PassedBy(hb, m)'   s == QSem(hb, m)
<1>1. Fixed /\ Types /\ IsCall(call) /\ sem[s] <= Cardinality(A) /\ s \in Semaphores(call)
  BY RowPlaces DEF Inv, Counted, NoTurnsAhead, Fixed
<1>2. Tiles(call)' = Tiles(call) /\ \A u \in Tiles(call) : Hb(u)' = Hb(u)
  BY DEF Tiles, NumBlock, Hb
<1>3. \A u \in Tiles(call) : u # t => (Passed(u, m)' <=> Passed(u, m))
  BY Still
<1>4. A \in SUBSET B /\ B \in SUBSET Tiles(call)
  BY <1>2, <1>3 DEF PassedBy
<1>5. IsFiniteSet(B)
  BY <1>1, <1>4, TilesFinite, FS_Subset
<1>6. IsFiniteSet(A) /\ Cardinality(A) \in Nat /\ Cardinality(B) \in Nat
      /\ Cardinality(A) <= Cardinality(B) /\ (Cardinality(A) = Cardinality(B) => A = B)
  BY <1>4, <1>5, FS_Subset, FS_CardinalityType
<1>7. sem[s] \in Nat
  BY <1>1 DEF Types
<1>8. CASE sem'[s] = sem[s]
  BY <1>1, <1>6, <1>7, <1>8
<1>9. CASE sem'[s] # sem[s]
  <2>1. PICK k \in 0..(RowBlocks(call) - 1) : PassOn(t, k)
    BY <1>9
  <2>2. Hb(t) \in 0..(call.hbs - 1) /\ QSem(Hb(t), k) \in Semaphores(call)
    BY <1>1, RowFacts, RowPlaces
  <2>3. s = QSem(Hb(t), k) /\ sem'[s] = sem[s] + 1
    BY <1>1, <1>9, <2>1, <2>2, ArriveOK DEF PassOn
  <2>4. hb = Hb(t) /\ m = k
    BY <2>3 DEF QSem
  <2>5. t \in B /\ t \notin A
    BY <1>2, <2>1, <2>4 DEF PassOn, PassedBy
  <2> HIDE DEF A, B, s
  <2>6. Cardinality(A) # Cardinality(B)
    BY <1>6, <2>5
  <2> QED
    BY <1>1, <1>6, <1>7, <2>3, <2>6 DEF s, B
<1> QED
  BY <1>8, <1>9

\* A step of a CTA's reduce warps keeps the invariant if it does so for their own tile.
LEMMA RowsKeepInv ==
    ASSUME Inv, NEW t \in Tiles(call), UNCHANGED <<call, work, order, launched, added>>,
           OnlyRows(t), ShapeOf(t)',
           sem' = sem \/ \E m \in 0..(RowBlocks(call) - 1) : PassOn(t, m),
           \A i \in Held(t)' : sem'[RowSem(t, i)] = Rows(t)[i].lock,
           \A m \in 0..(RowBlocks(call) - 1) : Passed(t, m) => Passed(t, m)',
           Skips(call) => \A i \in DOMAIN Rows(t) : Over(t, i)' => Over(t, i) \/ N(t) < sem'[RowSem(t, i)],
           \A b \in bulk' : \/ b \in bulk
                            \/ b.tile = t /\ b.cell \in Cells(call) /\ b.seq \in Nat /\ b.cell[1] = "Q",
           \A b \in bulk' : b.tile = t /\ b.cell[1] = "Q" => RowAddOK(b)'
    PROVE  Inv'
<1>1. Fixed /\ Types /\ IsCall(call)
  BY DEF Inv, Fixed
<1>2. /\ sem' \in [Semaphores(call) -> Nat]
      /\ \A s \in Semaphores(call) : sem'[s] >= sem[s] /\ (s[1] # "Q" => sem'[s] = sem[s])
      /\ \A u \in Tiles(call) : u # t => \A i \in Held(u) : sem'[RowSem(u, i)] = sem[RowSem(u, i)]
  BY <1>1, SemsGrow
<1>3. Tiles(call)' = Tiles(call) /\ Cells(call)' = Cells(call) /\ Semaphores(call)' = Semaphores(call)
  BY DEF Tiles, NumBlock, Cells, Semaphores, Outputs, RowBlocks
<1>4. \A u \in Tiles(call) : u # t => cta'[u] = cta[u]
  BY DEF OnlyRows
<1>5. \A u, i : RowSem(u, i)' = RowSem(u, i) /\ Rows(u)' = Rows(u) /\ Hb(u)' = Hb(u) /\ N(u)' = N(u)
  BY DEF RowSem, QSem, Hb, Rows, N
<1>6. Fixed'
  <2>1. DOMAIN cta' = Tiles(call)
    BY DEF OnlyRows
  <2> QED
    BY <1>1, <2>1 DEF Fixed, Tiles, NumBlock, Cells, Outputs, RowBlocks, WorkTile, TheOrder
<1>7. Types'
  BY <1>1, <1>2, <1>3 DEF Types, OnlyRows
<1>8. Shape'
  <2>1. \A u \in Tiles(call) : u # t => ShapeOf(u)'
    BY <1>4, Still DEF Inv, Shape
  <2> QED
    BY <1>3, <2>1 DEF Shape
<1>9. TurnsKept'
  <2>1. \A u \in Tiles(call) : u # t => Held(u)' = Held(u)
    BY <1>4, Still
  <2>2. \A u \in Tiles(call) : \A i \in Held(u) : sem[RowSem(u, i)] = Rows(u)[i].lock
    BY DEF Inv, TurnsKept
  <2>3. \A u \in Tiles(call) : \A i \in Held(u)' : sem'[RowSem(u, i)] = Rows(u)[i].lock
    BY <1>2, <2>1, <2>2
  <2> QED
    BY <1>3, <1>5, <2>3 DEF TurnsKept
<1>10. RowAdds'
  <2> SUFFICES ASSUME NEW b \in bulk', b.cell[1] = "Q", b.tile # t PROVE RowAddOK(b)'
    BY DEF RowAdds
  <2>1. b \in bulk /\ b.tile \in Tiles(call) /\ RowAddOK(b)
    BY DEF Inv, Types, RowAdds
  <2> QED
    BY <1>4, <2>1, Still
<1>11. OutputAdds' /\ OutputTurns'
  <2>1. \A u \in Tiles(call) : cta'[u].out = cta[u].out /\ cta'[u].ep = cta[u].ep
    BY <1>4 DEF OnlyRows
  <2> QED
    BY <1>2, <2>1, OutputsStay
<1>12. Counted'
  <2> SUFFICES ASSUME Skips(call) PROVE NoTurnsAhead' /\ InOrder'
    BY DEF Counted, Skips, LeftBound
  <2>1. NoTurnsAhead'
    BY <1>4, TurnsCounted
  <2>2. \A u \in Tiles(call) : \A i \in DOMAIN Rows(u) : Over(u, i) => N(u) < sem'[RowSem(u, i)]
    <3> SUFFICES ASSUME NEW u \in Tiles(call), NEW i \in DOMAIN Rows(u), Over(u, i)
                 PROVE  N(u) < sem'[RowSem(u, i)]
      OBVIOUS
    <3>1. N(u) < sem[RowSem(u, i)]
      BY DEF Inv, Counted, InOrder
    <3>2. RowSem(u, i) \in Semaphores(call) /\ N(u) \in Int
      <4>1. /\ Hb(u) \in 0..(call.hbs - 1) /\ N(u) \in 0..(NumBlock(call) - 1)
            /\ NumBlock(call) \in Nat
        BY <1>1, RowFacts, CallNumbers
      <4>2. Rows(u)[i].m \in 0..(RowBlocks(call) - 1)
        BY <1>1, RowOK DEF Skips
      <4> QED
        BY <4>1, <4>2, RowPlaces DEF RowSem
    <3> DEFINE s == RowSem(u, i)
    <3>3. s \in Semaphores(call) /\ sem[s] \in Nat /\ sem'[s] \in Nat /\ sem'[s] >= sem[s]
      BY <1>1, <1>2, <3>2 DEF Types
    <3> HIDE DEF s
    <3> QED
      BY <3>1, <3>2, <3>3 DEF s
  <2>3. \A u \in Tiles(call) : u # t => \A i : Over(u, i)' => Over(u, i)
    BY <1>4, Still
  <2>4. \A u \in Tiles(call) : \A i \in DOMAIN Rows(u) : Over(u, i)' => N(u) < sem'[RowSem(u, i)]
    BY <2>2, <2>3
  <2> QED
    BY <1>3, <1>5, <2>1, <2>4 DEF InOrder
<1> QED
  BY <1>6, <1>7, <1>8, <1>9, <1>10, <1>11, <1>12 DEF Inv

\* What the next state of a tile's reduce warps says of its turns.
LEMMA NextTurns ==
    ASSUME UNCHANGED <<call, work>>, NEW t
    PROVE  /\ Held(t)' = {i \in DOMAIN Rows(t) : ~Rows(t)[i].oob
                            /\ InTurn(cta'[t], DelayRelease(call), Len(Rows(t)), i)}
           /\ \A i : Over(t, i)' <=> TurnOver(cta'[t], DelayRelease(call), Len(Rows(t)), i)
           /\ \A m : Passed(t, m)' <=>
                \/ \E i \in DOMAIN Rows(t) : Rows(t)[i].m = m /\ Over(t, i)'
                \/ /\ m >= work[t].mMax
                   /\ cta'[t].at = "done" \/ (cta'[t].at = "skip" /\ m < work[t].mMax + cta'[t].skipped)
           /\ \A b : b.tile = t =>
                (RowAddOK(b)' <=>
                   /\ b.seq <= cta'[t].copied
                   /\ b.seq = cta'[t].copied => cta'[t].at # "add"
                   /\ \E i \in Held(t)' :
                        /\ \E stage \in 0..(call.stages - 1) : b.cell = QCell(Hb(t), Rows(t)[i].m, stage)
                        /\ b.seq = cta'[t].copied => i = cta'[t].i)
<1>1. \A i : Over(t, i)' <=> TurnOver(cta'[t], DelayRelease(call), Len(Rows(t)), i)
  BY DEF Over, TurnOver, DelayRelease, Rows
<1>2. Held(t)' = {i \in DOMAIN Rows(t) : ~Rows(t)[i].oob
                    /\ InTurn(cta'[t], DelayRelease(call), Len(Rows(t)), i)}
  BY DEF Held, InTurn, DelayRelease, Rows
<1>3. \A m : Passed(t, m)' <=>
                \/ \E i \in DOMAIN Rows(t) : Rows(t)[i].m = m /\ Over(t, i)'
                \/ /\ m >= work[t].mMax
                   /\ cta'[t].at = "done" \/ (cta'[t].at = "skip" /\ m < work[t].mMax + cta'[t].skipped)
  BY DEF Passed, Rows, At
<1>4. \A b : b.tile = t =>
                (RowAddOK(b)' <=>
                   /\ b.seq <= cta'[t].copied
                   /\ b.seq = cta'[t].copied => cta'[t].at # "add"
                   /\ \E i \in Held(t)' :
                        /\ \E stage \in 0..(call.stages - 1) : b.cell = QCell(Hb(t), Rows(t)[i].m, stage)
                        /\ b.seq = cta'[t].copied => i = cta'[t].i)
  BY DEF RowAddOK, At, Rows, Hb, QCell
<1> QED
  BY <1>1, <1>2, <1>3, <1>4

\* A tile at one of its row blocks.
LEMMA AtRow ==
    ASSUME Inv, NEW t \in Tiles(call), cta[t].at \in {"add", "settle", "row"}
    PROVE  /\ cta[t] \in CtaRecord /\ cta[t].i \in DOMAIN Rows(t) /\ Row(t) = Rows(t)[cta[t].i]
           /\ cta[t].i <= Len(Rows(t)) /\ Len(Rows(t)) \in Nat /\ DOMAIN Rows(t) = 1..Len(Rows(t))
           /\ cta[t].stage \in 0..(call.stages - 1) /\ call.stages \in Nat \ {0}
           /\ ~(t >= launched) /\ cta[t].skipped = 0
           /\ cta[t].at = "row" => ~DelayRelease(call)
<1>1. cta[t] \in CtaRecord /\ ShapeOf(t)
  BY DEF Inv, Types, Shape
<1>2. call.stages \in Nat \ {0}
  BY CallNumbers DEF Inv, Fixed
<1>3. /\ Len(Rows(t)) \in Nat /\ DOMAIN Rows(t) = 1..Len(Rows(t))
      /\ (Rows(t) = <<>> <=> Len(Rows(t)) = 0)
  BY RowFacts DEF Inv
<1>4. cta[t].i \in Nat \ {0} /\ cta[t].stage \in Nat
  BY <1>1 DEF CtaRecord
<1>5. cta[t].i <= Len(Rows(t)) /\ cta[t].stage < call.stages
  BY <1>1, <1>3, <1>4 DEF ShapeOf, Larger
<1>6. ~(t >= launched) /\ cta[t].skipped = 0 /\ (cta[t].at = "row" => ~DelayRelease(call))
  BY <1>1 DEF ShapeOf, Idle, At
<1> QED
  BY <1>1, <1>2, <1>3, <1>4, <1>5, <1>6 DEF Row, Rows

LEMMA AddPartKeeps == ASSUME Inv, NEW t \in Tiles(call), AddPart(t) PROVE Inv'
<1> DEFINE p == cta[t]   q == cta'[t]   delay == DelayRelease(call)   len == Len(Rows(t))
           new == [tile |-> t, cell |-> QCell(Hb(t), Row(t).m, p.stage), seq |-> p.copied]
<1>1. /\ p.at = "add" /\ ~Row(t).oob /\ UNCHANGED <<call, work, order, launched, added>>
      /\ sem' = sem /\ bulk' = bulk \cup {new}
      /\ p.stage = 0 => sem[QSem(Hb(t), Row(t).m)] = Row(t).lock
  BY DEF AddPart, At, HasTurn
<1>2. Fixed /\ Types
  BY DEF Inv
<1>3. /\ OnlyRows(t) /\ q.skipped = p.skipped
      /\ q.at = "settle" /\ q.i = p.i /\ q.stage = p.stage /\ q.copied = p.copied
  BY <1>2, GotoOK DEF AddPart
<1>4. /\ p \in CtaRecord /\ p.i \in DOMAIN Rows(t) /\ Row(t) = Rows(t)[p.i]
      /\ p.stage \in 0..(call.stages - 1) /\ ~(t >= launched) /\ p.skipped = 0 /\ p.i <= len /\ len \in Nat
      /\ call.stages \in Nat \ {0} /\ DOMAIN Rows(t) = 1..len
  BY <1>1, AtRow
<1>5. p.i \in Nat \ {0} /\ p.stage \in Nat /\ p.copied \in Nat
  BY <1>4 DEF CtaRecord
<1> HIDE DEF p, q
<1>6. ShapeOf(t)'
  <2>1. ShapeOf(t)
    BY DEF Inv, Shape
  <2> QED
    BY <1>1, <1>3, <1>4, <1>5, <2>1 DEF ShapeOf, At, Rows, p, q, OnlyRows, Larger
<1>7. \A i \in DOMAIN Rows(t) : InTurn(q, delay, len, i) <=> InTurn(p, delay, len, i) \/ i = p.i
  BY <1>1, <1>3, <1>4, <1>5 DEF InTurn
<1>8. Held(t)' = Held(t) \cup {p.i}
  BY SMTT(30), <1>1, <1>4, <1>7, NextTurns DEF Held, p, q
<1>9. \A i : Over(t, i)' <=> Over(t, i)
  <2>1. \A i : TurnOver(q, delay, len, i) <=> TurnOver(p, delay, len, i)
    BY <1>1, <1>3 DEF TurnOver
  <2> QED
    BY <1>1, <2>1, NextTurns DEF Over, p, q
<1>10. \A m : Passed(t, m) => Passed(t, m)'
  BY <1>1, <1>3, <1>9, NextTurns DEF Passed, At, p, q
<1>11. \A i \in Held(t)' : sem'[RowSem(t, i)] = Rows(t)[i].lock
  <2>1. \A i \in Held(t) : sem[RowSem(t, i)] = Rows(t)[i].lock
    BY DEF Inv, TurnsKept
  <2>2. sem[RowSem(t, p.i)] = Rows(t)[p.i].lock
    <3>1. CASE p.stage = 0
      BY <1>1, <1>4, <3>1 DEF RowSem
    <3>2. CASE p.stage # 0
      <4>1. p.i \in Held(t)
        BY <1>1, <1>4, <1>5, <3>2 DEF Held, InTurn, p
      <4> QED
        BY <2>1, <4>1
    <3> QED
      BY <3>1, <3>2
  <2> QED
    BY <1>1, <1>8, <2>1, <2>2
<1>12. new.tile = t /\ new.cell = QCell(Hb(t), Rows(t)[p.i].m, p.stage) /\ new.seq = p.copied
       /\ new.cell \in Cells(call) /\ new.cell[1] = "Q"
  <2>1. Hb(t) \in 0..(call.hbs - 1) /\ Rows(t)[p.i].m \in 0..(RowBlocks(call) - 1)
    BY <1>1, <1>2, <1>4, RowFacts, RowOK
  <2> QED
    BY <1>4, <2>1, RowPlaces DEF QCell
<1> HIDE DEF new
<1>13. \A b \in bulk' : b.tile = t /\ b.cell[1] = "Q" => RowAddOK(b)'
  <2> SUFFICES ASSUME NEW b \in bulk', b.tile = t, b.cell[1] = "Q" PROVE RowAddOK(b)'
    OBVIOUS
  <2>1. CASE b \in bulk
    <3>1. RowAddOK(b)
      BY <2>1 DEF Inv, RowAdds
    <3> QED
      BY <1>1, <1>3, <1>8, <3>1, NextTurns DEF RowAddOK, At, p, q
  <2>2. CASE b = new
    <3>1. b.seq <= q.copied /\ b.seq = q.copied
      BY <1>3, <1>5, <1>12, <2>2
    <3>2. p.i \in Held(t)' /\ b.cell = QCell(Hb(t), Rows(t)[p.i].m, p.stage)
      BY <1>8, <1>12, <2>2
    <3> QED
      BY <1>1, <1>3, <1>4, <3>1, <3>2, NextTurns DEF p, q
  <2> QED
    BY <1>1, <2>1, <2>2
<1>14. \A b \in bulk' : \/ b \in bulk
                        \/ b.tile = t /\ b.cell \in Cells(call) /\ b.seq \in Nat /\ b.cell[1] = "Q"
  BY <1>1, <1>5, <1>12
<1> QED
  BY <1>1, <1>3, <1>6, <1>9, <1>10, <1>11, <1>13, <1>14, RowsKeepInv

LEMMA SkipPartKeeps == ASSUME Inv, NEW t \in Tiles(call), SkipPart(t) PROVE Inv'
<1> DEFINE p == cta[t]   q == cta'[t]   delay == DelayRelease(call)   len == Len(Rows(t))
<1>1. /\ p.at = "add" /\ Row(t).oob /\ UNCHANGED <<call, work, order, launched, added>>
      /\ sem' = sem /\ bulk' = bulk
  BY DEF SkipPart, At
<1>2. Fixed /\ Types
  BY DEF Inv
<1>3. /\ OnlyRows(t) /\ q.skipped = p.skipped
      /\ q.at = "settle" /\ q.i = p.i /\ q.stage = p.stage /\ q.copied = p.copied
  BY <1>2, GotoOK DEF SkipPart
<1>4. /\ p \in CtaRecord /\ p.i \in DOMAIN Rows(t) /\ Row(t) = Rows(t)[p.i]
      /\ p.stage \in 0..(call.stages - 1) /\ ~(t >= launched) /\ p.skipped = 0 /\ p.i <= len /\ len \in Nat
      /\ call.stages \in Nat \ {0} /\ DOMAIN Rows(t) = 1..len
  BY <1>1, AtRow
<1>5. p.i \in Nat \ {0} /\ p.stage \in Nat /\ p.copied \in Nat
  BY <1>4 DEF CtaRecord
<1> HIDE DEF p, q
<1>6. ShapeOf(t)'
  <2>1. ShapeOf(t)
    BY DEF Inv, Shape
  <2> QED
    BY <1>1, <1>3, <1>4, <1>5, <2>1 DEF ShapeOf, At, Rows, p, q, OnlyRows, Larger
<1>7. \A i \in DOMAIN Rows(t) : InTurn(q, delay, len, i) <=> InTurn(p, delay, len, i) \/ i = p.i
  BY <1>1, <1>3, <1>4, <1>5 DEF InTurn
<1>8. Held(t)' = Held(t)
  BY <1>1, <1>4, <1>7, NextTurns DEF Held, p, q
<1>9. \A i : Over(t, i)' <=> Over(t, i)
  <2>1. \A i : TurnOver(q, delay, len, i) <=> TurnOver(p, delay, len, i)
    BY <1>1, <1>3 DEF TurnOver
  <2> QED
    BY <1>1, <2>1, NextTurns DEF Over, p, q
<1>10. \A m : Passed(t, m) => Passed(t, m)'
  BY <1>1, <1>3, <1>9, NextTurns DEF Passed, At, p, q
<1>11. \A i \in Held(t)' : sem'[RowSem(t, i)] = Rows(t)[i].lock
  BY <1>1, <1>8 DEF Inv, TurnsKept
<1>12. \A b \in bulk' : b.tile = t /\ b.cell[1] = "Q" => RowAddOK(b)'
  <2> SUFFICES ASSUME NEW b \in bulk', b.tile = t, b.cell[1] = "Q" PROVE RowAddOK(b)'
    OBVIOUS
  <2>1. RowAddOK(b)
    BY <1>1 DEF Inv, RowAdds
  <2> QED
    BY <1>1, <1>3, <1>8, <2>1, NextTurns DEF RowAddOK, At, p, q
<1> QED
  BY <1>1, <1>3, <1>6, <1>9, <1>10, <1>11, <1>12, RowsKeepInv

\* A tile that passes a turn on that it has.
LEMMA HeldPassedOn ==
    ASSUME Inv, NEW t \in Tiles(call), NEW k \in Held(t), ArriveInc(RowSem(t, k)),
           NEW m, m = Rows(t)[k].m, Skips(call) => Passed(t, m)'
    PROVE  /\ m \in 0..(RowBlocks(call) - 1) /\ PassOn(t, m)
           /\ Skips(call) => N(t) < sem'[RowSem(t, k)]
           /\ \A s \in Semaphores(call) : s # RowSem(t, k) => sem'[s] = sem[s]
<1> DEFINE p == cta[t]   len == Len(Rows(t))   delay == DelayRelease(call)
<1>1. Fixed /\ Types /\ TurnsKept /\ IsCall(call)
  BY DEF Inv, Fixed
<1>2. /\ k \in DOMAIN Rows(t) /\ ~Rows(t)[k].oob /\ RowSem(t, k) \in Semaphores(call)
      /\ Hb(t) \in 0..(call.hbs - 1) /\ m \in 0..(RowBlocks(call) - 1)
  BY <1>1, HeldOK
<1>3. sem'[RowSem(t, k)] = sem[RowSem(t, k)] + 1
      /\ \A s \in Semaphores(call) : s # RowSem(t, k) => sem'[s] = sem[s]
  BY <1>1, <1>2, ArriveOK
<1>4. \A u \in Tiles(call) : u # t => \A i \in Held(u) : RowSem(u, i) # RowSem(t, k)
  BY <1>1, OneHolder
<1>5. ASSUME Skips(call) PROVE ~Passed(t, m) /\ N(t) < sem'[RowSem(t, k)]
  <2>1. /\ work[t].mMin \in Nat /\ work[t].mMax \in Int
        /\ N(t) \in Nat /\ len \in Nat /\ DOMAIN Rows(t) = 1..len
    <3>1. NumBlock(call) \in Nat
      BY <1>1, CallNumbers
    <3> QED
      BY <1>1, <3>1, RowFacts
  <2>2. /\ m < work[t].mMax /\ m = work[t].mMin + k - 1
        /\ \A i \in DOMAIN Rows(t) : Rows(t)[i].m = work[t].mMin + i - 1
    BY <1>1, <1>2, <1>5, RowOK DEF Skips
  <2>3. \A i \in DOMAIN Rows(t) : Rows(t)[i].m = m => i = k
    BY <1>2, <2>1, <2>2
  <2>4. ~TurnOver(p, delay, len, k)
    <3>1. InTurn(p, delay, len, k) /\ p \in CtaRecord
      BY <1>1 DEF Held, Types
    <3>2. p.i \in Int /\ k \in Int /\ len \in Int
      BY <1>2, <2>1, <3>1 DEF CtaRecord
    <3> HIDE DEF p, len, delay
    <3> QED
      BY <3>1, <3>2 DEF InTurn, TurnOver
  <2>5. ~Passed(t, m)
    BY <1>2, <2>1, <2>2, <2>3, <2>4 DEF Passed, Over
  <2>6. sem[RowSem(t, k)] = N(t)
    <3>1. sem[RowSem(t, k)] = Rows(t)[k].lock
      BY <1>1 DEF TurnsKept
    <3>2. Rows(t)[k].lock = LockValue(call, Hb(t), N(t), m)
      BY <1>1, <1>2, RowOK
    <3> QED
      BY <1>5, <3>1, <3>2 DEF LockValue, Skips
  <2> QED
    BY <1>3, <2>1, <2>5, <2>6
<1>6. PassOn(t, m)
  BY <1>4, <1>5 DEF PassOn, RowSem
<1> QED
  BY <1>2, <1>3, <1>5, <1>6

LEMMA SettlePartKeeps == ASSUME Inv, NEW t \in Tiles(call), SettlePart(t) PROVE Inv'
<1> DEFINE p == cta[t]   q == cta'[t]   delay == DelayRelease(call)   len == Len(Rows(t))
<1>1. /\ p.at = "settle" /\ UNCHANGED <<call, work, order, launched, added>> /\ bulk' = bulk
      /\ WaitGroup(t, IF Row(t).oob THEN 0 ELSE call.staging - 1)
      /\ IF PassesOn(t) THEN ArriveInc(QSem(Hb(t), Row(t).m - 1)) ELSE sem' = sem
  BY DEF SettlePart, At
<1>2. Fixed /\ Types /\ IsCall(call) /\ call.staging \in {1, 2}
  BY CallNumbers DEF Inv, Fixed
<1>3. OnlyRows(t) /\ q.skipped = p.skipped /\ ToNextPart(p, q, len)
  BY <1>2, NextPartOK DEF SettlePart
<1>4. /\ p \in CtaRecord /\ p.i \in DOMAIN Rows(t) /\ Row(t) = Rows(t)[p.i]
      /\ p.stage \in 0..(call.stages - 1) /\ ~(t >= launched) /\ p.skipped = 0 /\ p.i <= len /\ len \in Nat
      /\ call.stages \in Nat \ {0} /\ DOMAIN Rows(t) = 1..len
  BY <1>1, AtRow
<1>5. p.i \in Nat \ {0} /\ p.stage \in Nat /\ p.copied \in Nat
  BY <1>4 DEF CtaRecord
<1> HIDE DEF p, q
<1>6. ShapeOf(t)'
  <2>1. ShapeOf(t)
    BY DEF Inv, Shape
  <2>2. q.i <= Larger(1, len) /\ q.stage < call.stages /\ q.skipped = 0
        /\ q.at \in {"add", "row", "end"} /\ (q.at = "row" => ~delay) /\ (q.at = "end" => q.i = len)
    BY <1>3, <1>4, <1>5 DEF ToNextPart, ToNextRow, Larger
  <2>3. Rows(t) # <<>>
    BY <1>4, <1>5
  <2>4. q.ep = p.ep /\ (p.ep # "done" => call.group > 1)
    BY <1>1, <1>3, <2>1 DEF OnlyRows, ShapeOf, At, p, q
  <2> QED
    BY <1>1, <1>4, <2>2, <2>3, <2>4 DEF ShapeOf, At, Rows, p, q, DelayRelease
<1>7. \A i \in DOMAIN Rows(t) : InTurn(q, delay, len, i) <=> i = p.i
  BY <1>3, <1>4, <1>5 DEF InTurn, ToNextPart, ToNextRow
<1>8. \A i \in DOMAIN Rows(t) : TurnOver(q, delay, len, i) <=> i < p.i
  BY <1>3, <1>4, <1>5 DEF TurnOver, ToNextPart, ToNextRow
<1>9. \A i \in Held(t)' : i = p.i /\ i \in Held(t)
  <2>1. InTurn(p, delay, len, p.i)
    BY <1>1 DEF InTurn
  <2> QED
    BY <1>1, <1>4, <1>7, <2>1, NextTurns DEF Held, p, q
<1>10. \A i \in DOMAIN Rows(t) : Over(t, i)' <=> i < p.i
  BY <1>1, <1>8, NextTurns DEF q
<1>11. \A i \in DOMAIN Rows(t) : Over(t, i) <=> i < p.i - (IF delay /\ p.stage = 0 THEN 1 ELSE 0)
  BY <1>1, <1>4, <1>5 DEF Over, TurnOver, p
<1>12. ASSUME NEW m, Passed(t, m) PROVE Passed(t, m)'
  <2>1. PICK i \in DOMAIN Rows(t) : Rows(t)[i].m = m /\ Over(t, i)
    BY <1>1, <1>12 DEF Passed, At, p
  <2>2. i < p.i
    BY <1>4, <1>5, <1>11, <2>1
  <2> QED
    BY <1>1, <1>10, <2>1, <2>2, NextTurns
\* The row block before, where the release is delayed.
<1>13. ASSUME p.i > 1, delay, p.stage = 0
       PROVE  /\ PassesOn(t) /\ p.i - 1 \in Held(t)
              /\ QSem(Hb(t), Row(t).m - 1) = RowSem(t, p.i - 1)
              /\ RowSem(t, p.i - 1) # RowSem(t, p.i)
  <2> DEFINE k == p.i - 1
  <2>1. k \in DOMAIN Rows(t) /\ k # p.i
    BY <1>4, <1>5, <1>13
  <2>2. ~call.sparse
    BY <1>13 DEF DelayRelease
  <2>3. /\ ~Rows(t)[k].oob /\ Rows(t)[k].m = work[t].mMin + k - 1
        /\ Rows(t)[p.i].m = work[t].mMin + p.i - 1 /\ work[t].mMin \in Nat
    BY <1>2, <1>4, <2>1, <2>2, RowOK, RowFacts
  <2>4. Row(t).m > work[t].mMin /\ Row(t).m - 1 = Rows(t)[k].m /\ Rows(t)[k].m # Rows(t)[p.i].m
    BY SMTT(30), <1>4, <1>5, <1>13, <2>3
  <2>5. InTurn(p, delay, len, k)
    BY <1>1, <1>13 DEF InTurn
  <2> HIDE DEF k
  <2>6. k \in Held(t)
    BY <2>1, <2>3, <2>5 DEF Held, p
  <2>7. QSem(Hb(t), Row(t).m - 1) = RowSem(t, k) /\ RowSem(t, k) # RowSem(t, p.i)
    BY <2>4 DEF QSem, RowSem
  <2> QED
    BY <1>13, <2>4, <2>6, <2>7 DEF PassesOn, p, k
<1>14. ASSUME PassesOn(t)
       PROVE  p.i > 1 /\ delay /\ p.stage = 0
  <2>1. delay /\ p.stage = 0 /\ Row(t).m > work[t].mMin
    BY <1>14 DEF PassesOn, p
  <2>2. ~call.sparse
    BY <2>1 DEF DelayRelease
  <2>3. Rows(t)[p.i].m = work[t].mMin + p.i - 1 /\ work[t].mMin \in Nat
    BY <1>2, <1>4, <2>2, RowOK, RowFacts
  <2> QED
    BY <1>4, <1>5, <2>1, <2>3
<1>15. /\ sem' = sem \/ \E m \in 0..(RowBlocks(call) - 1) : PassOn(t, m)
       /\ \A i \in Held(t)' : sem'[RowSem(t, i)] = Rows(t)[i].lock
       /\ Skips(call) => \A i \in DOMAIN Rows(t) : Over(t, i)' => Over(t, i) \/ N(t) < sem'[RowSem(t, i)]
  <2>1. CASE ~PassesOn(t)
    <3>1. sem' = sem
      BY <1>1, <2>1
    <3>2. ~(p.i > 1 /\ delay /\ p.stage = 0)
      BY <1>13, <2>1
    <3>3. \A i \in DOMAIN Rows(t) : Over(t, i)' => Over(t, i)
      BY <1>4, <1>5, <1>10, <1>11, <3>2
    <3>4. \A i \in Held(t)' : sem'[RowSem(t, i)] = Rows(t)[i].lock
      BY <1>9, <3>1 DEF Inv, TurnsKept
    <3> QED
      BY <3>1, <3>3, <3>4
  <2>2. CASE PassesOn(t)
    <3> PICK k : k = p.i - 1
      OBVIOUS
    <3>1. p.i > 1 /\ delay /\ p.stage = 0
      BY <1>14, <2>2
    <3>2. k \in Held(t) /\ ArriveInc(RowSem(t, k)) /\ RowSem(t, k) # RowSem(t, p.i)
      BY <1>1, <1>13, <2>2, <3>1
    <3> PICK m : m = Rows(t)[k].m
      OBVIOUS
    <3>3. k \in DOMAIN Rows(t)
      BY <1>2, <3>2, HeldOK
    <3>4. k < p.i
      BY <1>5
    <3>5. Passed(t, m)'
      BY <1>1, <1>10, <3>3, <3>4, NextTurns
    <3>6. \A i \in DOMAIN Rows(t) : i < p.i => i = k \/ Over(t, i)
      BY <1>4, <1>5, <1>11, <3>1
    <3>7. /\ m \in 0..(RowBlocks(call) - 1) /\ PassOn(t, m)
          /\ Skips(call) => N(t) < sem'[RowSem(t, k)]
          /\ \A s \in Semaphores(call) : s # RowSem(t, k) => sem'[s] = sem[s]
      BY <3>2, <3>5, HeldPassedOn
    <3>8. \A i \in Held(t)' : sem'[RowSem(t, i)] = Rows(t)[i].lock
      <4> SUFFICES ASSUME NEW i \in Held(t)' PROVE sem'[RowSem(t, i)] = Rows(t)[i].lock
        OBVIOUS
      <4>1. i = p.i /\ i \in Held(t) /\ RowSem(t, i) \in Semaphores(call)
        BY <1>2, <1>9, HeldOK
      <4> QED
        BY <3>2, <3>7, <4>1 DEF Inv, TurnsKept
    <3>9. Skips(call) => \A i \in DOMAIN Rows(t) : Over(t, i)' => Over(t, i) \/ N(t) < sem'[RowSem(t, i)]
      BY <1>10, <3>6, <3>7
    <3> QED
      BY <3>7, <3>8, <3>9
  <2> QED
    BY <2>1, <2>2
<1>17. \A b \in bulk' : b.tile = t /\ b.cell[1] = "Q" => RowAddOK(b)'
  <2> SUFFICES ASSUME NEW b \in bulk, b.tile = t, b.cell[1] = "Q" PROVE RowAddOK(b)'
    BY <1>1
  <2>1. PICK i \in Held(t) :
          /\ b.seq <= p.copied
          /\ \E stage \in 0..(call.stages - 1) : b.cell = QCell(Hb(t), Rows(t)[i].m, stage)
          /\ b.seq = p.copied => i = p.i
    BY DEF Inv, RowAdds, RowAddOK, p
  <2>2. b.seq \in Nat /\ b.seq > p.copied - (IF Row(t).oob THEN 0 ELSE call.staging - 1)
    BY <1>1 DEF Inv, Types, WaitGroup, p
  <2>3. b.seq = p.copied
    <3>1. ASSUME Row(t).oob PROVE FALSE
      BY <1>5, <2>1, <2>2, <3>1
    <3> QED
      BY <1>2, <1>5, <2>1, <2>2, <3>1
  <2>4. p.i \in Held(t)'
    <3>1. ~Rows(t)[p.i].oob /\ p.i \in DOMAIN Rows(t)
      BY <2>1, <2>3 DEF Held
    <3> QED
      BY <1>1, <1>7, <3>1, NextTurns DEF q
  <2>5. /\ b.seq <= q.copied /\ (b.seq = q.copied => q.at # "add" /\ q.i = p.i)
    BY <1>3, <1>5, <2>2, <2>3 DEF ToNextPart, ToNextRow
  <2> QED
    BY <1>1, <2>1, <2>3, <2>4, <2>5, NextTurns DEF q
<1> QED
  BY <1>1, <1>3, <1>6, <1>12, <1>15, <1>17, RowsKeepInv

\* When all but no adds are waited for, none of the tile's to dQ are left.
LEMMA NoneLeft ==
    ASSUME Inv, NEW t \in Tiles(call), WaitGroup(t, 0), NEW b \in bulk, b.tile = t, b.cell[1] = "Q"
    PROVE  FALSE
<1>1. b.seq \in Nat /\ cta[t].copied \in Nat
  BY DEF Inv, Types, CtaRecord
<1>2. b.seq > cta[t].copied - 0 /\ b.seq <= cta[t].copied
  BY DEF Inv, RowAdds, RowAddOK, WaitGroup
<1> QED
  BY <1>1, <1>2

LEMMA EndRowKeeps == ASSUME Inv, NEW t \in Tiles(call), EndRow(t) PROVE Inv'
<1> DEFINE p == cta[t]   q == cta'[t]   delay == DelayRelease(call)   len == Len(Rows(t))
<1>1. /\ p.at = "row" /\ UNCHANGED <<call, work, order, launched, added>> /\ bulk' = bulk
      /\ WaitGroup(t, 0)
      /\ IF Row(t).oob THEN sem' = sem ELSE ArriveInc(QSem(Hb(t), Row(t).m))
  BY DEF EndRow, At
<1>2. Fixed /\ Types
  BY DEF Inv
<1>3. OnlyRows(t) /\ q.skipped = p.skipped /\ ToNextRow(p, q, len)
  BY <1>2, NextRowOK DEF EndRow
<1>4. /\ p \in CtaRecord /\ p.i \in DOMAIN Rows(t) /\ Row(t) = Rows(t)[p.i]
      /\ p.stage \in 0..(call.stages - 1) /\ ~(t >= launched) /\ p.skipped = 0 /\ p.i <= len /\ len \in Nat
      /\ call.stages \in Nat \ {0} /\ DOMAIN Rows(t) = 1..len /\ ~delay
  BY <1>1, AtRow
<1>5. p.i \in Nat \ {0} /\ p.stage \in Nat /\ p.copied \in Nat
  BY <1>4 DEF CtaRecord
<1> HIDE DEF p, q
<1>6. ShapeOf(t)'
  <2>1. ShapeOf(t)
    BY DEF Inv, Shape
  <2>2. q.i <= Larger(1, len) /\ q.stage < call.stages /\ q.skipped = 0
        /\ q.at \in {"add", "end"} /\ (q.at = "end" => q.i = len)
    BY <1>3, <1>4, <1>5 DEF ToNextRow, Larger
  <2>3. Rows(t) # <<>>
    BY <1>4, <1>5
  <2>4. q.ep = p.ep /\ (p.ep # "done" => call.group > 1)
    BY <1>1, <1>3, <2>1 DEF OnlyRows, ShapeOf, At, p, q
  <2> QED
    BY <1>1, <1>4, <2>2, <2>3, <2>4 DEF ShapeOf, At, Rows, p, q, DelayRelease
<1>7. \A i \in DOMAIN Rows(t) : ~InTurn(q, delay, len, i) /\ (TurnOver(q, delay, len, i) <=> i <= p.i)
  BY <1>3, <1>4, <1>5 DEF InTurn, TurnOver, ToNextRow
<1>8. Held(t)' = {}
  BY <1>1, <1>7, NextTurns DEF q
<1>9. \A i \in DOMAIN Rows(t) : Over(t, i)' <=> i <= p.i
  BY <1>1, <1>7, NextTurns DEF q
<1>10. \A i \in DOMAIN Rows(t) : Over(t, i) <=> i < p.i
  BY <1>1, <1>4 DEF Over, TurnOver, p
<1>11. ASSUME NEW m, Passed(t, m) PROVE Passed(t, m)'
  <2>1. PICK i \in DOMAIN Rows(t) : Rows(t)[i].m = m /\ Over(t, i)
    BY <1>1, <1>11 DEF Passed, At, p
  <2>2. i <= p.i
    BY <1>4, <1>5, <1>10, <2>1
  <2> QED
    BY <1>1, <1>9, <2>1, <2>2, NextTurns
<1>12. \A i \in DOMAIN Rows(t) : Over(t, i)' => i = p.i \/ Over(t, i)
  BY <1>4, <1>5, <1>9, <1>10
<1>13. /\ sem' = sem \/ \E m \in 0..(RowBlocks(call) - 1) : PassOn(t, m)
       /\ Skips(call) => \A i \in DOMAIN Rows(t) : Over(t, i)' => Over(t, i) \/ N(t) < sem'[RowSem(t, i)]
  <2>1. CASE Row(t).oob
    <3>1. sem' = sem /\ ~Skips(call)
      BY <1>1, <1>2, <1>4, <2>1, RowOK DEF Skips
    <3> QED
      BY <3>1
  <2>2. CASE ~Row(t).oob
    <3> PICK k : k = p.i
      OBVIOUS
    <3> PICK m : m = Rows(t)[k].m
      OBVIOUS
    <3>1. k \in Held(t)
      BY <1>1, <1>4, <2>2 DEF Held, InTurn, p
    <3>2. ArriveInc(RowSem(t, k))
      BY <1>1, <1>4, <2>2 DEF RowSem
    <3>3. Passed(t, m)'
      BY <1>1, <1>4, <1>5, <1>9, NextTurns
    <3>4. /\ m \in 0..(RowBlocks(call) - 1) /\ PassOn(t, m)
          /\ Skips(call) => N(t) < sem'[RowSem(t, k)]
      BY <3>1, <3>2, <3>3, HeldPassedOn
    <3> QED
      BY <1>12, <3>4
  <2> QED
    BY <2>1, <2>2
<1>14. \A b \in bulk' : ~(b.tile = t /\ b.cell[1] = "Q")
  BY <1>1, NoneLeft
<1> QED
  BY <1>1, <1>3, <1>6, <1>8, <1>11, <1>13, <1>14, RowsKeepInv

LEMMA EndRowsKeeps == ASSUME Inv, NEW t \in Tiles(call), EndRows(t) PROVE Inv'
<1> DEFINE p == cta[t]   q == cta'[t]   delay == DelayRelease(call)   len == Len(Rows(t))
<1>1. /\ p.at = "end" /\ UNCHANGED <<call, work, order, launched, added>> /\ bulk' = bulk
      /\ work[t].works => WaitGroup(t, 0)
      /\ IF work[t].works /\ delay THEN ArriveInc(QSem(Hb(t), work[t].mMax - 1)) ELSE sem' = sem
  BY DEF EndRows, At
<1>2. Fixed /\ Types /\ IsCall(call) /\ ShapeOf(t) /\ p \in CtaRecord
  BY DEF Inv, Fixed, Shape, Types
<1>3. /\ OnlyRows(t) /\ q.skipped = p.skipped /\ q.i = p.i /\ q.stage = p.stage /\ q.copied = p.copied
      /\ q.at = IF SkippedRows(t) = {} THEN "done" ELSE "skip"
  <2>1. (IF SkippedRows(t) = {} THEN "done" ELSE "skip") \in {"settle", "row", "end", "skip", "done"}
    OBVIOUS
  <2>2. Goto(t, IF SkippedRows(t) = {} THEN "done" ELSE "skip")
    BY DEF EndRows
  <2> HIDE DEF p, q
  <2> PICK where \in {"settle", "row", "end", "skip", "done"} :
              where = IF SkippedRows(t) = {} THEN "done" ELSE "skip"
    BY <2>1
  <2>3. Goto(t, where)
    BY <2>2
  <2> QED
    BY <1>2, <2>3, GotoOK DEF p, q
<1>4. /\ len \in Nat /\ DOMAIN Rows(t) = 1..len /\ (Rows(t) = <<>> <=> len = 0)
      /\ (work[t].works <=> Rows(t) # <<>>) /\ work[t].mMax \in Int /\ RowBlocks(call) \in Nat
  BY <1>2, RowFacts, CallNumbers
<1> HIDE DEF p, q
<1>5. ShapeOf(t)'
  <2>1. q.at = "skip" => Skips(call) /\ work[t].mMax + q.skipped < RowBlocks(call)
    <3> SUFFICES ASSUME q.at = "skip" PROVE Skips(call) /\ work[t].mMax + q.skipped < RowBlocks(call)
      OBVIOUS
    <3>1. SkippedRows(t) # {}
      BY <1>3
    <3>2. Skips(call) /\ \E m \in work[t].mMax..(RowBlocks(call) - 1) : TRUE
      BY <3>1 DEF SkippedRows, Skips
    <3>3. q.skipped = 0
      BY <1>1, <1>2, <1>3 DEF ShapeOf, At, p
    <3> QED
      BY <1>4, <3>2, <3>3
  <2>2. q.at \in {"skip", "done"} /\ q.i = p.i /\ q.stage = p.stage /\ q.skipped = p.skipped
    BY <1>3
  <2>3. q.ep = p.ep /\ (p.ep # "done" => call.group > 1) /\ ~(t >= launched)
        /\ p.i <= Larger(1, len) /\ p.stage < call.stages
    BY <1>1, <1>2, <1>3 DEF OnlyRows, ShapeOf, At, p, q, Idle
  <2> QED
    BY <1>1, <1>2, <2>1, <2>2, <2>3 DEF ShapeOf, At, Rows, p, q, Skips, LeftBound, RowBlocks
<1>6. \A i \in DOMAIN Rows(t) : ~InTurn(q, delay, len, i) /\ TurnOver(q, delay, len, i)
  BY <1>3 DEF InTurn, TurnOver
<1>7. Held(t)' = {}
  BY <1>1, <1>6, NextTurns DEF q
<1>8. \A i \in DOMAIN Rows(t) : Over(t, i)'
  BY <1>1, <1>6, NextTurns DEF q
<1>9. ASSUME NEW m, Passed(t, m) PROVE Passed(t, m)'
  <2>1. PICK i \in DOMAIN Rows(t) : Rows(t)[i].m = m /\ Over(t, i)
    BY <1>1, <1>9 DEF Passed, At, p
  <2> QED
    BY <1>1, <1>8, <2>1, NextTurns
<1>10. \A i \in DOMAIN Rows(t) : Over(t, i) \/ (delay /\ i = len)
  BY <1>1, <1>4 DEF Over, TurnOver, p
<1>11. /\ sem' = sem \/ \E m \in 0..(RowBlocks(call) - 1) : PassOn(t, m)
       /\ Skips(call) => \A i \in DOMAIN Rows(t) : Over(t, i)' => Over(t, i) \/ N(t) < sem'[RowSem(t, i)]
  <2>1. CASE ~(work[t].works /\ delay)
    <3>1. \A i \in DOMAIN Rows(t) : Over(t, i)
      BY <1>4, <1>10, <2>1
    <3> QED
      BY <1>1, <2>1, <3>1
  <2>2. CASE work[t].works /\ delay
    <3> PICK k : k = len
      OBVIOUS
    <3> PICK m : m = Rows(t)[k].m
      OBVIOUS
    <3>1. k \in DOMAIN Rows(t) /\ ~call.sparse
      BY <1>4, <2>2 DEF DelayRelease
    <3>2. ~Rows(t)[k].oob /\ m = work[t].mMax - 1
      BY <1>2, <3>1, RowOK
    <3>3. k \in Held(t)
      BY <1>1, <2>2, <3>1, <3>2 DEF Held, InTurn, p
    <3>4. ArriveInc(RowSem(t, k))
      BY <1>1, <2>2, <3>2 DEF RowSem
    <3>5. Passed(t, m)'
      BY <1>1, <1>8, <3>1, NextTurns
    <3>6. /\ m \in 0..(RowBlocks(call) - 1) /\ PassOn(t, m)
          /\ Skips(call) => N(t) < sem'[RowSem(t, k)]
      BY <3>3, <3>4, <3>5, HeldPassedOn
    <3> QED
      BY <1>10, <3>6
  <2> QED
    BY <2>1, <2>2
<1>12. \A b \in bulk' : ~(b.tile = t /\ b.cell[1] = "Q")
  <2> SUFFICES ASSUME NEW b \in bulk, b.tile = t, b.cell[1] = "Q" PROVE FALSE
    BY <1>1
  <2>1. \E i \in Held(t) : TRUE
    BY DEF Inv, RowAdds, RowAddOK
  <2>2. work[t].works
    BY <1>4, <2>1 DEF Held
  <2> QED
    BY <1>1, <2>2, NoneLeft
<1> QED
  BY <1>1, <1>3, <1>5, <1>7, <1>9, <1>11, <1>12, RowsKeepInv

\* The row blocks a tile's window leaves out: whoever has the turn of one has all
\* the tiles before it behind it, which these would not let it have.
LEMMA SkippedFree ==
    ASSUME Inv, NEW t \in Tiles(call), At(t, "skip"), NEW m, m = work[t].mMax + cta[t].skipped,
           NEW u \in Tiles(call), u # t, NEW i \in Held(u)
    PROVE  RowSem(u, i) # QSem(Hb(t), m)
<1> SUFFICES ASSUME RowSem(u, i) = QSem(Hb(t), m) PROVE FALSE
  OBVIOUS
<1> DEFINE hb == Hb(t)   n == N(u)   P == PassedBy(hb, m)
<1>1. Fixed /\ Types /\ IsCall(call) /\ Skips(call) /\ ShapeOf(t) /\ cta[t] \in CtaRecord
  BY DEF Inv, Fixed, Shape, ShapeOf, Types
<1>2. Hb(u) = hb /\ Rows(u)[i].m = m /\ i \in DOMAIN Rows(u) /\ m \in 0..(RowBlocks(call) - 1)
      /\ hb \in 0..(call.hbs - 1) /\ RowSem(u, i) \in Semaphores(call)
  BY <1>1, HeldOK DEF RowSem, QSem
<1>3. \A v \in Tiles(call) : N(v) \in Nat /\ work[v].mMax = MBlockMax(call, N(v))
                             /\ work[v].mMax \in Int
  <2>1. NumBlock(call) \in Nat
    BY <1>1, CallNumbers
  <2> QED
    BY <1>1, <2>1, RowFacts
<1>4. sem[QSem(hb, m)] = n
  <2>1. sem[RowSem(u, i)] = Rows(u)[i].lock
    BY DEF Inv, TurnsKept
  <2>2. Rows(u)[i].lock = LockValue(call, Hb(u), N(u), Rows(u)[i].m)
    BY <1>1, <1>2, RowOK
  <2> QED
    BY <1>1, <2>1, <2>2 DEF LockValue, Skips
<1>5. n <= Cardinality(P)
  BY <1>1, <1>2, <1>4 DEF Inv, Counted, NoTurnsAhead
<1>6. \A v \in Tiles(call) : m >= work[v].mMax => N(v) < n
  <2> SUFFICES ASSUME NEW v \in Tiles(call), m >= work[v].mMax PROVE N(v) < n
    OBVIOUS
  <2>1. m < work[u].mMax
    BY <1>1, <1>2, RowOK DEF Skips
  <2>2. n <= N(v) => work[u].mMax <= work[v].mMax
    BY <1>1, <1>3, WindowMoves
  <2> QED
    BY <1>2, <1>3, <2>1, <2>2
<1>7. \A v \in P : v \in Tiles(call) /\ Hb(v) = hb /\ N(v) < n
  <2> SUFFICES ASSUME NEW v \in Tiles(call), Hb(v) = hb, Passed(v, m) PROVE N(v) < n
    BY DEF PassedBy
  <2>1. CASE m >= work[v].mMax
    BY <1>6, <2>1
  <2>2. CASE ~(m >= work[v].mMax)
    <3>1. PICK j \in DOMAIN Rows(v) : Rows(v)[j].m = m /\ Over(v, j)
      BY <2>2 DEF Passed
    <3>2. N(v) < sem[RowSem(v, j)]
      BY <1>1, <3>1 DEF Inv, Counted, InOrder
    <3> QED
      BY <1>4, <3>1, <3>2 DEF RowSem
  <2> QED
    BY <2>1, <2>2
<1>8. t \notin P /\ N(t) < n
  <2>1. cta[t].skipped \in Nat
    BY <1>1 DEF CtaRecord
  <2>2. m >= work[t].mMax /\ ~(m < work[t].mMax + cta[t].skipped)
    BY <1>2, <1>3, <2>1
  <2>3. \A j \in DOMAIN Rows(t) : Rows(t)[j].m # m
    <3>1. \A j \in DOMAIN Rows(t) : Rows(t)[j].m < work[t].mMax
      BY <1>1, RowOK DEF Skips
    <3> QED
      BY <1>2, <1>3, <2>2, <3>1
  <2>4. ~Passed(t, m)
    BY <2>2, <2>3 DEF Passed, At
  <2> QED
    BY <1>6, <2>2, <2>4 DEF PassedBy
<1> DEFINE S == P \cup {t}   f == [v \in S |-> N(v)]
<1>9. f \in Injection(S, 0..(n - 1))
  <2>1. \A v \in S : N(v) \in 0..(n - 1) /\ v \in Tiles(call) /\ Hb(v) = hb
    BY <1>3, <1>7, <1>8
  <2>2. \A v, w \in S : N(v) = N(w) => v = w
    <3> SUFFICES ASSUME NEW v \in S, NEW w \in S, N(v) = N(w) PROVE v = w
      OBVIOUS
    <3>1. v \in Tiles(call) /\ w \in Tiles(call) /\ Hb(v) = Hb(w)
      BY <2>1
    <3>2. HeadBatch(call, v) = HeadBatch(call, w) /\ NBlockOf(call, v) = NBlockOf(call, w)
      BY <1>1, <3>1, RowFacts
    <3> QED
      BY <1>1, <3>1, <3>2, TilesDiffer
  <2> HIDE DEF S
  <2> QED
    BY <2>1, <2>2 DEF Injection, IsInjective
<1>10. IsFiniteSet(0..(n - 1)) /\ Cardinality(0..(n - 1)) = n
  <2>1. n \in Nat
    BY <1>3
  <2> HIDE DEF n
  <2> QED
    BY <2>1, BelowIsFinite
<1> HIDE DEF f
<1>11. Cardinality(S) <= n
  <2> HIDE DEF S
  <2> QED
    BY <1>9, <1>10, FS_Injection
<1>12. IsFiniteSet(P)
  <2>1. P \in SUBSET Tiles(call)
    BY DEF PassedBy
  <2> QED
    BY <1>1, <2>1, TilesFinite, FS_Subset
<1> HIDE DEF P
<1>13. Cardinality(P) \in Nat /\ Cardinality(S) = Cardinality(P) + 1
  <2>1. Cardinality(P) \in Nat
    BY <1>12, FS_CardinalityType
  <2>2. Cardinality(P \cup {t}) = IF t \in P THEN Cardinality(P) ELSE Cardinality(P) + 1
    BY <1>12, FS_AddElement
  <2> QED
    BY <1>8, <2>1, <2>2
<1>14. n \in Nat
  BY <1>3
<1> HIDE DEF n, S
<1> QED
  BY <1>5, <1>11, <1>13, <1>14

LEMMA SkipRowKeeps == ASSUME Inv, NEW t \in Tiles(call), SkipRow(t) PROVE Inv'
<1> DEFINE p == cta[t]   q == cta'[t]   delay == DelayRelease(call)   len == Len(Rows(t))
           k == p.skipped + 1
           where == IF work[t].mMax + p.skipped + 1 = RowBlocks(call) THEN "done" ELSE "skip"
           new == [p EXCEPT !.skipped = k, !.at = where]
<1>1. /\ p.at = "skip" /\ UNCHANGED <<call, work, order, launched, added>> /\ bulk' = bulk
      /\ ArriveInc(QSem(Hb(t), work[t].mMax + p.skipped))
      /\ cta' = [cta EXCEPT ![t] = new]
  BY DEF SkipRow, At
<1>2. Fixed /\ Types /\ IsCall(call) /\ ShapeOf(t) /\ p \in CtaRecord
  BY DEF Inv, Fixed, Shape, Types
<1>3. Skips(call) /\ work[t].mMax + p.skipped < RowBlocks(call)
  BY <1>1, <1>2 DEF ShapeOf, At
<1>4. p.skipped \in Nat /\ work[t].mMax \in Nat /\ RowBlocks(call) \in Nat
  <2>1. work[t].mMax = MBlockMax(call, N(t)) /\ work[t].mMax \in Int /\ N(t) \in Nat
    <3>1. NumBlock(call) \in Nat
      BY <1>2, CallNumbers
    <3> QED
      BY <1>2, <3>1, RowFacts
  <2>2. call.mask = "local" /\ ~call.spt /\ call.left # Unbounded
    BY <1>3 DEF Skips, LeftBound
  <2>3. MBlockMax(call, N(t)) >= 0
    BY <1>2, <2>1, <2>2, WindowMoves
  <2> QED
    BY <1>2, <2>1, <2>3, CallNumbers DEF CtaRecord
<1>5. k \in Nat /\ where \in {"skip", "done"}
  BY <1>4
<1> HIDE DEF p, k
<1>6. /\ new \in CtaRecord /\ new.skipped = k /\ new.at = where /\ new.i = p.i /\ new.stage = p.stage
      /\ new.copied = p.copied /\ new.out = p.out /\ new.ep = p.ep
  <2> HIDE DEF where
  <2> QED
    BY <1>2, <1>5 DEF CtaRecord
<1> HIDE DEF new
<1>7. /\ OnlyRows(t) /\ q.skipped = k /\ q.at = where /\ q.i = p.i /\ q.stage = p.stage
      /\ q.copied = p.copied /\ q.ep = p.ep
  BY <1>1, <1>2, <1>6, RecordMoves DEF OnlyRows, p
<1> HIDE DEF q
<1>8. ShapeOf(t)'
  <2>1. q.at = "skip" => work[t].mMax + q.skipped < RowBlocks(call)
    <3>1. q.at = "skip" => work[t].mMax + p.skipped + 1 # RowBlocks(call)
      BY <1>7
    <3>2. q.skipped = p.skipped + 1
      BY <1>7 DEF k
    <3> QED
      BY <1>3, <1>4, <3>1, <3>2
  <2>2. ~(t >= launched) /\ p.i <= Larger(1, len) /\ p.stage < call.stages
        /\ (p.ep # "done" => call.group > 1)
    BY <1>1, <1>2 DEF ShapeOf, At, p, Idle
  <2> HIDE DEF where
  <2> QED
    BY <1>1, <1>3, <1>5, <1>7, <2>1, <2>2 DEF ShapeOf, At, Rows, p, q, Skips, LeftBound, RowBlocks
<1>9. \A i \in DOMAIN Rows(t) : ~InTurn(q, delay, len, i) /\ TurnOver(q, delay, len, i)
  BY <1>5, <1>7 DEF InTurn, TurnOver
<1>10. Held(t)' = {} /\ \A i \in DOMAIN Rows(t) : Over(t, i)' /\ Over(t, i)
  <2>1. \A i : Over(t, i)
    BY <1>1 DEF Over, TurnOver, p
  <2> QED
    BY <1>1, <1>9, <2>1, NextTurns DEF q
<1> PICK m : m = work[t].mMax + p.skipped
  OBVIOUS
<1>11. m \in 0..(RowBlocks(call) - 1) /\ Passed(t, m)' /\ ~Passed(t, m)
  <2>1. m \in Nat /\ m < RowBlocks(call) /\ m >= work[t].mMax /\ ~(m < work[t].mMax + p.skipped)
    BY <1>3, <1>4
  <2>2. \A i \in DOMAIN Rows(t) : Rows(t)[i].m # m
    <3>1. \A i \in DOMAIN Rows(t) : Rows(t)[i].m < work[t].mMax
      BY <1>2, <1>3, RowOK DEF Skips
    <3> QED
      BY <1>4, <2>1, <3>1
  <2>3. ~Passed(t, m)
    BY <1>1, <2>1, <2>2 DEF Passed, At, p
  <2>4. m < work[t].mMax + q.skipped
    BY <1>4, <1>7 DEF k
  <2>5. Passed(t, m)'
    BY <1>1, <1>5, <1>7, <2>1, <2>4, NextTurns DEF q
  <2> QED
    BY <1>4, <2>1, <2>3, <2>5
<1>12. PassOn(t, m)
  <2>1. \A u \in Tiles(call) : u # t => \A i \in Held(u) : RowSem(u, i) # QSem(Hb(t), m)
    BY <1>1, SkippedFree DEF At, p
  <2> QED
    BY <1>1, <1>11, <2>1 DEF PassOn
<1>13. ASSUME NEW x \in 0..(RowBlocks(call) - 1), Passed(t, x) PROVE Passed(t, x)'
  <2>1. CASE \E i \in DOMAIN Rows(t) : Rows(t)[i].m = x /\ Over(t, i)
    BY <1>1, <1>10, <2>1, NextTurns
  <2>2. CASE x >= work[t].mMax /\ x < work[t].mMax + p.skipped
    <3>1. x < work[t].mMax + p.skipped => x < work[t].mMax + q.skipped
      BY <1>4, <1>7 DEF k
    <3> QED
      BY <1>1, <1>5, <1>7, <2>2, <3>1, NextTurns DEF q
  <2> QED
    BY <1>1, <1>13, <2>1, <2>2 DEF Passed, At, p
<1>14. \A b \in bulk' : ~(b.tile = t /\ b.cell[1] = "Q")
  <2> SUFFICES ASSUME NEW b \in bulk, b.tile = t, b.cell[1] = "Q" PROVE FALSE
    BY <1>1
  <2>1. PICK i \in Held(t) : TRUE
    BY DEF Inv, RowAdds, RowAddOK
  <2> QED
    BY <1>1, <2>1 DEF Held, InTurn, p
<1> QED
  BY <1>1, <1>7, <1>8, <1>10, <1>11, <1>12, <1>13, <1>14, RowsKeepInv

-----------------------------------------------------------------------------
(* The epilogue, copies that land, and launches.                           *)

\* Only the epilogue of tile t moves.
OnlyOutput(t) ==
    /\ cta' \in [Tiles(call) -> CtaRecord]
    /\ \A u \in Tiles(call) : u # t => cta'[u] = cta[u]
    /\ cta'[t].at = cta[t].at /\ cta'[t].i = cta[t].i /\ cta'[t].stage = cta[t].stage
    /\ cta'[t].copied = cta[t].copied /\ cta'[t].skipped = cta[t].skipped

LEMMA OutputKeepsInv ==
    ASSUME Inv, NEW t \in Tiles(call), UNCHANGED <<call, work, order, launched, added>>,
           OnlyOutput(t), ~At(t, "idle"), call.group > 1,
           sem' \in [Semaphores(call) -> Nat],
           \A s \in Semaphores(call) : s[1] = "Q" => sem'[s] = sem[s],
           \A b \in bulk' : \/ b \in bulk
                            \/ b.tile \in Tiles(call) /\ b.cell \in Cells(call) /\ b.seq \in Nat
                               /\ b.cell[1] # "Q",
           OutputAdds', OutputTurns'
    PROVE  Inv'
<1>1. Fixed /\ Types /\ IsCall(call) /\ ShapeOf(t)
  BY DEF Inv, Fixed, Shape
<1>2. Tiles(call)' = Tiles(call) /\ Cells(call)' = Cells(call) /\ Semaphores(call)' = Semaphores(call)
  BY DEF Tiles, NumBlock, Cells, Semaphores, Outputs, RowBlocks
<1>3. \A u \in Tiles(call) : u # t => cta'[u] = cta[u]
  BY DEF OnlyOutput
<1>4. Held(t)' = Held(t) /\ (\A i : Over(t, i)' <=> Over(t, i)) /\ (\A m : Passed(t, m)' <=> Passed(t, m))
      /\ \A b : b.tile = t => (RowAddOK(b)' <=> RowAddOK(b))
  <2>1. \A i : /\ TurnOver(cta'[t], DelayRelease(call), Len(Rows(t)), i)
                    <=> TurnOver(cta[t], DelayRelease(call), Len(Rows(t)), i)
               /\ InTurn(cta'[t], DelayRelease(call), Len(Rows(t)), i)
                    <=> InTurn(cta[t], DelayRelease(call), Len(Rows(t)), i)
    BY DEF OnlyOutput, TurnOver, InTurn
  <2>2. Held(t)' = Held(t) /\ \A i : Over(t, i)' <=> Over(t, i)
    BY <2>1, NextTurns DEF Held, Over
  <2>3. \A m : Passed(t, m)' <=> Passed(t, m)
    BY <2>2, NextTurns DEF Passed, OnlyOutput, At
  <2>4. \A b : b.tile = t => (RowAddOK(b)' <=> RowAddOK(b))
    <3> SUFFICES ASSUME NEW b, b.tile = t PROVE RowAddOK(b)' <=> RowAddOK(b)
      OBVIOUS
    <3>1. cta'[t].copied = cta[t].copied /\ cta'[t].at = cta[t].at /\ cta'[t].i = cta[t].i
      BY DEF OnlyOutput
    <3>2. RowAddOK(b)' <=>
            /\ b.seq <= cta[t].copied
            /\ b.seq = cta[t].copied => cta[t].at # "add"
            /\ \E i \in Held(t) :
                 /\ \E stage \in 0..(call.stages - 1) : b.cell = QCell(Hb(t), Rows(t)[i].m, stage)
                 /\ b.seq = cta[t].copied => i = cta[t].i
      BY <2>2, <3>1, NextTurns
    <3> QED
      BY <3>2 DEF RowAddOK, At
  <2> QED
    BY <2>2, <2>3, <2>4
<1>5. \A u \in Tiles(call) :
          /\ Held(u)' = Held(u) /\ (\A i : Over(u, i)' <=> Over(u, i))
          /\ (\A m : Passed(u, m)' <=> Passed(u, m))
          /\ \A b : b.tile = u => (RowAddOK(b)' <=> RowAddOK(b))
  BY <1>3, <1>4, Still
<1>6. \A u, i : RowSem(u, i)' = RowSem(u, i) /\ Rows(u)' = Rows(u) /\ Hb(u)' = Hb(u) /\ N(u)' = N(u)
  BY DEF RowSem, QSem, Hb, Rows, N
<1>7. Fixed'
  <2>1. DOMAIN cta' = Tiles(call)
    BY DEF OnlyOutput
  <2> QED
    BY <1>1, <2>1 DEF Fixed, Tiles, NumBlock, Cells, Outputs, RowBlocks, WorkTile, TheOrder
<1>8. Types'
  BY <1>1, <1>2 DEF Types, OnlyOutput
<1>9. Shape'
  <2>1. \A u \in Tiles(call) : u # t => ShapeOf(u)'
    BY <1>3, Still DEF Inv, Shape
  <2>2. cta'[t].at = cta[t].at /\ cta'[t].i = cta[t].i /\ cta'[t].stage = cta[t].stage
        /\ cta'[t].skipped = cta[t].skipped
    BY DEF OnlyOutput
  <2>3. ~(t >= launched)
    BY <1>1 DEF ShapeOf, At, Idle
  <2>4. ShapeOf(t)'
    <3>1. cta'[t].at # "idle"
      BY <2>2 DEF At
    <3>2. Rows(t)' = Rows(t) /\ DelayRelease(call)' = DelayRelease(call)
          /\ Skips(call)' = Skips(call) /\ RowBlocks(call)' = RowBlocks(call)
          /\ work' = work /\ call' = call /\ launched' = launched
      BY DEF Rows, Skips, DelayRelease, LeftBound, RowBlocks
    <3> QED
      BY <1>1, <2>2, <2>3, <3>1, <3>2 DEF ShapeOf, At
  <2> QED
    BY <1>2, <2>1, <2>4 DEF Shape
<1>10. TurnsKept'
  <2>1. \A u \in Tiles(call) : \A i \in Held(u) : sem'[RowSem(u, i)] = Rows(u)[i].lock
    <3>1. \A u \in Tiles(call) : \A i \in Held(u) :
              RowSem(u, i) \in Semaphores(call) /\ RowSem(u, i)[1] = "Q"
      BY <1>1, HeldOK DEF RowSem, QSem
    <3> QED
      BY <3>1 DEF Inv, TurnsKept
  <2> QED
    BY <1>2, <1>5, <1>6, <2>1 DEF TurnsKept
<1>11. RowAdds'
  <2> SUFFICES ASSUME NEW b \in bulk', b.cell[1] = "Q" PROVE RowAddOK(b)'
    BY DEF RowAdds
  <2>1. b \in bulk /\ b.tile \in Tiles(call) /\ RowAddOK(b)
    BY DEF Inv, Types, RowAdds
  <2> QED
    BY <1>5, <2>1
<1>12. Counted'
  <2> SUFFICES ASSUME Skips(call) PROVE NoTurnsAhead' /\ InOrder'
    BY DEF Counted, Skips, LeftBound
  <2>1. NoTurnsAhead'
    <3> SUFFICES ASSUME NEW hb \in 0..(call.hbs - 1), NEW m \in 0..(RowBlocks(call) - 1)
                 PROVE  sem'[QSem(hb, m)] <= Cardinality(PassedBy(hb, m)')
      BY DEF NoTurnsAhead, QSem, RowBlocks
    <3>1. sem'[QSem(hb, m)] = sem[QSem(hb, m)]
      BY RowPlaces DEF QSem
    <3>2. PassedBy(hb, m)' = PassedBy(hb, m)
      BY <1>2, <1>5, <1>6 DEF PassedBy
    <3> QED
      BY <3>1, <3>2 DEF Inv, Counted, NoTurnsAhead
  <2>2. \A u \in Tiles(call) : \A i \in DOMAIN Rows(u) : Over(u, i) => N(u) < sem'[RowSem(u, i)]
    <3> SUFFICES ASSUME NEW u \in Tiles(call), NEW i \in DOMAIN Rows(u), Over(u, i)
                 PROVE  N(u) < sem'[RowSem(u, i)]
      OBVIOUS
    <3>1. N(u) < sem[RowSem(u, i)]
      BY DEF Inv, Counted, InOrder
    <3>2. Hb(u) \in 0..(call.hbs - 1) /\ Rows(u)[i].m \in 0..(RowBlocks(call) - 1)
      BY <1>1, RowFacts, RowOK DEF Skips
    <3>3. RowSem(u, i) \in Semaphores(call) /\ RowSem(u, i)[1] = "Q"
      BY <3>2, RowPlaces DEF RowSem, QSem
    <3> QED
      BY <3>1, <3>3
  <2> QED
    BY <1>2, <1>5, <1>6, <2>1, <2>2 DEF InOrder
<1> QED
  BY <1>7, <1>8, <1>9, <1>10, <1>11, <1>12 DEF Inv

LEMMA StoreGradientKeeps == ASSUME Inv, NEW t \in Tiles(call), StoreGradient(t) PROVE Inv'
<1> DEFINE p == cta[t]   q == cta'[t]   x == [p EXCEPT !.ep = "sent"]
           s == KvSem(Output(t), Hb(t), N(t))   cell == KvCell(Output(t), Hb(t), N(t))
           new == [tile |-> t, cell |-> cell, seq |-> 0]
<1>1. /\ p.ep = "wait" /\ ~At(t, "idle") /\ UNCHANGED <<call, work, order, launched, added>>
      /\ sem' = sem /\ bulk' = bulk \cup {new} /\ cta' = [cta EXCEPT ![t] = x]
      /\ sem[s] = Hb(t) % call.group
  BY DEF StoreGradient
<1>2. Fixed /\ Types /\ p \in CtaRecord /\ call.group > 1
  BY <1>1 DEF Inv, Types, Shape, ShapeOf
<1>3. s \in Semaphores(call) /\ cell \in Cells(call) /\ cell[1] # "Q"
  BY <1>1, SentPlaces
<1> HIDE DEF p
<1>4. /\ x \in CtaRecord /\ x.ep = "sent" /\ x.at = p.at /\ x.i = p.i /\ x.stage = p.stage
      /\ x.copied = p.copied /\ x.skipped = p.skipped /\ x.out = p.out
  BY <1>2 DEF CtaRecord
<1> HIDE DEF x
<1>5. OnlyOutput(t) /\ q.ep = "sent" /\ q.out = p.out
  BY <1>1, <1>2, <1>4, RecordMoves DEF OnlyOutput, p
<1>6. /\ \A u \in Tiles(call) : Hb(u)' = Hb(u) /\ N(u)' = N(u) /\ Output(u)' = Output(u)
      /\ \A o, hb, n : KvCell(o, hb, n)' = KvCell(o, hb, n) /\ KvSem(o, hb, n)' = KvSem(o, hb, n)
      /\ Tiles(call)' = Tiles(call)
      /\ \A u \in Tiles(call) : u # t => cta'[u] = cta[u]
  BY <1>1, <1>5 DEF Hb, N, Output, OutputOrder, KvCell, KvSem, Tiles, NumBlock, OnlyOutput, p
<1>7. new.tile = t /\ new.cell = cell /\ new.seq = 0
  OBVIOUS
<1> HIDE DEF new, cell, s, q
<1>8. OutputAdds'
  <2> SUFFICES ASSUME NEW b \in bulk', b.cell[1] # "Q"
               PROVE  (cta[b.tile].ep = "sent" /\ b.cell = KvCell(Output(b.tile), Hb(b.tile), N(b.tile)))'
    BY DEF OutputAdds
  <2>1. CASE b \in bulk
    <3>1. b.tile \in Tiles(call) /\ cta[b.tile].ep = "sent"
          /\ b.cell = KvCell(Output(b.tile), Hb(b.tile), N(b.tile))
      BY <2>1 DEF Inv, Types, OutputAdds
    <3>2. b.tile # t
      BY <1>1, <3>1 DEF p
    <3> QED
      BY <1>1, <1>6, <3>1, <3>2 DEF KvCell
  <2>2. CASE b = new
    BY <1>1, <1>5, <1>6, <1>7, <2>2 DEF cell, q, KvCell
  <2> QED
    BY <1>1, <2>1, <2>2
<1>9. OutputTurns'
  <2> SUFFICES ASSUME NEW u \in Tiles(call), cta'[u].ep = "sent"
               PROVE  sem'[KvSem(Output(u), Hb(u), N(u))'] = Hb(u)' % call'.group
    BY <1>6 DEF OutputTurns
  <2>1. KvSem(Output(u), Hb(u), N(u))' = KvSem(Output(u), Hb(u), N(u))
    BY <1>1, <1>6 DEF KvSem
  <2>2. sem[KvSem(Output(u), Hb(u), N(u))] = Hb(u) % call.group
    BY <1>1, <1>6 DEF s, Inv, OutputTurns
  <2> QED
    BY <1>1, <1>6, <2>1, <2>2
<1>10. \A b \in bulk' : \/ b \in bulk
                        \/ b.tile \in Tiles(call) /\ b.cell \in Cells(call) /\ b.seq \in Nat
                           /\ b.cell[1] # "Q"
  BY <1>1, <1>3, <1>7
<1> QED
  BY <1>1, <1>2, <1>5, <1>8, <1>9, <1>10, OutputKeepsInv DEF Types

\* The head of a group and its number in it tell the tiles of a block of keys apart.
LEMMA SameTile ==
    ASSUME Fixed, NEW t \in Tiles(call), NEW u \in Tiles(call), N(t) = N(u),
           Hb(t) \div call.group = Hb(u) \div call.group, Hb(t) % call.group = Hb(u) % call.group
    PROVE  t = u
<1>1. call.group \in Nat \ {0} /\ Hb(t) \in Int /\ Hb(u) \in Int
  BY CallNumbers, RowFacts DEF Fixed
<1> DEFINE x == Hb(t)   y == Hb(u)   g == call.group
<1>2. x \in Int /\ y \in Int /\ g \in Nat \ {0} /\ x \div g = y \div g /\ x % g = y % g
  BY <1>1
<1> HIDE DEF x, y, g
<1>3. x = (x \div g) * g + (x % g) /\ y = (y \div g) * g + (y % g)
  BY <1>2, DivBounds
<1>4. x = y
  BY <1>2, <1>3
<1>5. HeadBatch(call, t) = HeadBatch(call, u) /\ NBlockOf(call, t) = NBlockOf(call, u)
  BY <1>4, RowFacts DEF x, y
<1> QED
  BY <1>5, TilesDiffer DEF Fixed

LEMMA EndGradientKeeps == ASSUME Inv, NEW t \in Tiles(call), EndGradient(t) PROVE Inv'
<1> DEFINE p == cta[t]   q == cta'[t]   s == KvSem(Output(t), Hb(t), N(t))
           ep == IF p.out = 2 THEN "done" ELSE "wait"   out == Smaller(p.out + 1, 2)
           x == [p EXCEPT !.ep = ep, !.out = out]
<1>1. /\ p.ep = "sent" /\ UNCHANGED <<call, work, order, launched, added>>
      /\ bulk' = bulk /\ cta' = [cta EXCEPT ![t] = x] /\ ArriveInc(s)
      /\ \A b \in bulk : b.tile = t => b.cell[1] = "Q"
  BY DEF EndGradient
<1>2. Fixed /\ Types /\ IsCall(call) /\ p \in CtaRecord /\ call.group > 1 /\ ~At(t, "idle")
  BY <1>1 DEF Inv, Fixed, Types, Shape, ShapeOf
<1>3. s \in Semaphores(call) /\ s[1] # "Q"
  BY <1>1, <1>2, SentPlaces
<1> HIDE DEF p
<1>4. ep \in {"done", "wait"} /\ out \in {1, 2}
  BY <1>2 DEF CtaRecord, Smaller
<1> HIDE DEF ep, out
<1>5. /\ x \in CtaRecord /\ x.ep = ep /\ x.at = p.at /\ x.i = p.i /\ x.stage = p.stage
      /\ x.copied = p.copied /\ x.skipped = p.skipped
  BY <1>2, <1>4 DEF CtaRecord
<1> HIDE DEF x
<1>6. OnlyOutput(t) /\ q.ep # "sent"
  BY <1>1, <1>2, <1>4, <1>5, RecordMoves DEF OnlyOutput, p
<1>7. /\ \A u \in Tiles(call) : Hb(u)' = Hb(u) /\ N(u)' = N(u)
      /\ Tiles(call)' = Tiles(call)
      /\ \A u \in Tiles(call) : u # t => cta'[u] = cta[u] /\ Output(u)' = Output(u)
  BY <1>1, <1>6 DEF Hb, N, Output, OutputOrder, Tiles, NumBlock, OnlyOutput
<1> HIDE DEF s, q
<1>8. /\ sem' \in [Semaphores(call) -> Nat]
      /\ \A r \in Semaphores(call) : r # s => sem'[r] = sem[r]
  BY <1>1, <1>2, <1>3, ArriveOK
<1>9. OutputAdds'
  <2> SUFFICES ASSUME NEW b \in bulk, b.cell[1] # "Q"
               PROVE  (cta[b.tile].ep = "sent" /\ b.cell = KvCell(Output(b.tile), Hb(b.tile), N(b.tile)))'
    BY <1>1 DEF OutputAdds
  <2>1. b.tile \in Tiles(call) /\ cta[b.tile].ep = "sent" /\ b.tile # t
        /\ b.cell = KvCell(Output(b.tile), Hb(b.tile), N(b.tile))
    BY <1>1 DEF Inv, Types, OutputAdds
  <2> QED
    BY <1>1, <1>7, <2>1 DEF KvCell
<1>10. OutputTurns'
  <2> SUFFICES ASSUME NEW u \in Tiles(call), cta'[u].ep = "sent"
               PROVE  sem'[KvSem(Output(u), Hb(u), N(u))'] = Hb(u)' % call'.group
    BY <1>7 DEF OutputTurns
  <2>1. u # t
    BY <1>6 DEF q
  <2>2. cta[u].ep = "sent" /\ KvSem(Output(u), Hb(u), N(u))' = KvSem(Output(u), Hb(u), N(u))
    BY <1>1, <1>7, <2>1 DEF KvSem
  <2>3. sem[KvSem(Output(u), Hb(u), N(u))] = Hb(u) % call.group /\ sem[s] = Hb(t) % call.group
    BY <1>1, <2>2 DEF Inv, OutputTurns, s, p
  <2>4. KvSem(Output(u), Hb(u), N(u)) # s
    <3> SUFFICES ASSUME KvSem(Output(u), Hb(u), N(u)) = s PROVE FALSE
      OBVIOUS
    <3>1. /\ Hb(u) \div call.group = Hb(t) \div call.group /\ N(u) = N(t)
          /\ Hb(u) % call.group = Hb(t) % call.group
      BY <2>3 DEF s, KvSem
    <3> QED
      BY <1>2, <2>1, <3>1, SameTile
  <2>5. KvSem(Output(u), Hb(u), N(u)) \in Semaphores(call)
    <3>1. cta[u].ep # "done" /\ ~At(u, "idle")
      BY <2>2 DEF Inv, Shape, ShapeOf
    <3> QED
      BY <3>1, SentPlaces
  <2> QED
    BY <1>1, <1>7, <1>8, <2>2, <2>3, <2>4, <2>5
<1> QED
  BY <1>1, <1>2, <1>3, <1>6, <1>8, <1>9, <1>10, OutputKeepsInv

LEMMA SameFixed ==
    ASSUME Fixed, UNCHANGED <<call, work, order>>, DOMAIN cta' = Tiles(call) PROVE Fixed'
BY DEF Fixed, Tiles, NumBlock, Cells, Outputs, RowBlocks, WorkTile, TheOrder

\* Adds that are over are not missed.
LEMMA LandKeeps ==
    ASSUME Inv, UNCHANGED <<call, work, order, launched, cta, sem>>, bulk' \in SUBSET bulk,
           DOMAIN added' = DOMAIN added
    PROVE  Inv'
<1>1. /\ UNCHANGED <<call, work, order, launched, cta, sem>> /\ bulk' \in SUBSET bulk
      /\ DOMAIN added' = DOMAIN added
  OBVIOUS
<1>2. /\ Tiles(call)' = Tiles(call) /\ Cells(call)' = Cells(call)
      /\ Semaphores(call)' = Semaphores(call)
  BY <1>1 DEF Tiles, NumBlock, Cells, Semaphores, Outputs, RowBlocks
<1>3. /\ \A u, i : RowSem(u, i)' = RowSem(u, i) /\ Rows(u)' = Rows(u) /\ Hb(u)' = Hb(u)
                   /\ N(u)' = N(u) /\ Output(u)' = Output(u)
      /\ \A o, hb, n : KvCell(o, hb, n)' = KvCell(o, hb, n) /\ KvSem(o, hb, n)' = KvSem(o, hb, n)
  BY <1>1 DEF RowSem, QSem, Rows, Hb, N, Output, OutputOrder, KvCell, KvSem
<1>4. \A u : /\ Held(u)' = Held(u) /\ (ShapeOf(u) => ShapeOf(u)')
             /\ (\A i : Over(u, i)' <=> Over(u, i)) /\ (\A m : Passed(u, m)' <=> Passed(u, m))
             /\ \A d : d.tile = u => (RowAddOK(d)' <=> RowAddOK(d))
  BY <1>1, Still
<1>5. Fixed'
  BY <1>1, SameFixed DEF Inv, Fixed
<1>6. Types'
  BY <1>1, <1>2 DEF Inv, Types
<1>7. Shape' /\ TurnsKept'
  BY <1>1, <1>2, <1>3, <1>4 DEF Inv, Shape, TurnsKept
<1>8. RowAdds'
  BY <1>1, <1>4 DEF Inv, RowAdds
<1>9. OutputAdds'
  BY <1>1, <1>3 DEF Inv, OutputAdds, Output, OutputOrder, KvCell, Hb, N
<1>10. OutputTurns'
  BY <1>1, <1>2 DEF Inv, OutputTurns, Output, OutputOrder, KvSem, Hb, N
<1>11. Counted'
  <2> SUFFICES ASSUME Skips(call) PROVE NoTurnsAhead' /\ InOrder'
    BY <1>1 DEF Counted, Skips, LeftBound
  <2>1. \A hb, m : PassedBy(hb, m)' = PassedBy(hb, m)
    BY <1>2, <1>3, <1>4 DEF PassedBy
  <2>2. NoTurnsAhead'
    BY <1>1, <2>1 DEF Inv, Counted, NoTurnsAhead, QSem, RowBlocks
  <2>3. InOrder'
    BY <1>1, <1>2, <1>3, <1>4 DEF Inv, Counted, InOrder
  <2> QED
    BY <2>2, <2>3
<1> QED
  BY <1>5, <1>6, <1>7, <1>8, <1>9, <1>10, <1>11 DEF Inv

\* A launched CTA has no turn and no add under way.
LEMMA LaunchKeeps == ASSUME Inv, NEW t \in Tiles(call), Launch(t) PROVE Inv'
<1> DEFINE p == cta[t]   q == cta'[t]   delay == DelayRelease(call)   len == Len(Rows(t))
           at == IF Rows(t) # <<>> THEN "add" ELSE "end"
           copied == IF Rows(t) # <<>> THEN p.copied + 1 ELSE 0
           ep == IF work[t].sends /\ call.group > 1 THEN "wait" ELSE "done"
           x == [p EXCEPT !.at = at, !.copied = copied, !.ep = ep]
<1>1. /\ t = launched /\ launched' = launched + 1 /\ cta' = [cta EXCEPT ![t] = x]
      /\ UNCHANGED <<call, work, order, sem, bulk, added>>
  BY DEF Launch, Copied
<1>2. Fixed /\ Types /\ IsCall(call) /\ ShapeOf(t) /\ p \in CtaRecord
  BY DEF Inv, Fixed, Shape, Types
<1>3. /\ Tiles(call) \in SUBSET Nat /\ Cardinality(Tiles(call)) \in Nat
      /\ Tiles(call) = 0..(Cardinality(Tiles(call)) - 1)
  BY <1>2, TilesFinite
<1>4. t \in Nat /\ launched' \in 0..Cardinality(Tiles(call))
  BY <1>1, <1>3
<1>5. p = Idle
  BY <1>1, <1>2, <1>4 DEF ShapeOf
<1>6. p.at = "idle" /\ p.i = 1 /\ p.stage = 0 /\ p.copied = 0 /\ p.skipped = 0 /\ p.ep = "wait"
  BY <1>5 DEF Idle
<1> HIDE DEF p
<1>7. at \in {"add", "end"} /\ copied \in Nat /\ ep \in {"wait", "done"}
  BY <1>6
<1> HIDE DEF at, copied, ep
<1>8. /\ x \in CtaRecord /\ x.at = at /\ x.i = 1 /\ x.stage = 0 /\ x.skipped = 0 /\ x.ep = ep
  BY <1>2, <1>6, <1>7 DEF CtaRecord
<1> HIDE DEF x
<1>9. /\ cta' \in [Tiles(call) -> CtaRecord] /\ q = x
      /\ \A u \in Tiles(call) : u # t => cta'[u] = cta[u]
  BY <1>1, <1>2, <1>8, RecordMoves
<1> HIDE DEF q
<1>10. /\ len \in Nat /\ DOMAIN Rows(t) = 1..len /\ (Rows(t) = <<>> <=> len = 0)
  BY <1>2, RowFacts
<1>11. \A i \in DOMAIN Rows(t) : ~InTurn(q, delay, len, i) /\ ~TurnOver(q, delay, len, i)
  <2>1. CASE Rows(t) = <<>>
    BY <1>10, <2>1
  <2>2. CASE Rows(t) # <<>>
    <3>1. q.at = "add" /\ q.i = 1 /\ q.stage = 0
      BY <1>8, <1>9, <2>2 DEF at
    <3> QED
      BY <1>10, <3>1 DEF InTurn, TurnOver
  <2> QED
    BY <2>1, <2>2
<1>12. /\ Held(t)' = {} /\ Held(t) = {}
       /\ \A i \in DOMAIN Rows(t) : ~Over(t, i)' /\ ~Over(t, i)
       /\ \A m : ~Passed(t, m)' /\ ~Passed(t, m)
  <2>1. Held(t)' = {} /\ \A i \in DOMAIN Rows(t) : ~Over(t, i)'
    BY <1>1, <1>11, NextTurns DEF q
  <2>2. Held(t) = {} /\ \A i : ~Over(t, i)
    BY <1>6 DEF Held, Over, InTurn, TurnOver, p
  <2>3. \A m : ~Passed(t, m)
    BY <1>6, <2>2 DEF Passed, At, p
  <2>4. q.at # "done" /\ q.at # "skip"
    BY <1>7, <1>8, <1>9
  <2>5. \A m : ~Passed(t, m)'
    BY <1>1, <2>1, <2>4, NextTurns DEF q
  <2> QED
    BY <2>1, <2>2, <2>3, <2>5
<1>13. /\ Tiles(call)' = Tiles(call) /\ Cells(call)' = Cells(call)
       /\ Semaphores(call)' = Semaphores(call)
  BY <1>1 DEF Tiles, NumBlock, Cells, Semaphores, Outputs, RowBlocks
<1>14. \A u, i : RowSem(u, i)' = RowSem(u, i) /\ Rows(u)' = Rows(u) /\ Hb(u)' = Hb(u)
                 /\ N(u)' = N(u)
  BY <1>1 DEF RowSem, QSem, Rows, Hb, N
<1>15. \A u \in Tiles(call) :
           /\ Held(u)' = Held(u)
           /\ \A i \in DOMAIN Rows(u) : Over(u, i)' <=> Over(u, i)
           /\ \A m : Passed(u, m)' <=> Passed(u, m)
           /\ u # t => \A b : b.tile = u => (RowAddOK(b)' <=> RowAddOK(b))
  BY <1>1, <1>9, <1>12, Still
<1>16. Fixed'
  BY <1>1, <1>2, <1>9, SameFixed
<1>17. Types'
  BY <1>1, <1>2, <1>4, <1>9, <1>13 DEF Types
<1>18. Shape'
  <2>1. ASSUME NEW u \in Tiles(call), u # t PROVE ShapeOf(u)'
    <3>1. u >= launched' => u >= launched
      BY <1>1, <1>3, <1>4
    <3> QED
      BY <1>1, <1>9, <2>1, <3>1, Still DEF Inv, Shape
  <2>2. ShapeOf(t)'
    <3>1. q.at \in {"add", "end"} /\ (q.at = "add" => Rows(t) # <<>>)
          /\ (q.at = "end" => Rows(t) = <<>>)
      BY <1>8, <1>9 DEF at
    <3>2. q.ep \in {"wait", "done"} /\ (q.ep # "done" => call.group > 1)
      BY <1>8, <1>9 DEF ep
    <3>3. q.i = 1 /\ q.stage = 0 /\ q.skipped = 0 /\ ~(t >= launched') /\ call.stages > 0
          /\ 1 <= Larger(1, len)
      BY <1>1, <1>2, <1>4, <1>8, <1>9, <1>10, CallNumbers DEF Larger
    <3> QED
      BY <1>1, <3>1, <3>2, <3>3 DEF ShapeOf, At, Rows, q
  <2> QED
    BY <1>13, <2>1, <2>2 DEF Shape
<1>19. TurnsKept'
  BY <1>1, <1>13, <1>14, <1>15 DEF Inv, TurnsKept
<1>20. RowAdds'
  <2> SUFFICES ASSUME NEW b \in bulk, b.cell[1] = "Q" PROVE RowAddOK(b)'
    BY <1>1 DEF RowAdds
  <2>1. RowAddOK(b) /\ b.tile \in Tiles(call)
    BY DEF Inv, RowAdds, Types
  <2>2. b.tile # t
    BY <1>12, <2>1 DEF RowAddOK
  <2> QED
    BY <1>15, <2>1, <2>2
<1>21. OutputAdds' /\ OutputTurns'
  <2>1. \A u \in Tiles(call) : (cta'[u].ep = "sent" => cta[u].ep = "sent" /\ u # t)
                               /\ (cta[u].ep = "sent" => cta'[u] = cta[u])
    BY <1>6, <1>7, <1>8, <1>9 DEF q, p
  <2>2. \A u \in Tiles(call) : u # t => Output(u)' = Output(u)
    BY <1>1, <1>9 DEF Output, OutputOrder
  <2>3. OutputAdds'
    <3> SUFFICES ASSUME NEW b \in bulk, b.cell[1] # "Q"
                 PROVE  (cta[b.tile].ep = "sent" /\ b.cell = KvCell(Output(b.tile), Hb(b.tile), N(b.tile)))'
      BY <1>1 DEF OutputAdds
    <3>1. b.tile \in Tiles(call) /\ cta[b.tile].ep = "sent"
          /\ b.cell = KvCell(Output(b.tile), Hb(b.tile), N(b.tile))
      BY DEF Inv, Types, OutputAdds
    <3>2. b.tile # t
      BY <1>6, <3>1 DEF p
    <3> QED
      BY <1>1, <1>14, <2>1, <2>2, <3>1, <3>2 DEF KvCell
  <2>4. OutputTurns'
    BY <1>1, <1>13, <1>14, <2>1, <2>2 DEF Inv, OutputTurns, KvSem
  <2> QED
    BY <2>3, <2>4
<1>22. Counted'
  <2> SUFFICES ASSUME Skips(call) PROVE NoTurnsAhead' /\ InOrder'
    BY <1>1 DEF Counted, Skips, LeftBound
  <2>1. \A hb, m : PassedBy(hb, m)' = PassedBy(hb, m)
    BY <1>13, <1>14, <1>15 DEF PassedBy
  <2>2. NoTurnsAhead'
    BY <1>1, <2>1 DEF Inv, Counted, NoTurnsAhead, QSem, RowBlocks
  <2>3. InOrder'
    BY <1>1, <1>13, <1>14, <1>15 DEF Inv, Counted, InOrder
  <2> QED
    BY <2>2, <2>3
<1> QED
  BY <1>16, <1>17, <1>18, <1>19, <1>20, <1>21, <1>22 DEF Inv

LEMMA StepKeepsInv == ASSUME Inv, [Next]_vars PROVE Inv'
<1>1. DOMAIN cta = Tiles(call)
  BY DEF Inv, Fixed
<1>2. CASE UNCHANGED vars
  BY <1>2, LandKeeps DEF vars
<1>3. ASSUME NEW t \in Tiles(call), Launch(t) \/ Step(t) \/ EpilogueStep(t) PROVE Inv'
  BY <1>3, LaunchKeeps, AddPartKeeps, SkipPartKeeps, SettlePartKeeps, EndRowKeeps, EndRowsKeeps,
     SkipRowKeeps, StoreGradientKeeps, EndGradientKeeps DEF Step, EpilogueStep
<1>4. ASSUME NEW b \in bulk, Land(b) PROVE Inv'
  BY <1>4, LandKeeps DEF Land
<1> QED
  BY <1>1, <1>2, <1>3, <1>4 DEF Next

\* Inv is inductive: the kernel's semaphores stand at the lock value of the CTA
\* whose turn it is, and whatever is under way is added in that turn.
THEOREM TurnInvariant == Spec => []Inv
<1>1. Inv /\ [Next]_vars => Inv'
  BY StepKeepsInv
<1> QED
  BY <1>1, InitInv, PTL DEF Spec

\* The loops of every CTA stay in their bounds, no semaphore or accumulator is
\* touched that the call has not got, whatever the lengths, windows and block lists.
THEOREM BackwardTypes == Spec => []TypeOK
<1>1. Inv => TypeOK
  <2> SUFFICES ASSUME Inv PROVE TypeOK
    OBVIOUS
  <2>1. Fixed /\ Types
    BY DEF Inv
  <2>2. ASSUME NEW t \in Tiles(call) PROVE IsCta(t)
    <3>1. cta[t] \in CtaRecord /\ ShapeOf(t)
      BY DEF Inv, Types, Shape
    <3>2. Len(Rows(t)) \in Nat /\ call.stages \in Nat
      BY <2>1, RowFacts, CallNumbers DEF Fixed
    <3> QED
      BY <3>1, <3>2 DEF IsCta, CtaRecord, ShapeOf, Larger
  <2> QED
    BY <2>1, <2>2 DEF TypeOK, Fixed, Types
<1> QED
  BY <1>1, TurnInvariant, PTL

\* Adds to the same place are under way only from the CTA whose turn it is.
LEMMA InvOneWriter == ASSUME Inv PROVE OneWriter
<1> SUFFICES ASSUME NEW a \in bulk, NEW b \in bulk, a.cell = b.cell, a.tile # b.tile
             PROVE  FALSE
  BY DEF OneWriter
<1>1. Fixed /\ IsCall(call) /\ a.tile \in Tiles(call) /\ b.tile \in Tiles(call)
  BY DEF Inv, Fixed, Types
<1>2. CASE a.cell[1] = "Q"
  <2>1. PICK i \in Held(a.tile), stage \in 0..(call.stages - 1) :
              a.cell = QCell(Hb(a.tile), Rows(a.tile)[i].m, stage)
    BY <1>2 DEF Inv, RowAdds, RowAddOK
  <2>2. PICK j \in Held(b.tile), other \in 0..(call.stages - 1) :
              b.cell = QCell(Hb(b.tile), Rows(b.tile)[j].m, other)
    BY <1>2 DEF Inv, RowAdds, RowAddOK
  <2>a. QCell(Hb(a.tile), Rows(a.tile)[i].m, stage) = QCell(Hb(b.tile), Rows(b.tile)[j].m, other)
    BY <2>1, <2>2
  <2>3. RowSem(a.tile, i) = RowSem(b.tile, j)
    BY <2>a DEF QCell, RowSem, QSem
  <2> QED
    BY <1>1, <2>3, OneHolder DEF Inv
<1>3. CASE a.cell[1] # "Q"
  <2> DEFINE t == a.tile   u == b.tile
  <2>1. /\ cta[t].ep = "sent" /\ a.cell = KvCell(Output(t), Hb(t), N(t))
        /\ cta[u].ep = "sent" /\ b.cell = KvCell(Output(u), Hb(u), N(u))
    BY <1>3 DEF Inv, OutputAdds
  <2>2. /\ Output(t) = Output(u) /\ Hb(t) \div call.group = Hb(u) \div call.group /\ N(t) = N(u)
    <3>1. KvCell(Output(t), Hb(t), N(t)) = KvCell(Output(u), Hb(u), N(u))
      BY <2>1
    <3> QED
      BY <3>1 DEF KvCell
  <2>3. Hb(t) % call.group = Hb(u) % call.group
    BY <1>1, <2>1, <2>2 DEF Inv, OutputTurns, KvSem
  <2> QED
    BY <1>1, <2>2, <2>3, SameTile
<1> QED
  BY <1>2, <1>3

\* dQacc_reduce and epilogue_dK_or_dV_tma, for any number of CTAs at any speed:
\* two CTAs never have adds to the same accumulator under way together.
THEOREM TurnsKeepOneWriter == Spec => []OneWriter
<1>1. Inv => OneWriter
  BY InvOneWriter
<1> QED
  BY <1>1, TurnInvariant, PTL

-----------------------------------------------------------------------------
(* Nothing is lost: what a CTA has added it has added as itself, and it    *)
(* has added everything it is past.                                        *)

\* At p a CTA is past the add of a part of its i-th row block.
PartOver(p, i, stage) ==
    \/ p.at = "add" /\ (i < p.i \/ (i = p.i /\ stage < p.stage))
    \/ p.at = "settle" /\ (i < p.i \/ (i = p.i /\ stage <= p.stage))
    \/ p.at = "row" /\ i <= p.i
    \/ p.at \in {"end", "skip", "done"}

\* It has sent the k-th of its outputs.
OutputOver(p, k) == p.ep = "done" \/ k < p.out \/ (k = p.out /\ p.ep = "sent")

Given(t, cell, who) ==
    who \in Range(added[cell]) \/ \E b \in bulk : b.tile = t /\ b.cell = cell

\* The staging buffer an add reads has not been taken again.
Fresh == \A b \in bulk : b.cell[1] = "Q" => cta[b.tile].copied < b.seq + call.staging

PartCell(t, i, stage) == QCell(Hb(t), Rows(t)[i].m, stage)
OutputCell(t, k) == KvCell(OutputOrder(call)[k], Hb(t), N(t))
Sends(t) == ~At(t, "idle") /\ work[t].sends /\ call.group > 1

RowsGiven ==
    \A t \in Tiles(call) : \A i \in DOMAIN Rows(t), stage \in 0..(call.stages - 1) :
        ~Rows(t)[i].oob /\ PartOver(cta[t], i, stage) => Given(t, PartCell(t, i, stage), N(t))
OutputsGiven ==
    \A t \in Tiles(call) : \A k \in 1..2 :
        Sends(t) /\ OutputOver(cta[t], k) => Given(t, OutputCell(t, k), Hb(t))

Gains ==
    /\ added \in [Cells(call) -> Seq(Int)]
    /\ Fresh /\ RowsGiven /\ OutputsGiven

LEMMA SameNames ==
    ASSUME UNCHANGED <<call, work>>
    PROVE  /\ Tiles(call)' = Tiles(call) /\ Cells(call)' = Cells(call)
           /\ \A u : /\ Rows(u)' = Rows(u) /\ Hb(u)' = Hb(u) /\ N(u)' = N(u)
                     /\ \A i, stage : PartCell(u, i, stage)' = PartCell(u, i, stage)
                     /\ \A k : OutputCell(u, k)' = OutputCell(u, k)
BY DEF Tiles, NumBlock, Cells, Outputs, RowBlocks, Rows, Hb, N, PartCell, QCell, OutputCell, KvCell,
       OutputOrder

LEMMA GainsInit == ASSUME Init PROVE Gains
<1>1. \A t \in Tiles(call) : cta[t].at = "idle"
  BY DEF Init, Idle
<1>2. added \in [Cells(call) -> Seq(Int)] /\ bulk = {}
  BY DEF Init
<1> QED
  BY <1>1, <1>2 DEF Gains, Fresh, RowsGiven, OutputsGiven, PartOver, Sends, At

\* A step of tile t's CTA, of its reduce warps or its epilogue.
LEMMA CtaKeepsGains ==
    ASSUME Inv, Gains, UNCHANGED <<call, work, added>>, NEW t \in Tiles(call),
           bulk \in SUBSET bulk',
           \A u \in Tiles(call) : u # t => cta'[u] = cta[u],
           \A b \in bulk' : /\ b \in bulk \/ b.tile = t
                            /\ b.tile = t /\ b.cell[1] = "Q" => cta'[t].copied < b.seq + call.staging,
           \A i \in DOMAIN Rows(t), stage \in 0..(call.stages - 1) :
               PartOver(cta'[t], i, stage) =>
                   \/ PartOver(cta[t], i, stage) \/ Rows(t)[i].oob
                   \/ \E b \in bulk' : b.tile = t /\ b.cell = PartCell(t, i, stage),
           \A k \in 1..2 :
               Sends(t)' /\ OutputOver(cta'[t], k) =>
                   \/ Sends(t) /\ OutputOver(cta[t], k)
                   \/ \E b \in bulk' : b.tile = t /\ b.cell = OutputCell(t, k)
    PROVE  Gains'
<1>1. /\ Tiles(call)' = Tiles(call) /\ Cells(call)' = Cells(call)
      /\ \A u : /\ Rows(u)' = Rows(u) /\ Hb(u)' = Hb(u) /\ N(u)' = N(u)
                /\ \A i, stage : PartCell(u, i, stage)' = PartCell(u, i, stage)
                /\ \A k : OutputCell(u, k)' = OutputCell(u, k)
  BY SameNames
<1>2. \A u, cell, who : Given(u, cell, who) => Given(u, cell, who)'
  BY DEF Given
<1>3. \A u, cell, who : (\E b \in bulk' : b.tile = u /\ b.cell = cell) => Given(u, cell, who)'
  BY DEF Given
<1>4. Fresh'
  <2> SUFFICES ASSUME NEW b \in bulk', b.cell[1] = "Q"
               PROVE  cta'[b.tile].copied < b.seq + call.staging
    BY DEF Fresh
  <2>1. CASE b.tile = t
    BY <2>1
  <2>2. CASE b.tile # t
    BY <2>2 DEF Gains, Fresh, Inv, Types
  <2> QED
    BY <2>1, <2>2
<1>5. ASSUME NEW u \in Tiles(call), NEW i \in DOMAIN Rows(u), NEW stage \in 0..(call.stages - 1),
             ~Rows(u)[i].oob, PartOver(cta'[u], i, stage)
      PROVE  Given(u, PartCell(u, i, stage), N(u))'
  <2>1. CASE PartOver(cta[u], i, stage)
    <3>1. Given(u, PartCell(u, i, stage), N(u))
      BY <1>5, <2>1 DEF Gains, RowsGiven
    <3>2. PICK cell, who : cell = PartCell(u, i, stage) /\ who = N(u)
      OBVIOUS
    <3>3. Given(u, cell, who)'
      BY <1>2, <3>1, <3>2
    <3> QED
      BY <1>1, <3>2, <3>3 DEF Given
  <2>2. CASE ~PartOver(cta[u], i, stage)
    <3>1. u = t /\ \E b \in bulk' : b.tile = t /\ b.cell = PartCell(t, i, stage)
      BY <1>5, <2>2
    <3> QED
      BY <1>1, <3>1 DEF Given
  <2> QED
    BY <2>1, <2>2
<1>6. RowsGiven'
  BY <1>1, <1>5 DEF RowsGiven
<1>7. ASSUME NEW u \in Tiles(call), NEW k \in 1..2, Sends(u)', OutputOver(cta'[u], k)
      PROVE  Given(u, OutputCell(u, k), Hb(u))'
  <2>1. CASE Sends(u) /\ OutputOver(cta[u], k)
    <3>1. Given(u, OutputCell(u, k), Hb(u))
      BY <2>1 DEF Gains, OutputsGiven
    <3>2. PICK cell, who : cell = OutputCell(u, k) /\ who = Hb(u)
      OBVIOUS
    <3>3. Given(u, cell, who)'
      BY <1>2, <3>1, <3>2
    <3> QED
      BY <1>1, <3>2, <3>3 DEF Given
  <2>2. CASE ~(Sends(u) /\ OutputOver(cta[u], k))
    <3>1. u = t
      BY <1>7, <2>2 DEF Sends, At
    <3>2. \E b \in bulk' : b.tile = t /\ b.cell = OutputCell(t, k)
      BY <1>7, <2>2, <3>1
    <3> QED
      BY <1>1, <3>1, <3>2 DEF Given
  <2> QED
    BY <2>1, <2>2
<1>8. OutputsGiven'
  BY <1>1, <1>7 DEF OutputsGiven
<1> QED
  BY <1>1, <1>4, <1>6, <1>8 DEF Gains

\* An add that arrives is its CTA's.
LEMMA LandKeepsGains == ASSUME Inv, Gains, NEW b \in bulk, Land(b) PROVE Gains'
<1> DEFINE kv == b.cell[1] # "Q"
           value == IF kv THEN Hb(b.tile) ELSE N(b.tile)
<1>1. UNCHANGED <<call, work, cta>> /\ bulk' = bulk \ {b}
  BY DEF Land
<1>2. b.tile \in Tiles(call) /\ b.cell \in Cells(call)
  BY DEF Inv, Types
<1>3. added' = [added EXCEPT ![b.cell] = Append(@, value)]
  BY DEF Land, Gains, Fresh
<1>4. value \in Int
  BY <1>2, RowFacts DEF Inv
<1>5. /\ Tiles(call)' = Tiles(call) /\ Cells(call)' = Cells(call)
      /\ \A u : /\ Rows(u)' = Rows(u) /\ Hb(u)' = Hb(u) /\ N(u)' = N(u)
                /\ \A i, stage : PartCell(u, i, stage)' = PartCell(u, i, stage)
                /\ \A k : OutputCell(u, k)' = OutputCell(u, k)
  BY <1>1, SameNames
<1> HIDE DEF value
<1>6. /\ added' \in [Cells(call) -> Seq(Int)]
      /\ \A cell \in Cells(call) : Range(added[cell]) \in SUBSET Range(added'[cell])
      /\ value \in Range(added'[b.cell])
  <2>1. added \in [Cells(call) -> Seq(Int)]
    BY DEF Gains
  <2> DEFINE s == added[b.cell]   r == Append(s, value)
  <2>2. s \in Seq(Int)
    BY <1>2, <2>1
  <2>3. added'[b.cell] = r /\ \A cell \in Cells(call) : cell # b.cell => added'[cell] = added[cell]
    BY <1>2, <1>3, <2>1
  <2> HIDE DEF s
  <2>4. r \in Seq(Int) /\ Range(s) \in SUBSET Range(r) /\ value \in Range(r)
    <3>1. r \in Seq(Int) /\ Len(s) \in Nat /\ DOMAIN s = 1..Len(s) /\ DOMAIN r = 1..(Len(s) + 1)
      BY <1>4, <2>2
    <3>2. r[Len(s) + 1] = value /\ \A i \in DOMAIN s : r[i] = s[i]
      BY <1>4, <2>2
    <3> HIDE DEF r
    <3>3. DOMAIN s \in SUBSET DOMAIN r /\ Len(s) + 1 \in DOMAIN r
      BY <3>1
    <3> QED
      BY <3>1, <3>2, <3>3 DEF Range
  <2>5. added' \in [Cells(call) -> Seq(Int)]
    BY <1>3, <2>1, <2>4 DEF s
  <2> QED
    BY <2>3, <2>4, <2>5 DEF s
<1>7. ASSUME NEW u \in Tiles(call), NEW cell \in Cells(call), NEW who,
             who = IF cell[1] # "Q" THEN Hb(u) ELSE N(u), Given(u, cell, who)
      PROVE  Given(u, cell, who)'
  <2>1. CASE who \in Range(added[cell])
    BY <1>6, <2>1 DEF Given
  <2>2. CASE who \notin Range(added[cell])
    <3>1. PICK d \in bulk : d.tile = u /\ d.cell = cell
      BY <1>7, <2>2 DEF Given
    <3>2. CASE d = b
      <4>1. who = value
        BY <1>7, <3>1, <3>2 DEF value
      <4> QED
        BY <1>6, <3>1, <3>2, <4>1 DEF Given
    <3>3. CASE d # b
      BY <1>1, <3>1, <3>3 DEF Given
    <3> QED
      BY <3>2, <3>3
  <2> QED
    BY <2>1, <2>2
<1>8. Fresh'
  BY <1>1 DEF Gains, Fresh
<1>9. RowsGiven'
  <2> SUFFICES ASSUME NEW u \in Tiles(call), NEW i \in DOMAIN Rows(u), NEW stage \in 0..(call.stages - 1),
                      ~Rows(u)[i].oob, PartOver(cta[u], i, stage)
               PROVE  Given(u, PartCell(u, i, stage), N(u))'
    BY <1>1, <1>5 DEF RowsGiven
  <2>1. Given(u, PartCell(u, i, stage), N(u))
    BY DEF Gains, RowsGiven
  <2>2. PartCell(u, i, stage) \in Cells(call) /\ PartCell(u, i, stage)[1] = "Q"
    <3>1. Hb(u) \in 0..(call.hbs - 1) /\ Rows(u)[i].m \in 0..(RowBlocks(call) - 1)
      BY RowFacts, RowOK DEF Inv
    <3> QED
      BY <3>1, RowPlaces DEF PartCell, QCell
  <2>3. PICK cell, who : cell = PartCell(u, i, stage) /\ who = N(u)
    OBVIOUS
  <2>4. Given(u, cell, who)'
    BY <1>7, <2>1, <2>2, <2>3
  <2> QED
    BY <1>5, <2>3, <2>4 DEF Given
<1>10. OutputsGiven'
  <2> SUFFICES ASSUME NEW u \in Tiles(call), NEW k \in 1..2, Sends(u), OutputOver(cta[u], k)
               PROVE  Given(u, OutputCell(u, k), Hb(u))'
    BY <1>1, <1>5 DEF OutputsGiven, Sends, At
  <2>1. Given(u, OutputCell(u, k), Hb(u))
    BY DEF Gains, OutputsGiven
  <2>2. OutputCell(u, k) \in Cells(call) /\ OutputCell(u, k)[1] # "Q"
    <3>1. OutputOrder(call)[k] \in {"K", "V"} /\ OutputOrder(call)[k] \in Outputs(call)
      BY DEF OutputOrder, Outputs, Sends
    <3>2. Hb(u) \in 0..(call.hbs - 1) /\ N(u) \in 0..(NumBlock(call) - 1) /\ IsCall(call)
      BY RowFacts DEF Inv, Fixed
    <3>3. OutputCell(u, k)[1] = OutputOrder(call)[k]
      BY DEF OutputCell, KvCell
    <3> QED
      BY <3>1, <3>2, <3>3, OutputPlaces DEF OutputCell
  <2>3. PICK cell, who : cell = OutputCell(u, k) /\ who = Hb(u)
    OBVIOUS
  <2>4. Given(u, cell, who)'
    BY <1>7, <2>1, <2>2, <2>3
  <2> QED
    BY <1>5, <2>3, <2>4 DEF Given
<1> QED
  BY <1>5, <1>6, <1>8, <1>9, <1>10 DEF Gains

\* While the reduce warps move only the epilogue's progress is the same.
LEMMA RowsKeepGains ==
    ASSUME Inv, Gains, UNCHANGED <<call, work, added>>, NEW t \in Tiles(call), OnlyRows(t),
           At(t, "idle") => At(t, "idle")',
           bulk' = bulk \/ \E d : bulk' = bulk \cup {d} /\ d.tile = t,
           \A b \in bulk' : b.tile = t /\ b.cell[1] = "Q" => cta'[t].copied < b.seq + call.staging,
           \A i \in DOMAIN Rows(t), stage \in 0..(call.stages - 1) :
               PartOver(cta'[t], i, stage) =>
                   \/ PartOver(cta[t], i, stage) \/ Rows(t)[i].oob
                   \/ \E b \in bulk' : b.tile = t /\ b.cell = PartCell(t, i, stage)
    PROVE  Gains'
<1>1. UNCHANGED <<call, work, added>> /\ \A u \in Tiles(call) : u # t => cta'[u] = cta[u]
  BY DEF OnlyRows
<1>2. bulk \in SUBSET bulk' /\ \A b \in bulk' : b \in bulk \/ b.tile = t
  OBVIOUS
<1>3. \A k \in 1..2 : Sends(t)' /\ OutputOver(cta'[t], k) => Sends(t) /\ OutputOver(cta[t], k)
  BY <1>1 DEF Sends, At, OutputOver, OnlyRows
<1> QED
  BY <1>1, <1>2, <1>3, CtaKeepsGains

LEMMA AddPartGains == ASSUME Inv, Gains, NEW t \in Tiles(call), AddPart(t) PROVE Gains'
<1> DEFINE p == cta[t]   q == cta'[t]
           new == [tile |-> t, cell |-> QCell(Hb(t), Row(t).m, p.stage), seq |-> p.copied]
<1>1. p.at = "add" /\ UNCHANGED <<call, work, added>> /\ bulk' = bulk \cup {new}
  BY DEF AddPart, At
<1>2. OnlyRows(t) /\ q.at = "settle" /\ q.i = p.i /\ q.stage = p.stage /\ q.copied = p.copied
  BY GotoOK DEF AddPart, Inv
<1>3. /\ p \in CtaRecord /\ Row(t) = Rows(t)[p.i] /\ DOMAIN Rows(t) = 1..Len(Rows(t))
      /\ Len(Rows(t)) \in Nat
  BY <1>1, AtRow
<1>4. p.i \in Nat \ {0} /\ p.stage \in Nat /\ p.copied \in Nat /\ call.staging \in Nat \ {0}
      /\ call.stages \in Nat
  BY <1>3, CallNumbers DEF CtaRecord, Inv, Fixed
<1>5. new.tile = t /\ new.cell = PartCell(t, p.i, p.stage) /\ new.seq = p.copied
  BY <1>3 DEF PartCell
<1>6. \A b \in bulk : b.tile = t /\ b.cell[1] = "Q" => p.copied < b.seq + call.staging
  BY DEF Gains, Fresh
<1> HIDE DEF new, p, q
<1>7. \A b \in bulk' : b.tile = t /\ b.cell[1] = "Q" => q.copied < b.seq + call.staging
  BY <1>1, <1>2, <1>4, <1>5, <1>6
<1>8. \A i \in DOMAIN Rows(t), stage \in 0..(call.stages - 1) :
          PartOver(q, i, stage) => PartOver(p, i, stage) \/ (i = p.i /\ stage = p.stage)
  BY <1>1, <1>2, <1>3, <1>4 DEF PartOver
<1>9. \A i \in DOMAIN Rows(t), stage \in 0..(call.stages - 1) :
          PartOver(q, i, stage) =>
              \/ PartOver(p, i, stage)
              \/ \E b \in bulk' : b.tile = t /\ b.cell = PartCell(t, i, stage)
  BY <1>1, <1>5, <1>8
<1> QED
  BY <1>1, <1>2, <1>5, <1>7, <1>9, RowsKeepGains DEF p, q, At

LEMMA SkipPartGains == ASSUME Inv, Gains, NEW t \in Tiles(call), SkipPart(t) PROVE Gains'
<1> DEFINE p == cta[t]   q == cta'[t]
<1>1. p.at = "add" /\ UNCHANGED <<call, work, added>> /\ bulk' = bulk /\ Row(t).oob
  BY DEF SkipPart, At
<1>2. OnlyRows(t) /\ q.at = "settle" /\ q.i = p.i /\ q.stage = p.stage /\ q.copied = p.copied
  BY GotoOK DEF SkipPart, Inv
<1>3. /\ p \in CtaRecord /\ Row(t) = Rows(t)[p.i] /\ DOMAIN Rows(t) = 1..Len(Rows(t))
      /\ Len(Rows(t)) \in Nat
  BY <1>1, AtRow
<1>4. p.i \in Nat \ {0} /\ p.stage \in Nat /\ call.stages \in Nat
  BY <1>3, CallNumbers DEF CtaRecord, Inv, Fixed
<1>5. \A b \in bulk : b.tile = t /\ b.cell[1] = "Q" => p.copied < b.seq + call.staging
  BY DEF Gains, Fresh
<1> HIDE DEF p, q
<1>6. \A i \in DOMAIN Rows(t), stage \in 0..(call.stages - 1) :
          PartOver(q, i, stage) => PartOver(p, i, stage) \/ i = p.i
  BY <1>1, <1>2, <1>3, <1>4 DEF PartOver
<1> QED
  BY <1>1, <1>2, <1>3, <1>5, <1>6, RowsKeepGains DEF p, q, At

\* What has been copied meanwhile has gone to a buffer whose add is over.
LEMMA SettlePartGains == ASSUME Inv, Gains, NEW t \in Tiles(call), SettlePart(t) PROVE Gains'
<1> DEFINE p == cta[t]   q == cta'[t]   len == Len(Rows(t))
           k == IF Row(t).oob THEN 0 ELSE call.staging - 1
<1>1. p.at = "settle" /\ UNCHANGED <<call, work, added>> /\ bulk' = bulk /\ WaitGroup(t, k)
  BY DEF SettlePart, At
<1>2. OnlyRows(t) /\ ToNextPart(p, q, len)
  BY NextPartOK DEF SettlePart, Inv
<1>3. /\ p \in CtaRecord /\ DOMAIN Rows(t) = 1..len /\ len \in Nat /\ p.i <= len
      /\ p.stage \in 0..(call.stages - 1)
  BY <1>1, AtRow
<1>4. p.i \in Nat \ {0} /\ p.stage \in Nat /\ p.copied \in Nat /\ call.staging \in Nat \ {0}
      /\ call.stages \in Nat \ {0}
  BY SMTT(30), <1>3, CallNumbers DEF CtaRecord, Inv, Fixed
<1>5. q.copied \in {p.copied, p.copied + 1}
  BY <1>2 DEF ToNextPart, ToNextRow
<1>6. ASSUME NEW b \in bulk, b.tile = t, b.cell[1] = "Q" PROVE q.copied < b.seq + call.staging
  <2>1. b.seq \in Nat
    BY DEF Inv, Types
  <2>2. b.seq > p.copied - k
    BY <1>1, <1>6 DEF WaitGroup
  <2>3. k \in 0..(call.staging - 1)
    BY <1>4
  <2> HIDE DEF k, p, q
  <2> QED
    BY <1>4, <1>5, <2>1, <2>2, <2>3
<1> HIDE DEF p, q, len, k
<1>7. \A i \in DOMAIN Rows(t), stage \in 0..(call.stages - 1) :
          PartOver(q, i, stage) => PartOver(p, i, stage)
  BY SMTT(30), <1>1, <1>2, <1>3, <1>4 DEF PartOver, ToNextPart, ToNextRow
<1> QED
  BY <1>1, <1>2, <1>6, <1>7, RowsKeepGains DEF p, q, At

LEMMA EndRowGains == ASSUME Inv, Gains, NEW t \in Tiles(call), EndRow(t) PROVE Gains'
<1> DEFINE p == cta[t]   q == cta'[t]   len == Len(Rows(t))
<1>1. p.at = "row" /\ UNCHANGED <<call, work, added>> /\ bulk' = bulk /\ WaitGroup(t, 0)
  BY DEF EndRow, At
<1>2. OnlyRows(t) /\ ToNextRow(p, q, len)
  BY NextRowOK DEF EndRow, Inv
<1>3. /\ p \in CtaRecord /\ DOMAIN Rows(t) = 1..len /\ len \in Nat /\ p.i <= len
  BY <1>1, AtRow
<1>4. p.i \in Nat \ {0} /\ call.stages \in Nat \ {0}
  BY <1>3, CallNumbers DEF CtaRecord, Inv, Fixed
<1>5. \A b \in bulk' : ~(b.tile = t /\ b.cell[1] = "Q")
  BY <1>1, NoneLeft
<1> HIDE DEF p, q, len
<1>6. \A i \in DOMAIN Rows(t), stage \in 0..(call.stages - 1) :
          PartOver(q, i, stage) => PartOver(p, i, stage)
  BY <1>1, <1>2, <1>3, <1>4 DEF PartOver, ToNextRow
<1> QED
  BY <1>1, <1>2, <1>5, <1>6, RowsKeepGains DEF p, q, At

LEMMA EndRowsGains == ASSUME Inv, Gains, NEW t \in Tiles(call), EndRows(t) PROVE Gains'
<1> DEFINE p == cta[t]   q == cta'[t]
<1>1. p.at = "end" /\ UNCHANGED <<call, work, added>> /\ bulk' = bulk
  BY DEF EndRows, At
<1>2. OnlyRows(t) /\ q.copied = p.copied
  <2>1. PICK where \in {"done", "skip"} : Goto(t, where)
    BY DEF EndRows
  <2> QED
    BY <2>1, GotoOK DEF Inv
<1>3. \A b \in bulk : b.tile = t /\ b.cell[1] = "Q" => p.copied < b.seq + call.staging
  BY DEF Gains, Fresh
<1>4. \A i, stage : PartOver(p, i, stage)
  BY <1>1 DEF PartOver
<1> QED
  BY <1>1, <1>2, <1>3, <1>4, RowsKeepGains DEF At

LEMMA SkipRowGains == ASSUME Inv, Gains, NEW t \in Tiles(call), SkipRow(t) PROVE Gains'
<1> DEFINE p == cta[t]   q == cta'[t]   k == p.skipped + 1
           where == IF work[t].mMax + p.skipped + 1 = RowBlocks(call) THEN "done" ELSE "skip"
           x == [p EXCEPT !.skipped = k, !.at = where]
<1>1. p.at = "skip" /\ UNCHANGED <<call, work, added>> /\ bulk' = bulk
  BY DEF SkipRow, At
<1>2. cta' = [cta EXCEPT ![t] = x] /\ p \in CtaRecord
  BY DEF SkipRow, Inv, Types
<1>3. k \in Nat /\ where \in {"done", "skip"}
  BY <1>2 DEF CtaRecord
<1> HIDE DEF p, k, where
<1>4. x \in CtaRecord /\ x.copied = p.copied /\ x.out = p.out /\ x.ep = p.ep
  BY <1>2, <1>3 DEF CtaRecord
<1> HIDE DEF x
<1>5. OnlyRows(t) /\ q.copied = p.copied
  BY <1>2, <1>4, RecordMoves DEF OnlyRows, Inv, p
<1>6. \A b \in bulk : b.tile = t /\ b.cell[1] = "Q" => p.copied < b.seq + call.staging
  BY DEF Gains, Fresh, p
<1>7. \A i, stage : PartOver(p, i, stage)
  BY <1>1 DEF PartOver
<1> QED
  BY <1>1, <1>5, <1>6, <1>7, RowsKeepGains DEF At, p

LEMMA StoreGradientGains == ASSUME Inv, Gains, NEW t \in Tiles(call), StoreGradient(t) PROVE Gains'
<1> DEFINE p == cta[t]   q == cta'[t]   x == [p EXCEPT !.ep = "sent"]
           new == [tile |-> t, cell |-> KvCell(Output(t), Hb(t), N(t)), seq |-> 0]
<1>1. /\ p.ep = "wait" /\ ~At(t, "idle") /\ UNCHANGED <<call, work, added>>
      /\ bulk' = bulk \cup {new} /\ cta' = [cta EXCEPT ![t] = x]
  BY DEF StoreGradient
<1>2. p \in CtaRecord
  BY DEF Inv, Types
<1>3. new.tile = t /\ new.cell[1] # "Q" /\ new.cell = OutputCell(t, p.out)
  BY <1>1, SentPlaces DEF OutputCell, Output
<1> HIDE DEF p, new
<1>4. x \in CtaRecord /\ x.ep = "sent" /\ x.at = p.at /\ x.i = p.i /\ x.stage = p.stage
      /\ x.copied = p.copied /\ x.out = p.out
  BY <1>2 DEF CtaRecord
<1> HIDE DEF x
<1>5. q = x /\ \A u \in Tiles(call) : u # t => cta'[u] = cta[u]
  BY <1>1, <1>4, RecordMoves DEF Inv
<1> HIDE DEF q
<1>6. \A b \in bulk' : /\ b \in bulk \/ b.tile = t
                       /\ b.tile = t /\ b.cell[1] = "Q" => q.copied < b.seq + call.staging
  BY <1>1, <1>3, <1>4, <1>5 DEF Gains, Fresh, p
<1>7. \A i, stage : PartOver(q, i, stage) => PartOver(p, i, stage)
  BY <1>4, <1>5 DEF PartOver
<1>8. \A k \in 1..2 : OutputOver(q, k) => OutputOver(p, k) \/ k = p.out
  BY <1>4, <1>5 DEF OutputOver
<1>9. Sends(t)' => Sends(t)
  BY <1>1 DEF Sends, At
<1>10. new \in bulk'
  BY <1>1
<1> QED
  BY <1>1, <1>3, <1>5, <1>6, <1>7, <1>8, <1>9, <1>10, CtaKeepsGains DEF p, q

LEMMA EndGradientGains == ASSUME Inv, Gains, NEW t \in Tiles(call), EndGradient(t) PROVE Gains'
<1> DEFINE p == cta[t]   q == cta'[t]
           ep == IF p.out = 2 THEN "done" ELSE "wait"   out == Smaller(p.out + 1, 2)
           x == [p EXCEPT !.ep = ep, !.out = out]
<1>1. /\ p.ep = "sent" /\ UNCHANGED <<call, work, added>> /\ bulk' = bulk
      /\ cta' = [cta EXCEPT ![t] = x]
  BY DEF EndGradient
<1>2. p \in CtaRecord /\ ~At(t, "idle")
  BY <1>1 DEF Inv, Types, Shape, ShapeOf
<1>3. /\ ep \in {"done", "wait"} /\ out \in {1, 2}
      /\ p.out = 1 => out = 2 /\ ep = "wait"
      /\ p.out \in {1, 2}
  BY <1>2 DEF CtaRecord, Smaller
<1> HIDE DEF p, ep, out
<1>4. x \in CtaRecord /\ x.ep = ep /\ x.at = p.at /\ x.i = p.i /\ x.stage = p.stage
      /\ x.copied = p.copied /\ x.out = out
  BY <1>2, <1>3 DEF CtaRecord
<1> HIDE DEF x
<1>5. q = x /\ \A u \in Tiles(call) : u # t => cta'[u] = cta[u]
  BY <1>1, <1>4, RecordMoves DEF Inv
<1> HIDE DEF q
<1>6. \A b \in bulk : b.tile = t /\ b.cell[1] = "Q" => q.copied < b.seq + call.staging
  BY <1>4, <1>5 DEF Gains, Fresh, p
<1>7. \A i, stage : PartOver(q, i, stage) => PartOver(p, i, stage)
  BY <1>4, <1>5 DEF PartOver
<1>8. \A k \in 1..2 : OutputOver(q, k) => OutputOver(p, k)
  BY <1>1, <1>3, <1>4, <1>5 DEF OutputOver
<1>9. Sends(t)' => Sends(t)
  BY <1>1, <1>2 DEF Sends
<1> QED
  BY <1>1, <1>5, <1>6, <1>7, <1>8, <1>9, CtaKeepsGains DEF p, q

LEMMA LaunchGains == ASSUME Inv, Gains, NEW t \in Tiles(call), Launch(t) PROVE Gains'
<1> DEFINE p == cta[t]   q == cta'[t]
           at == IF Rows(t) # <<>> THEN "add" ELSE "end"
           copied == IF Rows(t) # <<>> THEN p.copied + 1 ELSE 0
           ep == IF work[t].sends /\ call.group > 1 THEN "wait" ELSE "done"
           x == [p EXCEPT !.at = at, !.copied = copied, !.ep = ep]
<1>1. /\ t = launched /\ cta' = [cta EXCEPT ![t] = x] /\ UNCHANGED <<call, work, bulk, added>>
  BY DEF Launch, Copied
<1>2. p \in CtaRecord /\ p = Idle
  <2>1. t \in Nat
    BY TilesFinite DEF Inv, Fixed
  <2> QED
    BY <1>1, <2>1 DEF Inv, Types, Shape, ShapeOf
<1>3. p.at = "idle" /\ p.i = 1 /\ p.stage = 0 /\ p.copied = 0 /\ p.out = 1
  BY <1>2 DEF Idle
<1>4. at \in {"add", "end"} /\ copied \in Nat /\ ep \in {"wait", "done"}
  BY <1>3
<1>5. \A b \in bulk : ~(b.tile = t /\ b.cell[1] = "Q")
  <2>1. Held(t) = {}
    BY <1>3 DEF Held, InTurn
  <2> QED
    BY <2>1 DEF Inv, RowAdds, RowAddOK
<1> HIDE DEF p, at, copied, ep
<1>6. x \in CtaRecord /\ x.at = at /\ x.i = 1 /\ x.stage = 0 /\ x.out = 1 /\ x.ep = ep
  BY <1>2, <1>3, <1>4 DEF CtaRecord
<1> HIDE DEF x
<1>7. q = x /\ \A u \in Tiles(call) : u # t => cta'[u] = cta[u]
  BY <1>1, <1>6, RecordMoves DEF Inv
<1> HIDE DEF q
<1>8. \A i \in DOMAIN Rows(t), stage \in 0..(call.stages - 1) : ~PartOver(q, i, stage)
  <2>1. DOMAIN Rows(t) = 1..Len(Rows(t)) /\ Len(Rows(t)) \in Nat
        /\ (Rows(t) = <<>> <=> Len(Rows(t)) = 0) /\ call.stages \in Nat
    BY RowFacts, CallNumbers DEF Inv, Fixed
  <2>2. CASE Rows(t) = <<>>
    BY <2>1, <2>2
  <2>3. CASE Rows(t) # <<>>
    BY <1>6, <1>7, <2>1, <2>3 DEF PartOver, at
  <2> QED
    BY <2>2, <2>3
<1>9. \A k \in 1..2 : ~(Sends(t)' /\ OutputOver(q, k))
  BY <1>1, <1>6, <1>7 DEF Sends, OutputOver, ep
<1> QED
  BY <1>1, <1>5, <1>7, <1>8, <1>9, CtaKeepsGains DEF q

LEMMA StepKeepsGains == ASSUME Inv, Gains, [Next]_vars PROVE Gains'
<1>1. DOMAIN cta = Tiles(call)
  BY DEF Inv, Fixed
<1>2. CASE UNCHANGED vars
  <2>1. UNCHANGED <<call, work, cta, bulk, added>>
    BY <1>2 DEF vars
  <2>2. /\ Tiles(call)' = Tiles(call) /\ Cells(call)' = Cells(call)
        /\ \A u : /\ Rows(u)' = Rows(u) /\ Hb(u)' = Hb(u) /\ N(u)' = N(u)
                  /\ \A i, stage : PartCell(u, i, stage)' = PartCell(u, i, stage)
                  /\ \A k : OutputCell(u, k)' = OutputCell(u, k)
    BY <2>1, SameNames
  <2>3. Fresh'
    BY <2>1 DEF Gains, Fresh
  <2>4. RowsGiven'
    BY <2>1, <2>2 DEF Gains, RowsGiven, Given
  <2>5. OutputsGiven'
    BY <2>1, <2>2 DEF Gains, OutputsGiven, Given, Sends, At
  <2> QED
    BY <2>1, <2>2, <2>3, <2>4, <2>5 DEF Gains
<1>3. ASSUME NEW t \in Tiles(call), Launch(t) \/ Step(t) \/ EpilogueStep(t) PROVE Gains'
  BY <1>3, LaunchGains, AddPartGains, SkipPartGains, SettlePartGains, EndRowGains, EndRowsGains,
     SkipRowGains, StoreGradientGains, EndGradientGains DEF Step, EpilogueStep
<1>4. ASSUME NEW b \in bulk, Land(b) PROVE Gains'
  BY <1>4, LandKeepsGains
<1> QED
  BY <1>1, <1>2, <1>3, <1>4 DEF Next

-----------------------------------------------------------------------------
(* Every pair of blocks that a query and a key see each other in has a     *)
(* visit: of the range of row blocks, or of the lists of a sparse mask.    *)

LEMMA SeenInWindow ==
    ASSUME NEW c, IsCall(c), c = call, NEW n \in Nat, NEW m \in 0..(RowBlocks(c) - 1),
           NEW i \in (m * TileM)..(Smaller((m + 1) * TileM, c.seqlenQ) - 1),
           NEW j \in (n * PairN(c))..(Smaller((n + 1) * PairN(c), c.seqlenK) - 1), Sees(i, j)
    PROVE  MBlockMin(c, n) <= m /\ m < MBlockMax(c, n)
<1>1. /\ PairN(c) \in Nat \ {0} /\ RowBlocks(c) \in Nat \ {0} /\ TileM \in Nat \ {0}
      /\ Diagonal(c) \in Int /\ Right(c) \in Int /\ c.left \in Int
      /\ c.seqlenQ \in Nat /\ c.seqlenK \in Nat
  BY CallNumbers
<1> DEFINE w == PairN(c)   a == n * w - Diagonal(c) - Right(c)   lo == n * w   hi == (n + 1) * w
           e == hi - Diagonal(c) + c.left   x == m * TileM   y == (m + 1) * TileM
<1>2. /\ w \in Nat \ {0} /\ m \in Nat /\ lo \in Nat /\ hi \in Nat /\ x \in Nat /\ y \in Nat
      /\ y = x + TileM /\ m < RowBlocks(c)
  BY <1>1
<1>3. a = lo - Diagonal(c) - Right(c) /\ a \in Int /\ e \in Int
  BY <1>1, <1>2
<1>4. i \in Int /\ j \in Int /\ x <= i /\ i < y /\ lo <= j /\ j < hi
  <2> HIDE DEF w, lo, hi, x, y
  <2>1. i \in x..(Smaller(y, c.seqlenQ) - 1) /\ j \in lo..(Smaller(hi, c.seqlenK) - 1)
    BY DEF x, y, lo, hi, w
  <2> QED
    BY <1>1, <1>2, <2>1 DEF Smaller
<1> HIDE DEF w, a, e, x, y, lo, hi
<1>5. MBlockMin(c, n) <= m
  <2>1. MBlockMin(c, n) = IF RightBound(c) THEN Larger(0, a \div TileM) ELSE 0
    BY DEF MBlockMin, a, w
  <2>2. CASE ~RightBound(c)
    BY <1>2, <2>1, <2>2
  <2>3. CASE RightBound(c)
    <3>1. j <= i + Diagonal(c) + Right(c)
      BY <2>3 DEF Sees
    <3>2. a < y
      BY <1>1, <1>2, <1>3, <1>4, <3>1
    <3> DEFINE q == a \div TileM
    <3>a. q \in Int /\ q * TileM <= a
      BY <1>1, <1>3, DivBounds
    <3> HIDE DEF q
    <3>3. q \in Int /\ q * TileM <= a /\ q * TileM \in Int
      BY <1>1, <3>a
    <3>4. q * TileM < (m + 1) * TileM /\ m + 1 \in Int
      BY <1>2, <1>3, <3>2, <3>3 DEF y
    <3>5. q < m + 1
      BY <1>1, <3>3, <3>4, TimesLess
    <3> QED
      BY <1>2, <2>1, <2>3, <3>3, <3>5 DEF q, Larger
  <2> QED
    BY <2>2, <2>3
<1>6. m < MBlockMax(c, n)
  <2>1. MBlockMax(c, n) = IF LeftBound(c) THEN Smaller(RowBlocks(c), CeilDiv(e, TileM)) ELSE RowBlocks(c)
    BY DEF MBlockMax, e, hi, w
  <2>2. CASE ~LeftBound(c)
    BY <1>2, <2>1, <2>2
  <2>3. CASE LeftBound(c)
    <3>1. j >= i + Diagonal(c) - c.left
      BY <2>3 DEF Sees
    <3>2. x < e
      BY <1>1, <1>2, <1>3, <1>4, <3>1 DEF e
    <3> DEFINE z == e + TileM - 1   q == z \div TileM
    <3>3. z \in Int /\ z >= y
      BY <1>1, <1>2, <1>3, <3>2
    <3> HIDE DEF z
    <3>4. q \in Int /\ z < q * TileM + TileM
      BY <1>1, <3>3, DivBounds
    <3> HIDE DEF q
    <3>5. (m + 1) * TileM < (q + 1) * TileM /\ m + 1 \in Int /\ q + 1 \in Int
      <4>1. (q + 1) * TileM = q * TileM + TileM /\ q * TileM \in Int
        BY <1>1, <3>4
      <4> QED
        BY <1>1, <1>2, <3>3, <3>4, <4>1 DEF y
    <3>6. m + 1 < q + 1
      BY <1>1, <3>5, TimesLess
    <3>7. CeilDiv(e, TileM) = q
      BY DEF CeilDiv, z, q
    <3> QED
      BY <1>1, <1>2, <2>1, <2>3, <3>4, <3>6, <3>7 DEF Smaller
  <2> QED
    BY <2>2, <2>3
<1> QED
  BY <1>5, <1>6

LEMMA SeenIsVisited ==
    ASSUME Fixed, NEW t \in Tiles(call), NEW m \in 0..(RowBlocks(call) - 1),
           BlockSees(Hb(t), N(t), m)
    PROVE  \E i \in DOMAIN Rows(t) : Rows(t)[i].m = m /\ ~Rows(t)[i].oob
<1> DEFINE c == call   v == Visits(c, Hb(t), N(t))
<1>1. IsCall(c) /\ work[t] = WorkTile(c, t)
  BY DEF Fixed
<1>2. /\ Hb(t) = HeadBatch(c, t) /\ N(t) = NBlockOf(c, t)
      /\ N(t) \in 0..(NumBlock(c) - 1) /\ NumBlock(c) \in Nat \ {0}
  BY <1>1, RowFacts, CallNumbers
<1>3. Rows(t) = [i \in DOMAIN v |-> [m |-> v[i], lock |-> LockValue(c, Hb(t), N(t), v[i]),
                                     oob |-> OutOfRows(c, N(t), v[i])]]
  BY <1>1, <1>2 DEF Rows, WorkTile
<1>4. N(t) \in Nat
  BY <1>2
<1>5. MBlockMin(c, N(t)) <= m /\ m < MBlockMax(c, N(t))
  BY <1>1, <1>4, SeenInWindow DEF BlockSees
<1>6. m \in Nat /\ MBlockMin(c, N(t)) \in Nat /\ MBlockMax(c, N(t)) \in Int
  <2>1. RowBlocks(c) \in Nat
    BY <1>1, CallNumbers
  <2> QED
    BY <1>1, <1>4, <2>1, Windows
<1>7. ~OutOfRows(c, N(t), m)
  BY <1>5, <1>6 DEF OutOfRows
<1>8. \E i \in DOMAIN v : v[i] = m
  <2>1. CASE c.sparse
    <3>1. <<Hb(t), N(t), m \div c.subtile>> \in c.partial \cup c.full
      BY <2>1 DEF BlockSees, SparseSees
    <3>2. m \div c.subtile \in Listed(c, Hb(t), N(t))
      BY <3>1 DEF Listed, ListedIn
    <3> QED
      BY <1>1, <1>6, <2>1, <3>2, SparseVisits
  <2>2. CASE ~c.sparse
    <3> DEFINE lo == MBlockMin(c, N(t))   hi == MBlockMax(c, N(t))
    <3>1. v \in Seq(Nat) /\ Len(v) = Larger(hi - lo, 0) /\ \A i \in DOMAIN v : v[i] = lo + i - 1
      BY <1>1, <1>4, <2>2, PlainVisits
    <3> HIDE DEF v, lo, hi, c
    <3>2. lo \in Nat /\ hi \in Int /\ lo <= m /\ m < hi /\ m \in Nat
      BY <1>5, <1>6 DEF lo, hi
    <3>3. m - lo + 1 \in DOMAIN v
      BY <3>1, <3>2 DEF Larger
    <3> PICK k \in DOMAIN v : k = m - lo + 1
      BY <3>3
    <3>4. v[m - lo + 1] = m
      <4>1. v[k] = lo + k - 1
        BY <3>1
      <4>2. lo + k - 1 = m
        BY <3>2
      <4> QED
        BY <4>1, <4>2
    <3> QED
      BY <3>3, <3>4
  <2> QED
    BY <2>1, <2>2
<1> HIDE DEF v
<1> QED
  BY <1>3, <1>7, <1>8

\* dQacc_reduce, epilogue_dK_or_dV_tma and block_info.py, for any windows, block
\* lists, lengths and interleaving: when the kernel is over, no pair of blocks
\* with a query that sees a key is missing from dQ, nor from dK and dV.
THEOREM NothingLost == Spec => []NoGradientLost
<1>1. Inv /\ Gains => NoGradientLost
  <2> SUFFICES ASSUME Inv, Gains, Done,
                      NEW n \in 0..(NumBlock(call) - 1), NEW hb \in 0..(call.hbs - 1),
                      NEW m \in 0..(RowBlocks(call) - 1), BlockSees(hb, n, m)
               PROVE  /\ \A stage \in 0..(call.stages - 1) : n \in Range(added[QCell(hb, m, stage)])
                      /\ \A o \in Outputs(call) : hb \in Range(added[KvCell(o, hb, n)])
    BY DEF NoGradientLost
  <2>1. Fixed /\ IsCall(call)
    BY DEF Inv, Fixed
  <2>2. PICK t \in Tiles(call) : HeadBatch(call, t) = hb /\ NBlockOf(call, t) = n
    BY <2>1, TileOfBlock
  <2>3. Hb(t) = hb /\ N(t) = n
    BY <2>1, <2>2, RowFacts
  <2>4. PICK i \in DOMAIN Rows(t) : Rows(t)[i].m = m /\ ~Rows(t)[i].oob
    BY <2>1, <2>3, SeenIsVisited
  <2>5. cta[t].at = "done" /\ cta[t].ep = "done" /\ bulk = {}
    BY <2>1 DEF Done, Gone, Fixed
  <2>6. \A stage \in 0..(call.stages - 1) : n \in Range(added[QCell(hb, m, stage)])
    <3> TAKE stage \in 0..(call.stages - 1)
    <3>1. Given(t, PartCell(t, i, stage), N(t))
      BY <2>4, <2>5 DEF Gains, RowsGiven, PartOver
    <3> QED
      BY <2>3, <2>4, <2>5, <3>1 DEF Given, PartCell
  <2>7. \A o \in Outputs(call) : hb \in Range(added[KvCell(o, hb, n)])
    <3> TAKE o \in Outputs(call)
    <3>1. call.group > 1
      BY <2>1, CallNumbers DEF Outputs
    <3>2. work[t].sends
      BY <2>1, <2>4, RowFacts
    <3>3. Sends(t)
      BY <2>5, <3>1, <3>2 DEF Sends, At
    <3>4. PICK k \in 1..2 : OutputOrder(call)[k] = o
      BY DEF Outputs, OutputOrder
    <3>5. Given(t, OutputCell(t, k), Hb(t))
      BY <2>5, <3>3 DEF Gains, OutputsGiven, OutputOver
    <3> QED
      BY <2>3, <2>5, <3>4, <3>5 DEF Given, OutputCell
  <2> QED
    BY <2>6, <2>7
<1>2. Init => Gains
  BY GainsInit
<1>3. Inv /\ Gains /\ [Next]_vars => Gains'
  BY StepKeepsGains
<1> QED
  BY <1>1, <1>2, <1>3, TurnInvariant, PTL DEF Spec

-----------------------------------------------------------------------------
(* The promised order.  Every accumulator gets its contributions as        *)
(* OrderedSums says.                                                       *)

\* The sequence lists the numbers of C, upwards or downwards.
Lists(o, C, down) ==
    /\ o \in Seq(Int)
    /\ \A j \in DOMAIN o : o[j] \in C
    /\ \A n \in C : \E j \in DOMAIN o : o[j] = n
    /\ \A i, j \in DOMAIN o : i < j => IF down THEN o[i] > o[j] ELSE o[i] < o[j]

LEMMA AscendingLists ==
    ASSUME NEW S \in SUBSET Int, IsFiniteSet(S)
    PROVE  Lists(Ascending(S), S, FALSE) /\ Lists(Reverse(Ascending(S)), S, TRUE)
<1> DEFINE a == Ascending(S)   k == Cardinality(S)   r == Reverse(a)
<1>1. /\ k \in Nat /\ a \in [1..k -> S] /\ (\A x \in S : \E i \in 1..k : a[i] = x)
      /\ \A i, j \in 1..k : i < j => a[i] < a[j]
  BY AscendingOK
<1> HIDE DEF a, k
<1>2. a \in [1..k -> Int]
  BY <1>1
<1>3. a \in Seq(Int) /\ DOMAIN a = 1..k
  BY <1>1, <1>2, SeqDef
<1>4. Len(a) = k
  BY <1>1, <1>3
<1>5. Lists(a, S, FALSE)
  BY <1>1, <1>3 DEF Lists
<1>6. r = [i \in 1..k |-> a[k - i + 1]]
  BY <1>4 DEF Reverse
<1>7. \A i \in 1..k : k - i + 1 \in 1..k /\ a[k - i + 1] \in S /\ a[k - i + 1] \in Int
  <2> TAKE i \in 1..k
  <2>1. k - i + 1 \in 1..k
    BY <1>1
  <2> QED
    BY <1>1, <1>2, <2>1
<1>8. r \in [1..k -> Int] /\ \A i \in 1..k : r[i] = a[k - i + 1]
  BY <1>6, <1>7
<1> HIDE DEF r
<1>9. r \in Seq(Int) /\ DOMAIN r = 1..k
  BY <1>1, <1>8, SeqDef
<1>10. \A n \in S : \E j \in DOMAIN r : r[j] = n
  <2> TAKE n \in S
  <2>1. PICK i \in 1..k : a[i] = n
    BY <1>1
  <2>2. k - i + 1 \in 1..k /\ k - (k - i + 1) + 1 = i
    BY <1>1
  <2> QED
    BY <1>8, <1>9, <2>1, <2>2
<1>11. \A i, j \in DOMAIN r : i < j => r[i] > r[j]
  <2> SUFFICES ASSUME NEW i \in 1..k, NEW j \in 1..k, i < j PROVE r[i] > r[j]
    BY <1>9
  <2> DEFINE x == k - i + 1   y == k - j + 1
  <2>1. x \in 1..k /\ y \in 1..k /\ y < x
    BY <1>1
  <2>2. r[i] = a[x] /\ r[j] = a[y]
    BY <1>8
  <2> HIDE DEF x, y
  <2>3. a[y] < a[x] /\ a[y] \in Int /\ a[x] \in Int
    BY <1>1, <1>2, <2>1
  <2> QED
    BY <2>2, <2>3
<1>12. Lists(r, S, TRUE)
  BY <1>7, <1>8, <1>9, <1>10, <1>11 DEF Lists
<1> QED
  BY <1>5, <1>12 DEF a, r

\* TheOrder: the blocks of keys that add to a row block, the heads of a group.
LEMMA OrderLists ==
    ASSUME Fixed, NEW x \in Cells(call)
    PROVE  IF x[1] = "Q" THEN Lists(order[x], Contributors(call, x[2], x[3]), call.spt)
                         ELSE Lists(order[x], GroupHeads(call, x[2], x[3]), FALSE)
<1> DEFINE C == Contributors(call, x[2], x[3])   G == GroupHeads(call, x[2], x[3])
<1>1. NumBlock(call) \in Nat /\ call.hbs \in Nat /\ order[x] = TheOrder(call, x) /\ call.spt \in BOOLEAN
  BY CallNumbers DEF Fixed, IsCall
<1>2. C \in SUBSET (0..(NumBlock(call) - 1)) /\ G \in SUBSET (0..(call.hbs - 1))
  BY DEF Contributors, GroupHeads
<1>3. IsFiniteSet(C) /\ IsFiniteSet(G)
  <2>1. IsFiniteSet(0..(NumBlock(call) - 1)) /\ IsFiniteSet(0..(call.hbs - 1))
    BY <1>1, BelowIsFinite
  <2> QED
    BY <1>2, <2>1, FS_Subset
<1>4. C \in SUBSET Int /\ G \in SUBSET Int
  BY <1>2
<1>5. TheOrder(call, x) = IF x[1] # "Q" THEN Ascending(G)
                          ELSE IF call.spt THEN Reverse(Ascending(C)) ELSE Ascending(C)
  BY DEF TheOrder
<1> HIDE DEF C, G
<1>6. /\ Lists(Ascending(C), C, FALSE) /\ Lists(Reverse(Ascending(C)), C, TRUE)
      /\ Lists(Ascending(G), G, FALSE)
  BY <1>3, <1>4, AscendingLists
<1>7. IF x[1] = "Q" THEN Lists(order[x], C, call.spt) ELSE Lists(order[x], G, FALSE)
  <2>1. CASE x[1] # "Q"
    BY <1>1, <1>5, <1>6, <2>1
  <2>2. CASE x[1] = "Q" /\ call.spt
    BY <1>1, <1>5, <1>6, <2>2
  <2>3. CASE x[1] = "Q" /\ ~call.spt
    <3>1. call.spt = FALSE
      BY <1>1, <2>3
    <3> QED
      BY <1>1, <1>5, <1>6, <2>3, <3>1
  <2> QED
    BY <2>1, <2>2, <2>3
<1> QED
  BY <1>7 DEF C, G

\* s is as far as a sum has got in its order.
Begins(s, o) == Len(s) <= Len(o) /\ \A j \in 1..Len(s) : s[j] = o[j]

\* Whatever has all those before it in the sum, and is not in it, comes next.
LEMMA NextListed ==
    ASSUME NEW o, NEW C, NEW down \in BOOLEAN, Lists(o, C, down), NEW s \in Seq(Int), Begins(s, o),
           NEW n \in C, n \notin Range(s),
           \A y \in C : (IF down THEN y > n ELSE y < n) => y \in Range(s)
    PROVE  Len(s) < Len(o) /\ o[Len(s) + 1] = n
<1> DEFINE k == Len(s)   l == Len(o)
<1>1. o \in Seq(Int) /\ l \in Nat /\ DOMAIN o = 1..l /\ k \in Nat /\ DOMAIN s = 1..k
      /\ \A j \in 1..l : o[j] \in Int
  BY DEF Lists
<1>2. k <= l /\ \A j \in 1..k : s[j] = o[j]
  BY DEF Begins
<1>3. PICK j \in 1..l : o[j] = n
  BY <1>1 DEF Lists
<1> HIDE DEF k, l
<1>4. ~(j <= k)
  <2> SUFFICES ASSUME j <= k PROVE FALSE
    OBVIOUS
  <2>1. j \in DOMAIN s /\ s[j] = n
    BY <1>1, <1>2, <1>3
  <2> QED
    BY <2>1 DEF Range
<1>5. ~(k + 1 < j)
  <2> SUFFICES ASSUME k + 1 < j PROVE FALSE
    OBVIOUS
  <2> PICK i : i = k + 1
    OBVIOUS
  <2>1. i \in 1..l /\ i < j
    BY <1>1, <1>3
  <2>2. o[i] \in C /\ IF down THEN o[i] > n ELSE o[i] < n
    BY <1>1, <1>3, <2>1 DEF Lists
  <2>3. PICK h \in 1..k : s[h] = o[i]
    BY <1>1, <2>2 DEF Range
  <2>4. o[h] = o[i] /\ h \in 1..l /\ h < i
    BY <1>1, <1>2, <2>1, <2>3
  <2>5. IF down THEN o[h] > o[i] ELSE o[h] < o[i]
    BY <1>1, <2>1, <2>4 DEF Lists
  <2>6. o[i] \in Int
    BY <1>1, <2>1
  <2> QED
    BY <2>4, <2>5, <2>6
<1>6. j = k + 1 /\ k < l
  BY <1>1, <1>3, <1>4, <1>5
<1> QED
  BY <1>3, <1>6 DEF k, l

\* Of turns: at least as many have been passed on as there are before somebody, and
\* only by those before; then by all of them.
LEMMA AllBefore ==
    ASSUME NEW P, NEW B, IsFiniteSet(B), P \in SUBSET B, NEW lock \in Int,
           Cardinality(B) <= lock, lock <= Cardinality(P)
    PROVE  P = B
<1>1. IsFiniteSet(P) /\ Cardinality(P) <= Cardinality(B) /\ (Cardinality(B) = Cardinality(P) => B = P)
  BY FS_Subset
<1>2. Cardinality(P) \in Nat /\ Cardinality(B) \in Nat
  BY <1>1, FS_CardinalityType
<1> QED
  BY <1>1, <1>2

-----------------------------------------------------------------------------
(* A CTA visits a row block once.                                          *)

\* Partial and full blocks are listed apart, each once.
LEMMA SparseListDiffers ==
    ASSUME NEW c, IsCall(c), NEW hb, NEW n, NEW i \in DOMAIN SparseList(c, hb, n),
           NEW j \in DOMAIN SparseList(c, hb, n), SparseList(c, hb, n)[i] = SparseList(c, hb, n)[j]
    PROVE  i = j
<1> DEFINE S == ListedIn(c.partial, hb, n)   T == ListedIn(c.full, hb, n)
<1>1. IsFiniteSet(S) /\ S \in SUBSET Nat /\ IsFiniteSet(T) /\ T \in SUBSET Nat
  <2>1. c.partial \in SUBSET (c.partial \cup c.full) /\ c.full \in SUBSET (c.partial \cup c.full)
    OBVIOUS
  <2>2. IsFiniteSet(S) /\ S \in SUBSET Nat
    BY <2>1, SparseSets
  <2>3. IsFiniteSet(T) /\ T \in SUBSET Nat
    BY <2>1, SparseSets
  <2> QED
    BY <2>2, <2>3
<1>2. S \cap T = {}
  <2> SUFFICES ASSUME NEW m \in S, m \in T PROVE FALSE
    OBVIOUS
  <2>1. PICK x \in c.partial : x[1] = hb /\ x[2] = n /\ x[3] = m
    BY DEF ListedIn
  <2>2. PICK y \in c.full : y[1] = hb /\ y[2] = n /\ y[3] = m
    BY DEF ListedIn
  <2>3. x \in Nat \X Nat \X Nat /\ y \in Nat \X Nat \X Nat
    BY DEF IsCall
  <2>4. x = y
    BY <2>1, <2>2, <2>3
  <2> QED
    BY <2>4 DEF IsCall
<1>3. SparseList(c, hb, n) = Ascending(S) \o Ascending(T)
  BY DEF SparseList, ListedIn
<1> HIDE DEF S, T
<1> DEFINE a == Ascending(S)   b == Ascending(T)
<1>4. Lists(a, S, FALSE) /\ Lists(b, T, FALSE)
  <2>1. S \in SUBSET Int /\ T \in SUBSET Int
    BY <1>1
  <2> QED
    BY <1>1, <2>1, AscendingLists
<1> HIDE DEF a, b
<1>5. /\ a \in Seq(Int) /\ b \in Seq(Int) /\ (\A k \in DOMAIN a : a[k] \in S) /\ (\A k \in DOMAIN b : b[k] \in T)
      /\ Len(a) \in Nat /\ Len(b) \in Nat /\ DOMAIN a = 1..Len(a) /\ DOMAIN b = 1..Len(b)
  <2>1. a \in Seq(Int) /\ b \in Seq(Int) /\ (\A k \in DOMAIN a : a[k] \in S) /\ (\A k \in DOMAIN b : b[k] \in T)
    BY <1>4 DEF Lists
  <2> QED
    BY <2>1
<1>6. /\ \A h, k \in DOMAIN a : h < k => a[h] < a[k]
      /\ \A h, k \in DOMAIN b : h < k => b[h] < b[k]
  BY <1>4 DEF Lists
<1>7. \A k \in DOMAIN (a \o b) : /\ k \in 1..(Len(a) + Len(b))
                                 /\ k <= Len(a) => k \in DOMAIN a /\ (a \o b)[k] = a[k]
                                 /\ ~(k <= Len(a)) => k - Len(a) \in DOMAIN b /\ (a \o b)[k] = b[k - Len(a)]
  BY <1>5
<1>8. ASSUME NEW h \in DOMAIN a, NEW k \in DOMAIN a, a[h] = a[k] PROVE h = k
  <2>1. a[h] \in Int /\ h \in Int /\ k \in Int
    BY <1>1, <1>5
  <2> QED
    BY <1>6, <1>8, <2>1
<1>9. ASSUME NEW h \in DOMAIN b, NEW k \in DOMAIN b, b[h] = b[k] PROVE h = k
  <2>1. b[h] \in Int /\ h \in Int /\ k \in Int
    BY <1>1, <1>5
  <2> QED
    BY <1>6, <1>9, <2>1
<1>10. i \in DOMAIN (a \o b) /\ j \in DOMAIN (a \o b) /\ (a \o b)[i] = (a \o b)[j]
  BY <1>3 DEF a, b
<1>11. CASE i <= Len(a) /\ j <= Len(a)
  BY <1>7, <1>8, <1>10, <1>11
<1>12. CASE ~(i <= Len(a)) /\ ~(j <= Len(a))
  <2>1. i - Len(a) = j - Len(a)
    BY <1>7, <1>9, <1>10, <1>12
  <2> QED
    BY <1>5, <1>7, <1>10, <2>1
<1>13. CASE i <= Len(a) /\ ~(j <= Len(a))
  BY <1>2, <1>5, <1>7, <1>10, <1>13
<1>14. CASE ~(i <= Len(a)) /\ j <= Len(a)
  BY <1>2, <1>5, <1>7, <1>10, <1>14
<1> QED
  BY <1>11, <1>12, <1>13, <1>14

LEMMA VisitsDiffer ==
    ASSUME NEW c, IsCall(c), NEW hb, NEW n \in Nat, NEW i \in DOMAIN Visits(c, hb, n),
           NEW j \in DOMAIN Visits(c, hb, n), Visits(c, hb, n)[i] = Visits(c, hb, n)[j]
    PROVE  i = j
<1>1. CASE ~c.sparse
  <2>1. Visits(c, hb, n) \in Seq(Nat) /\ MBlockMin(c, n) \in Nat
        /\ \A k \in DOMAIN Visits(c, hb, n) : Visits(c, hb, n)[k] = MBlockMin(c, n) + k - 1
    BY <1>1, PlainVisits, Windows
  <2>2. i \in Int /\ j \in Int
    BY <2>1
  <2> QED
    BY <2>1, <2>2
<1>2. CASE c.sparse
  <2> DEFINE list == SparseList(c, hb, n)   k == c.subtile
             v == [x \in 1..(Len(list) * k) |-> list[(x - 1) \div k + 1] * k + ((x - 1) % k)]
  <2>1. Visits(c, hb, n) = v
    BY <1>2 DEF Visits
  <2>2. /\ list \in Seq(Nat) /\ k \in Nat \ {0}
        /\ \A x, y \in DOMAIN list : list[x] = list[y] => x = y
    BY SparseListOK, SparseListDiffers, CallNumbers
  <2> HIDE DEF list, k
  <2>3. Len(list) \in Nat /\ DOMAIN list = 1..Len(list) /\ (\A x \in DOMAIN list : list[x] \in Nat)
        /\ Len(list) * k \in Nat
    BY <2>2
  <2>4. i \in 1..(Len(list) * k) /\ j \in 1..(Len(list) * k) /\ v[i] = v[j]
    BY <2>1
  <2>5. ASSUME NEW x \in 1..(Len(list) * k)
        PROVE  /\ (x - 1) \div k \in Int /\ (x - 1) % k \in 0..(k - 1)
               /\ x - 1 = ((x - 1) \div k) * k + ((x - 1) % k)
               /\ (x - 1) \div k + 1 \in DOMAIN list
               /\ v[x] = list[(x - 1) \div k + 1] * k + ((x - 1) % k)
    <3> DEFINE z == x - 1   q == z \div k   r == z % k
    <3>1. z \in Int /\ z >= 0 /\ z < Len(list) * k
      BY <2>2, <2>3
    <3> HIDE DEF z
    <3>2. q \in Int /\ z = q * k + r /\ r \in 0..(k - 1) /\ q >= 0 /\ q * k <= z
      BY <2>2, <3>1, DivBounds
    <3>3. v[x] = list[q + 1] * k + r
      BY <2>5 DEF z
    <3> HIDE DEF q, r
    <3>4. q * k < Len(list) * k
      BY <2>2, <2>3, <3>1, <3>2
    <3>5. Len(list) \in Int
      BY <2>3
    <3>6. q < Len(list)
      BY <2>2, <3>2, <3>4, <3>5, TimesLess
    <3>7. q + 1 \in DOMAIN list
      BY <2>3, <3>2, <3>6
    <3> QED
      BY <3>2, <3>3, <3>7 DEF z, q, r
  <2> DEFINE a == (i - 1) \div k   b == (j - 1) \div k   r == (i - 1) % k   s == (j - 1) % k
             y == list[a + 1]   z == list[b + 1]
  <2>6. /\ a \in Int /\ b \in Int /\ r \in 0..(k - 1) /\ s \in 0..(k - 1)
        /\ i - 1 = a * k + r /\ j - 1 = b * k + s
        /\ a + 1 \in DOMAIN list /\ b + 1 \in DOMAIN list /\ y * k + r = z * k + s
    BY <2>4, <2>5
  <2> HIDE DEF a, b, r, s, v
  <2>7. y \in Nat /\ z \in Nat
    BY <2>3, <2>6
  <2> DEFINE w == y * k + r
  <2>8. y = z /\ r = s
    <3>0. PICK e \in Int, f \in Int, g \in Int, u \in Int, d \in Int :
              e = y /\ f = z /\ g = r /\ u = s /\ d = e * k + g
      BY <2>2, <2>6, <2>7
    <3>a. d = f * k + u /\ e >= 0 /\ f >= 0 /\ g \in 0..(k - 1) /\ u \in 0..(k - 1) /\ e \in Nat /\ f \in Nat
      BY <2>6, <2>7, <3>0
    <3> PICK x \in Nat, xx \in Nat : x = e * k /\ xx = f * k
      BY <2>2, <3>a
    <3>b. d = x + g /\ d = xx + u /\ d \in Int
      BY <3>0, <3>a
    <3>1. /\ d >= 0 /\ e * k <= d /\ d < e * k + k /\ f * k <= d /\ d < f * k + k
      BY <2>2, <3>a, <3>b
    <3>2. d \div k = e /\ d \div k = f
      BY <2>2, <3>a, <3>b, <3>1, DivUnique
    <3>3. e = f
      BY <3>2
    <3>4. g = u
      BY <3>0, <3>a, <3>b, <3>3
    <3> QED
      BY <3>0, <3>3, <3>4
  <2>9. a = b
    <3>1. a + 1 = b + 1
      BY <2>2, <2>6, <2>8
    <3> QED
      BY <2>6, <3>1
  <2>10. i - 1 = j - 1
    BY <2>6, <2>8, <2>9
  <2> QED
    BY <2>3, <2>4, <2>10
<1> QED
  BY <1>1, <1>2

LEMMA RowsDiffer ==
    ASSUME Fixed, NEW t \in Tiles(call), NEW i \in DOMAIN Rows(t), NEW j \in DOMAIN Rows(t),
           Rows(t)[i].m = Rows(t)[j].m
    PROVE  i = j
<1> DEFINE v == Visits(call, HeadBatch(call, t), NBlockOf(call, t))
<1>1. IsCall(call) /\ work[t] = WorkTile(call, t) /\ N(t) \in Nat /\ NBlockOf(call, t) = N(t)
  <2>1. NumBlock(call) \in Nat
    BY NumBlockPositive DEF Fixed
  <2> QED
    BY <2>1, RowFacts DEF Fixed
<1>2. DOMAIN Rows(t) = DOMAIN v /\ \A k \in DOMAIN v : Rows(t)[k].m = v[k]
  BY <1>1 DEF WorkTile, Rows
<1> QED
  BY <1>1, <1>2, VisitsDiffer

-----------------------------------------------------------------------------
(* Turns in their order.  A turn at a row block is given by those who add  *)
(* to it and by those who leave it out; who has one has everybody before   *)
(* it behind it.                                                           *)

Precedes(t, u) == IF call.spt THEN N(t) > N(u) ELSE N(t) < N(u)
Adds(t, m) == \E i \in DOMAIN Rows(t) : Rows(t)[i].m = m /\ ~Rows(t)[i].oob
LeavesOut(t, m) == Skips(call) /\ m >= work[t].mMax

\* Tile t has given its turn at row block m, and nobody gets it from it again.
GaveTurn(t, m) ==
    \/ \E i \in DOMAIN Rows(t) : Rows(t)[i].m = m /\ ~Rows(t)[i].oob /\ Over(t, i)
    \/ /\ LeavesOut(t, m)
       /\ At(t, "done") \/ (At(t, "skip") /\ m < work[t].mMax + cta[t].skipped)
GivenBy(hb, m) == {t \in Tiles(call) : Hb(t) = hb /\ GaveTurn(t, m)}

\* The tiles that come before t at row block m.
Ahead(t, m) ==
    {u \in Tiles(call) : Hb(u) = Hb(t) /\ Precedes(u, t) /\ (Adds(u, m) \/ LeavesOut(u, m))}

\* A semaphore counts no turn that was not given.
TurnsGiven ==
    \A hb \in 0..(call.hbs - 1), m \in 0..(RowBlocks(call) - 1) :
        sem[QSem(hb, m)] <= Cardinality(GivenBy(hb, m))

\* Who has or had a turn has everybody behind it who comes before.
InLine ==
    \A t \in Tiles(call) : \A i \in DOMAIN Rows(t) :
        ~Rows(t)[i].oob /\ (i \in Held(t) \/ Over(t, i)) =>
            \A u \in Ahead(t, Rows(t)[i].m) : GaveTurn(u, Rows(t)[i].m)

\* The blocks of keys that add to a row block are those of the tiles that do.
LEMMA ContributorTiles ==
    ASSUME Fixed, NEW hb \in 0..(call.hbs - 1), NEW m
    PROVE  /\ \A t \in Tiles(call) : Hb(t) = hb /\ Adds(t, m) => N(t) \in Contributors(call, hb, m)
           /\ \A n \in Contributors(call, hb, m) :
                 \E t \in Tiles(call) : Hb(t) = hb /\ N(t) = n /\ Adds(t, m)
<1>1. ASSUME NEW t \in Tiles(call), Hb(t) = hb
      PROVE  /\ N(t) \in 0..(NumBlock(call) - 1)
             /\ Adds(t, m) <=> m \in Range(Visits(call, hb, N(t))) /\ ~OutOfRows(call, N(t), m)
  <2> DEFINE v == Visits(call, hb, N(t))
  <2>1. work[t] = WorkTile(call, t) /\ HeadBatch(call, t) = hb /\ NBlockOf(call, t) = N(t)
    BY <1>1, RowFacts DEF Fixed
  <2>2. DOMAIN Rows(t) = DOMAIN v
        /\ \A k \in DOMAIN v : Rows(t)[k].m = v[k] /\ Rows(t)[k].oob = OutOfRows(call, N(t), v[k])
    BY <2>1 DEF WorkTile, Rows
  <2> HIDE DEF v
  <2>3. Adds(t, m) <=> \E k \in DOMAIN v : v[k] = m /\ ~OutOfRows(call, N(t), v[k])
    BY <2>2 DEF Adds
  <2>4. Adds(t, m) <=> m \in Range(v) /\ ~OutOfRows(call, N(t), m)
    BY <2>3 DEF Range
  <2> QED
    BY <2>4, RowFacts DEF v
<1>2. ASSUME NEW n \in Contributors(call, hb, m)
      PROVE  \E t \in Tiles(call) : Hb(t) = hb /\ N(t) = n /\ Adds(t, m)
  <2>1. n \in 0..(NumBlock(call) - 1) /\ m \in Range(Visits(call, hb, n)) /\ ~OutOfRows(call, n, m)
    BY DEF Contributors
  <2>2. PICK t \in Tiles(call) : HeadBatch(call, t) = hb /\ NBlockOf(call, t) = n
    BY <2>1, TileOfBlock DEF Fixed
  <2>3. Hb(t) = hb /\ N(t) = n
    BY <2>2, RowFacts
  <2> QED
    BY <1>1, <2>1, <2>3
<1> QED
  BY <1>1, <1>2 DEF Contributors

\* get_n_block_max_for_m_block is behind every block whose window has the row block.
LEMMA BelowMax ==
    ASSUME NEW c, IsCall(c), NEW n \in 0..(NumBlock(c) - 1), NEW m \in Nat, MBlockMin(c, n) <= m
    PROVE  n < NBlockMaxFor(c, m)
<1>1. /\ PairN(c) \in Nat \ {0} /\ TileM \in Nat \ {0} /\ TileN \in Nat \ {0}
      /\ Diagonal(c) \in Int /\ Right(c) \in Int /\ c.seqlenK \in Nat \ {0} /\ NumBlock(c) \in Nat
  BY CallNumbers
<1>2. n < GlobalMax(c) /\ GlobalMax(c) \in Int
  <2>1. GlobalMax(c) \in Nat \ {0}
    BY <1>1, CeilDivPositive DEF GlobalMax
  <2>2. NumBlock(c) = CeilDiv(GlobalMax(c), c.cluster) /\ c.cluster \in {1, 2}
    BY DEF NumBlock, GlobalMax, IsCall
  <2> PICK g \in Nat \ {0} : g = GlobalMax(c)
    BY <2>1
  <2>3. CeilDiv(g, 1) = g /\ CeilDiv(g, 2) <= g
    BY DEF CeilDiv
  <2> QED
    BY <1>1, <2>2, <2>3
<1>3. ASSUME RightBound(c)
      PROVE  n < CeilDiv((m + 1) * TileM + Diagonal(c) + Right(c), PairN(c))
  <2> DEFINE a == n * PairN(c) - Diagonal(c) - Right(c)
             e == (m + 1) * TileM + Diagonal(c) + Right(c)
  <2>1. a \in Int /\ e \in Int /\ n \in Int /\ n * PairN(c) \in Int
    BY <1>1
  <2>2. a \div TileM <= m /\ a \div TileM \in Int
    <3>1. a \div TileM \in Int
      BY <1>1, <2>1, DivBounds
    <3>2. MBlockMin(c, n) = Larger(0, a \div TileM)
      BY <1>3 DEF MBlockMin
    <3> HIDE DEF a
    <3> QED
      BY <3>1, <3>2 DEF Larger
  <2>3. a < (m + 1) * TileM
    <3> PICK q \in Int : q = a \div TileM
      BY <2>2
    <3>1. a < q * TileM + TileM
      BY <1>1, <2>1, DivBounds
    <3>2. q <= m
      BY <2>2
    <3>3. q * TileM <= m * TileM
      BY <1>1, <3>2, Times
    <3> HIDE DEF a
    <3>4. q * TileM \in Int /\ m * TileM \in Int /\ (m + 1) * TileM = m * TileM + TileM
      BY <1>1
    <3> QED
      BY <1>1, <2>1, <3>1, <3>3, <3>4
  <2>4. n * PairN(c) < e
    BY <1>1, <2>1, <2>3
  <2> HIDE DEF a, e
  <2> PICK x \in Int, p \in Nat \ {0} : x = n * PairN(c) /\ p = PairN(c)
    BY <1>1, <2>1
  <2> DEFINE f == e + p - 1   q == f \div p
  <2>5. f \in Int /\ q \in Int /\ f < q * p + p /\ q * p \in Int
    <3>1. f \in Int
      BY <2>1
    <3> HIDE DEF f
    <3>2. f \div p \in Int /\ f < (f \div p) * p + p
      BY <3>1, DivBounds
    <3> QED
      BY <3>1, <3>2
  <2>6. x < q * p /\ x = n * p
    <3> HIDE DEF q
    <3> QED
      BY <2>1, <2>4, <2>5
  <2>7. n < q
    BY <2>1, <2>5, <2>6, TimesLess
  <2> QED
    BY <2>7 DEF CeilDiv, e
<1> QED
  BY <1>2, <1>3 DEF NBlockMaxFor, Smaller

LEMMA CountInto ==
    ASSUME NEW S, NEW T, NEW f \in [S -> T], IsFiniteSet(T), \A a, b \in S : f[a] = f[b] => a = b
    PROVE  IsFiniteSet(S) /\ Cardinality(S) <= Cardinality(T)
<1>1. f \in Injection(S, T)
  BY DEF Injection, IsInjective
<1> QED
  BY <1>1, FS_Injection

\* A turn comes after no fewer others than there are before it (_dq_semaphore_lock_value).
LEMMA AheadCount ==
    ASSUME Fixed, NEW t \in Tiles(call), NEW i \in DOMAIN Rows(t), ~Rows(t)[i].oob, NEW m, m = Rows(t)[i].m
    PROVE  IsFiniteSet(Ahead(t, m)) /\ Cardinality(Ahead(t, m)) <= Rows(t)[i].lock
<1> DEFINE S == Ahead(t, m)   f == [u \in S |-> N(u)]
<1>1. /\ IsCall(call) /\ m \in Nat /\ Rows(t)[i].lock = LockValue(call, Hb(t), N(t), m)
      /\ N(t) \in 0..(NumBlock(call) - 1) /\ NumBlock(call) \in Nat \ {0} /\ N(t) \in Nat
  BY RowOK, RowFacts, CallNumbers DEF Fixed
<1>2. ASSUME NEW u \in S PROVE u \in Tiles(call) /\ Hb(u) = Hb(t) /\ Precedes(u, t) /\ N(u) \in Nat
  BY <1>1, RowFacts DEF Ahead
<1>3. \A u, v \in S : f[u] = f[v] => u = v
  <2> SUFFICES ASSUME NEW u \in S, NEW v \in S, N(u) = N(v) PROVE u = v
    OBVIOUS
  <2>1. u \in Tiles(call) /\ v \in Tiles(call) /\ Hb(u) = Hb(v)
    BY <1>2
  <2>2. HeadBatch(call, u) = HeadBatch(call, v) /\ NBlockOf(call, u) = NBlockOf(call, v)
    BY <2>1, RowFacts
  <2> QED
    BY <1>1, <2>1, <2>2, TilesDiffer
<1>4. CASE ~call.sparse /\ ~call.spt
  <2>1. Rows(t)[i].lock = N(t)
    BY <1>1, <1>4 DEF LockValue
  <2>2. f \in [S -> 0..(N(t) - 1)]
    BY <1>1, <1>2, <1>4 DEF Precedes
  <2> HIDE DEF f, S
  <2>3. IsFiniteSet(S) /\ Cardinality(S) <= Cardinality(0..(N(t) - 1))
    BY <1>1, <1>3, <2>2, BelowIsFinite, CountInto
  <2> QED
    BY <1>1, <2>1, <2>3, BelowIsFinite DEF S
<1>5. CASE ~call.sparse /\ call.spt
  <2> DEFINE k == NBlockMaxFor(call, m)
  <2>1. k \in Int /\ Rows(t)[i].lock = k - 1 - N(t)
    BY <1>1, <1>5, MaxForInt DEF LockValue
  <2>2. \A u \in Tiles(call) : Adds(u, m) => N(u) < k
    <3> SUFFICES ASSUME NEW u \in Tiles(call), NEW j \in DOMAIN Rows(u), Rows(u)[j].m = m PROVE N(u) < k
      BY DEF Adds
    <3>1. m = work[u].mMin + j - 1 /\ work[u].mMin = MBlockMin(call, N(u)) /\ work[u].mMin \in Nat
          /\ N(u) \in 0..(NumBlock(call) - 1) /\ j \in Nat \ {0}
      BY <1>5, RowOK, RowFacts
    <3>2. MBlockMin(call, N(u)) <= m
      BY <3>1
    <3> QED
      BY <1>1, <3>1, <3>2, BelowMax
  <2>3. N(t) < k
    BY <2>2 DEF Adds
  <2> HIDE DEF k
  <2> DEFINE T == (N(t) + 1)..(k - 1)
  <2>4. f \in [S -> T]
    <3> SUFFICES ASSUME NEW u \in S PROVE N(u) \in T
      OBVIOUS
    <3>1. u \in Tiles(call) /\ N(u) > N(t) /\ N(u) \in Nat /\ Adds(u, m)
      BY <1>2, <1>5 DEF Precedes, Ahead, LeavesOut, Skips
    <3> QED
      BY <1>1, <2>1, <2>2, <3>1
  <2>5. IsFiniteSet(T) /\ Cardinality(T) = k - 1 - N(t)
    <3> PICK a \in Int, b \in Int : a = N(t) + 1 /\ b = k - 1
      BY <1>1, <2>1
    <3>1. IsFiniteSet(a..b) /\ Cardinality(a..b) = IF a > b THEN 0 ELSE b - a + 1
      BY FS_Interval
    <3> QED
      BY <1>1, <2>1, <2>3, <3>1
  <2> HIDE DEF f, S, T
  <2>6. IsFiniteSet(S) /\ Cardinality(S) <= Cardinality(T)
    BY <1>3, <2>4, <2>5, CountInto
  <2> QED
    BY <2>1, <2>5, <2>6 DEF S
<1>6. CASE call.sparse
  <2> DEFINE row == m \div call.subtile
             C == RowContributorSet(call, Hb(t), row)
             T == {k \in C : IF call.spt THEN k > N(t) ELSE k < N(t)}
  <2>1. Rows(t)[i].lock = Cardinality(T)
    BY <1>1, <1>6 DEF LockValue, WriteOrder, RowContributorSet
  <2>2. IsFiniteSet(T)
    BY <1>1, RowContributors, FS_Subset
  <2>3. f \in [S -> T]
    <3> SUFFICES ASSUME NEW u \in S PROVE N(u) \in T
      OBVIOUS
    <3>1. u \in Tiles(call) /\ Hb(u) = Hb(t) /\ Precedes(u, t) /\ Adds(u, m)
      BY <1>2, <1>6 DEF Ahead, LeavesOut, Skips
    <3>2. PICK j \in DOMAIN Rows(u) : Rows(u)[j].m = m
      BY <3>1 DEF Adds
    <3>3. row \in Listed(call, Hb(t), N(u))
      BY <1>6, <3>1, <3>2, RowOK
    <3>4. N(u) \in C
      BY <3>3 DEF Listed, ListedIn, RowContributorSet
    <3> QED
      BY <3>1, <3>4 DEF Precedes
  <2> HIDE DEF f, S, T
  <2>4. IsFiniteSet(S) /\ Cardinality(S) <= Cardinality(T)
    BY <1>3, <2>2, <2>3, CountInto
  <2> QED
    BY <2>1, <2>4 DEF S
<1> QED
  BY <1>4, <1>5, <1>6

\* Whoever adds to the same row block of the same head comes before or after.
LEMMA OneOrOther ==
    ASSUME Fixed, NEW t \in Tiles(call), NEW u \in Tiles(call), Hb(t) = Hb(u), t # u
    PROVE  Precedes(t, u) \/ Precedes(u, t)
<1>1. N(t) \in Int /\ N(u) \in Int /\ IsCall(call)
  BY RowFacts DEF Fixed
<1>2. N(t) # N(u)
  BY <1>1, RowFacts, TilesDiffer
<1> QED
  BY <1>1, <1>2 DEF Precedes

\* The semaphore shows somebody its turn: everybody before it is over.
LEMMA TurnComes ==
    ASSUME Inv, TurnsGiven, InLine, NEW t \in Tiles(call), NEW i \in DOMAIN Rows(t), ~Rows(t)[i].oob,
           NEW m, m = Rows(t)[i].m, sem[RowSem(t, i)] = Rows(t)[i].lock, ~GaveTurn(t, m)
    PROVE  \A u \in Ahead(t, m) : GaveTurn(u, m)
<1> DEFINE P == GivenBy(Hb(t), m)
<1>1. Fixed /\ IsCall(call)
  BY DEF Inv, Fixed
<1>2. m \in 0..(RowBlocks(call) - 1) /\ m \in Nat /\ Rows(t)[i].lock \in Int /\ Hb(t) \in 0..(call.hbs - 1)
  BY <1>1, RowOK, RowFacts
<1>3. Rows(t)[i].lock <= Cardinality(P)
  BY <1>2 DEF TurnsGiven, RowSem
<1>4. P \in SUBSET Ahead(t, m)
  <2> SUFFICES ASSUME NEW u \in Tiles(call), Hb(u) = Hb(t), GaveTurn(u, m) PROVE u \in Ahead(t, m)
    BY DEF GivenBy
  <2>1. u # t
    OBVIOUS
  <2>2. Adds(u, m) \/ LeavesOut(u, m)
    BY DEF GaveTurn, Adds
  <2>3. Adds(t, m)
    BY DEF Adds
  <2>4. ~Precedes(t, u)
    <3> SUFFICES ASSUME Precedes(t, u) PROVE FALSE
      OBVIOUS
    <3>1. CASE \E j \in DOMAIN Rows(u) : Rows(u)[j].m = m /\ ~Rows(u)[j].oob /\ Over(u, j)
      <4>1. t \in Ahead(u, m)
        BY <2>3 DEF Ahead
      <4> QED
        BY <3>1, <4>1 DEF InLine
    <3>2. CASE LeavesOut(u, m)
      <4>1. ~call.spt /\ ~call.sparse /\ m >= work[u].mMax /\ N(t) < N(u)
        BY <3>2 DEF LeavesOut, Skips, Precedes
      <4>2. /\ m < work[t].mMax /\ work[t].mMax = MBlockMax(call, N(t)) /\ work[u].mMax = MBlockMax(call, N(u))
            /\ work[t].mMax \in Int /\ work[u].mMax \in Int /\ N(t) \in Nat /\ N(u) \in Nat
        <5>1. N(t) \in 0..(NumBlock(call) - 1) /\ N(u) \in 0..(NumBlock(call) - 1) /\ NumBlock(call) \in Int
          BY <1>1, RowFacts, CallNumbers
        <5> QED
          BY <1>1, <4>1, <5>1, RowOK, RowFacts
      <4>3. MBlockMax(call, N(t)) <= MBlockMax(call, N(u))
        BY <1>1, <4>1, <4>2, WindowMoves
      <4> QED
        BY <1>2, <4>1, <4>2, <4>3
    <3> QED
      BY <3>1, <3>2 DEF GaveTurn
  <2>5. Precedes(u, t)
    BY <1>1, <2>1, <2>4, OneOrOther
  <2> QED
    BY <2>2, <2>5 DEF Ahead
<1>5. IsFiniteSet(Ahead(t, m)) /\ Cardinality(Ahead(t, m)) <= Rows(t)[i].lock
  BY <1>1, AheadCount
<1> HIDE DEF P
<1>6. P = Ahead(t, m)
  BY <1>2, <1>3, <1>4, <1>5, AllBefore
<1> QED
  BY <1>6 DEF P, GivenBy

Line == TurnsGiven /\ InLine

LEMMA GaveNext ==
    ASSUME UNCHANGED <<call, work>>
    PROVE  /\ Tiles(call)' = Tiles(call)
           /\ \A t : /\ Rows(t)' = Rows(t) /\ Hb(t)' = Hb(t) /\ N(t)' = N(t)
                     /\ \A m : Ahead(t, m)' = Ahead(t, m)
                     /\ \A m : GaveTurn(t, m)' <=>
                          \/ \E i \in DOMAIN Rows(t) : Rows(t)[i].m = m /\ ~Rows(t)[i].oob /\ Over(t, i)'
                          \/ /\ LeavesOut(t, m)
                             /\ \/ cta'[t].at = "done"
                                \/ cta'[t].at = "skip" /\ m < work[t].mMax + cta'[t].skipped
<1>1. Tiles(call)' = Tiles(call)
  BY DEF Tiles, NumBlock
<1>2. \A t : /\ Rows(t)' = Rows(t) /\ Hb(t)' = Hb(t) /\ N(t)' = N(t)
             /\ \A m : LeavesOut(t, m)' <=> LeavesOut(t, m)
  BY DEF Rows, Hb, N, LeavesOut, Skips, LeftBound
<1>3. \A t, m : Adds(t, m)' <=> Adds(t, m)
  BY <1>2 DEF Adds
<1>4. \A t, u : Precedes(t, u)' <=> Precedes(t, u)
  BY <1>2 DEF Precedes
<1>5. \A t, m : Ahead(t, m)' = Ahead(t, m)
  BY <1>1, <1>2, <1>3, <1>4 DEF Ahead
<1>6. ASSUME NEW t, NEW m
      PROVE  GaveTurn(t, m)' <=>
                 \/ \E i \in DOMAIN Rows(t) : Rows(t)[i].m = m /\ ~Rows(t)[i].oob /\ Over(t, i)'
                 \/ /\ LeavesOut(t, m)
                    /\ \/ cta'[t].at = "done"
                       \/ cta'[t].at = "skip" /\ m < work[t].mMax + cta'[t].skipped
  BY <1>2 DEF GaveTurn, At
<1> QED
  BY <1>1, <1>2, <1>5, <1>6

LEMMA GaveStill ==
    ASSUME UNCHANGED <<call, work>>, NEW t, cta'[t] = cta[t]
    PROVE  \A m : GaveTurn(t, m)' <=> GaveTurn(t, m)
<1>1. \A i : Over(t, i)' <=> Over(t, i)
  BY Still
<1> QED
  BY <1>1, GaveNext DEF GaveTurn, At

\* A turn that is not over has not been given.
LEMMA NotGiven ==
    ASSUME Fixed, NEW t \in Tiles(call), NEW i \in DOMAIN Rows(t), ~Over(t, i), NEW m, m = Rows(t)[i].m,
           ~At(t, "skip"), ~At(t, "done")
    PROVE  ~GaveTurn(t, m)
BY RowsDiffer DEF GaveTurn

\* A step of a CTA keeps the turns in order if a turn is only begun when the
\* semaphore shows it, and only passed on when it is over.
LEMMA RowsKeepLine ==
    ASSUME Inv, Line, UNCHANGED <<call, work>>, NEW t \in Tiles(call),
           \A u \in Tiles(call) : u # t => cta'[u] = cta[u],
           \A m \in 0..(RowBlocks(call) - 1) : GaveTurn(t, m) => GaveTurn(t, m)',
           \A i \in DOMAIN Rows(t) : ~Rows(t)[i].oob /\ (i \in Held(t)' \/ Over(t, i)') =>
               \/ i \in Held(t) \/ Over(t, i)
               \/ sem[RowSem(t, i)] = Rows(t)[i].lock /\ ~GaveTurn(t, Rows(t)[i].m),
           \/ \A s \in Semaphores(call) : s[1] = "Q" => sem'[s] = sem[s]
           \/ \E m \in 0..(RowBlocks(call) - 1) :
                 ArriveInc(QSem(Hb(t), m)) /\ ~GaveTurn(t, m) /\ GaveTurn(t, m)'
    PROVE  Line'
<1>1. Fixed /\ Types /\ IsCall(call)
  BY DEF Inv, Fixed
<1>2. \A u \in Tiles(call) : u # t => \A m : GaveTurn(u, m)' <=> GaveTurn(u, m)
  BY GaveStill
<1>3. Tiles(call)' = Tiles(call) /\ \A u : Rows(u)' = Rows(u) /\ Hb(u)' = Hb(u) /\ \A m : Ahead(u, m)' = Ahead(u, m)
  BY GaveNext
<1>4. \A u \in Tiles(call) : \A m \in 0..(RowBlocks(call) - 1) : GaveTurn(u, m) => GaveTurn(u, m)'
  BY <1>2
<1>5. InLine'
  <2> SUFFICES ASSUME NEW u \in Tiles(call), NEW i \in DOMAIN Rows(u), ~Rows(u)[i].oob,
                      i \in Held(u)' \/ Over(u, i)',
                      NEW m, m = Rows(u)[i].m, NEW v \in Ahead(u, m)
               PROVE  GaveTurn(v, m)'
    BY <1>3 DEF InLine
  <2>1. v \in Tiles(call) /\ m \in 0..(RowBlocks(call) - 1)
    BY <1>1, RowOK DEF Ahead
  <2>2. CASE i \in Held(u) \/ Over(u, i)
    <3>1. GaveTurn(v, m)
      BY <2>2 DEF Line, InLine
    <3> QED
      BY <1>4, <2>1, <3>1
  <2>3. CASE ~(i \in Held(u) \/ Over(u, i))
    <3>1. u = t
      <4> SUFFICES ASSUME u # t PROVE FALSE
        OBVIOUS
      <4>1. cta'[u] = cta[u]
        OBVIOUS
      <4> QED
        BY <2>3, <4>1, Still
    <3>2. sem[RowSem(t, i)] = Rows(t)[i].lock /\ ~GaveTurn(t, Rows(t)[i].m)
      BY <2>3, <3>1
    <3>3. GaveTurn(v, m)
      BY <3>1, <3>2, TurnComes DEF Line
    <3> QED
      BY <1>4, <2>1, <3>3
  <2> QED
    BY <2>2, <2>3
<1>6. TurnsGiven'
  <2> SUFFICES ASSUME NEW hb \in 0..(call.hbs - 1), NEW m \in 0..(RowBlocks(call) - 1)
               PROVE  sem'[QSem(hb, m)] <= Cardinality(GivenBy(hb, m)')
    BY DEF TurnsGiven, QSem, RowBlocks
  <2> DEFINE A == GivenBy(hb, m)   B == GivenBy(hb, m)'   s == QSem(hb, m)
  <2>1. sem[s] <= Cardinality(A) /\ s \in Semaphores(call) /\ s[1] = "Q"
    BY RowPlaces DEF Line, TurnsGiven, QSem
  <2>2. A \in SUBSET B /\ B \in SUBSET Tiles(call)
    BY <1>3, <1>4 DEF GivenBy
  <2>3. IsFiniteSet(B)
    BY <1>1, <2>2, TilesFinite, FS_Subset
  <2>4. IsFiniteSet(A) /\ Cardinality(A) \in Nat /\ Cardinality(B) \in Nat
        /\ Cardinality(A) <= Cardinality(B) /\ (Cardinality(A) = Cardinality(B) => A = B)
    BY <2>2, <2>3, FS_Subset, FS_CardinalityType
  <2>5. sem[s] \in Nat
    BY <1>1, <2>1 DEF Types
  <2>6. CASE sem'[s] = sem[s]
    BY <2>1, <2>4, <2>5, <2>6
  <2>7. CASE sem'[s] # sem[s]
    <3>1. PICK k \in 0..(RowBlocks(call) - 1) :
              ArriveInc(QSem(Hb(t), k)) /\ ~GaveTurn(t, k) /\ GaveTurn(t, k)'
      BY <2>1, <2>7
    <3>2. Hb(t) \in 0..(call.hbs - 1) /\ QSem(Hb(t), k) \in Semaphores(call)
      BY <1>1, RowFacts, RowPlaces
    <3>3. s = QSem(Hb(t), k) /\ sem'[s] = sem[s] + 1
      BY <1>1, <2>1, <2>7, <3>1, <3>2, ArriveOK
    <3>4. hb = Hb(t) /\ m = k
      BY <3>3 DEF QSem
    <3>5. t \in B /\ t \notin A
      BY <1>3, <3>1, <3>4 DEF GivenBy
    <3> HIDE DEF A, B, s
    <3>6. Cardinality(A) # Cardinality(B)
      BY <2>4, <3>5
    <3> QED
      BY <2>1, <2>4, <2>5, <3>3, <3>6 DEF s, B
  <2> QED
    BY <2>6, <2>7
<1> QED
  BY <1>5, <1>6 DEF Line

LEMMA AddPartLine == ASSUME Inv, Line, NEW t \in Tiles(call), AddPart(t) PROVE Line'
<1> DEFINE p == cta[t]   q == cta'[t]   delay == DelayRelease(call)   len == Len(Rows(t))
<1>1. /\ p.at = "add" /\ ~Row(t).oob /\ UNCHANGED <<call, work>> /\ sem' = sem
      /\ p.stage = 0 => sem[QSem(Hb(t), Row(t).m)] = Row(t).lock
  BY DEF AddPart, At, HasTurn
<1>2. Fixed /\ Types
  BY DEF Inv
<1>3. /\ OnlyRows(t) /\ q.at = "settle" /\ q.i = p.i /\ q.stage = p.stage
  BY <1>2, GotoOK DEF AddPart
<1>4. /\ p \in CtaRecord /\ p.i \in DOMAIN Rows(t) /\ Row(t) = Rows(t)[p.i] /\ p.stage \in Nat
      /\ DOMAIN Rows(t) = 1..len /\ len \in Nat /\ p.i \in Nat
  BY <1>1, AtRow DEF CtaRecord
<1> HIDE DEF p, q
<1>5. \A i \in DOMAIN Rows(t) : InTurn(q, delay, len, i) <=> InTurn(p, delay, len, i) \/ i = p.i
  BY <1>1, <1>3, <1>4 DEF InTurn
<1>6. Held(t)' = Held(t) \cup {p.i}
  BY SMTT(30), <1>1, <1>4, <1>5, NextTurns DEF Held, p, q
<1>7. \A i : Over(t, i)' <=> Over(t, i)
  <2>1. \A i : TurnOver(q, delay, len, i) <=> TurnOver(p, delay, len, i)
    BY <1>1, <1>3 DEF TurnOver
  <2> QED
    BY <1>1, <2>1, NextTurns DEF Over, p, q
<1>8. ASSUME NEW m, GaveTurn(t, m) PROVE GaveTurn(t, m)'
  BY <1>1, <1>7, <1>8, GaveNext DEF GaveTurn, At, p
<1>9. ~Over(t, p.i)
  BY <1>1, <1>4 DEF Over, TurnOver, p
<1>10. ~GaveTurn(t, Rows(t)[p.i].m)
  BY <1>1, <1>2, <1>4, <1>9, NotGiven DEF At, p
<1>11. p.i \in Held(t) \/ sem[RowSem(t, p.i)] = Rows(t)[p.i].lock
  <2>1. CASE p.stage = 0
    BY <1>1, <1>4, <2>1 DEF RowSem
  <2>2. CASE p.stage # 0
    BY <1>1, <1>4, <2>2 DEF Held, InTurn, p
  <2> QED
    BY <2>1, <2>2
<1> QED
  BY <1>1, <1>3, <1>6, <1>7, <1>8, <1>10, <1>11, RowsKeepLine DEF OnlyRows

LEMMA SkipPartLine == ASSUME Inv, Line, NEW t \in Tiles(call), SkipPart(t) PROVE Line'
<1> DEFINE p == cta[t]   q == cta'[t]   delay == DelayRelease(call)   len == Len(Rows(t))
<1>1. p.at = "add" /\ Row(t).oob /\ UNCHANGED <<call, work>> /\ sem' = sem
  BY DEF SkipPart, At
<1>2. Fixed /\ Types
  BY DEF Inv
<1>3. /\ OnlyRows(t) /\ q.at = "settle" /\ q.i = p.i /\ q.stage = p.stage
  BY <1>2, GotoOK DEF SkipPart
<1>4. /\ p \in CtaRecord /\ p.i \in DOMAIN Rows(t) /\ Row(t) = Rows(t)[p.i]
      /\ DOMAIN Rows(t) = 1..len /\ len \in Nat /\ p.i \in Nat
  BY <1>1, AtRow DEF CtaRecord
<1> HIDE DEF p, q
<1>5. ~delay
  BY <1>1, <1>2, <1>4, RowOK DEF DelayRelease
<1>6. \A i \in DOMAIN Rows(t) : ~Rows(t)[i].oob => ~InTurn(q, delay, len, i)
  BY <1>1, <1>3, <1>4, <1>5 DEF InTurn
<1>7. Held(t)' = {}
  BY <1>1, <1>6, NextTurns DEF q
<1>8. \A i : Over(t, i)' <=> Over(t, i)
  <2>1. \A i : TurnOver(q, delay, len, i) <=> TurnOver(p, delay, len, i)
    BY <1>1, <1>3 DEF TurnOver
  <2> QED
    BY <1>1, <2>1, NextTurns DEF Over, p, q
<1>9. ASSUME NEW m, GaveTurn(t, m) PROVE GaveTurn(t, m)'
  BY <1>1, <1>8, <1>9, GaveNext DEF GaveTurn, At, p
<1> QED
  BY <1>1, <1>3, <1>7, <1>8, <1>9, RowsKeepLine DEF OnlyRows

LEMMA HeldNotGiven ==
    ASSUME Inv, NEW t \in Tiles(call), NEW k \in Held(t), NEW m, m = Rows(t)[k].m
    PROVE  k \in DOMAIN Rows(t) /\ ~Rows(t)[k].oob /\ m \in 0..(RowBlocks(call) - 1) /\ ~GaveTurn(t, m)
<1> DEFINE p == cta[t]   len == Len(Rows(t))   delay == DelayRelease(call)
<1>1. Fixed /\ Types
  BY DEF Inv
<1>2. k \in DOMAIN Rows(t) /\ ~Rows(t)[k].oob /\ m \in 0..(RowBlocks(call) - 1)
  BY <1>1, HeldOK
<1>3. InTurn(p, delay, len, k) /\ p \in CtaRecord /\ len \in Int /\ k \in Int
  BY <1>1, <1>2, RowFacts DEF Held, Types
<1>4. p.i \in Int
  BY <1>3 DEF CtaRecord
<1>5. ~TurnOver(p, delay, len, k) /\ p.at # "skip" /\ p.at # "done"
  <2> HIDE DEF p, len, delay
  <2> QED
    BY <1>3, <1>4 DEF InTurn, TurnOver
<1> QED
  BY <1>1, <1>2, <1>5, NotGiven DEF Over, At

LEMMA SettlePartLine == ASSUME Inv, Line, NEW t \in Tiles(call), SettlePart(t) PROVE Line'
<1> DEFINE p == cta[t]   q == cta'[t]   delay == DelayRelease(call)   len == Len(Rows(t))
<1>1. /\ p.at = "settle" /\ UNCHANGED <<call, work>>
      /\ IF PassesOn(t) THEN ArriveInc(QSem(Hb(t), Row(t).m - 1)) ELSE sem' = sem
  BY DEF SettlePart, At
<1>2. Fixed /\ Types
  BY DEF Inv
<1>3. OnlyRows(t) /\ ToNextPart(p, q, len)
  BY <1>2, NextPartOK DEF SettlePart
<1>4. /\ p \in CtaRecord /\ p.i \in DOMAIN Rows(t) /\ Row(t) = Rows(t)[p.i]
      /\ p.stage \in 0..(call.stages - 1) /\ p.i <= len /\ len \in Nat
      /\ call.stages \in Nat \ {0} /\ DOMAIN Rows(t) = 1..len
  BY <1>1, AtRow
<1>5. p.i \in Nat \ {0} /\ p.stage \in Nat
  BY <1>4 DEF CtaRecord
<1> HIDE DEF p, q
<1>6. \A i \in DOMAIN Rows(t) : /\ InTurn(q, delay, len, i) <=> i = p.i
                                /\ TurnOver(q, delay, len, i) <=> i < p.i
  BY <1>3, <1>4, <1>5 DEF InTurn, TurnOver, ToNextPart, ToNextRow
<1>7. \A i \in Held(t)' : i \in Held(t)
  <2>1. InTurn(p, delay, len, p.i)
    BY <1>1 DEF InTurn
  <2> QED
    BY <1>1, <1>4, <1>6, <2>1, NextTurns DEF Held, p, q
<1>8. \A i \in DOMAIN Rows(t) : Over(t, i)' <=> i < p.i
  BY <1>1, <1>6, NextTurns DEF q
<1>9. \A i \in DOMAIN Rows(t) : Over(t, i) <=> i < p.i - (IF delay /\ p.stage = 0 THEN 1 ELSE 0)
  BY <1>1, <1>4, <1>5 DEF Over, TurnOver, p
<1>10. ASSUME NEW m, GaveTurn(t, m) PROVE GaveTurn(t, m)'
  <2>1. PICK i \in DOMAIN Rows(t) : Rows(t)[i].m = m /\ ~Rows(t)[i].oob /\ Over(t, i)
    BY <1>1, <1>10 DEF GaveTurn, At, p
  <2>2. i < p.i
    BY <1>4, <1>5, <1>9, <2>1
  <2> QED
    BY <1>1, <1>8, <2>1, <2>2, GaveNext
\* The row block before, where the release is delayed.
<1>11. ASSUME NEW k \in DOMAIN Rows(t), Over(t, k)', ~Over(t, k)
       PROVE  delay /\ p.stage = 0 /\ k = p.i - 1 /\ ~Rows(t)[k].oob /\ k \in Held(t)
  <2>1. delay /\ p.stage = 0 /\ k = p.i - 1
    BY <1>4, <1>5, <1>8, <1>9, <1>11
  <2>2. ~call.sparse
    BY <2>1 DEF DelayRelease
  <2>3. ~Rows(t)[k].oob
    BY <1>2, <2>2, RowOK
  <2>4. InTurn(p, delay, len, k)
    BY <1>1, <2>1 DEF InTurn
  <2> QED
    BY <2>1, <2>3, <2>4 DEF Held, p
<1>12. ASSUME PassesOn(t)
       PROVE  \E m \in 0..(RowBlocks(call) - 1) :
                  ArriveInc(QSem(Hb(t), m)) /\ ~GaveTurn(t, m) /\ GaveTurn(t, m)'
  <2>1. delay /\ p.stage = 0 /\ Row(t).m > work[t].mMin
    BY <1>12 DEF PassesOn, p
  <2>2. ~call.sparse
    BY <2>1 DEF DelayRelease
  <2>3. Rows(t)[p.i].m = work[t].mMin + p.i - 1 /\ work[t].mMin \in Nat
    BY <1>2, <1>4, <2>2, RowOK, RowFacts
  <2> PICK k : k = p.i - 1
    OBVIOUS
  <2>4. k \in DOMAIN Rows(t) /\ k < p.i
    BY <1>4, <1>5, <2>1, <2>3
  <2>5. Rows(t)[k].m = work[t].mMin + k - 1 /\ ~Rows(t)[k].oob
    BY <1>2, <2>2, <2>4, RowOK
  <2>6. Rows(t)[k].m = Row(t).m - 1
    BY <1>4, <1>5, <2>3, <2>5
  <2>7. k \in Held(t)
    <3>1. InTurn(p, delay, len, k)
      BY <1>1, <2>1 DEF InTurn
    <3> QED
      BY <2>4, <2>5, <3>1 DEF Held, p
  <2> PICK m : m = Rows(t)[k].m
    OBVIOUS
  <2>8. m \in 0..(RowBlocks(call) - 1) /\ ~GaveTurn(t, m)
    BY <2>7, HeldNotGiven
  <2>9. GaveTurn(t, m)'
    <3>1. Over(t, k)'
      BY <1>8, <2>4
    <3> QED
      BY <1>1, <2>4, <2>5, <3>1, GaveNext
  <2> QED
    BY <1>1, <1>12, <2>6, <2>8, <2>9
<1> QED
  BY <1>1, <1>3, <1>7, <1>10, <1>11, <1>12, RowsKeepLine DEF OnlyRows

LEMMA EndRowLine == ASSUME Inv, Line, NEW t \in Tiles(call), EndRow(t) PROVE Line'
<1> DEFINE p == cta[t]   q == cta'[t]   delay == DelayRelease(call)   len == Len(Rows(t))
<1>1. /\ p.at = "row" /\ UNCHANGED <<call, work>>
      /\ IF Row(t).oob THEN sem' = sem ELSE ArriveInc(QSem(Hb(t), Row(t).m))
  BY DEF EndRow, At
<1>2. Fixed /\ Types
  BY DEF Inv
<1>3. OnlyRows(t) /\ ToNextRow(p, q, len)
  BY <1>2, NextRowOK DEF EndRow
<1>4. /\ p \in CtaRecord /\ p.i \in DOMAIN Rows(t) /\ Row(t) = Rows(t)[p.i]
      /\ p.i <= len /\ len \in Nat /\ DOMAIN Rows(t) = 1..len /\ ~delay
  BY <1>1, AtRow
<1>5. p.i \in Nat \ {0}
  BY <1>4 DEF CtaRecord
<1> HIDE DEF p, q
<1>6. \A i \in DOMAIN Rows(t) : ~InTurn(q, delay, len, i) /\ (TurnOver(q, delay, len, i) <=> i <= p.i)
  BY <1>3, <1>4, <1>5 DEF InTurn, TurnOver, ToNextRow
<1>7. Held(t)' = {} /\ \A i \in DOMAIN Rows(t) : Over(t, i)' <=> i <= p.i
  BY <1>1, <1>6, NextTurns DEF q
<1>8. \A i \in DOMAIN Rows(t) : Over(t, i) <=> i < p.i
  BY <1>1, <1>4 DEF Over, TurnOver, p
<1>9. ~Row(t).oob => p.i \in Held(t)
  BY <1>1, <1>4 DEF Held, InTurn, p
<1>10. ASSUME NEW m, GaveTurn(t, m) PROVE GaveTurn(t, m)'
  <2>1. PICK i \in DOMAIN Rows(t) : Rows(t)[i].m = m /\ ~Rows(t)[i].oob /\ Over(t, i)
    BY <1>1, <1>10 DEF GaveTurn, At, p
  <2>2. i <= p.i
    BY <1>4, <1>5, <1>8, <2>1
  <2> QED
    BY <1>1, <1>7, <2>1, <2>2, GaveNext
<1>11. \A i \in DOMAIN Rows(t) : Over(t, i)' => i = p.i \/ Over(t, i)
  BY <1>4, <1>5, <1>7, <1>8
<1>12. ASSUME ~Row(t).oob
       PROVE  \E m \in 0..(RowBlocks(call) - 1) :
                  ArriveInc(QSem(Hb(t), m)) /\ ~GaveTurn(t, m) /\ GaveTurn(t, m)'
  <2> PICK k : k = p.i
    OBVIOUS
  <2> PICK m : m = Rows(t)[k].m
    OBVIOUS
  <2>1. m \in 0..(RowBlocks(call) - 1) /\ ~GaveTurn(t, m)
    BY <1>9, <1>12, HeldNotGiven
  <2>2. GaveTurn(t, m)'
    <3>1. Over(t, k)'
      BY <1>4, <1>5, <1>7
    <3>2. k \in DOMAIN Rows(t) /\ ~Rows(t)[k].oob
      BY <1>4, <1>12
    <3> QED
      BY <1>1, <3>1, <3>2, GaveNext
  <2> QED
    BY <1>1, <1>4, <1>12, <2>1, <2>2
<1> QED
  BY <1>1, <1>3, <1>4, <1>7, <1>9, <1>10, <1>11, <1>12, RowsKeepLine DEF OnlyRows

LEMMA EndRowsLine == ASSUME Inv, Line, NEW t \in Tiles(call), EndRows(t) PROVE Line'
<1> DEFINE p == cta[t]   q == cta'[t]   delay == DelayRelease(call)   len == Len(Rows(t))
<1>1. /\ p.at = "end" /\ UNCHANGED <<call, work>>
      /\ IF work[t].works /\ delay THEN ArriveInc(QSem(Hb(t), work[t].mMax - 1)) ELSE sem' = sem
  BY DEF EndRows, At
<1>2. Fixed /\ Types
  BY DEF Inv
<1>3. OnlyRows(t) /\ q.at \in {"done", "skip"}
  <2> PICK where : where = IF SkippedRows(t) = {} THEN "done" ELSE "skip"
    OBVIOUS
  <2>1. Goto(t, where) /\ where \in {"settle", "row", "end", "skip", "done"} /\ where \in {"done", "skip"}
    BY DEF EndRows
  <2>2. OnlyRows(t) /\ q.at = where
    BY <1>2, <2>1, GotoOK
  <2> QED
    BY <2>1, <2>2
<1>4. /\ len \in Nat /\ DOMAIN Rows(t) = 1..len /\ (Rows(t) = <<>> <=> len = 0)
      /\ (work[t].works <=> Rows(t) # <<>>)
  BY <1>2, RowFacts
<1> HIDE DEF p, q
<1>5. \A i \in DOMAIN Rows(t) : ~InTurn(q, delay, len, i) /\ TurnOver(q, delay, len, i)
  BY <1>3 DEF InTurn, TurnOver
<1>6. Held(t)' = {} /\ \A i \in DOMAIN Rows(t) : Over(t, i)'
  BY <1>1, <1>5, NextTurns DEF q
<1>7. ASSUME NEW m, GaveTurn(t, m) PROVE GaveTurn(t, m)'
  <2>1. PICK i \in DOMAIN Rows(t) : Rows(t)[i].m = m /\ ~Rows(t)[i].oob
    BY <1>1, <1>7 DEF GaveTurn, At, p
  <2> QED
    BY <1>1, <1>6, <2>1, GaveNext
<1>8. ASSUME NEW i \in DOMAIN Rows(t), ~Over(t, i)
      PROVE  delay /\ i = len /\ ~Rows(t)[i].oob /\ i \in Held(t)
  <2>1. delay /\ i = len
    BY <1>1, <1>4, <1>8 DEF Over, TurnOver, p
  <2>2. ~call.sparse
    BY <2>1 DEF DelayRelease
  <2>3. ~Rows(t)[i].oob
    BY <1>2, <2>2, RowOK
  <2> QED
    BY <1>1, <2>1, <2>3 DEF Held, InTurn, p
<1>9. ASSUME work[t].works, delay
      PROVE  \E m \in 0..(RowBlocks(call) - 1) :
                 ArriveInc(QSem(Hb(t), m)) /\ ~GaveTurn(t, m) /\ GaveTurn(t, m)'
  <2> PICK k : k = len
    OBVIOUS
  <2> PICK m : m = Rows(t)[k].m
    OBVIOUS
  <2>1. k \in DOMAIN Rows(t) /\ ~call.sparse
    BY <1>4, <1>9 DEF DelayRelease
  <2>2. ~Rows(t)[k].oob /\ m = work[t].mMax - 1
    BY <1>2, <2>1, RowOK
  <2>3. k \in Held(t)
    BY <1>1, <1>9, <2>1, <2>2 DEF Held, InTurn, p
  <2>4. m \in 0..(RowBlocks(call) - 1) /\ ~GaveTurn(t, m)
    BY <2>3, HeldNotGiven
  <2>5. GaveTurn(t, m)'
    BY <1>1, <1>6, <2>1, <2>2, GaveNext
  <2> QED
    BY <1>1, <1>9, <2>2, <2>4, <2>5
<1> QED
  BY <1>1, <1>3, <1>6, <1>7, <1>8, <1>9, RowsKeepLine DEF OnlyRows

LEMMA SkipRowLine == ASSUME Inv, Line, NEW t \in Tiles(call), SkipRow(t) PROVE Line'
<1> DEFINE p == cta[t]   q == cta'[t]   delay == DelayRelease(call)   len == Len(Rows(t))
           k == p.skipped + 1
           where == IF work[t].mMax + p.skipped + 1 = RowBlocks(call) THEN "done" ELSE "skip"
           new == [p EXCEPT !.skipped = k, !.at = where]
<1>1. /\ p.at = "skip" /\ UNCHANGED <<call, work>>
      /\ ArriveInc(QSem(Hb(t), work[t].mMax + p.skipped))
      /\ cta' = [cta EXCEPT ![t] = new]
  BY DEF SkipRow, At
<1>2. Fixed /\ Types /\ IsCall(call) /\ ShapeOf(t) /\ p \in CtaRecord
  BY DEF Inv, Fixed, Shape, Types
<1>3. Skips(call) /\ work[t].mMax + p.skipped < RowBlocks(call)
  BY <1>1, <1>2 DEF ShapeOf, At
<1>4. p.skipped \in Nat /\ work[t].mMax \in Nat /\ RowBlocks(call) \in Nat
  <2>1. work[t].mMax = MBlockMax(call, N(t)) /\ work[t].mMax \in Int /\ N(t) \in Nat
    <3>1. NumBlock(call) \in Nat
      BY <1>2, CallNumbers
    <3> QED
      BY <1>2, <3>1, RowFacts
  <2>2. call.mask = "local" /\ ~call.spt /\ call.left # Unbounded
    BY <1>3 DEF Skips, LeftBound
  <2>3. MBlockMax(call, N(t)) >= 0
    BY <1>2, <2>1, <2>2, WindowMoves
  <2> QED
    BY <1>2, <2>1, <2>3, CallNumbers DEF CtaRecord
<1>5. k \in Nat /\ where \in {"skip", "done"}
  BY <1>4
<1> HIDE DEF p, k
<1>6. new \in CtaRecord /\ new.skipped = k /\ new.at = where
  <2> HIDE DEF where
  <2> QED
    BY <1>2, <1>5 DEF CtaRecord
<1> HIDE DEF new
<1>7. /\ cta'[t] = new /\ \A u \in Tiles(call) : u # t => cta'[u] = cta[u]
      /\ q.skipped = k /\ q.at = where
  BY <1>1, <1>2, <1>6, RecordMoves
<1> HIDE DEF q
<1>8. \A i \in DOMAIN Rows(t) : ~InTurn(q, delay, len, i) /\ TurnOver(q, delay, len, i)
  BY <1>5, <1>7 DEF InTurn, TurnOver
<1>9. Held(t)' = {} /\ \A i \in DOMAIN Rows(t) : Over(t, i)' /\ Over(t, i)
  <2>1. \A i : Over(t, i)
    BY <1>1 DEF Over, TurnOver, p
  <2> QED
    BY <1>1, <1>8, <2>1, NextTurns DEF q
<1> PICK m : m = work[t].mMax + p.skipped
  OBVIOUS
<1>10. m \in 0..(RowBlocks(call) - 1) /\ GaveTurn(t, m)' /\ ~GaveTurn(t, m)
  <2>1. m \in Nat /\ m < RowBlocks(call) /\ m >= work[t].mMax /\ ~(m < work[t].mMax + p.skipped)
    BY <1>3, <1>4
  <2>2. \A i \in DOMAIN Rows(t) : Rows(t)[i].m # m
    <3>1. \A i \in DOMAIN Rows(t) : Rows(t)[i].m < work[t].mMax
      BY <1>2, <1>3, RowOK DEF Skips
    <3> QED
      BY <1>4, <2>1, <3>1
  <2>3. ~GaveTurn(t, m)
    BY <1>1, <2>1, <2>2 DEF GaveTurn, At, p
  <2>4. m < work[t].mMax + q.skipped
    BY <1>4, <1>7 DEF k
  <2>5. GaveTurn(t, m)'
    BY <1>1, <1>3, <1>5, <1>7, <2>1, <2>4, GaveNext DEF q, LeavesOut
  <2> QED
    BY <1>4, <2>1, <2>3, <2>5
<1>11. ASSUME NEW x \in 0..(RowBlocks(call) - 1), GaveTurn(t, x) PROVE GaveTurn(t, x)'
  <2>1. CASE \E i \in DOMAIN Rows(t) : Rows(t)[i].m = x /\ ~Rows(t)[i].oob
    BY <1>1, <1>9, <2>1, GaveNext
  <2>2. CASE LeavesOut(t, x) /\ x < work[t].mMax + p.skipped
    <3>1. x < work[t].mMax + q.skipped
      <4>1. q.skipped = p.skipped + 1
        BY <1>7 DEF k
      <4>2. work[t].mMax + q.skipped = work[t].mMax + p.skipped + 1
        BY <1>4, <4>1
      <4> QED
        BY <1>4, <2>2, <4>2
    <3> QED
      BY <1>1, <1>5, <1>7, <2>2, <3>1, GaveNext DEF q
  <2> QED
    BY <1>1, <1>11, <2>1, <2>2 DEF GaveTurn, At, p
<1> QED
  BY <1>1, <1>7, <1>9, <1>10, <1>11, RowsKeepLine

LEMMA StoreMoves ==
    ASSUME Inv, NEW t \in Tiles(call), StoreGradient(t)
    PROVE  OnlyOutput(t) /\ cta'[t].ep = "sent" /\ cta'[t].out = cta[t].out
<1> DEFINE p == cta[t]   x == [p EXCEPT !.ep = "sent"]
<1>1. cta' = [cta EXCEPT ![t] = x]
  BY DEF StoreGradient
<1>2. Types /\ p \in CtaRecord
  BY DEF Inv, Types
<1> HIDE DEF p
<1>3. /\ x \in CtaRecord /\ x.ep = "sent" /\ x.at = p.at /\ x.i = p.i /\ x.stage = p.stage
      /\ x.copied = p.copied /\ x.skipped = p.skipped /\ x.out = p.out
  BY <1>2 DEF CtaRecord
<1> HIDE DEF x
<1> QED
  BY <1>1, <1>2, <1>3, RecordMoves DEF OnlyOutput, p

LEMMA EndMoves ==
    ASSUME Inv, NEW t \in Tiles(call), EndGradient(t)
    PROVE  /\ OnlyOutput(t) /\ cta'[t].out = Smaller(cta[t].out + 1, 2)
           /\ cta'[t].ep = IF cta[t].out = 2 THEN "done" ELSE "wait"
<1> DEFINE p == cta[t]   ep == IF p.out = 2 THEN "done" ELSE "wait"   out == Smaller(p.out + 1, 2)
           x == [p EXCEPT !.ep = ep, !.out = out]
<1>1. cta' = [cta EXCEPT ![t] = x]
  BY DEF EndGradient
<1>2. Types /\ p \in CtaRecord
  BY DEF Inv, Types
<1> HIDE DEF p
<1>3. ep \in {"done", "wait"} /\ out \in {1, 2}
  BY <1>2 DEF CtaRecord, Smaller
<1> HIDE DEF ep, out
<1>4. /\ x \in CtaRecord /\ x.ep = ep /\ x.at = p.at /\ x.i = p.i /\ x.stage = p.stage
      /\ x.copied = p.copied /\ x.skipped = p.skipped /\ x.out = out
  BY <1>2, <1>3 DEF CtaRecord
<1> HIDE DEF x
<1> QED
  BY <1>1, <1>2, <1>4, RecordMoves DEF OnlyOutput, p, ep, out

LEMMA LaunchMoves ==
    ASSUME Inv, NEW t \in Tiles(call), Launch(t)
    PROVE  /\ UNCHANGED <<call, work, order, sem, bulk, added>>
           /\ \A u \in Tiles(call) : u # t => cta'[u] = cta[u]
           /\ cta[t].at = "idle" /\ cta[t].i = 1 /\ cta[t].stage = 0 /\ cta[t].out = 1 /\ cta[t].ep = "wait"
           /\ cta'[t].at = IF Rows(t) # <<>> THEN "add" ELSE "end"
           /\ cta'[t].i = 1 /\ cta'[t].stage = 0 /\ cta'[t].out = 1
           /\ cta'[t].ep = IF work[t].sends /\ call.group > 1 THEN "wait" ELSE "done"
<1> DEFINE p == cta[t]
           at == IF Rows(t) # <<>> THEN "add" ELSE "end"
           copied == IF Rows(t) # <<>> THEN p.copied + 1 ELSE 0
           ep == IF work[t].sends /\ call.group > 1 THEN "wait" ELSE "done"
           x == [p EXCEPT !.at = at, !.copied = copied, !.ep = ep]
<1>1. /\ t = launched /\ cta' = [cta EXCEPT ![t] = x]
      /\ UNCHANGED <<call, work, order, sem, bulk, added>>
  BY DEF Launch, Copied
<1>2. Fixed /\ Types /\ IsCall(call) /\ ShapeOf(t) /\ p \in CtaRecord
  BY DEF Inv, Fixed, Shape, Types
<1>3. t \in Nat
  BY <1>2, TilesFinite
<1>4. p = Idle
  BY <1>1, <1>2, <1>3 DEF ShapeOf
<1>5. p.at = "idle" /\ p.i = 1 /\ p.stage = 0 /\ p.copied = 0 /\ p.ep = "wait" /\ p.out = 1
  BY <1>4 DEF Idle
<1> HIDE DEF p
<1>6. at \in {"add", "end"} /\ copied \in Nat /\ ep \in {"wait", "done"}
  BY <1>5
<1> HIDE DEF at, copied, ep
<1>7. x \in CtaRecord /\ x.at = at /\ x.i = 1 /\ x.stage = 0 /\ x.ep = ep /\ x.out = 1
  BY <1>2, <1>5, <1>6 DEF CtaRecord
<1> HIDE DEF x
<1>8. cta'[t] = x /\ \A u \in Tiles(call) : u # t => cta'[u] = cta[u]
  BY <1>1, <1>2, <1>7, RecordMoves
<1> QED
  BY <1>1, <1>5, <1>7, <1>8 DEF at, ep, p

LEMMA LaunchLine == ASSUME Inv, Line, NEW t \in Tiles(call), Launch(t) PROVE Line'
<1> DEFINE p == cta[t]   q == cta'[t]   delay == DelayRelease(call)   len == Len(Rows(t))
<1>1. /\ UNCHANGED <<call, work>> /\ sem' = sem /\ \A u \in Tiles(call) : u # t => cta'[u] = cta[u]
      /\ p.at = "idle" /\ q.i = 1 /\ q.stage = 0
      /\ q.at = IF Rows(t) # <<>> THEN "add" ELSE "end"
  BY LaunchMoves
<1>2. len \in Nat /\ DOMAIN Rows(t) = 1..len /\ (Rows(t) = <<>> <=> len = 0)
  BY RowFacts DEF Inv
<1> HIDE DEF p, q
<1>3. \A i \in DOMAIN Rows(t) : ~InTurn(q, delay, len, i) /\ ~TurnOver(q, delay, len, i)
  <2>1. CASE Rows(t) = <<>>
    BY <1>2, <2>1
  <2>2. CASE Rows(t) # <<>>
    <3>1. q.at = "add"
      BY <1>1, <2>2
    <3> QED
      BY <1>1, <1>2, <3>1 DEF InTurn, TurnOver
  <2> QED
    BY <2>1, <2>2
<1>4. Held(t)' = {} /\ \A i \in DOMAIN Rows(t) : ~Over(t, i)'
  BY <1>1, <1>3, NextTurns DEF q
<1>5. \A m : ~GaveTurn(t, m)
  BY <1>1 DEF GaveTurn, Over, TurnOver, At, p
<1> QED
  BY <1>1, <1>4, <1>5, RowsKeepLine

\* The epilogue and the adds on their way change no turn.
LEMMA OutputLine ==
    ASSUME Inv, Line, UNCHANGED <<call, work>>, NEW t \in Tiles(call), OnlyOutput(t),
           \A s \in Semaphores(call) : s[1] = "Q" => sem'[s] = sem[s]
    PROVE  Line'
<1>1. \A i : /\ TurnOver(cta'[t], DelayRelease(call), Len(Rows(t)), i)
                  <=> TurnOver(cta[t], DelayRelease(call), Len(Rows(t)), i)
             /\ InTurn(cta'[t], DelayRelease(call), Len(Rows(t)), i)
                  <=> InTurn(cta[t], DelayRelease(call), Len(Rows(t)), i)
  BY DEF OnlyOutput, TurnOver, InTurn
<1>2. Held(t)' = Held(t) /\ \A i : Over(t, i)' <=> Over(t, i)
  BY <1>1, NextTurns DEF Held, Over
<1>3. \A m : GaveTurn(t, m) => GaveTurn(t, m)'
  BY <1>2, GaveNext DEF GaveTurn, OnlyOutput, At
<1> QED
  BY <1>2, <1>3, RowsKeepLine DEF OnlyOutput

LEMMA StoreGradientLine == ASSUME Inv, Line, NEW t \in Tiles(call), StoreGradient(t) PROVE Line'
BY StoreMoves, OutputLine DEF StoreGradient

LEMMA EndGradientLine == ASSUME Inv, Line, NEW t \in Tiles(call), EndGradient(t) PROVE Line'
<1> DEFINE s == KvSem(Output(t), Hb(t), N(t))
<1>1. cta[t].ep = "sent" /\ ArriveInc(s) /\ UNCHANGED <<call, work>>
  BY DEF EndGradient
<1>2. ~At(t, "idle")
  BY <1>1 DEF Inv, Shape, ShapeOf
<1>3. s \in Semaphores(call) /\ s[1] # "Q"
  BY <1>1, <1>2, SentPlaces
<1> HIDE DEF s
<1>4. \A r \in Semaphores(call) : r # s => sem'[r] = sem[r]
  BY <1>1, <1>3, ArriveOK DEF Inv
<1>5. \A r \in Semaphores(call) : r[1] = "Q" => sem'[r] = sem[r]
  BY <1>3, <1>4
<1> QED
  BY <1>1, <1>5, EndMoves, OutputLine

LEMMA QuietLine == ASSUME Line, UNCHANGED <<call, work, cta, sem>> PROVE Line'
<1>1. \A t \in Tiles(call) : /\ Held(t)' = Held(t) /\ (\A i : Over(t, i)' <=> Over(t, i))
                             /\ \A m : GaveTurn(t, m)' <=> GaveTurn(t, m)
  BY NextTurns, GaveNext DEF Held, Over, GaveTurn, At
<1>2. Tiles(call)' = Tiles(call) /\ \A t : Rows(t)' = Rows(t) /\ Hb(t)' = Hb(t) /\ \A m : Ahead(t, m)' = Ahead(t, m)
  BY GaveNext
<1>3. InLine'
  <2> SUFFICES ASSUME NEW u \in Tiles(call), NEW i \in DOMAIN Rows(u), ~Rows(u)[i].oob,
                      i \in Held(u)' \/ Over(u, i)',
                      NEW m, m = Rows(u)[i].m, NEW v \in Ahead(u, m)
               PROVE  GaveTurn(v, m)'
    BY <1>2 DEF InLine
  <2>1. v \in Tiles(call) /\ GaveTurn(v, m)
    BY <1>1 DEF Line, InLine, Ahead
  <2> QED
    BY <1>1, <2>1
<1>4. \A hb, m : GivenBy(hb, m)' = GivenBy(hb, m)
  BY <1>1, <1>2 DEF GivenBy
<1>5. TurnsGiven'
  BY <1>4 DEF Line, TurnsGiven, QSem, RowBlocks
<1> QED
  BY <1>3, <1>5 DEF Line

LEMMA LineInit == ASSUME Init PROVE Line
<1>1. Inv /\ \A t \in Tiles(call) : cta[t] = Idle
  BY InitInv DEF Init
<1>2. \A t \in Tiles(call) : Held(t) = {} /\ \A i : ~Over(t, i)
  BY <1>1 DEF Held, Over, InTurn, TurnOver, Idle
<1>3. InLine
  BY <1>2 DEF InLine
<1>4. TurnsGiven
  <2> SUFFICES ASSUME NEW hb \in 0..(call.hbs - 1), NEW m \in 0..(RowBlocks(call) - 1)
               PROVE  sem[QSem(hb, m)] <= Cardinality(GivenBy(hb, m))
    BY DEF TurnsGiven
  <2>1. sem[QSem(hb, m)] = 0
    BY RowPlaces DEF Init
  <2>2. IsFiniteSet(GivenBy(hb, m))
    <3>1. IsFiniteSet(Tiles(call)) /\ GivenBy(hb, m) \in SUBSET Tiles(call)
      BY <1>1, TilesFinite DEF Inv, Fixed, GivenBy
    <3> QED
      BY <3>1, FS_Subset
  <2>3. Cardinality(GivenBy(hb, m)) \in Nat
    BY <2>2, FS_CardinalityType
  <2> QED
    BY <2>1, <2>3
<1> QED
  BY <1>3, <1>4 DEF Line

LEMMA StepKeepsLine == ASSUME Inv, Line, [Next]_vars PROVE Line'
<1>1. DOMAIN cta = Tiles(call)
  BY DEF Inv, Fixed
<1>2. CASE UNCHANGED vars
  BY <1>2, QuietLine DEF vars
<1>3. ASSUME NEW t \in Tiles(call), Launch(t) \/ Step(t) \/ EpilogueStep(t) PROVE Line'
  BY <1>3, LaunchLine, AddPartLine, SkipPartLine, SettlePartLine, EndRowLine, EndRowsLine,
     SkipRowLine, StoreGradientLine, EndGradientLine DEF Step, EpilogueStep
<1>4. ASSUME NEW b \in bulk, Land(b) PROVE Line'
  BY <1>4, QuietLine DEF Land
<1> QED
  BY <1>1, <1>2, <1>3, <1>4 DEF Next

-----------------------------------------------------------------------------
(* The heads of a group in their order.                                    *)

GaveOutput(t, k) == Sends(t) /\ (cta[t].ep = "done" \/ k < cta[t].out)
OutputsBy(hb, n, k) ==
    {t \in Tiles(call) : N(t) = n /\ Hb(t) \div call.group = hb \div call.group /\ GaveOutput(t, k)}
HeadsAhead(t) ==
    {u \in Tiles(call) : /\ N(u) = N(t) /\ Hb(u) \div call.group = Hb(t) \div call.group
                         /\ Hb(u) < Hb(t) /\ work[u].sends}

\* Only a CTA with rows waits to store its dK and dV.
WaitsWithRows == \A t \in Tiles(call) : ~At(t, "idle") /\ cta[t].ep # "done" => work[t].sends
\* Their semaphores count no turn that was not given.
OutputsCounted ==
    \A hb \in 0..(call.hbs - 1), n \in 0..(NumBlock(call) - 1), k \in 1..2 :
        call.group > 1 => sem[KvSem(OutputOrder(call)[k], hb, n)] <= Cardinality(OutputsBy(hb, n, k))
\* Who has or had a turn has everybody behind it who comes before.
HeadsInLine ==
    \A t \in Tiles(call), k \in 1..2 :
        Sends(t) /\ OutputOver(cta[t], k) => \A u \in HeadsAhead(t) : GaveOutput(u, k)
OutputLines == WaitsWithRows /\ OutputsCounted /\ HeadsInLine

LEMMA HeadsCount ==
    ASSUME Fixed, NEW t \in Tiles(call)
    PROVE  IsFiniteSet(HeadsAhead(t)) /\ Cardinality(HeadsAhead(t)) <= Hb(t) % call.group
<1> DEFINE S == HeadsAhead(t)   f == [u \in S |-> Hb(u) % call.group]   r == Hb(t) % call.group
<1>1. IsCall(call) /\ call.group \in Nat \ {0} /\ call.hbs \in Nat
  BY CallNumbers DEF Fixed
<1>2. \A u \in Tiles(call) : Hb(u) \in Nat
  BY <1>1, RowFacts
<1>3. r \in Nat
  BY <1>1, <1>2
<1>4. \A u \in S : u \in Tiles(call) /\ N(u) = N(t) /\ Hb(u) < Hb(t)
                   /\ Hb(u) \div call.group = Hb(t) \div call.group
  BY DEF HeadsAhead
<1>5. f \in [S -> 0..(r - 1)]
  <2> SUFFICES ASSUME NEW u \in S PROVE Hb(u) % call.group \in 0..(r - 1)
    OBVIOUS
  <2> PICK a \in Int, b \in Int, g \in Nat \ {0} : a = Hb(u) /\ b = Hb(t) /\ g = call.group
    BY <1>1, <1>2, <1>4
  <2>1. a < b /\ a \div g = b \div g
    BY <1>4
  <2>2. a \div g \in Int /\ a % g = a - (a \div g) * g /\ a % g \in 0..(g - 1)
    BY DivBounds
  <2>3. b % g = b - (b \div g) * g
    BY DivBounds
  <2> PICK x \in Int, y \in Int, z \in Int : x = (a \div g) * g /\ y = a % g /\ z = b % g
    BY <2>1, <2>2, <2>3
  <2>4. y = a - x /\ z = b - x /\ y >= 0
    BY <2>1, <2>2, <2>3
  <2>5. y \in 0..(z - 1)
    BY <2>1, <2>4
  <2> QED
    BY <2>5
<1>6. \A u, v \in S : f[u] = f[v] => u = v
  <2> SUFFICES ASSUME NEW u \in S, NEW v \in S, Hb(u) % call.group = Hb(v) % call.group PROVE u = v
    OBVIOUS
  <2>1. /\ u \in Tiles(call) /\ v \in Tiles(call) /\ N(u) = N(v)
        /\ Hb(u) \div call.group = Hb(v) \div call.group
    BY <1>4
  <2> QED
    BY <2>1, SameTile
<1> HIDE DEF f, S, r
<1>7. IsFiniteSet(S) /\ Cardinality(S) <= Cardinality(0..(r - 1))
  BY <1>3, <1>5, <1>6, BelowIsFinite, CountInto
<1> QED
  BY <1>3, <1>7, BelowIsFinite DEF S, r

\* The semaphore shows a head its turn: every head before it is over.
LEMMA OutputTurnComes ==
    ASSUME Inv, OutputLines, NEW t \in Tiles(call), Sends(t), NEW k \in 1..2, ~OutputOver(cta[t], k),
           sem[KvSem(OutputOrder(call)[k], Hb(t), N(t))] = Hb(t) % call.group
    PROVE  \A u \in HeadsAhead(t) : GaveOutput(u, k)
<1> DEFINE P == OutputsBy(Hb(t), N(t), k)
<1>1. Fixed /\ IsCall(call) /\ call.group \in Nat \ {0} /\ call.hbs \in Nat
  BY CallNumbers DEF Inv, Fixed
<1>2. \A u \in Tiles(call) : Hb(u) \in 0..(call.hbs - 1) /\ Hb(u) \in Nat /\ N(u) \in 0..(NumBlock(call) - 1)
  BY <1>1, RowFacts
<1>3. Hb(t) % call.group <= Cardinality(P)
  BY <1>2 DEF OutputLines, OutputsCounted, Sends
<1>4. P \in SUBSET HeadsAhead(t)
  <2> SUFFICES ASSUME NEW u \in Tiles(call), N(u) = N(t), GaveOutput(u, k),
                      Hb(u) \div call.group = Hb(t) \div call.group
               PROVE  u \in HeadsAhead(t)
    BY DEF OutputsBy
  <2>1. u # t
    BY DEF GaveOutput, OutputOver
  <2>2. Hb(u) # Hb(t)
    BY <1>1, <2>1, RowFacts, TilesDiffer
  <2>3. ~(Hb(t) < Hb(u))
    <3> SUFFICES ASSUME Hb(t) < Hb(u) PROVE FALSE
      OBVIOUS
    <3>1. t \in HeadsAhead(u)
      BY DEF HeadsAhead, Sends
    <3>2. Sends(u) /\ OutputOver(cta[u], k)
      BY DEF GaveOutput, OutputOver
    <3>3. GaveOutput(t, k)
      BY <3>1, <3>2 DEF OutputLines, HeadsInLine
    <3> QED
      BY <3>3 DEF GaveOutput, OutputOver
  <2>4. Hb(u) < Hb(t)
    BY <1>2, <2>2, <2>3
  <2> QED
    BY <2>4 DEF HeadsAhead, GaveOutput, Sends
<1>5. IsFiniteSet(HeadsAhead(t)) /\ Cardinality(HeadsAhead(t)) <= Hb(t) % call.group
  BY <1>1, HeadsCount
<1>6. Hb(t) % call.group \in Int
  BY <1>1, <1>2
<1> HIDE DEF P
<1>7. P = HeadsAhead(t)
  BY <1>3, <1>4, <1>5, <1>6, AllBefore
<1> QED
  BY <1>7 DEF P, OutputsBy

LEMMA SameHeads ==
    ASSUME UNCHANGED <<call, work>>
    PROVE  /\ Tiles(call)' = Tiles(call) /\ \A t : HeadsAhead(t)' = HeadsAhead(t)
           /\ \A t : N(t)' = N(t) /\ Hb(t)' = Hb(t)
           /\ \A t : work'[t].sends = work[t].sends
           /\ \A k, hb, n : KvSem(OutputOrder(call)[k], hb, n)' = KvSem(OutputOrder(call)[k], hb, n)
<1>1. Tiles(call)' = Tiles(call) /\ \A t : N(t)' = N(t) /\ Hb(t)' = Hb(t)
  BY DEF Tiles, NumBlock, Hb, N
<1>2. \A t : HeadsAhead(t)' = HeadsAhead(t)
  BY <1>1 DEF HeadsAhead
<1> QED
  BY <1>1, <1>2 DEF KvSem, OutputOrder

LEMMA OutputSem ==
    ASSUME Fixed, call.group > 1, NEW hb \in 0..(call.hbs - 1), NEW n \in 0..(NumBlock(call) - 1), NEW k \in 1..2
    PROVE  /\ KvSem(OutputOrder(call)[k], hb, n) \in Semaphores(call)
           /\ KvSem(OutputOrder(call)[k], hb, n)[1] # "Q"
           /\ OutputOrder(call)[k] \in Outputs(call)
<1>1. OutputOrder(call)[k] \in Outputs(call) /\ OutputOrder(call)[k] # "Q"
  BY DEF OutputOrder, Outputs
<1> QED
  BY <1>1, OutputPlaces DEF Fixed, KvSem

\* A step of a CTA keeps the heads in order if it takes its turn only when the
\* semaphore shows it, and passes it on only when it is over.
LEMMA StepKeepsHeads ==
    ASSUME Inv, OutputLines, UNCHANGED <<call, work>>, NEW t \in Tiles(call),
           \A u \in Tiles(call) : u # t => cta'[u] = cta[u],
           (~At(t, "idle") /\ cta[t].ep # "done")' => work[t].sends,
           \A k \in 1..2 : GaveOutput(t, k) => GaveOutput(t, k)',
           \A k \in 1..2 : Sends(t)' /\ OutputOver(cta'[t], k) =>
               \/ Sends(t) /\ OutputOver(cta[t], k)
               \/ /\ Sends(t) /\ ~OutputOver(cta[t], k)
                  /\ sem[KvSem(OutputOrder(call)[k], Hb(t), N(t))] = Hb(t) % call.group,
           \/ \A s \in Semaphores(call) : s[1] # "Q" => sem'[s] = sem[s]
           \/ \E k \in 1..2 : /\ ArriveInc(KvSem(OutputOrder(call)[k], Hb(t), N(t)))
                              /\ ~GaveOutput(t, k) /\ GaveOutput(t, k)'
    PROVE  OutputLines'
<1>1. Fixed /\ Types /\ IsCall(call)
  BY DEF Inv, Fixed
<1>2. /\ Tiles(call)' = Tiles(call) /\ \A u : HeadsAhead(u)' = HeadsAhead(u)
      /\ \A u : N(u)' = N(u) /\ Hb(u)' = Hb(u)
      /\ \A k, hb, n : KvSem(OutputOrder(call)[k], hb, n)' = KvSem(OutputOrder(call)[k], hb, n)
  BY SameHeads
<1>3. \A u \in Tiles(call) : u # t => /\ \A k : GaveOutput(u, k)' <=> GaveOutput(u, k)
                                      /\ Sends(u)' <=> Sends(u)
  BY DEF GaveOutput, Sends, At
<1>4. \A u \in Tiles(call), k \in 1..2 : GaveOutput(u, k) => GaveOutput(u, k)'
  BY <1>3
<1>5. WaitsWithRows'
  <2> SUFFICES ASSUME NEW u \in Tiles(call), (~At(u, "idle") /\ cta[u].ep # "done")' PROVE work[u].sends
    BY <1>2 DEF WaitsWithRows
  <2>1. CASE u = t
    BY <2>1
  <2>2. CASE u # t
    <3>1. ~At(u, "idle") /\ cta[u].ep # "done"
      BY <2>2 DEF At
    <3> QED
      BY <3>1 DEF OutputLines, WaitsWithRows
  <2> QED
    BY <2>1, <2>2
<1>6. HeadsInLine'
  <2> SUFFICES ASSUME NEW u \in Tiles(call), NEW k \in 1..2, Sends(u)', OutputOver(cta'[u], k),
                      NEW v \in HeadsAhead(u)
               PROVE  GaveOutput(v, k)'
    BY <1>2 DEF HeadsInLine
  <2>1. v \in Tiles(call)
    BY DEF HeadsAhead
  <2>2. GaveOutput(v, k)
    <3>1. CASE Sends(u) /\ OutputOver(cta[u], k)
      BY <3>1 DEF OutputLines, HeadsInLine
    <3>2. CASE ~(Sends(u) /\ OutputOver(cta[u], k))
      <4>1. u = t
        BY <1>3, <3>2
      <4> QED
        BY <3>2, <4>1, OutputTurnComes
    <3> QED
      BY <3>1, <3>2
  <2> QED
    BY <1>4, <2>1, <2>2
<1>7. OutputsCounted'
  <2> SUFFICES ASSUME NEW hb \in 0..(call.hbs - 1), NEW n \in 0..(NumBlock(call) - 1), NEW k \in 1..2,
                      call.group > 1
               PROVE  sem'[KvSem(OutputOrder(call)[k], hb, n)] <= Cardinality(OutputsBy(hb, n, k)')
    <3>1. NumBlock(call)' = NumBlock(call)
      BY DEF NumBlock
    <3> QED
      BY <3>1 DEF OutputsCounted, KvSem, OutputOrder
  <2> DEFINE A == OutputsBy(hb, n, k)   B == OutputsBy(hb, n, k)'   s == KvSem(OutputOrder(call)[k], hb, n)
  <2>1. sem[s] <= Cardinality(A) /\ s \in Semaphores(call) /\ s[1] # "Q"
    BY <1>1, OutputSem DEF OutputLines, OutputsCounted
  <2>2. A \in SUBSET B /\ B \in SUBSET Tiles(call)
    BY <1>2, <1>4 DEF OutputsBy
  <2>3. IsFiniteSet(B)
    BY <1>1, <2>2, TilesFinite, FS_Subset
  <2>4. IsFiniteSet(A) /\ Cardinality(A) \in Nat /\ Cardinality(B) \in Nat
        /\ Cardinality(A) <= Cardinality(B) /\ (Cardinality(A) = Cardinality(B) => A = B)
    BY <2>2, <2>3, FS_Subset, FS_CardinalityType
  <2>5. sem[s] \in Nat
    BY <1>1, <2>1 DEF Types
  <2>6. CASE sem'[s] = sem[s]
    BY <2>1, <2>4, <2>5, <2>6
  <2>7. CASE sem'[s] # sem[s]
    <3>1. PICK j \in 1..2 : /\ ArriveInc(KvSem(OutputOrder(call)[j], Hb(t), N(t)))
                            /\ ~GaveOutput(t, j) /\ GaveOutput(t, j)'
      BY <2>1, <2>7
    <3>2. Hb(t) \in 0..(call.hbs - 1) /\ N(t) \in 0..(NumBlock(call) - 1)
      BY <1>1, RowFacts
    <3>3. KvSem(OutputOrder(call)[j], Hb(t), N(t)) \in Semaphores(call)
      BY <1>1, <3>2, OutputSem
    <3>4. s = KvSem(OutputOrder(call)[j], Hb(t), N(t)) /\ sem'[s] = sem[s] + 1
      BY <1>1, <2>1, <2>7, <3>1, <3>3, ArriveOK
    <3>5. OutputOrder(call)[j] = OutputOrder(call)[k] /\ Hb(t) \div call.group = hb \div call.group /\ N(t) = n
      BY <3>4 DEF KvSem
    <3>6. j = k
      <4>1. OutputOrder(call)[1] # OutputOrder(call)[2]
        BY DEF OutputOrder
      <4> QED
        BY <3>5, <4>1
    <3>7. t \in B /\ t \notin A
      BY <1>2, <3>1, <3>5, <3>6 DEF OutputsBy
    <3> HIDE DEF A, B, s
    <3>8. Cardinality(A) # Cardinality(B)
      BY <2>4, <3>7
    <3> QED
      BY <2>1, <2>4, <2>5, <3>4, <3>8 DEF s, B
  <2> QED
    BY <2>6, <2>7
<1> QED
  BY <1>5, <1>6, <1>7 DEF OutputLines

\* What the reduce warps leave alone.
LEMMA StepMoves ==
    ASSUME Inv, NEW t \in Tiles(call), Step(t)
    PROVE  /\ OnlyRows(t) /\ UNCHANGED <<call, work, order, added>>
           /\ cta[t].at # "idle" /\ cta'[t].at # "idle"
           /\ \A s \in Semaphores(call) : s[1] # "Q" => sem'[s] = sem[s]
           /\ \A b \in bulk' : b \notin bulk => AddPart(t)
           /\ bulk \in SUBSET bulk'
<1>1. Fixed /\ Types /\ cta[t] \in CtaRecord
  BY DEF Inv, Types
<1>2. \A m : ArriveInc(QSem(Hb(t), m)) => \A s \in Semaphores(call) : s[1] # "Q" => sem'[s] = sem[s]
  BY <1>1 DEF ArriveInc, QSem, Types
<1>3. CASE AddPart(t)
  BY <1>1, <1>3, GotoOK DEF AddPart, At
<1>4. CASE SkipPart(t)
  BY <1>1, <1>4, GotoOK DEF SkipPart, At
<1>5. CASE SettlePart(t)
  <2>1. OnlyRows(t) /\ ToNextPart(cta[t], cta'[t], Len(Rows(t)))
    BY <1>1, <1>5, NextPartOK DEF SettlePart
  <2>2. cta'[t].at # "idle"
    BY <2>1 DEF ToNextPart, ToNextRow
  <2> QED
    BY <1>2, <1>5, <2>1, <2>2 DEF SettlePart, At
<1>6. CASE EndRow(t)
  <2>1. OnlyRows(t) /\ ToNextRow(cta[t], cta'[t], Len(Rows(t)))
    BY <1>1, <1>6, NextRowOK DEF EndRow
  <2>2. cta'[t].at # "idle"
    BY <2>1 DEF ToNextRow
  <2> QED
    BY <1>2, <1>6, <2>1, <2>2 DEF EndRow, At
<1>7. CASE EndRows(t)
  <2> PICK where : where = IF SkippedRows(t) = {} THEN "done" ELSE "skip"
    OBVIOUS
  <2>1. Goto(t, where) /\ where \in {"settle", "row", "end", "skip", "done"}
    BY <1>7 DEF EndRows
  <2>2. OnlyRows(t) /\ cta'[t].at = where
    BY <1>1, <2>1, GotoOK
  <2> QED
    BY <1>2, <1>7, <2>1, <2>2 DEF EndRows, At
<1>8. CASE SkipRow(t)
  <2> DEFINE p == cta[t]   k == p.skipped + 1
             where == IF work[t].mMax + p.skipped + 1 = RowBlocks(call) THEN "done" ELSE "skip"
             new == [p EXCEPT !.skipped = k, !.at = where]
  <2>1. cta' = [cta EXCEPT ![t] = new]
    BY <1>8 DEF SkipRow
  <2>2. k \in Nat /\ where \in {"skip", "done"}
    BY <1>1 DEF CtaRecord
  <2> HIDE DEF p, k, where
  <2>3. new \in CtaRecord /\ new.at = where /\ new.out = p.out /\ new.ep = p.ep
    BY <1>1, <2>2 DEF CtaRecord, p
  <2> HIDE DEF new
  <2>4. OnlyRows(t) /\ cta'[t].at = where
    BY <1>1, <2>1, <2>3, RecordMoves DEF OnlyRows, p
  <2> QED
    BY <1>2, <1>8, <2>2, <2>4 DEF SkipRow, At
<1> QED
  BY <1>3, <1>4, <1>5, <1>6, <1>7, <1>8 DEF Step

LEMMA RowsKeepHeads == ASSUME Inv, OutputLines, NEW t \in Tiles(call), Step(t) PROVE OutputLines'
<1>1. /\ OnlyRows(t) /\ UNCHANGED <<call, work>> /\ cta[t].at # "idle" /\ cta'[t].at # "idle"
      /\ \A s \in Semaphores(call) : s[1] # "Q" => sem'[s] = sem[s]
  BY StepMoves
<1>2. cta'[t].out = cta[t].out /\ cta'[t].ep = cta[t].ep /\ \A u \in Tiles(call) : u # t => cta'[u] = cta[u]
  BY <1>1 DEF OnlyRows
<1>3. (~At(t, "idle") /\ cta[t].ep # "done")' => work[t].sends
  BY <1>1, <1>2 DEF OutputLines, WaitsWithRows, At
<1>4. (Sends(t)' <=> Sends(t)) /\ \A k : /\ GaveOutput(t, k)' <=> GaveOutput(t, k)
                                         /\ OutputOver(cta'[t], k) <=> OutputOver(cta[t], k)
  BY <1>1, <1>2 DEF Sends, GaveOutput, OutputOver, At
<1> QED
  BY <1>1, <1>2, <1>3, <1>4, StepKeepsHeads

LEMMA StoreGradientHeads ==
    ASSUME Inv, OutputLines, NEW t \in Tiles(call), StoreGradient(t) PROVE OutputLines'
<1>1. /\ cta[t].ep = "wait" /\ cta[t].at # "idle" /\ UNCHANGED <<call, work>> /\ sem' = sem
      /\ sem[KvSem(Output(t), Hb(t), N(t))] = Hb(t) % call.group
  BY DEF StoreGradient, At
<1>2. OnlyOutput(t) /\ cta'[t].ep = "sent" /\ cta'[t].out = cta[t].out
  BY StoreMoves
<1>3. cta'[t].at = cta[t].at /\ \A u \in Tiles(call) : u # t => cta'[u] = cta[u]
  BY <1>2 DEF OnlyOutput
<1>4. Sends(t) /\ work[t].sends
  BY <1>1 DEF Sends, At, OutputLines, WaitsWithRows, Inv, Shape, ShapeOf
<1>5. \A k : GaveOutput(t, k)' <=> GaveOutput(t, k)
  BY <1>1, <1>2, <1>3 DEF GaveOutput, Sends, At
<1>6. ASSUME NEW k \in 1..2, OutputOver(cta'[t], k), ~OutputOver(cta[t], k)
      PROVE  sem[KvSem(OutputOrder(call)[k], Hb(t), N(t))] = Hb(t) % call.group
  <2>1. k = cta[t].out
    BY <1>1, <1>2, <1>6 DEF OutputOver
  <2> QED
    BY <1>1, <2>1 DEF Output
<1> QED
  BY <1>1, <1>3, <1>4, <1>5, <1>6, StepKeepsHeads

LEMMA EndGradientHeads ==
    ASSUME Inv, OutputLines, NEW t \in Tiles(call), EndGradient(t) PROVE OutputLines'
<1>1. /\ cta[t].ep = "sent" /\ UNCHANGED <<call, work>> /\ ArriveInc(KvSem(Output(t), Hb(t), N(t)))
  BY DEF EndGradient
<1>2. /\ OnlyOutput(t) /\ cta'[t].out = Smaller(cta[t].out + 1, 2)
      /\ cta'[t].ep = IF cta[t].out = 2 THEN "done" ELSE "wait"
  BY EndMoves
<1>3. cta'[t].at = cta[t].at /\ \A u \in Tiles(call) : u # t => cta'[u] = cta[u]
  BY <1>2 DEF OnlyOutput
<1>4. cta[t].at # "idle" /\ Sends(t) /\ work[t].sends /\ cta[t].out \in {1, 2}
  BY <1>1 DEF Sends, At, OutputLines, WaitsWithRows, Inv, Shape, ShapeOf, Types, CtaRecord
<1>5. Sends(t)'
  BY <1>1, <1>3, <1>4 DEF Sends, At
<1>6. \A k \in 1..2 : /\ OutputOver(cta'[t], k) <=> OutputOver(cta[t], k)
                      /\ GaveOutput(t, k)' <=> k <= cta[t].out
                      /\ GaveOutput(t, k) <=> k < cta[t].out
  <2> SUFFICES ASSUME NEW k \in {1, 2}
               PROVE  /\ OutputOver(cta'[t], k) <=> OutputOver(cta[t], k)
                      /\ GaveOutput(t, k)' <=> k <= cta[t].out
                      /\ GaveOutput(t, k) <=> k < cta[t].out
    OBVIOUS
  <2>1. cta[t].out = 1 => cta'[t].out = 2 /\ cta'[t].ep = "wait"
    BY <1>2 DEF Smaller
  <2>2. cta[t].out = 2 => cta'[t].out = 2 /\ cta'[t].ep = "done"
    BY <1>2 DEF Smaller
  <2>3. GaveOutput(t, k)' <=> cta'[t].ep = "done" \/ k < cta'[t].out
    BY <1>5 DEF GaveOutput
  <2>4. GaveOutput(t, k) <=> k < cta[t].out
    BY <1>1, <1>4 DEF GaveOutput
  <2> QED
    BY <1>1, <1>4, <2>1, <2>2, <2>3, <2>4 DEF OutputOver
<1>7. \E k \in 1..2 : /\ ArriveInc(KvSem(OutputOrder(call)[k], Hb(t), N(t)))
                      /\ ~GaveOutput(t, k) /\ GaveOutput(t, k)'
  <2> PICK k \in 1..2 : k = cta[t].out
    BY <1>4
  <2>1. ~GaveOutput(t, k) /\ GaveOutput(t, k)'
    BY <1>6
  <2> QED
    BY <1>1, <2>1 DEF Output
<1>8. \A k \in 1..2 : GaveOutput(t, k) => GaveOutput(t, k)'
  BY <1>4, <1>6
<1> QED
  BY <1>1, <1>3, <1>4, <1>6, <1>7, <1>8, StepKeepsHeads

LEMMA LaunchHeads == ASSUME Inv, OutputLines, NEW t \in Tiles(call), Launch(t) PROVE OutputLines'
<1>1. /\ UNCHANGED <<call, work>> /\ sem' = sem /\ \A u \in Tiles(call) : u # t => cta'[u] = cta[u]
      /\ cta[t].at = "idle" /\ cta'[t].out = 1
      /\ cta'[t].ep = IF work[t].sends /\ call.group > 1 THEN "wait" ELSE "done"
  BY LaunchMoves
<1>2. (~At(t, "idle") /\ cta[t].ep # "done")' => work[t].sends
  BY <1>1
<1>3. \A k \in 1..2 : ~(Sends(t)' /\ OutputOver(cta'[t], k))
  <2> SUFFICES ASSUME NEW k \in 1..2, Sends(t)', OutputOver(cta'[t], k) PROVE FALSE
    OBVIOUS
  <2>1. cta'[t].ep = "wait"
    BY <1>1 DEF Sends
  <2> QED
    BY <1>1, <2>1 DEF OutputOver
<1>4. \A k : ~GaveOutput(t, k)
  BY <1>1 DEF GaveOutput, Sends, At
<1> QED
  BY <1>1, <1>2, <1>3, <1>4, StepKeepsHeads

LEMMA QuietHeads == ASSUME OutputLines, UNCHANGED <<call, work, cta, sem>> PROVE OutputLines'
<1>1. /\ Tiles(call)' = Tiles(call) /\ \A t : HeadsAhead(t)' = HeadsAhead(t)
      /\ \A t : N(t)' = N(t) /\ Hb(t)' = Hb(t)
  BY SameHeads
<1>2. \A t : (Sends(t)' <=> Sends(t)) /\ \A k : GaveOutput(t, k)' <=> GaveOutput(t, k)
  BY DEF GaveOutput, Sends, At
<1>3. \A hb, n, k : OutputsBy(hb, n, k)' = OutputsBy(hb, n, k)
  BY <1>1, <1>2 DEF OutputsBy
<1>4. WaitsWithRows' /\ HeadsInLine'
  BY <1>1, <1>2 DEF OutputLines, WaitsWithRows, HeadsInLine, At
<1>5. OutputsCounted'
  BY <1>3 DEF OutputLines, OutputsCounted, KvSem, OutputOrder, NumBlock
<1> QED
  BY <1>4, <1>5 DEF OutputLines

LEMMA HeadsInit == ASSUME Init PROVE OutputLines
<1>1. Inv /\ \A t \in Tiles(call) : cta[t] = Idle
  BY InitInv DEF Init
<1>2. Fixed /\ \A t \in Tiles(call) : At(t, "idle") /\ ~Sends(t)
  BY <1>1 DEF At, Sends, Idle, Inv
<1>3. OutputsCounted
  <2> SUFFICES ASSUME NEW hb \in 0..(call.hbs - 1), NEW n \in 0..(NumBlock(call) - 1), NEW k \in 1..2,
                      call.group > 1
               PROVE  sem[KvSem(OutputOrder(call)[k], hb, n)] <= Cardinality(OutputsBy(hb, n, k))
    BY DEF OutputsCounted
  <2>1. sem[KvSem(OutputOrder(call)[k], hb, n)] = 0
    BY <1>2, OutputSem DEF Init
  <2>2. IsFiniteSet(OutputsBy(hb, n, k))
    <3>1. IsFiniteSet(Tiles(call)) /\ OutputsBy(hb, n, k) \in SUBSET Tiles(call)
      BY <1>2, TilesFinite DEF Fixed, OutputsBy
    <3> QED
      BY <3>1, FS_Subset
  <2>3. Cardinality(OutputsBy(hb, n, k)) \in Nat
    BY <2>2, FS_CardinalityType
  <2> QED
    BY <2>1, <2>3
<1> QED
  BY <1>2, <1>3 DEF OutputLines, WaitsWithRows, HeadsInLine

LEMMA StepKeepsOutputLines == ASSUME Inv, OutputLines, [Next]_vars PROVE OutputLines'
<1>1. DOMAIN cta = Tiles(call)
  BY DEF Inv, Fixed
<1>2. CASE UNCHANGED vars
  BY <1>2, QuietHeads DEF vars
<1>3. ASSUME NEW t \in Tiles(call), Launch(t) \/ Step(t) \/ EpilogueStep(t) PROVE OutputLines'
  BY <1>3, LaunchHeads, RowsKeepHeads, StoreGradientHeads, EndGradientHeads DEF EpilogueStep
<1>4. ASSUME NEW b \in bulk, Land(b) PROVE OutputLines'
  BY <1>4, QuietHeads DEF Land
<1> QED
  BY <1>1, <1>2, <1>3, <1>4 DEF Next

-----------------------------------------------------------------------------
(* Nobody adds twice: what a CTA has still to add is not in the sum, nor   *)
(* on its way.                                                             *)

Who(b) == IF b.cell[1] = "Q" THEN N(b.tile) ELSE Hb(b.tile)
AddsDiffer == \A a, b \in bulk : a.cell = b.cell => a = b
NotAddedYet == \A b \in bulk : Who(b) \notin Range(added[b.cell])
PartsNotGiven ==
    \A t \in Tiles(call) : \A i \in DOMAIN Rows(t), stage \in 0..(call.stages - 1) :
        ~Rows(t)[i].oob /\ ~PartOver(cta[t], i, stage) => ~Given(t, PartCell(t, i, stage), N(t))
OutputsNotGiven ==
    \A t \in Tiles(call), k \in 1..2 :
        call.group > 1 /\ ~(Sends(t) /\ OutputOver(cta[t], k)) => ~Given(t, OutputCell(t, k), Hb(t))
SentOnce == AddsDiffer /\ NotAddedYet /\ PartsNotGiven /\ OutputsNotGiven

LEMMA OneWriterNext == Inv' => OneWriter'
<1>1. Inv => OneWriter
  BY InvOneWriter
<1> QED
  BY <1>1, PTL

LEMMA CtaKeepsOnce ==
    ASSUME Inv, SentOnce, Inv', UNCHANGED <<call, work, added>>, NEW t \in Tiles(call),
           \A u \in Tiles(call) : u # t => cta'[u] = cta[u],
           \A b \in bulk' : b \in bulk \/ (b.tile = t /\ ~Given(t, b.cell, Who(b))),
           \A a, b \in bulk' : a \in bulk \/ b \in bulk \/ a = b,
           \A i \in DOMAIN Rows(t), stage \in 0..(call.stages - 1) :
               ~Rows(t)[i].oob /\ ~PartOver(cta'[t], i, stage) =>
                   /\ ~PartOver(cta[t], i, stage)
                   /\ \A b \in bulk' : b.cell = PartCell(t, i, stage) => b \in bulk,
           \A k \in 1..2 :
               call.group > 1 /\ ~(Sends(t)' /\ OutputOver(cta'[t], k)) =>
                   /\ ~(Sends(t) /\ OutputOver(cta[t], k))
                   /\ \A b \in bulk' : b.cell = OutputCell(t, k) => b \in bulk
    PROVE  SentOnce'
<1>1. /\ Tiles(call)' = Tiles(call)
      /\ \A u : /\ Rows(u)' = Rows(u) /\ Hb(u)' = Hb(u) /\ N(u)' = N(u)
                /\ \A i, stage : PartCell(u, i, stage)' = PartCell(u, i, stage)
                /\ \A k : OutputCell(u, k)' = OutputCell(u, k)
  BY SameNames
<1>2. OneWriter'
  BY OneWriterNext
<1>3. AddsDiffer'
  <2>1. ASSUME NEW a \in bulk', NEW b \in bulk, b \in bulk', a.cell = b.cell PROVE a = b
    <3>1. CASE a \in bulk
      BY <2>1, <3>1 DEF SentOnce, AddsDiffer
    <3>2. CASE a \notin bulk
      <4>1. a.tile = t /\ ~Given(t, a.cell, Who(a)) /\ b.tile = t
        BY <1>2, <2>1, <3>2 DEF OneWriter
      <4> QED
        BY <2>1, <4>1 DEF Given
    <3> QED
      BY <3>1, <3>2
  <2> QED
    BY <2>1 DEF AddsDiffer
<1>4. NotAddedYet'
  <2> SUFFICES ASSUME NEW b \in bulk' PROVE Who(b) \notin Range(added[b.cell])
    BY <1>1 DEF NotAddedYet, Who, Range
  <2>1. CASE b \in bulk
    BY <2>1 DEF SentOnce, NotAddedYet
  <2>2. CASE b \notin bulk
    <3>1. ~Given(t, b.cell, Who(b))
      BY <2>2
    <3> QED
      BY <3>1 DEF Given
  <2> QED
    BY <2>1, <2>2
<1>5. ASSUME NEW u \in Tiles(call), NEW cell, NEW who, ~Given(u, cell, who),
             \A b \in bulk' : u = t /\ b.cell = cell => b \in bulk
      PROVE  ~Given(u, cell, who)'
  <2>1. who \notin Range(added[cell])
    BY <1>5 DEF Given
  <2>2. ~\E b \in bulk' : b.tile = u /\ b.cell = cell
    BY <1>5 DEF Given
  <2> QED
    BY <2>1, <2>2 DEF Given, Range
<1>6. PartsNotGiven'
  <2> SUFFICES ASSUME NEW u \in Tiles(call), NEW i \in DOMAIN Rows(u), NEW stage \in 0..(call.stages - 1),
                      ~Rows(u)[i].oob, ~PartOver(cta'[u], i, stage),
                      NEW cell, cell = PartCell(u, i, stage), NEW who, who = N(u)
               PROVE  ~Given(u, cell, who)'
    BY <1>1 DEF PartsNotGiven, Given
  <2>1. ~PartOver(cta[u], i, stage)
    OBVIOUS
  <2>2. ~Given(u, cell, who)
    BY <2>1 DEF SentOnce, PartsNotGiven
  <2>3. \A b \in bulk' : u = t /\ b.cell = cell => b \in bulk
    OBVIOUS
  <2> QED
    BY <1>5, <2>2, <2>3
<1>7. OutputsNotGiven'
  <2> SUFFICES ASSUME NEW u \in Tiles(call), NEW k \in 1..2, call.group > 1,
                      ~(Sends(u)' /\ OutputOver(cta'[u], k)),
                      NEW cell, cell = OutputCell(u, k), NEW who, who = Hb(u)
               PROVE  ~Given(u, cell, who)'
    BY <1>1 DEF OutputsNotGiven, Given
  <2>1. ~(Sends(u) /\ OutputOver(cta[u], k))
    BY DEF Sends, At
  <2>2. ~Given(u, cell, who)
    BY <2>1 DEF SentOnce, OutputsNotGiven
  <2>3. \A b \in bulk' : u = t /\ b.cell = cell => b \in bulk
    OBVIOUS
  <2> QED
    BY <1>5, <2>2, <2>3
<1> QED
  BY <1>3, <1>4, <1>6, <1>7 DEF SentOnce

\* What is over stays over.
LEMMA PartsGoOn ==
    ASSUME Inv, NEW t \in Tiles(call), Step(t), NEW i \in DOMAIN Rows(t), NEW stage \in 0..(call.stages - 1),
           PartOver(cta[t], i, stage)
    PROVE  PartOver(cta'[t], i, stage)
<1> DEFINE p == cta[t]   q == cta'[t]   len == Len(Rows(t))
<1>1. Types /\ Fixed /\ p \in CtaRecord
  BY DEF Inv, Types
<1>2. p.i \in Nat /\ p.stage \in Nat /\ len \in Nat /\ i \in 1..len /\ stage \in Int
  BY <1>1, RowFacts DEF CtaRecord
<1>3. CASE AddPart(t) \/ SkipPart(t)
  <2>1. p.at = "add" /\ q.at = "settle" /\ q.i = p.i /\ q.stage = p.stage
    BY <1>1, <1>3, GotoOK DEF AddPart, SkipPart, At
  <2> HIDE DEF p, q
  <2>2. PartOver(p, i, stage)
    BY DEF p
  <2>3. PartOver(q, i, stage)
    BY <1>2, <2>1, <2>2 DEF PartOver
  <2> QED
    BY <2>3 DEF q
<1>4. CASE SettlePart(t)
  <2>1. p.at = "settle" /\ ToNextPart(p, q, len)
    BY <1>1, <1>4, NextPartOK DEF SettlePart, At
  <2> HIDE DEF p, q, len
  <2>2. PartOver(p, i, stage)
    BY DEF p
  <2>3. PartOver(q, i, stage)
    BY <1>2, <2>1, <2>2 DEF PartOver, ToNextPart, ToNextRow
  <2> QED
    BY <2>3 DEF q
<1>5. CASE EndRow(t)
  <2>1. p.at = "row" /\ ToNextRow(p, q, len)
    BY <1>1, <1>5, NextRowOK DEF EndRow, At
  <2> HIDE DEF p, q, len
  <2>2. PartOver(p, i, stage)
    BY DEF p
  <2>3. PartOver(q, i, stage)
    BY <1>2, <2>1, <2>2 DEF PartOver, ToNextRow
  <2> QED
    BY <2>3 DEF q
<1>6. CASE EndRows(t)
  <2> PICK where : where = IF SkippedRows(t) = {} THEN "done" ELSE "skip"
    OBVIOUS
  <2>1. Goto(t, where) /\ where \in {"settle", "row", "end", "skip", "done"} /\ where \in {"skip", "done"}
    BY <1>6 DEF EndRows
  <2>2. q.at = where
    BY <1>1, <2>1, GotoOK
  <2> QED
    BY <2>1, <2>2 DEF PartOver
<1>7. CASE SkipRow(t)
  <2> DEFINE k == p.skipped + 1
             where == IF work[t].mMax + p.skipped + 1 = RowBlocks(call) THEN "done" ELSE "skip"
             new == [p EXCEPT !.skipped = k, !.at = where]
  <2>1. cta' = [cta EXCEPT ![t] = new]
    BY <1>7 DEF SkipRow
  <2>2. k \in Nat /\ where \in {"skip", "done"}
    BY <1>1 DEF CtaRecord
  <2> HIDE DEF p, k, where
  <2>3. new \in CtaRecord /\ new.at = where
    BY <1>1, <2>2 DEF CtaRecord, p
  <2> HIDE DEF new
  <2>4. cta'[t].at = where
    BY <1>1, <2>1, <2>3, RecordMoves
  <2> QED
    BY <2>2, <2>4 DEF PartOver
<1> QED
  BY <1>3, <1>4, <1>5, <1>6, <1>7 DEF Step

LEMMA PartPlaces ==
    ASSUME Fixed, NEW t \in Tiles(call), NEW i \in DOMAIN Rows(t), ~Rows(t)[i].oob,
           NEW stage \in 0..(call.stages - 1)
    PROVE  PartCell(t, i, stage) \in Cells(call) /\ PartCell(t, i, stage)[1] = "Q"
<1>1. Hb(t) \in 0..(call.hbs - 1) /\ Rows(t)[i].m \in 0..(RowBlocks(call) - 1)
  BY RowFacts, RowOK
<1> QED
  BY <1>1, RowPlaces DEF PartCell, QCell

LEMMA OutputCells ==
    ASSUME Fixed, NEW t \in Tiles(call), NEW k \in 1..2, call.group > 1
    PROVE  /\ OutputCell(t, k) \in Cells(call) /\ OutputCell(t, k)[1] # "Q"
           /\ OutputCell(t, k)[1] = OutputOrder(call)[k]
<1>1. OutputOrder(call)[k] \in {"K", "V"} /\ OutputOrder(call)[k] \in Outputs(call)
  BY DEF OutputOrder, Outputs
<1>2. Hb(t) \in 0..(call.hbs - 1) /\ N(t) \in 0..(NumBlock(call) - 1) /\ IsCall(call)
  BY RowFacts DEF Fixed
<1>3. OutputCell(t, k)[1] = OutputOrder(call)[k]
  BY DEF OutputCell, KvCell
<1> QED
  BY <1>1, <1>2, <1>3, OutputPlaces DEF OutputCell

LEMMA AddPartOnce == ASSUME Inv, SentOnce, Inv', NEW t \in Tiles(call), AddPart(t) PROVE SentOnce'
<1> DEFINE p == cta[t]   q == cta'[t]
           new == [tile |-> t, cell |-> QCell(Hb(t), Row(t).m, p.stage), seq |-> p.copied]
<1>1. p.at = "add" /\ ~Row(t).oob /\ UNCHANGED <<call, work, added>> /\ bulk' = bulk \cup {new}
  BY DEF AddPart, At
<1>2. OnlyRows(t) /\ q.at = "settle" /\ q.i = p.i /\ q.stage = p.stage
  BY GotoOK DEF AddPart, Inv
<1>3. /\ p \in CtaRecord /\ Row(t) = Rows(t)[p.i] /\ DOMAIN Rows(t) = 1..Len(Rows(t))
      /\ Len(Rows(t)) \in Nat /\ p.i \in DOMAIN Rows(t) /\ p.stage \in 0..(call.stages - 1)
  BY <1>1, AtRow
<1>4. Fixed /\ p.i \in Nat /\ p.stage \in Nat
  BY <1>3 DEF CtaRecord, Inv
<1>5. new.tile = t /\ new.cell = PartCell(t, p.i, p.stage)
  BY <1>3 DEF PartCell
<1>6. new.cell[1] = "Q" /\ Who(new) = N(t)
  BY <1>1, <1>3, <1>4, <1>5, PartPlaces DEF Who
<1> HIDE DEF new, p, q
<1>7. ~Given(t, new.cell, Who(new))
  <2>1. ~PartOver(p, p.i, p.stage)
    BY <1>1, <1>4 DEF PartOver
  <2>2. ~Given(t, PartCell(t, p.i, p.stage), N(t))
    BY <1>1, <1>3, <2>1 DEF SentOnce, PartsNotGiven, p
  <2> QED
    BY <1>5, <1>6, <2>2
<1>8. ASSUME NEW i \in DOMAIN Rows(t), NEW stage \in 0..(call.stages - 1), ~Rows(t)[i].oob,
             ~PartOver(q, i, stage)
      PROVE  ~PartOver(p, i, stage) /\ PartCell(t, i, stage) # new.cell
  <2>1. ~PartOver(p, i, stage) /\ ~(i = p.i /\ stage = p.stage)
    BY <1>1, <1>2, <1>3, <1>4, <1>8 DEF PartOver
  <2>2. ASSUME PartCell(t, i, stage) = PartCell(t, p.i, p.stage) PROVE FALSE
    <3>1. Rows(t)[i].m = Rows(t)[p.i].m /\ stage = p.stage
      BY <2>2 DEF PartCell, QCell
    <3>2. i = p.i
      BY <1>3, <1>4, <3>1, RowsDiffer
    <3> QED
      BY <2>1, <3>1, <3>2
  <2> QED
    BY <1>5, <2>1, <2>2
<1>9. ASSUME NEW k \in 1..2, call.group > 1, ~(Sends(t)' /\ OutputOver(q, k))
      PROVE  ~(Sends(t) /\ OutputOver(p, k)) /\ OutputCell(t, k) # new.cell
  <2>1. OutputCell(t, k) # new.cell
    BY <1>4, <1>6, <1>9, OutputCells
  <2>2. OutputOver(q, k) <=> OutputOver(p, k)
    BY <1>2 DEF OnlyRows, OutputOver, p, q
  <2>3. Sends(t)' <=> Sends(t)
    BY <1>1, <1>2 DEF Sends, At, p, q
  <2> QED
    BY <1>9, <2>1, <2>2, <2>3
<1>10. \A b \in bulk' : b \in bulk \/ b = new
  BY <1>1
<1> QED
  BY <1>1, <1>2, <1>5, <1>7, <1>8, <1>9, <1>10, CtaKeepsOnce DEF OnlyRows, p, q

LEMMA RowsKeepOnce ==
    ASSUME Inv, SentOnce, Inv', NEW t \in Tiles(call), Step(t), ~AddPart(t) PROVE SentOnce'
<1>1. /\ OnlyRows(t) /\ UNCHANGED <<call, work, added>> /\ cta[t].at # "idle" /\ cta'[t].at # "idle"
      /\ bulk' = bulk
  BY StepMoves
<1>2. \A i \in DOMAIN Rows(t), stage \in 0..(call.stages - 1) :
          PartOver(cta[t], i, stage) => PartOver(cta'[t], i, stage)
  BY PartsGoOn
<1>3. \A k : OutputOver(cta'[t], k) <=> OutputOver(cta[t], k)
  BY <1>1 DEF OnlyRows, OutputOver
<1>4. Sends(t)' <=> Sends(t)
  BY <1>1 DEF Sends, At
<1> QED
  BY <1>1, <1>2, <1>3, <1>4, CtaKeepsOnce DEF OnlyRows

LEMMA StoreGradientOnce ==
    ASSUME Inv, OutputLines, SentOnce, Inv', NEW t \in Tiles(call), StoreGradient(t) PROVE SentOnce'
<1> DEFINE p == cta[t]   q == cta'[t]   k == p.out
           new == [tile |-> t, cell |-> KvCell(Output(t), Hb(t), N(t)), seq |-> 0]
<1>1. /\ p.ep = "wait" /\ p.at # "idle" /\ UNCHANGED <<call, work, added>> /\ bulk' = bulk \cup {new}
  BY DEF StoreGradient, At
<1>2. OnlyOutput(t) /\ q.ep = "sent" /\ q.out = p.out
  BY StoreMoves
<1>3. q.at = p.at /\ (\A u \in Tiles(call) : u # t => cta'[u] = cta[u])
      /\ \A i, stage : PartOver(q, i, stage) <=> PartOver(p, i, stage)
  BY <1>2 DEF OnlyOutput, PartOver
<1>4. Fixed /\ Sends(t) /\ work[t].sends /\ call.group > 1 /\ k \in 1..2
  BY <1>1 DEF Sends, At, OutputLines, WaitsWithRows, Inv, Shape, ShapeOf, Types, CtaRecord
<1>5. new.tile = t /\ new.cell = OutputCell(t, k)
  BY DEF OutputCell, Output
<1> HIDE DEF new, p, q, k
<1>6. new.cell[1] # "Q" /\ Who(new) = Hb(t)
  BY <1>4, <1>5, OutputCells DEF Who
<1>7. ~OutputOver(p, k)
  BY <1>1, <1>4 DEF OutputOver, k
<1>8. ~Given(t, new.cell, Who(new))
  BY <1>4, <1>5, <1>6, <1>7 DEF SentOnce, OutputsNotGiven, p
<1>9. ASSUME NEW i \in DOMAIN Rows(t), NEW stage \in 0..(call.stages - 1), ~Rows(t)[i].oob
      PROVE  PartCell(t, i, stage) # new.cell
  BY <1>4, <1>6, <1>9, PartPlaces
<1>10. ASSUME NEW j \in 1..2, ~(Sends(t)' /\ OutputOver(q, j))
       PROVE  ~(Sends(t) /\ OutputOver(p, j)) /\ OutputCell(t, j) # new.cell
  <2>1. Sends(t)'
    BY <1>1, <1>3, <1>4 DEF Sends, At, p, q
  <2>2. ~OutputOver(p, j) /\ j # k
    BY <1>1, <1>2, <1>10, <2>1 DEF OutputOver, k
  <2>3. OutputOrder(call)[j] # OutputOrder(call)[k]
    BY <1>4, <2>2 DEF OutputOrder
  <2> QED
    BY <1>4, <1>5, <2>2, <2>3, OutputCells
<1>11. \A b \in bulk' : b \in bulk \/ b = new
  BY <1>1
<1> QED
  BY <1>1, <1>3, <1>5, <1>8, <1>9, <1>10, <1>11, CtaKeepsOnce DEF p, q

LEMMA EndGradientOnce ==
    ASSUME Inv, OutputLines, SentOnce, Inv', NEW t \in Tiles(call), EndGradient(t) PROVE SentOnce'
<1> DEFINE p == cta[t]   q == cta'[t]
<1>1. p.ep = "sent" /\ UNCHANGED <<call, work, added>> /\ bulk' = bulk
  BY DEF EndGradient
<1>2. /\ OnlyOutput(t) /\ q.out = Smaller(p.out + 1, 2) /\ q.ep = IF p.out = 2 THEN "done" ELSE "wait"
  BY EndMoves
<1>3. q.at = p.at /\ (\A u \in Tiles(call) : u # t => cta'[u] = cta[u])
      /\ \A i, stage : PartOver(q, i, stage) <=> PartOver(p, i, stage)
  BY <1>2 DEF OnlyOutput, PartOver
<1>4. p.out \in {1, 2} /\ (Sends(t)' <=> Sends(t))
  BY <1>1, <1>3 DEF Sends, At, Inv, Types, CtaRecord
<1> HIDE DEF p, q
<1>5. \A k \in 1..2 : OutputOver(p, k) => OutputOver(q, k)
  <2>1. CASE p.out = 1
    BY <1>1, <1>2, <2>1 DEF OutputOver, Smaller
  <2>2. CASE p.out = 2
    BY <1>1, <1>2, <2>2 DEF OutputOver
  <2> QED
    BY <1>4, <2>1, <2>2
<1> QED
  BY <1>1, <1>3, <1>4, <1>5, CtaKeepsOnce DEF p, q

LEMMA LaunchOnce == ASSUME Inv, SentOnce, Inv', NEW t \in Tiles(call), Launch(t) PROVE SentOnce'
<1>1. /\ UNCHANGED <<call, work, bulk, added>> /\ \A u \in Tiles(call) : u # t => cta'[u] = cta[u]
      /\ cta[t].at = "idle"
  BY LaunchMoves
<1>2. \A i, stage : ~PartOver(cta[t], i, stage)
  BY <1>1 DEF PartOver
<1>3. ~Sends(t)
  BY <1>1 DEF Sends, At
<1> QED
  BY <1>1, <1>2, <1>3, CtaKeepsOnce

LEMMA RangeAppend ==
    ASSUME NEW s \in Seq(Int), NEW w \in Int
    PROVE  Range(Append(s, w)) = Range(s) \cup {w}
<1> DEFINE r == Append(s, w)
<1>1. r \in Seq(Int) /\ Len(s) \in Nat /\ DOMAIN s = 1..Len(s) /\ DOMAIN r = 1..(Len(s) + 1)
  OBVIOUS
<1>2. r[Len(s) + 1] = w /\ \A i \in DOMAIN s : r[i] = s[i]
  OBVIOUS
<1> HIDE DEF r
<1>3. DOMAIN r = DOMAIN s \cup {Len(s) + 1}
  BY <1>1
<1>4. Range(r) = Range(s) \cup {w}
  BY <1>2, <1>3 DEF Range
<1> QED
  BY <1>4 DEF r

\* What arrives at its accumulator is its CTA's block of keys, or its head.
LEMMA Arrives ==
    ASSUME Inv, Gains, NEW b \in bulk, Land(b)
    PROVE  /\ b.tile \in Tiles(call) /\ b.cell \in Cells(call) /\ Who(b) \in Int
           /\ UNCHANGED <<call, work, order, cta, sem>> /\ bulk' = bulk \ {b}
           /\ added' = [added EXCEPT ![b.cell] = Append(@, Who(b))]
           /\ added'[b.cell] = Append(added[b.cell], Who(b)) /\ added[b.cell] \in Seq(Int)
           /\ \A x \in Cells(call) : x # b.cell => added'[x] = added[x]
           /\ b.cell[1] = "Q" => b.cell[2] = Hb(b.tile)
           /\ b.cell[1] # "Q" => b.cell[3] = N(b.tile)
<1>1. UNCHANGED <<call, work, order, cta, sem>> /\ bulk' = bulk \ {b}
  BY DEF Land
<1>2. b.tile \in Tiles(call) /\ b.cell \in Cells(call)
  BY DEF Inv, Types
<1>3. added' = [added EXCEPT ![b.cell] = Append(@, Who(b))]
  BY DEF Land, Gains, Fresh, Who
<1>4. Who(b) \in Int
  BY <1>2, RowFacts DEF Inv, Who
<1>5. added \in [Cells(call) -> Seq(Int)]
  BY DEF Gains
<1>6. b.cell[1] = "Q" => b.cell[2] = Hb(b.tile)
  BY DEF Inv, RowAdds, RowAddOK, QCell
<1>7. b.cell[1] # "Q" => b.cell[3] = N(b.tile)
  BY DEF Inv, OutputAdds, KvCell
<1> QED
  BY <1>1, <1>2, <1>3, <1>4, <1>5, <1>6, <1>7

LEMMA NamesTell ==
    ASSUME Fixed, NEW t \in Tiles(call), NEW u \in Tiles(call), Hb(t) = Hb(u), N(t) = N(u)
    PROVE  t = u
BY RowFacts, TilesDiffer DEF Fixed

LEMMA LandOnce == ASSUME Inv, Gains, SentOnce, NEW b \in bulk, Land(b) PROVE SentOnce'
<1> DEFINE t == b.tile   x == b.cell   w == Who(b)
<1>1. /\ t \in Tiles(call) /\ x \in Cells(call) /\ w \in Int
      /\ UNCHANGED <<call, work, cta>> /\ bulk' = bulk \ {b}
      /\ added'[x] = Append(added[x], w) /\ added[x] \in Seq(Int)
      /\ \A y \in Cells(call) : y # x => added'[y] = added[y]
      /\ x[1] = "Q" => x[2] = Hb(t)
      /\ x[1] # "Q" => x[3] = N(t)
  BY Arrives
<1>2. /\ Tiles(call)' = Tiles(call)
      /\ \A u : /\ Rows(u)' = Rows(u) /\ Hb(u)' = Hb(u) /\ N(u)' = N(u)
                /\ \A i, stage : PartCell(u, i, stage)' = PartCell(u, i, stage)
                /\ \A k : OutputCell(u, k)' = OutputCell(u, k)
  BY <1>1, SameNames
<1>3. Range(added'[x]) = Range(added[x]) \cup {w}
  BY <1>1, RangeAppend
<1>4. w = (IF x[1] = "Q" THEN N(t) ELSE Hb(t)) /\ Fixed
  BY DEF Who, Inv
<1> HIDE DEF t, x, w
<1>5. AddsDiffer'
  BY <1>1 DEF SentOnce, AddsDiffer
<1>6. NotAddedYet'
  <2> SUFFICES ASSUME NEW a \in bulk, a # b PROVE Who(a) \notin Range(added'[a.cell])
    BY <1>1, <1>2 DEF NotAddedYet, Who, Range
  <2>1. a.cell # x /\ a.cell \in Cells(call)
    BY DEF SentOnce, AddsDiffer, Inv, Types, x
  <2>2. Who(a) \notin Range(added[a.cell])
    BY DEF SentOnce, NotAddedYet
  <2> QED
    BY <1>1, <2>1, <2>2
<1>7. ASSUME NEW u \in Tiles(call), NEW cell \in Cells(call), NEW who, ~Given(u, cell, who),
             cell = x => who # w
      PROVE  ~Given(u, cell, who)'
  <2>1. who \notin Range(added[cell]) /\ ~\E a \in bulk : a.tile = u /\ a.cell = cell
    BY <1>7 DEF Given
  <2>2. ~\E a \in bulk' : a.tile = u /\ a.cell = cell
    BY <1>1, <2>1
  <2>3. who \notin Range(added'[cell])
    BY <1>1, <1>3, <1>7, <2>1
  <2> QED
    BY <2>2, <2>3 DEF Given, Range
<1>8. PartsNotGiven'
  <2> SUFFICES ASSUME NEW u \in Tiles(call), NEW i \in DOMAIN Rows(u), NEW stage \in 0..(call.stages - 1),
                      ~Rows(u)[i].oob, ~PartOver(cta[u], i, stage),
                      NEW cell, cell = PartCell(u, i, stage), NEW who, who = N(u)
               PROVE  ~Given(u, cell, who)'
    BY <1>1, <1>2 DEF PartsNotGiven, Given
  <2>1. cell \in Cells(call) /\ cell[1] = "Q" /\ cell[2] = Hb(u)
    BY <1>4, PartPlaces DEF PartCell, QCell
  <2>2. ~Given(u, cell, who)
    BY DEF SentOnce, PartsNotGiven
  <2>3. cell = x => who # w
    <3> SUFFICES ASSUME cell = x, who = w PROVE FALSE
      OBVIOUS
    <3>1. u = t
      BY <1>1, <1>4, <2>1, NamesTell
    <3> QED
      BY <2>2, <3>1 DEF Given, t, x
  <2> QED
    BY <1>7, <2>1, <2>2, <2>3
<1>9. OutputsNotGiven'
  <2> SUFFICES ASSUME NEW u \in Tiles(call), NEW k \in 1..2, call.group > 1,
                      ~(Sends(u) /\ OutputOver(cta[u], k)),
                      NEW cell, cell = OutputCell(u, k), NEW who, who = Hb(u)
               PROVE  ~Given(u, cell, who)'
    BY <1>1, <1>2 DEF OutputsNotGiven, Given, Sends, At
  <2>1. cell \in Cells(call) /\ cell[1] # "Q" /\ cell[3] = N(u)
    BY <1>4, OutputCells DEF OutputCell, KvCell
  <2>2. ~Given(u, cell, who)
    BY DEF SentOnce, OutputsNotGiven
  <2>3. cell = x => who # w
    <3> SUFFICES ASSUME cell = x, who = w PROVE FALSE
      OBVIOUS
    <3>1. u = t
      BY <1>1, <1>4, <2>1, NamesTell
    <3> QED
      BY <2>2, <3>1 DEF Given, t, x
  <2> QED
    BY <1>7, <2>1, <2>2, <2>3
<1> QED
  BY <1>5, <1>6, <1>8, <1>9 DEF SentOnce

LEMMA QuietOnce == ASSUME SentOnce, UNCHANGED <<call, work, cta, bulk, added>> PROVE SentOnce'
<1>1. /\ Tiles(call)' = Tiles(call)
      /\ \A u : /\ Rows(u)' = Rows(u) /\ Hb(u)' = Hb(u) /\ N(u)' = N(u)
                /\ \A i, stage : PartCell(u, i, stage)' = PartCell(u, i, stage)
                /\ \A k : OutputCell(u, k)' = OutputCell(u, k)
  BY SameNames
<1>2. AddsDiffer' /\ NotAddedYet'
  BY <1>1 DEF SentOnce, AddsDiffer, NotAddedYet, Who, Range
<1>3. PartsNotGiven'
  BY <1>1 DEF SentOnce, PartsNotGiven, Given, Range
<1>4. OutputsNotGiven'
  BY <1>1 DEF SentOnce, OutputsNotGiven, Given, Range, Sends, At
<1> QED
  BY <1>2, <1>3, <1>4 DEF SentOnce

LEMMA OnceInit == ASSUME Init PROVE SentOnce
<1>1. bulk = {} /\ added = [x \in Cells(call) |-> <<>>] /\ Fixed
  BY FixedInit DEF Init
<1>2. \A x \in Cells(call) : \A who : who \notin Range(added[x])
  BY <1>1 DEF Range
<1>3. \A u, who : \A x \in Cells(call) : ~Given(u, x, who)
  BY <1>1, <1>2 DEF Given
<1>4. PartsNotGiven /\ OutputsNotGiven
  BY <1>1, <1>3, PartPlaces, OutputCells DEF PartsNotGiven, OutputsNotGiven
<1> QED
  BY <1>1, <1>4 DEF SentOnce, AddsDiffer, NotAddedYet

LEMMA StepKeepsOnce == ASSUME Inv, Gains, OutputLines, SentOnce, [Next]_vars PROVE SentOnce'
<1>1. DOMAIN cta = Tiles(call) /\ Inv'
  BY StepKeepsInv DEF Inv, Fixed
<1>2. CASE UNCHANGED vars
  BY <1>2, QuietOnce DEF vars
<1>3. ASSUME NEW t \in Tiles(call), Launch(t) \/ Step(t) \/ EpilogueStep(t) PROVE SentOnce'
  <2>1. CASE Launch(t)
    BY <1>1, <2>1, LaunchOnce
  <2>2. CASE AddPart(t)
    BY <1>1, <2>2, AddPartOnce
  <2>3. CASE Step(t) /\ ~AddPart(t)
    BY <1>1, <2>3, RowsKeepOnce
  <2>4. CASE StoreGradient(t)
    BY <1>1, <2>4, StoreGradientOnce
  <2>5. CASE EndGradient(t)
    BY <1>1, <2>5, EndGradientOnce
  <2> QED
    BY <1>3, <2>1, <2>2, <2>3, <2>4, <2>5 DEF EpilogueStep
<1>4. ASSUME NEW b \in bulk, Land(b) PROVE SentOnce'
  BY <1>4, LandOnce
<1> QED
  BY <1>1, <1>2, <1>3, <1>4 DEF Next

-----------------------------------------------------------------------------
(* Every sum is as far as its order goes: what arrives comes next in it.   *)

SumsBegin == \A x \in Cells(call) : Begins(added[x], order[x])

\* A turn passed on at a row block is one in which all its parts were added.
LEMMA TurnAdded ==
    ASSUME Inv, NEW t \in Tiles(call), NEW i \in DOMAIN Rows(t), NEW stage \in 0..(call.stages - 1),
           Over(t, i)
    PROVE  PartOver(cta[t], i, stage)
<1> DEFINE p == cta[t]   delay == DelayRelease(call)   len == Len(Rows(t))
<1>1. p \in CtaRecord /\ i \in 1..len /\ len \in Nat
  BY RowFacts DEF Inv, Types
<1>2. p.i \in Nat /\ i \in Int
  BY <1>1 DEF CtaRecord
<1>3. TurnOver(p, delay, len, i)
  BY DEF Over
<1> HIDE DEF p, delay, len
<1>4. PartOver(p, i, stage)
  BY <1>2, <1>3 DEF TurnOver, PartOver
<1> QED
  BY <1>4 DEF p

\* If a CTA has given what it adds to x, where somebody else's add is under way, its
\* own add is not, and so is in the sum.
LEMMA GivenIsAdded ==
    ASSUME SentOnce, NEW b \in bulk, NEW u, u # b.tile, NEW who, Given(u, b.cell, who)
    PROVE  who \in Range(added[b.cell])
BY DEF SentOnce, AddsDiffer, Given

LEMMA RowsBefore ==
    ASSUME Inv, Gains, Line, SentOnce, NEW b \in bulk, b.cell[1] = "Q",
           NEW C, C = Contributors(call, b.cell[2], b.cell[3])
    PROVE  /\ Who(b) \in C /\ Who(b) \notin Range(added[b.cell])
           /\ \A y \in C : (IF call.spt THEN y > Who(b) ELSE y < Who(b)) => y \in Range(added[b.cell])
<1> DEFINE t == b.tile   x == b.cell   n == N(t)
<1>1. Fixed /\ t \in Tiles(call) /\ Who(b) = n /\ n \in Int
  BY RowFacts DEF Inv, Types, Who
<1>2. n \notin Range(added[x])
  BY <1>1 DEF SentOnce, NotAddedYet
<1>3. PICK i \in Held(t), stage \in 0..(call.stages - 1) : x = QCell(Hb(t), Rows(t)[i].m, stage)
  BY DEF Inv, RowAdds, RowAddOK
<1> DEFINE m == Rows(t)[i].m   hb == Hb(t)
<1>4. i \in DOMAIN Rows(t) /\ ~Rows(t)[i].oob /\ hb \in 0..(call.hbs - 1)
  BY <1>1, HeldOK
<1>5. x = QCell(hb, m, stage) /\ x[2] = hb /\ x[3] = m
  BY <1>3 DEF QCell
<1>6. C = Contributors(call, hb, m)
  BY <1>5
<1>7. Adds(t, m)
  BY <1>4 DEF Adds
<1>8. n \in C
  <2> HIDE DEF hb, m
  <2> QED
    BY <1>1, <1>4, <1>6, <1>7, ContributorTiles DEF hb
<1>9. ASSUME NEW y \in C, IF call.spt THEN y > n ELSE y < n PROVE y \in Range(added[x])
  <2>1. PICK u \in Tiles(call) : Hb(u) = hb /\ N(u) = y /\ Adds(u, m)
    <3> HIDE DEF hb, m
    <3> QED
      BY <1>1, <1>4, <1>6, ContributorTiles
  <2>2. u # t /\ Precedes(u, t)
    BY <1>1, <1>9, <2>1 DEF Precedes
  <2>3. u \in Ahead(t, m)
    BY <2>1, <2>2 DEF Ahead
  <2>4. GaveTurn(u, m)
    BY <1>1, <1>3, <1>4, <2>3 DEF Line, InLine
  <2>5. ~LeavesOut(u, m)
    <3> SUFFICES ASSUME LeavesOut(u, m) PROVE FALSE
      OBVIOUS
    <3>1. ~call.sparse /\ m >= work[u].mMax
      BY DEF LeavesOut, Skips
    <3>2. PICK j \in DOMAIN Rows(u) : Rows(u)[j].m = m
      BY <2>1 DEF Adds
    <3>3. m < work[u].mMax /\ m \in Int /\ work[u].mMax \in Int
      BY <1>1, <3>1, <3>2, RowOK, RowFacts
    <3> HIDE DEF m
    <3> QED
      BY <3>1, <3>3
  <2>6. PICK j \in DOMAIN Rows(u) : Rows(u)[j].m = m /\ ~Rows(u)[j].oob /\ Over(u, j)
    BY <2>4, <2>5 DEF GaveTurn
  <2>7. Given(u, PartCell(u, j, stage), N(u))
    BY <2>6, TurnAdded DEF Gains, RowsGiven
  <2>8. PartCell(u, j, stage) = x
    BY <1>5, <2>1, <2>6 DEF PartCell
  <2>9. Given(u, x, y)
    BY <2>1, <2>7, <2>8
  <2> QED
    BY <2>2, <2>9, GivenIsAdded
<1> QED
  BY <1>1, <1>2, <1>8, <1>9

LEMMA HeadsBefore ==
    ASSUME Inv, Gains, OutputLines, SentOnce, NEW b \in bulk, b.cell[1] # "Q",
           NEW C, C = GroupHeads(call, b.cell[2], b.cell[3])
    PROVE  /\ Who(b) \in C /\ Who(b) \notin Range(added[b.cell])
           /\ \A y \in C : y < Who(b) => y \in Range(added[b.cell])
<1> DEFINE t == b.tile   x == b.cell   h == Hb(t)   n == N(t)   k == cta[t].out
<1>1. Fixed /\ IsCall(call) /\ t \in Tiles(call) /\ Who(b) = h /\ h \in 0..(call.hbs - 1) /\ h \in Int
      /\ n \in 0..(NumBlock(call) - 1) /\ k \in 1..2
  BY RowFacts DEF Inv, Types, Who, Fixed, CtaRecord
<1>2. h \notin Range(added[x])
  BY <1>1 DEF SentOnce, NotAddedYet
<1>3. cta[t].ep = "sent" /\ x = OutputCell(t, k)
  BY DEF Inv, OutputAdds, OutputCell, Output
<1>4. x[2] = h \div call.group /\ x[3] = n
  BY <1>3 DEF OutputCell, KvCell
<1>5. Sends(t) /\ OutputOver(cta[t], k)
  BY <1>1, <1>3 DEF Sends, OutputOver, At, Inv, Shape, ShapeOf, OutputLines, WaitsWithRows
<1>6. \A u \in Tiles(call) : work[u].sends = SendsGradient(call, Hb(u), N(u))
  BY <1>1, RowFacts DEF Fixed, WorkTile
<1>7. h \in C
  BY <1>1, <1>4, <1>5, <1>6 DEF GroupHeads, Sends
<1>8. ASSUME NEW y \in C, y < h PROVE y \in Range(added[x])
  <2>1. y \in 0..(call.hbs - 1) /\ y \div call.group = h \div call.group /\ SendsGradient(call, y, n)
    BY <1>4 DEF GroupHeads
  <2>2. PICK u \in Tiles(call) : HeadBatch(call, u) = y /\ NBlockOf(call, u) = n
    BY <1>1, <2>1, TileOfBlock
  <2>3. Hb(u) = y /\ N(u) = n
    BY <1>1, <2>2, RowFacts
  <2>4. u # t
    BY <1>1, <1>8, <2>3
  <2>5. u \in HeadsAhead(t)
    BY <1>6, <1>8, <2>1, <2>3 DEF HeadsAhead
  <2>6. GaveOutput(u, k)
    BY <1>1, <1>5, <2>5 DEF OutputLines, HeadsInLine
  <2>7. Sends(u) /\ OutputOver(cta[u], k)
    BY <2>6 DEF GaveOutput, OutputOver
  <2>8. Given(u, OutputCell(u, k), Hb(u))
    BY <1>1, <2>7 DEF Gains, OutputsGiven
  <2>9. OutputCell(u, k) = x
    BY <1>3, <2>1, <2>3 DEF OutputCell, KvCell
  <2>10. Given(u, x, y)
    BY <2>3, <2>8, <2>9
  <2> QED
    BY <2>4, <2>10, GivenIsAdded
<1> QED
  BY <1>1, <1>2, <1>7, <1>8

\* What arrives comes next in its accumulator's order.
LEMMA ArrivesNext ==
    ASSUME Inv, Gains, Line, OutputLines, SentOnce, SumsBegin, NEW b \in bulk, Land(b)
    PROVE  /\ Len(added[b.cell]) < Len(order[b.cell])
           /\ order[b.cell][Len(added[b.cell]) + 1] = Who(b)
<1> DEFINE x == b.cell   s == added[x]   o == order[x]
<1>1. x \in Cells(call) /\ s \in Seq(Int)
  BY Arrives
<1>2. Begins(s, o)
  BY <1>1 DEF SumsBegin
<1>3. CASE x[1] = "Q"
  <2> PICK C : C = Contributors(call, x[2], x[3])
    OBVIOUS
  <2>1. Lists(o, C, call.spt) /\ call.spt \in BOOLEAN
    BY <1>1, <1>3, OrderLists DEF Inv, Fixed, IsCall
  <2>2. /\ Who(b) \in C /\ Who(b) \notin Range(s)
        /\ \A y \in C : (IF call.spt THEN y > Who(b) ELSE y < Who(b)) => y \in Range(s)
    BY <1>3, RowsBefore
  <2> HIDE DEF x, s, o
  <2>3. Len(s) < Len(o) /\ o[Len(s) + 1] = Who(b)
    BY <1>1, <1>2, <2>1, <2>2, NextListed
  <2> QED
    BY <2>3 DEF x, s, o
<1>4. CASE x[1] # "Q"
  <2> PICK C : C = GroupHeads(call, x[2], x[3])
    OBVIOUS
  <2> PICK down \in BOOLEAN : down = FALSE
    OBVIOUS
  <2>1. Lists(o, C, down)
    BY <1>1, <1>4, OrderLists DEF Inv
  <2>2. /\ Who(b) \in C /\ Who(b) \notin Range(s)
        /\ \A y \in C : (IF down THEN y > Who(b) ELSE y < Who(b)) => y \in Range(s)
    BY <1>4, HeadsBefore
  <2> HIDE DEF x, s, o
  <2>3. Len(s) < Len(o) /\ o[Len(s) + 1] = Who(b)
    BY <1>1, <1>2, <2>1, <2>2, NextListed
  <2> QED
    BY <2>3 DEF x, s, o
<1> QED
  BY <1>3, <1>4

LEMMA BeginsOn ==
    ASSUME NEW s \in Seq(Int), NEW o, Len(o) \in Nat, Begins(s, o), Len(s) < Len(o), NEW w \in Int,
           o[Len(s) + 1] = w
    PROVE  Begins(Append(s, w), o)
<1> DEFINE r == Append(s, w)   k == Len(s)
<1>1. k \in Nat /\ Len(r) = k + 1 /\ r[k + 1] = w /\ \A j \in 1..k : r[j] = s[j]
  OBVIOUS
<1>2. k < Len(o) /\ o[k + 1] = w /\ \A j \in 1..k : s[j] = o[j]
  BY DEF Begins
<1> HIDE DEF r, k
<1>3. Len(r) <= Len(o)
  BY <1>1, <1>2
<1>4. \A j \in 1..(k + 1) : r[j] = o[j]
  <2> TAKE j \in 1..(k + 1)
  <2>1. j \in 1..k \/ j = k + 1
    BY <1>1
  <2> QED
    BY <1>1, <1>2, <2>1
<1>5. Begins(r, o)
  BY <1>1, <1>3, <1>4 DEF Begins
<1> QED
  BY <1>5 DEF r

\* All that the steps of the kernel keep.
Ordered == Inv /\ Gains /\ Line /\ OutputLines /\ SentOnce /\ SumsBegin

\* An add that arrives is a step of OrderedSums.
LEMMA LandAdds ==
    ASSUME Ordered, NEW b \in bulk, Land(b) PROVE SumsBegin' /\ Promise!Add(b.cell)
<1>1. /\ b.cell \in Cells(call) /\ Who(b) \in Int /\ UNCHANGED <<call, order>>
      /\ added' = [added EXCEPT ![b.cell] = Append(@, Who(b))]
      /\ added'[b.cell] = Append(added[b.cell], Who(b)) /\ added[b.cell] \in Seq(Int)
      /\ \A x \in Cells(call) : x # b.cell => added'[x] = added[x]
  BY Arrives DEF Ordered
<1>2. /\ Len(added[b.cell]) < Len(order[b.cell])
      /\ order[b.cell][Len(added[b.cell]) + 1] = Who(b)
  BY ArrivesNext DEF Ordered
<1>3. Cells(call)' = Cells(call)
  BY <1>1 DEF Cells, Outputs, RowBlocks, NumBlock
<1>4. Len(order[b.cell]) \in Nat
  BY <1>1, OrderLists DEF Lists, Ordered, Inv
<1>5. Begins(added'[b.cell], order[b.cell])
  <2>1. Begins(added[b.cell], order[b.cell])
    BY <1>1 DEF Ordered, SumsBegin
  <2>2. Begins(Append(added[b.cell], Who(b)), order[b.cell])
    BY <1>1, <1>2, <1>4, <2>1, BeginsOn
  <2> QED
    BY <1>1, <2>2
<1>6. \A x \in Cells(call) : Begins(added'[x], order[x])
  BY <1>1, <1>5 DEF Ordered, SumsBegin
<1>7. SumsBegin'
  BY <1>1, <1>3, <1>6 DEF SumsBegin, Begins
<1>8. added' = [added EXCEPT ![b.cell] = Append(@, order[b.cell][Len(@) + 1])]
  BY <1>1, <1>2
<1> QED
  BY <1>1, <1>2, <1>7, <1>8 DEF Promise!Add

\* Nothing else touches an accumulator.
LEMMA OthersAddNone ==
    ASSUME Inv, NEW t \in Tiles(call), Launch(t) \/ Step(t) \/ EpilogueStep(t)
    PROVE  UNCHANGED <<call, order, added>>
BY StepMoves DEF Launch, EpilogueStep, StoreGradient, EndGradient

LEMMA SumsStay == ASSUME SumsBegin, UNCHANGED <<call, order, added>> PROVE SumsBegin'
BY DEF SumsBegin, Begins, Cells, Outputs, RowBlocks, NumBlock

LEMMA OrderedInit == ASSUME Init PROVE Ordered /\ Promise!Init
<1>1. Inv /\ Gains /\ Line /\ OutputLines /\ SentOnce
  BY InitInv, GainsInit, LineInit, HeadsInit, OnceInit
<1>2. added = [x \in Cells(call) |-> <<>>] /\ DOMAIN order = Cells(call)
  BY DEF Init
<1>3. \A x \in Cells(call) : Len(order[x]) \in Nat
  BY <1>1, OrderLists DEF Lists, Inv
<1>4. SumsBegin
  BY <1>2, <1>3 DEF SumsBegin, Begins
<1> QED
  BY <1>1, <1>2, <1>4 DEF Ordered, Promise!Init

LEMMA StepKeepsOrdered ==
    ASSUME Ordered, [Next]_vars PROVE Ordered' /\ [Promise!Next]_<<order, added>>
<1>1. Inv' /\ Gains' /\ Line' /\ OutputLines' /\ SentOnce'
  BY StepKeepsInv, StepKeepsGains, StepKeepsLine, StepKeepsOutputLines, StepKeepsOnce DEF Ordered
<1>2. DOMAIN cta = Tiles(call) /\ DOMAIN order = Cells(call)
  BY DEF Ordered, Inv, Fixed
<1>3. CASE UNCHANGED vars \/ \E t \in DOMAIN cta : Launch(t) \/ Step(t) \/ EpilogueStep(t)
  <2>1. UNCHANGED <<call, order, added>>
    BY <1>2, <1>3, OthersAddNone DEF Ordered, vars
  <2>2. SumsBegin'
    BY <2>1, SumsStay DEF Ordered
  <2> QED
    BY <1>1, <2>1, <2>2 DEF Ordered
<1>4. CASE \E b \in bulk : Land(b)
  <2> PICK b \in bulk : Land(b)
    BY <1>4
  <2>1. SumsBegin' /\ Promise!Add(b.cell) /\ b.cell \in DOMAIN order
    BY <1>2, LandAdds DEF Ordered, Inv, Types
  <2> QED
    BY <1>1, <2>1 DEF Ordered, Promise!Next
<1> QED
  BY <1>3, <1>4 DEF Next

\* The safety half of ImplementsOrderedSums.  Every step of the kernel adds to no
\* accumulator of dQ, dK and dV, or adds to one what comes next in its order: for any
\* lengths, windows, block lists and tile shapes, any number of resident CTAs, at any
\* speed, and with their adds travelling in any order, a sum is rounded the same way.
THEOREM AddsInOrder == Spec => Promise!Init /\ [][Promise!Next]_<<order, added>>
<1>1. Init => Ordered /\ Promise!Init
  BY OrderedInit
<1>2. Ordered /\ [Next]_vars => Ordered' /\ [Promise!Next]_<<order, added>>
  BY StepKeepsOrdered
<1> QED
  BY <1>1, <1>2, PTL DEF Spec

LEMMA AllListed ==
    ASSUME NEW o, NEW C, NEW down \in BOOLEAN, Lists(o, C, down), NEW s \in Seq(Int), Begins(s, o),
           C \in SUBSET Range(s)
    PROVE  s = o
<1> DEFINE k == Len(s)   l == Len(o)
<1>1. o \in Seq(Int) /\ l \in Nat /\ DOMAIN o = 1..l /\ k \in Nat /\ DOMAIN s = 1..k
      /\ \A j \in 1..l : o[j] \in Int
  BY DEF Lists
<1>2. k <= l /\ \A j \in 1..k : s[j] = o[j]
  BY DEF Begins
<1> HIDE DEF k, l
<1>3. ~(k < l)
  <2> SUFFICES ASSUME k < l PROVE FALSE
    OBVIOUS
  <2> PICK i : i = k + 1
    OBVIOUS
  <2>1. i \in 1..l
    BY <1>1
  <2>2. o[i] \in C
    BY <1>1, <2>1 DEF Lists
  <2>3. PICK h \in 1..k : s[h] = o[i]
    BY <1>1, <2>2 DEF Range
  <2>4. o[h] = o[i] /\ h \in 1..l /\ h < i
    BY <1>1, <1>2, <2>1, <2>3
  <2>5. IF down THEN o[h] > o[i] ELSE o[h] < o[i]
    BY <1>1, <2>1, <2>4 DEF Lists
  <2>6. o[i] \in Int
    BY <1>1, <2>1
  <2> QED
    BY <2>4, <2>5, <2>6
<1>4. k = l
  BY <1>1, <1>2, <1>3
<1>5. s = [j \in 1..k |-> s[j]] /\ o = [j \in 1..l |-> o[j]]
  BY <1>1
<1> QED
  BY <1>2, <1>4, <1>5

\* When the kernel is over every contribution is in its sum.
LEMMA AllAdded ==
    ASSUME Inv, Gains, Done, NEW x \in Cells(call)
    PROVE  IF x[1] = "Q" THEN Contributors(call, x[2], x[3]) \in SUBSET Range(added[x])
                         ELSE GroupHeads(call, x[2], x[3]) \in SUBSET Range(added[x])
<1>1. Fixed /\ IsCall(call) /\ bulk = {}
      /\ \A t \in Tiles(call) : cta[t].at = "done" /\ cta[t].ep = "done"
  BY DEF Inv, Fixed, Done, Gone
<1>2. CASE x[1] = "Q"
  <2>1. PICK hb \in 0..(call.hbs - 1), m \in 0..(RowBlocks(call) - 1), stage \in 0..(call.stages - 1) :
             x = QCell(hb, m, stage)
    BY <1>1, <1>2, CallNumbers DEF Cells, QCell, Outputs
  <2>2. ASSUME NEW y \in Contributors(call, hb, m) PROVE y \in Range(added[x])
    <3>1. PICK u \in Tiles(call) : Hb(u) = hb /\ N(u) = y /\ Adds(u, m)
      BY <1>1, ContributorTiles
    <3>2. PICK j \in DOMAIN Rows(u) : Rows(u)[j].m = m /\ ~Rows(u)[j].oob
      BY <3>1 DEF Adds
    <3>3. Given(u, PartCell(u, j, stage), N(u))
      BY <1>1, <3>2 DEF Gains, RowsGiven, PartOver
    <3> QED
      BY <1>1, <2>1, <3>1, <3>2, <3>3 DEF Given, PartCell
  <2>3. x[2] = hb /\ x[3] = m
    BY <2>1 DEF QCell
  <2> QED
    BY <1>2, <2>2, <2>3
<1>3. CASE x[1] # "Q"
  <2>1. PICK o \in Outputs(call), g \in 0..((call.hbs \div call.group) - 1),
             n \in 0..(NumBlock(call) - 1) : x = <<o, g, n, 0>>
    BY <1>3 DEF Cells
  <2>2. call.group > 1
    BY <1>1, <2>1, CallNumbers DEF Outputs
  <2>3. PICK k \in 1..2 : OutputOrder(call)[k] = o
    BY <2>1 DEF Outputs, OutputOrder
  <2>4. ASSUME NEW y \in GroupHeads(call, g, n) PROVE y \in Range(added[x])
    <3>1. y \in 0..(call.hbs - 1) /\ y \div call.group = g /\ SendsGradient(call, y, n)
      BY DEF GroupHeads
    <3>2. PICK u \in Tiles(call) : HeadBatch(call, u) = y /\ NBlockOf(call, u) = n
      BY <1>1, <3>1, TileOfBlock
    <3>3. Hb(u) = y /\ N(u) = n /\ work[u].sends
      BY <1>1, <3>1, <3>2, RowFacts DEF Fixed, WorkTile
    <3>4. Sends(u)
      BY <1>1, <2>2, <3>3 DEF Sends, At
    <3>5. Given(u, OutputCell(u, k), Hb(u))
      BY <1>1, <3>4 DEF Gains, OutputsGiven, OutputOver
    <3>6. OutputCell(u, k) = x
      BY <2>1, <2>3, <3>1, <3>3 DEF OutputCell, KvCell
    <3> QED
      BY <1>1, <3>3, <3>5, <3>6 DEF Given
  <2>5. x[2] = g /\ x[3] = n
    BY <2>1
  <2> QED
    BY <1>3, <2>4, <2>5
<1> QED
  BY <1>2, <1>3

\* The kernel is deterministic: when it is over every accumulator of dQ, dK and dV has
\* taken each of its contributions once and in the one order that the call fixes,
\* whatever the CTAs' speeds were and however many were resident.
THEOREM SumsComplete == Spec => [](Done => added = order)
<1>1. Ordered => (Done => added = order)
  <2> SUFFICES ASSUME Ordered, Done PROVE added = order
    OBVIOUS
  <2>1. added \in [Cells(call) -> Seq(Int)] /\ order = [x \in Cells(call) |-> order[x]]
    BY DEF Ordered, Gains, Inv, Fixed
  <2>2. ASSUME NEW x \in Cells(call) PROVE added[x] = order[x]
    <3>1. added[x] \in Seq(Int) /\ Begins(added[x], order[x]) /\ call.spt \in BOOLEAN
      BY <2>1 DEF Ordered, SumsBegin, Inv, Fixed, IsCall
    <3>2. CASE x[1] = "Q"
      <4> PICK C : C = Contributors(call, x[2], x[3])
        OBVIOUS
      <4>1. Lists(order[x], C, call.spt) /\ C \in SUBSET Range(added[x])
        BY <3>2, OrderLists, AllAdded DEF Ordered, Inv
      <4> QED
        BY <3>1, <4>1, AllListed
    <3>3. CASE x[1] # "Q"
      <4> PICK C : C = GroupHeads(call, x[2], x[3])
        OBVIOUS
      <4>1. Lists(order[x], C, FALSE) /\ C \in SUBSET Range(added[x])
        BY <3>3, OrderLists, AllAdded DEF Ordered, Inv
      <4> QED
        BY <3>1, <4>1, AllListed
    <3> QED
      BY <3>2, <3>3
  <2> QED
    BY <2>1, <2>2
<1>2. Init => Ordered
  BY OrderedInit
<1>3. Ordered /\ [Next]_vars => Ordered'
  BY StepKeepsOrdered
<1> QED
  BY <1>1, <1>2, <1>3, PTL DEF Spec

=============================================================================
