-------------------------- MODULE LoopItemsProofs --------------------------
(***************************************************************************)
(* Proofs about the division of a loop among threads, for any bounds, any  *)
(* step but zero, any chunk and any number of threads.                     *)
(*                                                                         *)
(* The iterations of a loop are numbered from 0; iteration x is Iter(l,x), *)
(* and Ix(l,y) is the last one not past y.  What an item or a slice covers *)
(* is an interval of numbers, so that the products with the step are dealt *)
(* with once, here, and the rest is about intervals.                       *)
(***************************************************************************)
EXTENDS Slicers, WellFoundedInduction, TLAPS

-----------------------------------------------------------------------------
\* Arithmetic

\* The larger of two numbers.
LEMMA MaxOfTwo == \A a, b \in Int : Max({a, b}) = IF a >= b THEN a ELSE b
BY DEF Max

\* The smaller of two numbers.
LEMMA MinOfTwo == \A a, b \in Int : Min({a, b}) = IF a <= b THEN a ELSE b
BY DEF Min

\* Division by a positive number.
LEMMA DivMod ==
  ASSUME NEW a \in Int, NEW d \in Nat \ {0}
  PROVE  /\ a \div d \in Int /\ a % d \in 0..(d - 1)
         /\ a = d * (a \div d) + (a % d)
OBVIOUS

\* Its result is the largest number whose product with the divisor is not above.
LEMMA DivBelow ==
  ASSUME NEW a \in Int, NEW d \in Nat \ {0}, NEW q \in Int
  PROVE  q <= a \div d <=> d * q <= a
OBVIOUS

\* Of a natural number it is a natural number.
LEMMA DivNat ==
  ASSUME NEW a \in Nat, NEW d \in Nat \ {0}
  PROVE  a \div d \in Nat
OBVIOUS

\* A number below the divisor is the remainder.
LEMMA ModIs ==
  ASSUME NEW d \in Nat \ {0}, NEW q \in Int, NEW s \in 0..(d - 1)
  PROVE  (d * q + s) % d = s
OBVIOUS

\* A number without remainder is a multiple of the divisor.
LEMMA Divides ==
  ASSUME NEW a \in Int, NEW d \in Nat \ {0}, a % d = 0
  PROVE  \E q \in Int : a = d * q
BY DivMod

\* A multiple of the divisor has no remainder.
LEMMA MultipleOf ==
  ASSUME NEW d \in Nat \ {0}, NEW q \in Int
  PROVE  (d * q) % d = 0
OBVIOUS

-----------------------------------------------------------------------------
\* The iterations of a loop, numbered

Iter(l, x) == l.lower + x * l.step
Ix(l, y) == ((y - l.lower) * Sign(l)) \div Abs(l.step)
Last(l) == Ix(l, l.upper)
Cells(l, S) == {Iter(l, x) : x \in S}

\* The step is its sign times its size.
LEMMA StepSplit ==
  ASSUME NEW l \in LoopType
  PROVE  /\ Sign(l) \in {-1, 1} /\ Abs(l.step) \in Nat \ {0}
         /\ l.step = Sign(l) * Abs(l.step) /\ Abs(l.step) = Sign(l) * l.step
         /\ l.lower \in Int /\ l.upper \in Int /\ l.step \in Int
BY DEF Sign, Abs, LoopType

\* Comparing products with the step is comparing products with its sign.
LEMMA Signed ==
  ASSUME NEW l \in LoopType, NEW x \in Int, NEW y \in Int
  PROVE  x * l.step <= y * l.step <=> x * Sign(l) <= y * Sign(l)
BY DEF LoopType, Sign

\* Iteration x is not past y if x is at most the number of y.
LEMMA IterAt ==
  ASSUME NEW l \in LoopType, NEW x \in Int, NEW y \in Int
  PROVE  /\ Iter(l, x) \in Int /\ Ix(l, y) \in Int
         /\ Iter(l, x) * Sign(l) <= y * Sign(l) <=> x <= Ix(l, y)
<1>1. (y - l.lower) * Sign(l) \in Int
  BY StepSplit
<1>2. x <= Ix(l, y) <=> Abs(l.step) * x <= (y - l.lower) * Sign(l)
  BY <1>1, DivBelow, StepSplit DEF Ix
<1>3. Ix(l, y) \in Int
  BY <1>1, DivMod, StepSplit DEF Ix
<1>4. x * l.step * Sign(l) = Abs(l.step) * x /\ x * l.step \in Int
  <2>1. CASE l.step < 0
    BY <2>1, StepSplit DEF Sign, Abs
  <2>2. CASE ~(l.step < 0)
    BY <2>2, StepSplit DEF Sign, Abs
  <2> QED
    BY <2>1, <2>2
<1>5. Iter(l, x) * Sign(l) = l.lower * Sign(l) + x * l.step * Sign(l)
  BY <1>4, StepSplit DEF Iter
<1> QED
  BY <1>2, <1>3, <1>4, <1>5, StepSplit DEF Iter

\* An iteration has its own number.
LEMMA IxOfIter ==
  ASSUME NEW l \in LoopType, NEW x \in Int
  PROVE  Ix(l, Iter(l, x)) = x
<1>1. Iter(l, x) \in Int /\ Ix(l, Iter(l, x)) \in Int
  BY ZenonT(30), IterAt
<1>2. x <= Ix(l, Iter(l, x))
  BY <1>1, IterAt, StepSplit
<1>3. ~(x + 1 <= Ix(l, Iter(l, x)))
  <2>1. Iter(l, x + 1) = Iter(l, x) + l.step
    BY StepSplit DEF Iter
  <2>2. ~(Iter(l, x + 1) * Sign(l) <= Iter(l, x) * Sign(l))
    BY <1>1, <2>1 DEF Sign, LoopType
  <2> QED
    BY <1>1, <2>2, IterAt
<1> QED
  BY <1>1, <1>2, <1>3

\* A loop that starts at iteration a of another one has its iterations from a on, up to
\* its own upper bound.
LEMMA SubLoop ==
  ASSUME NEW l \in LoopType, NEW a \in Int, NEW m \in LoopType,
         m.step = l.step, m.lower = Iter(l, a)
  PROVE  Iterations(m) = Cells(l, a..Ix(l, m.upper))
<1> DEFINE y == m.upper
<1>1. /\ m.lower = Iter(l, a) /\ m.upper = y /\ m.step = l.step /\ y \in Int
      /\ Iter(l, a) \in Int /\ Sign(m) = Sign(l)
  BY IterAt DEF LoopType, Sign
<1> HIDE DEF y
<1>2. ASSUME NEW x \in a..Ix(l, y) PROVE Iter(l, x) \in Iterations(m)
  <2>1. Iter(l, x) * Sign(l) <= y * Sign(l) /\ Iter(l, x) \in Int /\ x \in Int /\ x >= a
    BY <1>1, IterAt
  <2>2. Iter(l, a) * Sign(l) <= Iter(l, x) * Sign(l)
    BY <1>1, <2>1, IterAt, IxOfIter
  <2>3. Iter(l, x) \in Min({m.lower, y})..Max({m.lower, y})
    BY <1>1, <2>1, <2>2, MinOfTwo, MaxOfTwo, StepSplit
  <2>4. Iter(l, x) - m.lower = Abs(l.step) * ((x - a) * Sign(l)) /\ (x - a) * Sign(l) \in Int
    <3>1. CASE l.step < 0
      BY <3>1, <1>1, <2>1, StepSplit DEF Iter, Abs, Sign
    <3>2. CASE ~(l.step < 0)
      BY <3>2, <1>1, <2>1, StepSplit DEF Iter, Abs, Sign
    <3> QED
      BY <3>1, <3>2
  <2>5. (Iter(l, x) - m.lower) % Abs(m.step) = 0
    BY <1>1, <2>4, MultipleOf, StepSplit
  <2>6. Iter(l, x) * m.step <= y * m.step /\ m.lower * m.step <= Iter(l, x) * m.step
    BY <1>1, <2>1, <2>2, Signed
  <2> QED
    BY <1>1, <2>1, <2>3, <2>5, <2>6 DEF Iterations
<1>3. ASSUME NEW i \in Iterations(m) PROVE \E x \in a..Ix(l, y) : i = Iter(l, x)
  <2>1. /\ i \in Int /\ (i - m.lower) % Abs(l.step) = 0
        /\ i * l.step <= y * l.step /\ m.lower * l.step <= i * l.step
    <3>1. Min({m.lower, y}) \in Int /\ Max({m.lower, y}) \in Int
      BY <1>1, MinOfTwo, MaxOfTwo
    <3> QED
      BY <1>1, <3>1 DEF Iterations
  <2>2. i * Sign(l) <= y * Sign(l) /\ m.lower * Sign(l) <= i * Sign(l)
    BY ZenonT(30), <1>1, <2>1, Signed
  <2>3. PICK q \in Int : i - m.lower = Abs(l.step) * q
    <3>1. i - m.lower \in Int
      BY <1>1, <2>1
    <3> QED
      BY ZenonT(30), <2>1, <3>1, Divides, StepSplit
  <2>4. i = Iter(l, a + q * Sign(l)) /\ a + q * Sign(l) \in Int
    <3>1. CASE l.step < 0
      <4>1. Abs(l.step) = -l.step /\ Sign(l) = -1
        BY <3>1 DEF Abs, Sign
      <4>2. i = Iter(l, a) - l.step * q
        <5>1. (-l.step) * q = -(l.step * q) /\ l.step * q \in Int
          BY StepSplit
        <5> QED
          BY <1>1, <2>1, <2>3, <4>1, <5>1
      <4> QED
        BY <4>1, <4>2, <2>1, StepSplit DEF Iter
    <3>2. CASE ~(l.step < 0)
      <4>1. Abs(l.step) = l.step /\ Sign(l) = 1
        BY <3>2 DEF Abs, Sign
      <4>2. i = Iter(l, a) + l.step * q
        BY <1>1, <2>1, <2>3, <4>1, StepSplit
      <4> QED
        BY <4>1, <4>2, <2>1, StepSplit DEF Iter
    <3> QED
      BY <3>1, <3>2
  <2>5. a <= a + q * Sign(l) /\ a + q * Sign(l) <= Ix(l, y)
    BY <1>1, <2>1, <2>2, <2>4, IterAt, IxOfIter
  <2> QED
    BY <2>4, <2>5, IterAt
<1> QED
  BY <1>2, <1>3 DEF Cells, y

\* The iterations of the loop itself.
LEMMA WholeLoop ==
  ASSUME NEW l \in LoopType
  PROVE  Iterations(l) = Cells(l, 0..Last(l))
<1>1. Iter(l, 0) = l.lower
  BY StepSplit DEF Iter
<1> QED
  BY <1>1, SubLoop DEF Last

\* The iterations of an item that starts at iteration a.
LEMMA CoveredCells ==
  ASSUME NEW l \in LoopType, NEW a \in Int, NEW item, item.lower = Iter(l, a), item.upper \in Int
  PROVE  Covered(l, item) = Cells(l, a..Ix(l, item.upper))
<1> DEFINE m == [l EXCEPT !.lower = item.lower, !.upper = item.upper]
<1>1. m \in LoopType /\ m.step = l.step /\ m.lower = Iter(l, a) /\ m.upper = item.upper
  BY ZenonT(30), IterAt DEF LoopType
<1> HIDE DEF m
<1>2. Iterations(m) = Cells(l, a..Ix(l, item.upper))
  BY <1>1, SubLoop
<1> QED
  BY <1>2 DEF Covered, m

\* The bounds of an item that starts at iteration a are in range if it has iterations.
LEMMA RangeOf ==
  ASSUME NEW l \in LoopType, NEW a \in Int, NEW item, item.lower = Iter(l, a), item.upper \in Int
  PROVE  InRange(l, item) <=> a <= Ix(l, item.upper)
<1>1. item.lower \in Int /\ (item.lower * Sign(l) <= item.upper * Sign(l) <=> a <= Ix(l, item.upper))
  BY IterAt
<1> QED
  BY <1>1, Signed DEF InRange

\* Different numbers are different iterations.
LEMMA CellsApart ==
  ASSUME NEW l \in LoopType, NEW S \in SUBSET Int, NEW T \in SUBSET Int, S \cap T = {}
  PROVE  Cells(l, S) \cap Cells(l, T) = {}
<1>1. ASSUME NEW x \in S, NEW y \in T, Iter(l, x) = Iter(l, y) PROVE FALSE
  BY <1>1, IxOfIter
<1> QED
  BY Zenon, <1>1 DEF Cells

\* Cells of two parts of a set.
LEMMA CellsJoin ==
  ASSUME NEW l, NEW S, NEW T, NEW V, S \cup T = V
  PROVE  Cells(l, S) \cup Cells(l, T) = Cells(l, V)
BY DEF Cells

-----------------------------------------------------------------------------
\* The number of iterations, as the plugins compute it

\* Division as C has it, of and by numbers that are not negative.
LEMMA CDivOfNat ==
  ASSUME NEW a \in Nat, NEW d \in Nat \ {0}
  PROVE  CDiv(a, d) = a \div d /\ CMod(a, d) = a % d
<1>1. CDiv(a, d) = a \div d
  BY DEF CDiv, Abs
<1>2. CMod(a, d) = a - d * (a \div d)
  BY <1>1 DEF CMod
<1>3. a = d * (a \div d) + (a % d) /\ a \div d \in Int /\ a % d \in Int
  BY DivMod
<1> QED
  BY <1>1, <1>2, <1>3

\* Division as C has it, by a positive number: towards zero.
LEMMA CDivType ==
  ASSUME NEW a \in Int, NEW d \in Int \ {0}
  PROVE  CDiv(a, d) \in Int /\ CMod(a, d) \in Int
<1>1. Abs(a) \in Int /\ Abs(d) \in Nat \ {0}
  BY DEF Abs
<1>2. CDiv(a, d) \in Int
  <2>1. Abs(a) \div Abs(d) \in Int
    BY <1>1, DivMod
  <2> QED
    BY <2>1 DEF CDiv
<1> QED
  BY <1>2 DEF CMod

\* For a loop that is not empty it is the number of its iterations; for an empty one it is
\* at most one, and past its last.
LEMMA NItersIs ==
  ASSUME NEW l \in LoopType
  PROVE  /\ NIters(l) \in Int /\ Last(l) \in Int
         /\ Last(l) >= 0 => NIters(l) = Last(l) + 1
         /\ Last(l) < 0 => NIters(l) <= 1
         /\ NIters(l) >= Last(l) + 1
<1> DEFINE w == l.upper - l.lower
           z == w * Sign(l)
<1>1. w \in Int /\ z \in Int /\ Last(l) \in Int /\ Last(l) = z \div Abs(l.step)
  BY StepSplit, IterAt DEF Last, Ix
<1>2. CDiv(w, l.step) = IF z >= 0 THEN z \div Abs(l.step) ELSE -((-z) \div Abs(l.step))
  <2>1. CASE l.step < 0
    BY <2>1, <1>1, StepSplit DEF CDiv, Abs, Sign
  <2>2. CASE ~(l.step < 0)
    BY <2>2, <1>1, StepSplit DEF CDiv, Abs, Sign
  <2> QED
    BY <2>1, <2>2
<1> HIDE DEF w, z
<1>3. Last(l) >= 0 <=> z >= 0
  BY <1>1, DivBelow, StepSplit
<1>4. ASSUME z < 0 PROVE (-z) \div Abs(l.step) \in Nat
  <2>1. -z \in Int /\ -z >= 0
    BY <1>1, <1>4
  <2>2. (-z) \div Abs(l.step) \in Int
    BY <2>1, DivMod, StepSplit
  <2>3. 0 <= (-z) \div Abs(l.step)
    BY <2>1, DivBelow, StepSplit
  <2> QED
    BY <2>2, <2>3
<1>5. ASSUME z < 0 PROVE Last(l) <= -((-z) \div Abs(l.step))
  <2>1. PICK s \in Nat \ {0} : s = Abs(l.step)
    BY StepSplit
  <2>2. PICK d \in Nat : d = (-z) \div s
    BY <1>4, <1>5, <2>1
  <2>3. PICK y \in Int : y = Last(l)
    BY <1>1
  <2>4. s * d <= -z
    BY <1>1, <2>1, <2>2, DivBelow
  <2>5. s * y <= z
    BY <1>1, <2>1, <2>3, DivBelow
  <2>6. s * (y + d) <= 0
    BY <1>1, <2>4, <2>5
  <2>7. y + d <= 0
    BY <2>6
  <2> QED
    BY <2>1, <2>2, <2>3, <2>7
<1> QED
  BY <1>1, <1>2, <1>3, <1>4, <1>5 DEF NIters, w

-----------------------------------------------------------------------------
\* The chunks of dynamic and guided loops.  Chunk k starts at iteration First(kd, l, nt, k)
\* and ends before the next one, or with the loop.

First(kd, l, nt, k) ==
  IF kd = "dynamic" THEN ChunkSize(l) * k ELSE NIters(l) - GuidedLeft(l, nt)[k]

Upto(l, e) == IF e <= Last(l) THEN e ELSE Last(l)

\* A chunk is not smaller than one iteration.
LEMMA ChunkSizeIs ==
  ASSUME NEW l \in LoopType
  PROVE  ChunkSize(l) \in Nat \ {0}
BY MaxOfTwo DEF ChunkSize, LoopType

\* The end of a chunk is moved back to the end of the loop.
LEMMA Clamped ==
  ASSUME NEW l \in LoopType, NEW e \in Int
  PROVE  Clamp(l, Iter(l, e)) \in Int /\ Ix(l, Clamp(l, Iter(l, e))) = Upto(l, e)
<1>1. Iter(l, e) \in Int /\ l.upper \in Int /\ l.step \in Int /\ Ix(l, Iter(l, e)) = e
  BY IterAt, IxOfIter, StepSplit
<1>2. Iter(l, e) * l.step <= l.upper * l.step <=> e <= Last(l)
  BY ZenonT(30), <1>1, Signed, IterAt DEF Last
<1>3. CASE e <= Last(l)
  BY <1>1, <1>2, <1>3 DEF Clamp, Upto
<1>4. CASE ~(e <= Last(l))
  BY <1>1, <1>2, <1>4 DEF Clamp, Upto, Last
<1> QED
  BY <1>3, <1>4

\* A set of natural numbers has a smallest one.
LEMMA Smallest ==
  ASSUME NEW S \in SUBSET Nat, S # {}
  PROVE  Min(S) \in S /\ \A y \in S : Min(S) <= y
<1>1. PICK x \in S : \A y \in S : ~(<<y, x>> \in OpToRel(<, Nat))
  BY Zenon, NatLessThanWellFounded, WFMin
<1>2. ASSUME NEW y \in S PROVE x <= y
  <2>1. x \in Nat /\ y \in Nat
    OBVIOUS
  <2>2. y < x => <<y, x>> \in OpToRel(<, Nat)
    BY <2>1 DEF OpToRel
  <2>3. ~(y < x)
    BY Zenon, <1>1, <2>2
  <2> QED
    BY <2>1, <2>3
<1> QED
  BY ZenonT(30), <1>2 DEF Min

\* The chunks of a dynamic loop.
LEMMA DynamicChunk ==
  ASSUME NEW l \in LoopType, NEW nt, NEW k \in Nat
  PROVE  LET c == ChunkSize(l)
             item == DynamicItem(l, nt, k)
         IN /\ c * k \in Nat /\ c * (k + 1) = c * k + c
            /\ item.execute
            /\ Covered(l, item) = Cells(l, (c * k)..Upto(l, c * (k + 1) - 1))
            /\ InRange(l, item) <=> c * k <= Upto(l, c * (k + 1) - 1)
<1> DEFINE c == ChunkSize(l)
           item == DynamicItem(l, nt, k)
<1>1. c \in Nat \ {0} /\ c * k \in Nat /\ c * (k + 1) = c * k + c
  BY ChunkSizeIs
<1>2. l.lower + c * l.step * k = Iter(l, c * k)
  BY <1>1, StepSplit DEF Iter
<1>3. Iter(l, c * k) + c * l.step - l.step = Iter(l, c * (k + 1) - 1)
  BY <1>1, StepSplit DEF Iter
<1>4. item.lower = Iter(l, c * k) /\ item.upper = Clamp(l, Iter(l, c * (k + 1) - 1)) /\ item.execute
  BY <1>2, <1>3 DEF DynamicItem, Item
<1>5. c * (k + 1) - 1 \in Int
  BY <1>1
<1>6. item.upper \in Int /\ Ix(l, item.upper) = Upto(l, c * (k + 1) - 1)
  BY <1>4, <1>5, Clamped
<1>7. InRange(l, item) <=> c * k <= Upto(l, c * (k + 1) - 1)
  BY <1>1, <1>4, <1>6, RangeOf
<1> QED
  BY <1>1, <1>4, <1>6, <1>7, CoveredCells

\* Together they reach the end of the loop.
LEMMA DynamicEnd ==
  ASSUME NEW l \in LoopType, NEW nt
  PROVE  /\ DynamicChunks(l, nt) \in Int
         /\ Last(l) >= 0 => /\ DynamicChunks(l, nt) \in Nat
                            /\ ChunkSize(l) * DynamicChunks(l, nt) > Last(l)
                            /\ \A k \in Nat : k < DynamicChunks(l, nt) => ChunkSize(l) * k <= Last(l)
<1> DEFINE c == ChunkSize(l)
           t == NIters(l)
<1>1. c \in Nat \ {0} /\ t \in Int /\ Last(l) \in Int
  BY ChunkSizeIs, NItersIs
<1>2. DynamicChunks(l, nt) \in Int
  <2>1. CDiv(t, c) \in Int
    BY <1>1, CDivType
  <2> QED
    BY <2>1 DEF DynamicChunks
<1>3. ASSUME Last(l) >= 0
      PROVE  /\ DynamicChunks(l, nt) \in Nat /\ c * DynamicChunks(l, nt) > Last(l)
             /\ \A k \in Nat : k < DynamicChunks(l, nt) => c * k <= Last(l)
  <2>1. t \in Nat /\ t = Last(l) + 1
    BY <1>1, <1>3, NItersIs
  <2>2. CDiv(t, c) = t \div c /\ CMod(t, c) = t % c
    BY <1>1, <2>1, CDivOfNat
  <2>3. t \div c \in Int /\ t % c \in 0..(c - 1) /\ t = c * (t \div c) + (t % c)
    BY ZenonT(30), <1>1, <2>1, DivMod
  <2>4. 0 <= t \div c
    BY <1>1, <2>1, DivBelow
  <2>5. DynamicChunks(l, nt) = (t \div c) + IF t % c # 0 THEN 1 ELSE 0
    BY <2>2 DEF DynamicChunks
  <2> HIDE DEF c, t
  <2>6. CASE t % c = 0
    <3>1. DynamicChunks(l, nt) \in Nat /\ c * DynamicChunks(l, nt) = t
      BY <1>1, <2>1, <2>3, <2>5, <2>4, <2>6
    <3>2. ASSUME NEW k \in Nat, k < DynamicChunks(l, nt) PROVE c * k <= Last(l)
      <4>1. c * (k + 1) <= c * DynamicChunks(l, nt) /\ c * (k + 1) = c * k + c /\ c * k \in Nat
        BY <1>1, <3>1, <3>2
      <4>2. c * k + c <= Last(l) + 1
        BY Zenon, <2>1, <3>1, <4>1
      <4> QED
        BY <1>1, <4>1, <4>2
    <3> QED
      BY <1>1, <2>1, <3>1, <3>2
  <2>7. CASE t % c # 0
    <3>1. c * DynamicChunks(l, nt) = c * (t \div c) + c
      BY <1>1, <2>3, <2>5, <2>7
    <3>2. c * (t \div c) \in Int /\ DynamicChunks(l, nt) \in Nat
      BY <1>1, <2>3, <2>5, <2>4, <2>7
    <3>3. ASSUME NEW k \in Nat, k < DynamicChunks(l, nt) PROVE c * k <= Last(l)
      <4>1. k <= t \div c
        BY <2>3, <2>5, <2>7, <3>3
      <4> DEFINE A == c * k
                 B == c * (t \div c)
                 R == t % c
      <4>2. A <= B /\ A \in Nat
        BY <1>1, <2>3, <4>1
      <4>3. B \in Int /\ R \in Int /\ R > 0 /\ t = B + R
        BY <1>1, <2>3, <2>7, <3>2
      <4> HIDE DEF A, B, R
      <4>4. A <= Last(l)
        BY <1>1, <2>1, <4>2, <4>3
      <4> QED
        BY <4>4 DEF A
    <3> QED
      BY <1>1, <2>1, <2>3, <3>1, <3>2, <3>3
  <2> QED
    BY <2>6, <2>7
<1> QED
  BY <1>2, <1>3

\* A guided chunk is not smaller than one iteration.
LEMMA GuidedSizeIs ==
  ASSUME NEW l \in LoopType, NEW nt \in Nat \ {0}, NEW b \in Int
  PROVE  GuidedSize(l, nt, b) \in Nat \ {0}
<1>1. nt * GuidedFactor \in Int \ {0}
  BY DEF GuidedFactor
<1>2. CDiv(b, nt * GuidedFactor) \in Int
  BY <1>1, CDivType
<1> QED
  BY <1>2, ChunkSizeIs, MaxOfTwo DEF GuidedSize

\* What is left before the first m + 1 chunks
LeftUpto(l, nt, m) ==
  {g \in [0..m -> Int] :
     /\ g[0] = NIters(l)
     /\ \A k \in 0..(m - 1) : g[k + 1] = g[k] - GuidedSize(l, nt, g[k])}

\* There is such a function for each m.
LEMMA LeftExists ==
  ASSUME NEW l \in LoopType, NEW nt \in Nat \ {0}, NEW m \in Nat
  PROVE  LeftUpto(l, nt, m) # {}
<1> DEFINE B == {j \in Nat : LeftUpto(l, nt, j) = {}}
<1> SUFFICES ASSUME B # {} PROVE FALSE
  OBVIOUS
<1>1. Min(B) \in B /\ \A y \in B : Min(B) <= y
  BY Smallest
<1>2. PICK j \in Nat : j = Min(B) /\ LeftUpto(l, nt, j) = {} /\ \A y \in B : j <= y
  BY ZenonT(30), <1>1
<1>3. j # 0
  <2> DEFINE g == [x \in 0..0 |-> NIters(l)]
  <2>1. g \in LeftUpto(l, nt, 0)
    BY NItersIs DEF LeftUpto
  <2> QED
    BY <1>2, <2>1
<1>4. j - 1 \in Nat /\ j - 1 \notin B
  BY <1>2, <1>3
<1>5. PICK g : g \in LeftUpto(l, nt, j - 1)
  BY <1>4
<1>6. /\ g \in [0..(j - 1) -> Int] /\ g[0] = NIters(l)
      /\ \A k \in 0..(j - 2) : g[k + 1] = g[k] - GuidedSize(l, nt, g[k])
  BY <1>4, <1>5 DEF LeftUpto
<1> DEFINE h == [x \in 0..j |-> IF x = j THEN g[j - 1] - GuidedSize(l, nt, g[j - 1]) ELSE g[x]]
<1>7. h \in [0..j -> Int]
  <2>1. g[j - 1] \in Int
    BY <1>4, <1>6
  <2>2. g[j - 1] - GuidedSize(l, nt, g[j - 1]) \in Int
    BY <2>1, GuidedSizeIs
  <2>3. ASSUME NEW x \in 0..j, x # j PROVE g[x] \in Int
    BY <1>4, <1>6, <2>3
  <2> QED
    BY <2>2, <2>3
<1>8. h[0] = NIters(l)
  BY <1>3, <1>6
<1>9. ASSUME NEW k \in 0..(j - 1) PROVE h[k + 1] = h[k] - GuidedSize(l, nt, h[k])
  BY SMTT(30), <1>4, <1>6
<1>10. h \in LeftUpto(l, nt, j)
  BY ZenonT(30), <1>7, <1>8, <1>9 DEF LeftUpto
<1> QED
  BY ZenonT(30), <1>2, <1>10

\* The shorter one is the beginning of the longer one.
LEMMA LeftShorter ==
  ASSUME NEW l, NEW nt, NEW m \in Nat, NEW g \in LeftUpto(l, nt, m + 1)
  PROVE  [x \in 0..m |-> g[x]] \in LeftUpto(l, nt, m)
BY DEF LeftUpto

\* All of them end with the same number.
LEMMA LeftUnique ==
  ASSUME NEW l \in LoopType, NEW nt \in Nat \ {0}, NEW m \in Nat
  PROVE  \A g, h \in LeftUpto(l, nt, m) : g[m] = h[m]
<1> DEFINE B == {j \in Nat : ~(\A g, h \in LeftUpto(l, nt, j) : g[j] = h[j])}
<1> SUFFICES ASSUME B # {} PROVE FALSE
  OBVIOUS
<1>1. Min(B) \in B /\ \A y \in B : Min(B) <= y
  BY Smallest
<1>2. PICK j \in Nat : j = Min(B) /\ j \in B /\ \A y \in B : j <= y
  BY ZenonT(30), <1>1
<1>3. PICK g \in LeftUpto(l, nt, j), h \in LeftUpto(l, nt, j) : g[j] # h[j]
  BY ZenonT(30), <1>2
<1>4. j # 0
  BY <1>3 DEF LeftUpto
<1>5. PICK i \in Nat : j = i + 1 /\ i \notin B
  <2>1. j - 1 \in Nat /\ j = (j - 1) + 1 /\ ~(j <= j - 1)
    BY <1>2, <1>4
  <2> QED
    BY ZenonT(30), <1>2, <2>1
<1>6. g[i] = h[i]
  <2>1. /\ [x \in 0..i |-> g[x]] \in LeftUpto(l, nt, i)
        /\ [x \in 0..i |-> h[x]] \in LeftUpto(l, nt, i)
    BY <1>3, <1>5, LeftShorter
  <2>2. [x \in 0..i |-> g[x]][i] = [x \in 0..i |-> h[x]][i]
    BY <1>5, <2>1
  <2> QED
    BY <2>2
<1>7. /\ g[i + 1] = g[i] - GuidedSize(l, nt, g[i])
      /\ h[i + 1] = h[i] - GuidedSize(l, nt, h[i])
  BY <1>3, <1>5 DEF LeftUpto
<1> QED
  BY <1>3, <1>5, <1>6, <1>7

\* The recursive definition has the function it asks for.
LEMMA GuidedLeftIs ==
  ASSUME NEW l \in LoopType, NEW nt \in Nat \ {0}
  PROVE  LET left == GuidedLeft(l, nt)
         IN /\ left \in [Nat -> Int] /\ left[0] = NIters(l)
            /\ \A k \in Nat : left[k + 1] = left[k] - GuidedSize(l, nt, left[k])
<1> DEFINE f == [k \in Nat |-> (CHOOSE g \in LeftUpto(l, nt, k) : TRUE)[k]]
<1>1. ASSUME NEW k \in Nat PROVE \A g \in LeftUpto(l, nt, k) : f[k] = g[k]
  BY LeftExists, LeftUnique
<1>2. f \in [Nat -> Int]
  <2>1. ASSUME NEW k \in Nat PROVE f[k] \in Int
    <3>1. PICK g : g \in LeftUpto(l, nt, k)
      BY LeftExists
    <3>2. g \in [0..k -> Int] /\ k \in 0..k
      BY <3>1 DEF LeftUpto
    <3>3. f[k] = g[k]
      BY <1>1, <3>1
    <3> QED
      BY <3>2, <3>3
  <2> QED
    BY <2>1
<1>3. f[0] = NIters(l)
  <2>1. PICK g : g \in LeftUpto(l, nt, 0)
    BY LeftExists
  <2>2. f[0] = g[0]
    BY <1>1, <2>1
  <2> QED
    BY <2>1, <2>2 DEF LeftUpto
<1>4. ASSUME NEW k \in Nat PROVE f[k + 1] = f[k] - GuidedSize(l, nt, f[k])
  <2>1. PICK g : g \in LeftUpto(l, nt, k + 1)
    BY LeftExists
  <2>2. f[k + 1] = g[k + 1]
    BY <1>1, <2>1
  <2>3. f[k] = g[k]
    <3>1. f[k] = [x \in 0..k |-> g[x]][k]
      BY <1>1, <2>1, LeftShorter
    <3> QED
      BY <3>1
  <2> QED
    BY <2>1, <2>2, <2>3 DEF LeftUpto
<1> HIDE DEF f
<1> DEFINE Next(F) ==
      [k \in Nat |-> IF k = 0 THEN NIters(l)
                     ELSE Max({before - GuidedSize(l, nt, before) : before \in {F[k - 1]}})]
<1>5. ASSUME NEW b \in Int PROVE Max({before - GuidedSize(l, nt, before) : before \in {b}}) = b - GuidedSize(l, nt, b)
  <2>1. {before - GuidedSize(l, nt, before) : before \in {b}} = {b - GuidedSize(l, nt, b)}
    OBVIOUS
  <2>2. b - GuidedSize(l, nt, b) \in Int
    BY GuidedSizeIs
  <2> QED
    BY <2>1, <2>2 DEF Max
<1>6. f = Next(f)
  <2>1. ASSUME NEW k \in Nat PROVE f[k] = Next(f)[k]
    <3>1. CASE k = 0
      BY <1>3, <3>1
    <3>2. CASE k # 0
      <4>1. k - 1 \in Nat /\ k = (k - 1) + 1
        BY <3>2
      <4>2. f[k] = f[k - 1] - GuidedSize(l, nt, f[k - 1]) /\ f[k - 1] \in Int
        BY <1>2, <1>4, <4>1
      <4> QED
        BY <1>5, <3>2, <4>2
    <3> QED
      BY <3>1, <3>2
  <2> QED
    BY <1>2, <2>1
<1>7. ASSUME NEW F, F = Next(F) PROVE F = f
  <2> DEFINE B == {k \in Nat : F[k] # f[k]}
  <2>1. ASSUME B # {} PROVE FALSE
    <3>1. Min(B) \in B /\ \A y \in B : Min(B) <= y
      BY <2>1, Smallest
    <3>2. PICK k \in Nat : F[k] # f[k] /\ \A y \in B : k <= y
      BY <3>1
    <3>3. k # 0
      BY <1>3, <1>7, <3>2
    <3>4. k - 1 \in Nat /\ k = (k - 1) + 1 /\ ~(k <= k - 1)
      BY <3>2, <3>3
    <3>5. F[k - 1] = f[k - 1] /\ f[k - 1] \in Int
      BY <1>2, <3>2, <3>4
    <3>6. F[k] = Max({before - GuidedSize(l, nt, before) : before \in {F[k - 1]}})
      BY ZenonT(30), <1>7, <3>3
    <3>7. F[k] = f[k - 1] - GuidedSize(l, nt, f[k - 1])
      BY <1>5, <3>5, <3>6
    <3> QED
      BY <1>4, <3>2, <3>4, <3>7
  <2>2. DOMAIN F = Nat /\ F = [x \in Nat |-> F[x]]
    BY <1>7
  <2> QED
    BY <1>2, <2>1, <2>2
<1> HIDE DEF Next
<1>8. GuidedLeft(l, nt) = CHOOSE F : F = Next(F)
  BY Zenon DEF GuidedLeft, Next
<1>9. GuidedLeft(l, nt) = f
  BY Zenon, <1>6, <1>7, <1>8
<1> QED
  BY <1>2, <1>3, <1>4, <1>9

\* Each chunk of a guided loop starts after the one before it.
LEMMA GuidedFirst ==
  ASSUME NEW l \in LoopType, NEW nt \in Nat \ {0}, NEW k \in Nat
  PROVE  LET left == GuidedLeft(l, nt)
         IN left[k] \in Int /\ NIters(l) - left[k] >= k
<1> DEFINE left == GuidedLeft(l, nt)
           B == {j \in Nat : ~(NIters(l) - left[j] >= j)}
<1>1. /\ left \in [Nat -> Int] /\ left[0] = NIters(l) /\ NIters(l) \in Int
      /\ \A j \in Nat : left[j + 1] = left[j] - GuidedSize(l, nt, left[j])
  BY GuidedLeftIs, NItersIs
<1> HIDE DEF left
<1>2. ASSUME B # {} PROVE FALSE
  <2>1. Min(B) \in B /\ \A y \in B : Min(B) <= y
    BY <1>2, Smallest
  <2>2. PICK j \in Nat : ~(NIters(l) - left[j] >= j) /\ \A y \in B : j <= y
    BY <2>1
  <2>3. j # 0
    BY <1>1, <2>2
  <2>4. j - 1 \in Nat /\ j = (j - 1) + 1 /\ j - 1 \notin B
    BY <2>2, <2>3
  <2>5. NIters(l) - left[j - 1] >= j - 1 /\ left[j - 1] \in Int
    BY <1>1, <2>4
  <2>6. GuidedSize(l, nt, left[j - 1]) \in Nat \ {0}
    BY <2>5, GuidedSizeIs
  <2>7. left[j] = left[j - 1] - GuidedSize(l, nt, left[j - 1])
    BY <1>1, <2>4
  <2> QED
    BY <1>1, <2>2, <2>5, <2>6, <2>7
<1> QED
  BY <1>1, <1>2 DEF left

\* The chunks of a guided loop.
LEMMA GuidedChunk ==
  ASSUME NEW l \in LoopType, NEW nt \in Nat \ {0}, NEW k \in Nat
  PROVE  LET first(j) == NIters(l) - GuidedLeft(l, nt)[j]
             item == GuidedItem(l, nt, k)
         IN /\ first(k) \in Nat /\ first(k + 1) \in Nat /\ first(k) < first(k + 1)
            /\ item.execute
            /\ Covered(l, item) = Cells(l, first(k)..Upto(l, first(k + 1) - 1))
            /\ InRange(l, item) <=> first(k) <= Upto(l, first(k + 1) - 1)
<1> DEFINE left == GuidedLeft(l, nt)[k]
           a == NIters(l) - left
           b == NIters(l) - GuidedLeft(l, nt)[k + 1]
           s == GuidedSize(l, nt, left)
           item == GuidedItem(l, nt, k)
<1>1. left \in Int /\ a \in Nat /\ NIters(l) \in Int
  <2>1. left \in Int /\ a >= k
    BY GuidedFirst
  <2> QED
    BY <2>1, NItersIs
<1>2. s \in Nat \ {0}
  BY <1>1, GuidedSizeIs
<1>3. b = a + s
  <2>1. GuidedLeft(l, nt)[k + 1] = left - s
    BY GuidedLeftIs
  <2> QED
    BY <1>1, <1>2, <2>1
<1>4. item = Item(l.lower + a * l.step, Clamp(l, l.lower + a * l.step + s * l.step - l.step), TRUE, FALSE)
  BY DEF GuidedItem
<1> HIDE DEF left, a, b, s, item
<1>5. b \in Nat /\ a < b
  BY <1>1, <1>2, <1>3
<1>6. /\ l.lower + a * l.step = Iter(l, a)
      /\ Iter(l, a) + s * l.step - l.step = Iter(l, b - 1)
  BY <1>1, <1>2, <1>3, StepSplit DEF Iter
<1>7. item.lower = Iter(l, a) /\ item.upper = Clamp(l, Iter(l, b - 1)) /\ item.execute
  BY <1>4, <1>6 DEF Item
<1>8. item.upper \in Int /\ Ix(l, item.upper) = Upto(l, b - 1)
  BY <1>5, <1>7, Clamped
<1>9. Covered(l, item) = Cells(l, a..Upto(l, b - 1))
  BY <1>1, <1>7, <1>8, CoveredCells
<1>10. InRange(l, item) <=> a <= Upto(l, b - 1)
  BY <1>1, <1>7, <1>8, RangeOf
<1> QED
  BY Zenon, <1>1, <1>5, <1>7, <1>9, <1>10 DEF a, b, left, item

\* Together they reach the end of the loop.
LEMMA GuidedEnd ==
  ASSUME NEW l \in LoopType, NEW nt \in Nat \ {0}
  PROVE  /\ GuidedChunks(l, nt) \in Nat
         /\ NIters(l) - GuidedLeft(l, nt)[GuidedChunks(l, nt)] >= NIters(l)
         /\ \A k \in Nat : k < GuidedChunks(l, nt) => NIters(l) - GuidedLeft(l, nt)[k] < NIters(l)
<1> DEFINE left == GuidedLeft(l, nt)
           m == Max({NIters(l), 0})
           S == {k \in 0..m : left[k] <= 0}
<1>1. m \in Nat /\ m >= NIters(l) /\ NIters(l) \in Int
  BY NItersIs, MaxOfTwo
<1>2. left[m] \in Int /\ NIters(l) - left[m] >= m
  BY <1>1, GuidedFirst
<1>3. m \in S /\ S \in SUBSET Nat
  BY <1>1, <1>2
<1>4. Min(S) \in S /\ \A k \in S : Min(S) <= k
  BY <1>3, Smallest
<1>5. GuidedChunks(l, nt) \in Nat /\ left[GuidedChunks(l, nt)] <= 0
  BY <1>3, <1>4 DEF GuidedChunks
<1>6. left[GuidedChunks(l, nt)] \in Int
  BY <1>5, GuidedFirst
<1>7. ASSUME NEW k \in Nat, k < GuidedChunks(l, nt) PROVE NIters(l) - left[k] < NIters(l)
  <2>1. GuidedChunks(l, nt) = Min(S)
    BY DEF GuidedChunks
  <2>2. k \in 0..m /\ k \notin S
    BY <1>1, <1>3, <1>4, <1>7, <2>1
  <2>3. left[k] \in Int /\ ~(left[k] <= 0)
    BY <2>2, GuidedFirst
  <2> QED
    BY <1>1, <2>3
<1> QED
  BY <1>1, <1>5, <1>6, <1>7

\* Dynamic and guided chunks: each starts where the one before it ends, and the last one
\* ends with the loop.
LEMMA ChunkFacts ==
  ASSUME NEW kd \in {"dynamic", "guided"}, NEW l \in LoopType, NEW nt \in Nat \ {0}
  PROVE  /\ NumOfChunks(kd, l, nt) \in Int
         /\ First(kd, l, nt, 0) = 0
         /\ \A k \in Nat :
              /\ First(kd, l, nt, k) \in Nat /\ First(kd, l, nt, k + 1) \in Nat
              /\ First(kd, l, nt, k) < First(kd, l, nt, k + 1)
              /\ ChunkItem(kd, l, nt, k).execute
              /\ Covered(l, ChunkItem(kd, l, nt, k)) =
                   Cells(l, First(kd, l, nt, k)..Upto(l, First(kd, l, nt, k + 1) - 1))
              /\ InRange(l, ChunkItem(kd, l, nt, k)) <=>
                   First(kd, l, nt, k) <= Upto(l, First(kd, l, nt, k + 1) - 1)
         /\ Last(l) >= 0 => /\ NumOfChunks(kd, l, nt) \in Nat
                            /\ First(kd, l, nt, NumOfChunks(kd, l, nt)) > Last(l)
                            /\ \A k \in Nat : k < NumOfChunks(kd, l, nt) => First(kd, l, nt, k) <= Last(l)
<1>1. CASE kd = "dynamic"
  <2>1. ChunkSize(l) \in Nat \ {0}
    BY ChunkSizeIs
  <2>2. ASSUME NEW k \in Nat
        PROVE  /\ ChunkSize(l) * k \in Nat /\ ChunkSize(l) * (k + 1) \in Nat
               /\ ChunkSize(l) * k < ChunkSize(l) * (k + 1)
               /\ DynamicItem(l, nt, k).execute
               /\ Covered(l, DynamicItem(l, nt, k)) =
                    Cells(l, (ChunkSize(l) * k)..Upto(l, ChunkSize(l) * (k + 1) - 1))
               /\ InRange(l, DynamicItem(l, nt, k)) <=>
                    ChunkSize(l) * k <= Upto(l, ChunkSize(l) * (k + 1) - 1)
    BY <2>1, DynamicChunk
  <2>3. \A k : /\ First(kd, l, nt, k) = ChunkSize(l) * k
               /\ ChunkItem(kd, l, nt, k) = DynamicItem(l, nt, k)
    BY <1>1 DEF First, ChunkItem
  <2>4. NumOfChunks(kd, l, nt) = DynamicChunks(l, nt)
    BY <1>1 DEF NumOfChunks
  <2>5. First(kd, l, nt, 0) = 0
    BY <2>1, <2>3
  <2> QED
    BY ZenonT(30), <2>2, <2>3, <2>4, <2>5, DynamicEnd
<1>2. CASE kd = "guided"
  <2>1. \A k : /\ First(kd, l, nt, k) = NIters(l) - GuidedLeft(l, nt)[k]
               /\ ChunkItem(kd, l, nt, k) = GuidedItem(l, nt, k)
    BY <1>2 DEF First, ChunkItem
  <2>2. NumOfChunks(kd, l, nt) = GuidedChunks(l, nt)
    BY <1>2 DEF NumOfChunks
  <2>3. First(kd, l, nt, 0) = 0
    BY <2>1, GuidedLeftIs, NItersIs
  <2>4. ASSUME NEW k \in Nat
        PROVE  /\ First(kd, l, nt, k) \in Nat /\ First(kd, l, nt, k + 1) \in Nat
               /\ First(kd, l, nt, k) < First(kd, l, nt, k + 1)
               /\ ChunkItem(kd, l, nt, k).execute
               /\ Covered(l, ChunkItem(kd, l, nt, k)) =
                    Cells(l, First(kd, l, nt, k)..Upto(l, First(kd, l, nt, k + 1) - 1))
               /\ InRange(l, ChunkItem(kd, l, nt, k)) <=>
                    First(kd, l, nt, k) <= Upto(l, First(kd, l, nt, k + 1) - 1)
    <3>1. /\ First(kd, l, nt, k) = NIters(l) - GuidedLeft(l, nt)[k]
          /\ First(kd, l, nt, k + 1) = NIters(l) - GuidedLeft(l, nt)[k + 1]
          /\ ChunkItem(kd, l, nt, k) = GuidedItem(l, nt, k)
      BY Zenon, <2>1
    <3> QED
      BY Zenon, <3>1, GuidedChunk
  <2>5. NumOfChunks(kd, l, nt) \in Nat /\ First(kd, l, nt, NumOfChunks(kd, l, nt)) >= NIters(l)
    BY <2>1, <2>2, GuidedEnd
  <2>6. Last(l) >= 0 => First(kd, l, nt, NumOfChunks(kd, l, nt)) > Last(l)
    <3>1. First(kd, l, nt, NumOfChunks(kd, l, nt)) \in Nat
      BY <2>4, <2>5
    <3> QED
      BY <2>5, <3>1, NItersIs
  <2>7. ASSUME Last(l) >= 0, NEW k \in Nat, k < NumOfChunks(kd, l, nt)
        PROVE  First(kd, l, nt, k) <= Last(l)
    <3>1. First(kd, l, nt, k) < NIters(l)
      BY <2>1, <2>2, <2>7, GuidedEnd
    <3>2. First(kd, l, nt, k) \in Nat
      BY <2>4
    <3> QED
      BY <2>7, <3>1, <3>2, NItersIs
  <2> QED
    BY <2>3, <2>4, <2>5, <2>6, <2>7
<1> QED
  BY <1>1, <1>2

-----------------------------------------------------------------------------
\* Items handed out: each is a record with the field 'item'

HandedOut(l, S) == UNION {Covered(l, a.item) : a \in S}

Apart(l, S) ==
  /\ \A a \in S : Covered(l, a.item) \subseteq Iterations(l)
  /\ \A a, b \in S : a = b \/ Covered(l, a.item) \cap Covered(l, b.item) = {}

\* The items of a loop that has iterations have bounds in range.
Ranged(l, S) == Iterations(l) # {} => \A a \in S : InRange(l, a.item)

\* Handing out an item of iterations that have not been handed out.
LEMMA OneItemMore ==
  ASSUME NEW l, NEW S, NEW e, Apart(l, S),
         Covered(l, e.item) \subseteq Iterations(l), Covered(l, e.item) \cap HandedOut(l, S) = {}
  PROVE  /\ Apart(l, S \cup {e})
         /\ HandedOut(l, S \cup {e}) = HandedOut(l, S) \cup Covered(l, e.item)
<1>1. ASSUME NEW a \in S PROVE Covered(l, a.item) \subseteq HandedOut(l, S)
  BY Zenon DEF HandedOut
<1>2. ASSUME NEW a \in S PROVE Covered(l, a.item) \cap Covered(l, e.item) = {}
  BY Zenon, <1>1
<1>3. Apart(l, S \cup {e})
  <2>1. ASSUME NEW a \in S \cup {e} PROVE Covered(l, a.item) \subseteq Iterations(l)
    BY Zenon DEF Apart
  <2>2. ASSUME NEW a \in S \cup {e}, NEW b \in S \cup {e}, a # b
        PROVE  Covered(l, a.item) \cap Covered(l, b.item) = {}
    <3>1. CASE a \in S /\ b \in S
      BY Zenon, <2>2, <3>1 DEF Apart
    <3>2. CASE a = e /\ b \in S
      BY Zenon, <1>2, <3>2
    <3>3. CASE a \in S /\ b = e
      BY Zenon, <1>2, <3>3
    <3> QED
      BY Zenon, <2>2, <3>1, <3>2, <3>3
  <2> QED
    BY Zenon, <2>1, <2>2 DEF Apart
<1>4. HandedOut(l, S \cup {e}) = HandedOut(l, S) \cup Covered(l, e.item)
  BY Zenon DEF HandedOut
<1> QED
  BY <1>3, <1>4

\* With no items, nothing has been handed out.
LEMMA NoItems == ASSUME NEW l PROVE Apart(l, {}) /\ HandedOut(l, {}) = {}
BY Zenon DEF Apart, HandedOut

-----------------------------------------------------------------------------
\* What has been handed out of a dynamic or guided loop after chunk cc - 1

Taken(kd, l, nt, cc, U) ==
  /\ cc \in Nat
  /\ cc <= NumOfChunks(kd, l, nt) => U = Cells(l, 0..Upto(l, First(kd, l, nt, cc) - 1))
  /\ cc >= NumOfChunks(kd, l, nt) => U = Iterations(l)

\* An interval that ends below zero has no iterations.
LEMMA NoCells ==
  ASSUME NEW l, NEW a \in Int, NEW b \in Int, b < a
  PROVE  Cells(l, a..b) = {}
BY DEF Cells

\* Nothing is taken at first.
LEMMA TakenNone ==
  ASSUME NEW kd \in {"dynamic", "guided"}, NEW l \in LoopType, NEW nt \in Nat \ {0}
  PROVE  Taken(kd, l, nt, 0, {})
<1> DEFINE N == NumOfChunks(kd, l, nt)
<1>1. N \in Int /\ First(kd, l, nt, 0) = 0 /\ Last(l) \in Int
  BY ZenonT(30), ChunkFacts, NItersIs
<1>2. Last(l) >= 0 => N \in Nat /\ First(kd, l, nt, N) > Last(l)
  BY ChunkFacts
<1> HIDE DEF N
<1>3. Upto(l, -1) \in Int /\ Upto(l, -1) < 0
  BY <1>1 DEF Upto
<1>4. Cells(l, 0..Upto(l, First(kd, l, nt, 0) - 1)) = {}
  BY <1>1, <1>3, NoCells
<1>5. ASSUME 0 >= N PROVE Iterations(l) = {}
  <2>1. Last(l) < 0
    BY <1>1, <1>2, <1>5
  <2> QED
    BY <1>1, <2>1, NoCells, WholeLoop
<1> QED
  BY <1>4, <1>5 DEF Taken, N

\* The next chunk is of iterations that have not been taken.
LEMMA TakenNext ==
  ASSUME NEW kd \in {"dynamic", "guided"}, NEW l \in LoopType, NEW nt \in Nat \ {0},
         NEW cc, NEW U, Taken(kd, l, nt, cc, U), ~(cc >= NumOfChunks(kd, l, nt))
  PROVE  LET item == ChunkItem(kd, l, nt, cc)
         IN /\ item.execute /\ Covered(l, item) \subseteq Iterations(l)
            /\ Covered(l, item) \cap U = {}
            /\ Taken(kd, l, nt, cc + 1, U \cup Covered(l, item))
<1> DEFINE N == NumOfChunks(kd, l, nt)
           item == ChunkItem(kd, l, nt, cc)
           f == First(kd, l, nt, cc)
           g == First(kd, l, nt, cc + 1)
<1>1. cc \in Nat /\ N \in Int /\ cc < N /\ Last(l) \in Int
  <2>1. N \in Int /\ Last(l) \in Int
    BY ZenonT(30), ChunkFacts, NItersIs
  <2>2. cc \in Nat
    BY DEF Taken
  <2> QED
    BY <2>1, <2>2
<1>2. f \in Nat /\ g \in Nat /\ f < g /\ item.execute /\ Covered(l, item) = Cells(l, f..Upto(l, g - 1))
  BY ZenonT(60), <1>1, ChunkFacts
<1>3. U = Cells(l, 0..Upto(l, f - 1))
  BY <1>1 DEF Taken
<1>4. Iterations(l) = Cells(l, 0..Last(l))
  BY WholeLoop
<1>5. cc + 1 >= N => cc + 1 = N
  BY <1>1
<1>6. cc + 1 = N => Last(l) < 0 \/ g > Last(l)
  <2>1. Last(l) >= 0 => First(kd, l, nt, N) > Last(l)
    BY ZenonT(30), ChunkFacts
  <2> HIDE DEF N
  <2> QED
    BY <1>1, <2>1
<1> HIDE DEF N, item, f, g
<1>7. f..Upto(l, g - 1) \subseteq 0..Last(l)
  BY <1>1, <1>2 DEF Upto
<1>8. (f..Upto(l, g - 1)) \cap (0..Upto(l, f - 1)) = {}
  BY <1>1, <1>2 DEF Upto
<1>9. (0..Upto(l, f - 1)) \cup (f..Upto(l, g - 1)) = 0..Upto(l, g - 1)
  BY <1>1, <1>2 DEF Upto
<1>10. U \cup Covered(l, item) = Cells(l, 0..Upto(l, g - 1))
  <2> DEFINE A == 0..Upto(l, f - 1)
             B == f..Upto(l, g - 1)
             C == 0..Upto(l, g - 1)
  <2>1. A \cup B = C
    BY <1>9
  <2> HIDE DEF A, B, C
  <2>2. Cells(l, A) \cup Cells(l, B) = Cells(l, C)
    BY <2>1, CellsJoin
  <2> QED
    BY Zenon, <1>2, <1>3, <2>2 DEF A, B, C
<1>11. cc + 1 = N => 0..Upto(l, g - 1) = 0..Last(l)
  BY <1>1, <1>2, <1>6 DEF Upto
<1>12. Covered(l, item) \subseteq Iterations(l)
  BY Zenon, <1>2, <1>4, <1>7 DEF Cells
<1>13. Covered(l, item) \cap U = {}
  <2>1. (f..Upto(l, g - 1)) \in SUBSET Int /\ (0..Upto(l, f - 1)) \in SUBSET Int
    BY <1>1, <1>2 DEF Upto
  <2> QED
    BY Zenon, <1>2, <1>3, <1>8, <2>1, CellsApart
<1>14. Taken(kd, l, nt, cc + 1, U \cup Covered(l, item))
  <2>1. cc + 1 \in Nat
    BY <1>1
  <2> QED
    BY Zenon, <1>4, <1>5, <1>10, <1>11, <2>1 DEF Taken, N, g
<1> QED
  BY Zenon, <1>2, <1>12, <1>13, <1>14 DEF item

\* Asking again when all chunks have been taken.
LEMMA TakenAll ==
  ASSUME NEW kd \in {"dynamic", "guided"}, NEW l \in LoopType, NEW nt \in Nat \ {0},
         NEW cc, NEW U, Taken(kd, l, nt, cc, U), cc >= NumOfChunks(kd, l, nt)
  PROVE  /\ Taken(kd, l, nt, cc + 1, U) /\ U = Iterations(l)
         /\ cc + 1 >= NumOfChunks(kd, l, nt)
<1>1. NumOfChunks(kd, l, nt) \in Int /\ cc \in Nat
  BY ZenonT(30), ChunkFacts DEF Taken
<1>2. cc + 1 \in Nat /\ ~(cc + 1 <= NumOfChunks(kd, l, nt)) /\ cc + 1 >= NumOfChunks(kd, l, nt)
  BY <1>1
<1> QED
  BY Zenon, <1>2 DEF Taken

\* The bounds of every chunk of a loop that has iterations are in range.
LEMMA ChunkInRange ==
  ASSUME NEW kd \in {"dynamic", "guided"}, NEW l \in LoopType, NEW nt \in Nat \ {0},
         NEW cc \in Nat, ~(cc >= NumOfChunks(kd, l, nt)), Iterations(l) # {}
  PROVE  InRange(l, ChunkItem(kd, l, nt, cc))
<1> DEFINE N == NumOfChunks(kd, l, nt)
           f == First(kd, l, nt, cc)
           g == First(kd, l, nt, cc + 1)
<1>1. N \in Int /\ Last(l) \in Int
  BY ZenonT(30), ChunkFacts, NItersIs
<1>2. Last(l) >= 0
  BY <1>1, WholeLoop, NoCells
<1>3. f \in Nat /\ g \in Nat /\ f < g /\ (InRange(l, ChunkItem(kd, l, nt, cc)) <=> f <= Upto(l, g - 1))
  BY ZenonT(60), ChunkFacts
<1>4. \A k \in Nat : k < N => First(kd, l, nt, k) <= Last(l)
  BY ZenonT(30), <1>2, ChunkFacts
<1> HIDE DEF N
<1>5. f <= Last(l)
  BY <1>1, <1>4 DEF N
<1> HIDE DEF f, g
<1> QED
  BY <1>1, <1>3, <1>5 DEF Upto

-----------------------------------------------------------------------------
\* A static loop: thread i of nt has the iterations Owned(l, nt, i), one block of them or
\* every nt-th chunk.

Start(l, nt, i) ==
  (NIters(l) \div nt) * i + (IF i <= NIters(l) % nt THEN i ELSE NIters(l) % nt)

Owned(l, nt, i) ==
  {x \in 0..Last(l) : IF l.chunk = 0 THEN Start(l, nt, i) <= x /\ x < Start(l, nt, i + 1)
                      ELSE (x \div l.chunk) % nt = i}

\* The blocks follow each other from the first iteration to the last one.
LEMMA StartFacts ==
  ASSUME NEW l \in LoopType, NEW nt \in Nat \ {0}, Last(l) >= 0
  PROVE  LET q == NIters(l) \div nt
             a == NIters(l) % nt
         IN /\ q \in Nat /\ a \in Nat /\ Start(l, nt, 0) = 0 /\ Start(l, nt, nt) = Last(l) + 1
            /\ \A i \in Nat :
                 /\ Start(l, nt, i) \in Nat
                 /\ Start(l, nt, i + 1) = Start(l, nt, i) + q + (IF a > i THEN 1 ELSE 0)
            /\ \A i, j \in Nat : i <= j => Start(l, nt, i) <= Start(l, nt, j)
<1> DEFINE t == NIters(l)
           q == t \div nt
           a == t % nt
<1>1. t \in Nat /\ t = Last(l) + 1
  BY NItersIs
<1>2. q \in Int /\ a \in 0..(nt - 1) /\ t = nt * q + a
  <2>1. t \in Int
    BY <1>1
  <2> HIDE DEF t
  <2> QED
    BY <2>1, DivMod
<1>3. q \in Nat
  <2>1. 0 <= q
    BY <1>1, DivBelow
  <2> QED
    BY <1>2, <2>1
<1>4. \A i : Start(l, nt, i) = q * i + (IF i <= a THEN i ELSE a)
  BY DEF Start
<1> HIDE DEF q, a, t
<1>5. Start(l, nt, 0) = 0
  BY <1>2, <1>3, <1>4
<1>6. Start(l, nt, nt) = Last(l) + 1
  BY <1>1, <1>2, <1>3, <1>4
<1>7. ASSUME NEW i \in Nat
      PROVE  /\ Start(l, nt, i) \in Nat
             /\ Start(l, nt, i + 1) = Start(l, nt, i) + q + (IF a > i THEN 1 ELSE 0)
  <2>1. q * (i + 1) = q * i + q /\ q * i \in Nat
    BY <1>3
  <2>2. Start(l, nt, i) \in Nat
    BY <1>2, <1>4, <2>1
  <2>3. Start(l, nt, i + 1) = Start(l, nt, i) + q + (IF a > i THEN 1 ELSE 0)
    BY <1>2, <1>3, <1>4, <2>1
  <2> QED
    BY <2>2, <2>3
<1>8. ASSUME NEW i \in Nat, NEW j \in Nat, i <= j PROVE Start(l, nt, i) <= Start(l, nt, j)
  <2>1. q * i <= q * j /\ q * i \in Nat /\ q * j \in Nat
    BY <1>3, <1>8
  <2> QED
    BY <1>2, <1>4, <1>8, <2>1
<1> QED
  BY <1>2, <1>3, <1>5, <1>6, <1>7, <1>8 DEF q, a, t

\* An iteration has at most one owner.
LEMMA OwnedApart ==
  ASSUME NEW l \in LoopType, NEW nt \in Nat \ {0},
         NEW i \in 0..(nt - 1), NEW j \in 0..(nt - 1), i # j
  PROVE  Owned(l, nt, i) \cap Owned(l, nt, j) = {}
<1> SUFFICES ASSUME NEW x \in Owned(l, nt, i), x \in Owned(l, nt, j) PROVE FALSE
  OBVIOUS
<1>1. CASE l.chunk # 0
  BY <1>1 DEF Owned
<1>2. CASE l.chunk = 0
  <2>1. x \in 0..Last(l) /\ Last(l) \in Int
    BY NItersIs DEF Owned
  <2>2. Last(l) >= 0
    BY <2>1
  <2>3. /\ Start(l, nt, i) <= x /\ x < Start(l, nt, i + 1)
        /\ Start(l, nt, j) <= x /\ x < Start(l, nt, j + 1)
    BY <1>2 DEF Owned
  <2>4. /\ Start(l, nt, i) \in Nat /\ Start(l, nt, i + 1) \in Nat
        /\ Start(l, nt, j) \in Nat /\ Start(l, nt, j + 1) \in Nat
    BY <2>2, StartFacts
  <2>5. /\ i + 1 <= j => Start(l, nt, i + 1) <= Start(l, nt, j)
        /\ j + 1 <= i => Start(l, nt, j + 1) <= Start(l, nt, i)
    <3>1. \A u, v \in Nat : u <= v => Start(l, nt, u) <= Start(l, nt, v)
      BY <2>2, StartFacts
    <3> QED
      BY <3>1
  <2> QED
    BY <2>1, <2>3, <2>4, <2>5
<1> QED
  BY <1>1, <1>2

\* Every iteration has an owner.
LEMMA OwnedAll ==
  ASSUME NEW l \in LoopType, NEW nt \in Nat \ {0}, NEW x \in 0..Last(l)
  PROVE  \E i \in 0..(nt - 1) : x \in Owned(l, nt, i)
<1>1. CASE l.chunk # 0
  <2>1. l.chunk \in Nat \ {0} /\ x \in Int
    BY <1>1, NItersIs DEF LoopType
  <2>2. x \div l.chunk \in Int
    BY ZenonT(30), <2>1, DivMod
  <2>3. (x \div l.chunk) % nt \in 0..(nt - 1)
    BY ZenonT(30), <2>2, DivMod
  <2> QED
    BY <1>1, <2>3 DEF Owned
<1>2. CASE l.chunk = 0
  <2> DEFINE S == {i \in Nat : x < Start(l, nt, i + 1)}
  <2>1. x \in Nat /\ Last(l) >= 0 /\ x <= Last(l) /\ Last(l) \in Int
    BY NItersIs
  <2>2. /\ Start(l, nt, 0) = 0 /\ Start(l, nt, nt) = Last(l) + 1
        /\ \A i \in Nat : Start(l, nt, i) \in Nat
    BY <2>1, StartFacts
  <2>3. nt - 1 \in S
    <3>1. nt - 1 \in Nat /\ (nt - 1) + 1 = nt
      OBVIOUS
    <3> QED
      BY <2>1, <2>2, <3>1
  <2>4. Min(S) \in S /\ \A y \in S : Min(S) <= y
    BY ZenonT(30), <2>3, Smallest
  <2>5. PICK i \in Nat : x < Start(l, nt, i + 1) /\ i <= nt - 1 /\ \A y \in S : i <= y
    BY <2>3, <2>4
  <2>6. Start(l, nt, i) <= x
    <3>1. CASE i = 0
      BY <2>1, <2>2, <3>1
    <3>2. CASE i # 0
      <4>1. i - 1 \in Nat /\ (i - 1) + 1 = i /\ ~(i <= i - 1)
        BY <2>5, <3>2
      <4>2. ~(x < Start(l, nt, i))
        BY <2>5, <4>1
      <4> QED
        BY <2>1, <2>2, <2>5, <4>2
    <3> QED
      BY <3>1, <3>2
  <2> QED
    BY <1>2, <2>5, <2>6 DEF Owned
<1> QED
  BY <1>1, <1>2

\* In chunks: the owner of a chunk has the chunks nt further on, and no other in between.
LEMMA OwnedChunk ==
  ASSUME NEW c \in Nat \ {0}, NEW nt \in Nat \ {0}, NEW i \in 0..(nt - 1), NEW r \in Nat,
         NEW b \in (nt * r)..(nt * r + i), NEW x \in Nat, c * b <= x, x < c * (b + nt)
  PROVE  (x \div c) % nt = i <=> c * (nt * r + i) <= x /\ x < c * (nt * r + i) + c
<1> DEFINE y == x \div c
           z == nt * r + i
<1>1. y \in Int /\ z \in Nat /\ b \in Int /\ nt * r \in Nat
  BY DivMod
<1>2. b <= y
  BY <1>1, DivBelow
<1>3. ~(b + nt <= y)
  <2>1. b + nt \in Int
    BY <1>1
  <2>2. b + nt <= y <=> c * (b + nt) <= x
    BY <2>1, DivBelow
  <2> QED
    BY <2>1, <2>2
<1>4. y = z <=> c * z <= x /\ x < c * z + c
  <2>1. z <= y <=> c * z <= x
    BY <1>1, DivBelow
  <2>2. z + 1 <= y <=> c * (z + 1) <= x
    BY <1>1, DivBelow
  <2>3. c * (z + 1) = c * z + c /\ c * z \in Nat
    BY <1>1
  <2> HIDE DEF y, z
  <2> QED
    BY <1>1, <2>1, <2>2, <2>3
<1>5. y % nt = i <=> y = z
  <2> HIDE DEF y
  <2>1. CASE y < nt * r + nt
    <3>1. PICK s \in 0..(nt - 1) : y = nt * r + s
      <4>1. y - nt * r \in 0..(nt - 1) /\ y = nt * r + (y - nt * r)
        BY <1>1, <1>2, <2>1
      <4> QED
        BY ZenonT(30), <4>1
    <3>2. (nt * r + s) % nt = s
      BY ModIs
    <3> QED
      BY <1>1, <3>1, <3>2
  <2>2. CASE ~(y < nt * r + nt)
    <3>1. PICK s \in 0..(nt - 1) : y = nt * (r + 1) + s /\ s < i
      <4>1. /\ y - nt * r - nt \in 0..(nt - 1) /\ y - nt * r - nt < i
            /\ y = nt * (r + 1) + (y - nt * r - nt)
        BY <1>1, <1>2, <1>3, <2>2
      <4> QED
        BY ZenonT(30), <4>1
    <3>2. (nt * (r + 1) + s) % nt = s
      BY ModIs
    <3> QED
      BY <1>1, <2>2, <3>1, <3>2
  <2> QED
    BY <2>1, <2>2
<1> QED
  BY <1>4, <1>5

\* The same loop from iteration p on.
LEMMA LoopFrom ==
  ASSUME NEW l \in LoopType, NEW p \in Int
  PROVE  LET m == [l EXCEPT !.lower = Iter(l, p)]
         IN /\ m \in LoopType /\ m.lower = Iter(l, p) /\ m.upper = l.upper /\ m.step = l.step
            /\ m.chunk = l.chunk /\ Sign(m) = Sign(l) /\ Last(m) = Last(l) - p
            /\ \A x \in Int : Iter(m, x) = Iter(l, p + x)
            /\ m.lower * Sign(m) > m.upper * Sign(m) <=> p > Last(l)
<1> DEFINE m == [l EXCEPT !.lower = Iter(l, p)]
<1>1. /\ m \in LoopType /\ m.lower = Iter(l, p) /\ m.upper = l.upper /\ m.step = l.step
      /\ m.chunk = l.chunk
  BY IterAt DEF LoopType
<1>2. Sign(m) = Sign(l)
  BY <1>1 DEF Sign
<1> HIDE DEF m
<1>3. ASSUME NEW x \in Int PROVE Iter(m, x) = Iter(l, p + x)
  BY <1>1, StepSplit DEF Iter
<1>4. ASSUME NEW x \in Int PROVE x <= Last(m) <=> p + x <= Last(l)
  <2>1. Iter(m, x) * Sign(m) <= m.upper * Sign(m) <=> x <= Last(m)
    BY <1>1, IterAt, StepSplit DEF Last
  <2>2. Iter(l, p + x) * Sign(l) <= l.upper * Sign(l) <=> p + x <= Last(l)
    BY IterAt, StepSplit DEF Last
  <2> QED
    BY <1>1, <1>2, <1>3, <2>1, <2>2
<1>5. Last(m) \in Int /\ Last(l) \in Int
  BY <1>1, NItersIs
<1>6. Last(m) = Last(l) - p
  <2>1. p + Last(m) <= Last(l)
    BY <1>4, <1>5
  <2>2. Last(l) - p <= Last(m)
    BY <1>4, <1>5
  <2> QED
    BY <1>5, <2>1, <2>2
<1>7. m.lower * Sign(m) > m.upper * Sign(m) <=> p > Last(l)
  <2>1. Iter(l, p) * Sign(l) <= l.upper * Sign(l) <=> p <= Last(l)
    BY IterAt, StepSplit DEF Last
  <2>2. Iter(l, p) * Sign(l) \in Int /\ l.upper * Sign(l) \in Int
    BY IterAt, StepSplit
  <2> QED
    BY <1>1, <1>2, <1>5, <2>1, <2>2
<1> QED
  BY <1>1, <1>2, <1>3, <1>6, <1>7 DEF m

\* The iterations of thread i before the lower bound lo.
Gone(l, nt, i, lo) == {x \in Owned(l, nt, i) : Iter(l, x) * Sign(l) < lo * Sign(l)}

\* They are those below the number of lo.
LEMMA GoneAt ==
  ASSUME NEW l \in LoopType, NEW nt, NEW i, NEW p \in Int
  PROVE  Gone(l, nt, i, Iter(l, p)) = {x \in Owned(l, nt, i) : x < p}
<1>1. ASSUME NEW x \in Owned(l, nt, i)
      PROVE  Iter(l, x) * Sign(l) < Iter(l, p) * Sign(l) <=> x < p
  <2>1. x \in Int /\ Iter(l, x) \in Int /\ Iter(l, p) \in Int
    BY IterAt, NItersIs DEF Owned
  <2>2. Iter(l, p) * Sign(l) <= Iter(l, x) * Sign(l) <=> p <= x
    BY <2>1, IterAt, IxOfIter
  <2>3. Iter(l, p) * Sign(l) \in Int /\ Iter(l, x) * Sign(l) \in Int
    BY <2>1, StepSplit
  <2> QED
    BY <2>1, <2>2, <2>3
<1> QED
  BY <1>1 DEF Gone

\* All are below the bound that is one step past the upper one, and none is below the lower
\* one.
LEMMA GonePast ==
  ASSUME NEW l \in LoopType, NEW nt, NEW i
  PROVE  /\ Gone(l, nt, i, l.upper + l.step) = Owned(l, nt, i)
         /\ Gone(l, nt, i, l.lower) = {}
<1>1. ASSUME NEW x \in Owned(l, nt, i)
      PROVE  Iter(l, x) * Sign(l) < (l.upper + l.step) * Sign(l)
  <2>1. x \in Int /\ x <= Last(l)
    BY NItersIs DEF Owned
  <2>2. x \in Int /\ x <= Last(l) /\ Iter(l, x) \in Int
    BY <2>1, IterAt, StepSplit
  <2>3. Iter(l, x) * Sign(l) <= l.upper * Sign(l)
    BY <2>2, IterAt, StepSplit DEF Last
  <2> QED
    BY <2>2, <2>3 DEF Sign, LoopType
<1>2. Gone(l, nt, i, l.lower) = {x \in Owned(l, nt, i) : x < 0}
  <2>1. Iter(l, 0) = l.lower
    BY StepSplit DEF Iter
  <2> QED
    BY <2>1, GoneAt
<1>3. \A x \in Owned(l, nt, i) : ~(x < 0)
  BY NItersIs DEF Owned
<1> QED
  BY <1>1, <1>2, <1>3 DEF Gone

\* A thread takes the rest of its iterations, or some of them, or has none left.
StaticMove(l, nt, i, lo, item, next) ==
  /\ item.execute => /\ Covered(l, item) = Cells(l, Gone(l, nt, i, next) \ Gone(l, nt, i, lo))
                     /\ Gone(l, nt, i, lo) \subseteq Gone(l, nt, i, next)
  /\ ~item.execute => /\ Gone(l, nt, i, next) = Owned(l, nt, i)
                      /\ Gone(l, nt, i, lo) = Owned(l, nt, i)

\* One block for each thread.
LEMMA BlockItem ==
  ASSUME NEW l \in LoopType, NEW nt \in Nat \ {0}, NEW i \in 0..(nt - 1), l.chunk = 0, Last(l) >= 0
  PROVE  LET b == StaticBlock(l, nt, i)
         IN /\ b.lower = Iter(l, Start(l, nt, i)) /\ b.upper = Iter(l, Start(l, nt, i + 1) - 1)
            /\ b.lower * Sign(l) <= b.upper * Sign(l) <=> Start(l, nt, i) < Start(l, nt, i + 1)
            /\ Owned(l, nt, i) = Start(l, nt, i)..(Start(l, nt, i + 1) - 1)
<1> DEFINE q == NIters(l) \div nt
           a == NIters(l) % nt
           s == Start(l, nt, i)
           e == Start(l, nt, i + 1)
           b == StaticBlock(l, nt, i)
<1>1. NIters(l) \in Nat /\ Last(l) \in Int
  BY NItersIs
<1>2. CDiv(NIters(l), nt) = q /\ CMod(NIters(l), nt) = a
  BY <1>1, CDivOfNat
<1>3. q \in Nat /\ a \in Nat /\ s \in Nat /\ e = s + q + (IF a > i THEN 1 ELSE 0)
  BY StartFacts
<1>4. e <= Last(l) + 1
  <2>1. \A u, v \in Nat : u <= v => Start(l, nt, u) <= Start(l, nt, v)
    BY StartFacts
  <2>2. Start(l, nt, i + 1) <= Start(l, nt, nt)
    BY <2>1
  <2>3. Start(l, nt, nt) = Last(l) + 1
    BY StartFacts
  <2> QED
    BY <2>2, <2>3
<1>5. s = q * i + Min({a, i})
  BY <1>3, MinOfTwo DEF Start
<1>6. /\ b.lower = l.lower + ((q - 1) * l.step + l.step) * i + Min({a, i}) * l.step
      /\ b.upper = b.lower + (q - 1) * l.step + IF a > i THEN l.step ELSE 0
  BY <1>2 DEF StaticBlock
<1>7. Min({a, i}) \in Int
  BY <1>3, MinOfTwo
<1> HIDE DEF q, a, s, e, b
<1>8. PICK v \in Int, m \in Int : v = l.step /\ m = Min({a, i})
  BY <1>7, StepSplit
<1>9. b.lower = l.lower + s * v
  <2>1. ((q - 1) * v + v) * i + m * v = (q * i + m) * v /\ ((q - 1) * v + v) * i \in Int /\ m * v \in Int
    BY <1>3
  <2>2. b.lower = l.lower + ((q - 1) * v + v) * i + m * v /\ s = q * i + m
    BY <1>5, <1>6, <1>8
  <2> QED
    BY <2>1, <2>2, StepSplit
<1>10. b.upper = l.lower + (e - 1) * v
  <2>1. s * v \in Int /\ (q - 1) * v \in Int /\ (s + q) * v = s * v + (q - 1) * v + v
    BY <1>3
  <2>2. CASE a > i
    <3>1. e - 1 = s + q /\ b.upper = b.lower + (q - 1) * v + v
      BY <1>3, <1>6, <1>8, <2>2
    <3> QED
      BY <1>9, <2>1, <3>1, StepSplit
  <2>3. CASE ~(a > i)
    <3>1. e - 1 = s + q - 1 /\ b.upper = b.lower + (q - 1) * v + 0
      BY <1>3, <1>6, <1>8, <2>3
    <3>2. (s + q - 1) * v = s * v + (q - 1) * v
      BY <1>3
    <3> QED
      BY <1>9, <2>1, <3>1, <3>2, StepSplit
  <2> QED
    BY <2>2, <2>3
<1>11. b.lower = Iter(l, s) /\ b.upper = Iter(l, e - 1)
  BY <1>8, <1>9, <1>10 DEF Iter
<1>12. e \in Nat
  BY <1>3
<1>13. b.lower * Sign(l) <= b.upper * Sign(l) <=> s < e
  <2>1. Iter(l, s) * Sign(l) <= Iter(l, e - 1) * Sign(l) <=> s <= Ix(l, Iter(l, e - 1))
    BY <1>3, <1>12, IterAt
  <2>2. Ix(l, Iter(l, e - 1)) = e - 1
    BY <1>12, IxOfIter
  <2> QED
    BY <1>3, <1>11, <1>12, <2>1, <2>2
<1>14. Owned(l, nt, i) = s..(e - 1)
  BY <1>1, <1>3, <1>4, <1>12 DEF Owned, s, e
<1> QED
  BY <1>11, <1>13, <1>14 DEF s, e, b

\* The lower bounds a thread's own descriptor may have.
LowerAt(l, nt, lo) ==
  IF l.chunk = 0 THEN lo \in {l.lower, l.upper + l.step}
  ELSE \E r \in Nat : lo = Iter(l, l.chunk * (nt * r))

\* A thread takes its block at once.
LEMMA BlockMove ==
  ASSUME NEW l \in LoopType, NEW nt \in Nat \ {0}, NEW i \in 0..(nt - 1), l.chunk = 0,
         NEW lo \in {l.lower, l.upper + l.step}
  PROVE  LET m == [l EXCEPT !.lower = lo]
         IN /\ StaticMove(l, nt, i, lo, StaticItem(m, nt, i), StaticLower(m, nt))
            /\ StaticLower(m, nt) \in {l.lower, l.upper + l.step}
<1> DEFINE m == [l EXCEPT !.lower = lo]
<1>1. /\ m.lower = lo /\ m.upper = l.upper /\ m.step = l.step /\ m.chunk = 0 /\ Sign(m) = Sign(l)
  BY DEF LoopType, Sign
<1>2. Last(l) \in Int /\ (l.lower * Sign(l) > l.upper * Sign(l) <=> 0 > Last(l))
  <2>1. Iter(l, 0) = l.lower
    BY StepSplit DEF Iter
  <2>2. l.lower * Sign(l) <= l.upper * Sign(l) <=> 0 <= Last(l)
    BY <2>1, IterAt, StepSplit DEF Last
  <2>3. l.lower * Sign(l) \in Int /\ l.upper * Sign(l) \in Int /\ Last(l) \in Int
    BY StepSplit, NItersIs
  <2> QED
    BY <2>2, <2>3
<1>3. CASE lo * Sign(l) > l.upper * Sign(l)
  <2>1. StaticItem(m, nt, i) = NoItem /\ StaticLower(m, nt) = lo
    BY <1>1, <1>3 DEF StaticItem, StaticLower
  <2>2. ~StaticItem(m, nt, i).execute
    BY <2>1 DEF NoItem, Item
  <2>3. Gone(l, nt, i, lo) = Owned(l, nt, i)
    <3>1. CASE lo = l.upper + l.step
      BY <3>1, GonePast
    <3>2. CASE lo = l.lower
      <4>1. Owned(l, nt, i) = {}
        BY <1>2, <1>3, <3>2 DEF Owned
      <4> QED
        BY <4>1 DEF Gone
    <3> QED
      BY <3>1, <3>2
  <2> QED
    BY <2>1, <2>2, <2>3 DEF StaticMove
<1>4. CASE ~(lo * Sign(l) > l.upper * Sign(l))
  <2>1. lo = l.lower
    BY <1>4, StepSplit DEF Sign, LoopType
  <2>2. Last(l) >= 0
    BY <1>2, <1>4, <2>1
  <2>3. m = l
    BY <2>1 DEF LoopType
  <2> DEFINE b == StaticBlock(l, nt, i)
             item == StaticItem(m, nt, i)
             s == Start(l, nt, i)
             e == Start(l, nt, i + 1)
  <2>4. /\ item.lower = b.lower /\ item.upper = b.upper
        /\ item.execute <=> b.lower * Sign(l) <= b.upper * Sign(l)
        /\ StaticLower(m, nt) = l.upper + l.step
    BY ZenonT(30), <1>1, <1>4, <2>3 DEF StaticItem, StaticLower, Item
  <2>5. /\ b.lower = Iter(l, s) /\ b.upper = Iter(l, e - 1)
        /\ b.lower * Sign(l) <= b.upper * Sign(l) <=> s < e
        /\ Owned(l, nt, i) = s..(e - 1)
    BY <2>2, BlockItem
  <2>6. s \in Nat /\ e \in Nat
    <3>1. \A u \in Nat : Start(l, nt, u) \in Nat
      BY <2>2, StartFacts
    <3> QED
      BY <3>1
  <2>7. Gone(l, nt, i, l.upper + l.step) = Owned(l, nt, i) /\ Gone(l, nt, i, lo) = {}
    BY ZenonT(30), <2>1, GonePast
  <2> HIDE DEF b, item, s, e, m
  <2>8. Covered(l, item) = Cells(l, s..(e - 1))
    <3>1. Iter(l, e - 1) \in Int /\ Ix(l, Iter(l, e - 1)) = e - 1
      BY <2>6, IterAt, IxOfIter
    <3> QED
      BY <2>4, <2>5, <2>6, <3>1, CoveredCells
  <2>9. ~item.execute => Owned(l, nt, i) = {}
    BY <2>4, <2>5, <2>6
  <2>10. StaticMove(l, nt, i, lo, item, l.upper + l.step)
    BY Zenon, <2>5, <2>7, <2>8, <2>9 DEF StaticMove
  <2> QED
    BY <2>4, <2>10 DEF item, m
<1> QED
  BY <1>3, <1>4

\* The end of an item is moved back to the end of the loop.
LEMMA ItemEnd ==
  ASSUME NEW l \in LoopType, NEW e \in Int
  PROVE  LET hi == Iter(l, e)
             end == IF hi * Sign(l) >= l.upper * Sign(l) THEN l.upper ELSE hi
         IN /\ end \in Int /\ Ix(l, end) = Upto(l, e)
            /\ hi * Sign(l) >= l.upper * Sign(l) => e >= Last(l)
<1> DEFINE hi == Iter(l, e)
<1>1. hi \in Int /\ l.upper \in Int /\ Ix(l, hi) = e /\ Last(l) \in Int /\ Ix(l, l.upper) = Last(l)
  BY IterAt, IxOfIter, StepSplit, NItersIs DEF Last
<1>2. hi * Sign(l) \in Int /\ l.upper * Sign(l) \in Int
  BY <1>1, StepSplit
<1>3. hi * Sign(l) <= l.upper * Sign(l) <=> e <= Last(l)
  BY <1>1, IterAt
<1>4. ASSUME hi * Sign(l) >= l.upper * Sign(l) PROVE e >= Last(l)
  <2>1. Iter(l, Last(l)) \in Int /\ Iter(l, Last(l)) * Sign(l) <= l.upper * Sign(l)
    BY <1>1, IterAt
  <2>2. Iter(l, Last(l)) * Sign(l) \in Int
    BY <2>1, StepSplit
  <2>3. Iter(l, Last(l)) * Sign(l) <= hi * Sign(l)
    BY <1>2, <1>4, <2>1, <2>2
  <2>4. Last(l) <= Ix(l, hi)
    BY <1>1, <2>3, IterAt
  <2> QED
    BY <1>1, <2>4
<1> HIDE DEF hi
<1>5. CASE hi * Sign(l) >= l.upper * Sign(l)
  BY <1>1, <1>4, <1>5 DEF Upto, hi
<1>6. CASE ~(hi * Sign(l) >= l.upper * Sign(l))
  BY <1>1, <1>2, <1>3, <1>6 DEF Upto, hi
<1> QED
  BY <1>5, <1>6

\* A thread takes its next chunk, and goes on nt chunks further.
LEMMA ChunkMove ==
  ASSUME NEW l \in LoopType, NEW nt \in Nat \ {0}, NEW i \in 0..(nt - 1), l.chunk # 0,
         NEW r \in Nat
  PROVE  LET lo == Iter(l, l.chunk * (nt * r))
             m == [l EXCEPT !.lower = lo]
         IN /\ StaticMove(l, nt, i, lo, StaticItem(m, nt, i), StaticLower(m, nt))
            /\ StaticLower(m, nt) \in {lo, Iter(l, l.chunk * (nt * (r + 1)))}
<1> DEFINE c == l.chunk
           p == c * (nt * r)
           pn == c * (nt * (r + 1))
           z == c * (nt * r + i)
           e == z + c - 1
           lo == Iter(l, p)
           m == [l EXCEPT !.lower = lo]
           item == StaticItem(m, nt, i)
<1>1. c \in Nat \ {0} /\ Last(l) \in Int
  BY NItersIs DEF LoopType
<1>2. /\ p \in Nat /\ z \in Nat /\ pn \in Nat /\ z = p + c * i /\ pn = p + c * nt /\ e \in Int
      /\ p <= z /\ z < pn
  <2> HIDE DEF c
  <2>1. nt * r \in Nat /\ nt * (r + 1) = nt * r + nt
    OBVIOUS
  <2> DEFINE w == nt * r
  <2> HIDE DEF w
  <2>2. c * w \in Nat /\ c * (w + i) = c * w + c * i /\ c * (w + nt) = c * w + c * nt
    BY <1>1, <2>1 DEF w
  <2>3. c * i \in Nat /\ c * i < c * nt
    BY <1>1
  <2> QED
    BY <1>1, <2>1, <2>2, <2>3 DEF w
<1>3. /\ m.lower = lo /\ m.upper = l.upper /\ m.step = l.step /\ m.chunk = c /\ Sign(m) = Sign(l)
      /\ lo * Sign(l) > l.upper * Sign(l) <=> p > Last(l)
  <2>1. p \in Int
    BY <1>2
  <2> HIDE DEF p
  <2> QED
    BY ZenonT(30), <2>1, LoopFrom
<1> HIDE DEF c, p, pn, z, e
<1>4. ASSUME NEW x \in Owned(l, nt, i), p <= x, x < pn
      PROVE  z <= x /\ x <= e
  <2>1. x \in Nat /\ (x \div c) % nt = i
    BY <1>1 DEF Owned, c
  <2>2. nt * r \in (nt * r)..(nt * r + i) /\ nt * (r + 1) = nt * r + nt
    OBVIOUS
  <2>3. c * (nt * r + i) <= x /\ x < c * (nt * r + i) + c
    BY ZenonT(30), <1>1, <1>4, <2>1, <2>2, OwnedChunk DEF p, pn
  <2> QED
    BY <1>1, <1>2, <2>1, <2>3 DEF z, e
<1>5. ASSUME NEW x \in z..Upto(l, e) PROVE x \in Owned(l, nt, i) /\ p <= x /\ x < pn
  <2>1. x \in Nat /\ p <= x /\ x <= Last(l) /\ z <= x /\ x < z + c
    BY <1>1, <1>2 DEF Upto, e
  <2>2. x < pn
    <3>1. c * i + c <= c * nt
      BY <1>1
    <3> QED
      BY <1>1, <1>2, <2>1, <3>1
  <2>3. nt * r \in (nt * r)..(nt * r + i) /\ nt * (r + 1) = nt * r + nt
    OBVIOUS
  <2>4. (x \div c) % nt = i
    BY <1>1, <2>1, <2>2, <2>3, OwnedChunk DEF p, pn, z
  <2> QED
    BY <1>1, <2>1, <2>2, <2>4 DEF Owned, c
<1>6. /\ Gone(l, nt, i, lo) = {x \in Owned(l, nt, i) : x < p}
      /\ Gone(l, nt, i, Iter(l, pn)) = {x \in Owned(l, nt, i) : x < pn}
      /\ \A x \in Owned(l, nt, i) : x \in Nat /\ x <= Last(l)
  <2>1. \A x \in Owned(l, nt, i) : x \in Nat /\ x <= Last(l)
    BY <1>1 DEF Owned
  <2> QED
    BY <1>2, <2>1, GoneAt
<1>7. CASE p > Last(l)
  <2>1. item = NoItem /\ StaticLower(m, nt) = lo
    BY <1>3, <1>7 DEF StaticItem, StaticLower
  <2>2. ~item.execute
    BY <2>1 DEF NoItem, Item
  <2>3. Gone(l, nt, i, lo) = Owned(l, nt, i)
    BY <1>1, <1>2, <1>6, <1>7
  <2> QED
    BY <2>1, <2>2, <2>3 DEF StaticMove, c, p
<1>8. CASE ~(p > Last(l))
  <2> DEFINE hi == Iter(l, e)
             end == IF hi * Sign(l) >= l.upper * Sign(l) THEN l.upper ELSE hi
  <2>1. PICK v \in Int : v = l.step
    BY StepSplit
  <2>2. /\ lo + c * v * i = Iter(l, z) /\ Iter(l, z) + c * v - v = hi
        /\ lo + c * v * nt = Iter(l, pn)
    <3>1. p * v \in Int /\ (p + c * i) * v = p * v + c * v * i /\ (p + c * nt) * v = p * v + c * v * nt
      BY <1>1, <1>2
    <3>2. z * v \in Int /\ (z + c - 1) * v = z * v + c * v - v /\ c * v * i \in Int /\ c * v * nt \in Int /\ c * v \in Int
      BY <1>1, <1>2
    <3> QED
      BY <1>2, <2>1, <3>1, <3>2, StepSplit DEF Iter, e
  <2>3. /\ item.lower = Iter(l, z) /\ item.upper = end
        /\ item.execute <=> Iter(l, z) * Sign(l) <= end * Sign(l)
        /\ StaticLower(m, nt) = Iter(l, pn)
    <3>1. ~(m.lower * Sign(m) > m.upper * Sign(m)) /\ m.chunk # 0
      BY <1>1, <1>3, <1>8
    <3> HIDE DEF m
    <3>2. item = LET lw == m.lower + m.chunk * m.step * i
                     up == lw + m.chunk * m.step - m.step
                     fin == up * Sign(m) >= m.upper * Sign(m)
                     ed == IF fin THEN m.upper ELSE up
                 IN Item(lw, ed, lw * Sign(m) <= ed * Sign(m), fin)
      BY SMTT(30), <3>1 DEF StaticItem
    <3>3. StaticLower(m, nt) = m.lower + m.chunk * m.step * nt
      BY <3>1 DEF StaticLower
    <3>4. /\ m.lower + m.chunk * m.step * i = Iter(l, z)
          /\ Iter(l, z) + m.chunk * m.step - m.step = hi
          /\ m.lower + m.chunk * m.step * nt = Iter(l, pn)
      BY <1>3, <2>1, <2>2
    <3>5. m.upper = l.upper /\ Sign(m) = Sign(l)
      BY <1>3
    <3> HIDE DEF hi, item
    <3>6. item = Item(Iter(l, z), end, Iter(l, z) * Sign(l) <= end * Sign(l),
                      hi * Sign(l) >= l.upper * Sign(l))
      BY SMTT(30), <3>2, <3>4, <3>5
    <3> QED
      BY ZenonT(30), <3>3, <3>4, <3>6 DEF Item
  <2>4. end \in Int /\ Ix(l, end) = Upto(l, e)
    BY <1>2, ItemEnd
  <2> HIDE DEF hi, end, item, m, lo
  <2>5. Covered(l, item) = Cells(l, z..Upto(l, e)) /\ (item.execute <=> z <= Upto(l, e))
    <3>1. Covered(l, item) = Cells(l, z..Upto(l, e))
      BY <1>2, <2>3, <2>4, CoveredCells
    <3>2. Iter(l, z) * Sign(l) <= end * Sign(l) <=> z <= Ix(l, end)
      BY <1>2, <2>4, IterAt
    <3> QED
      BY <2>3, <2>4, <3>1, <3>2
  <2>6. Gone(l, nt, i, Iter(l, pn)) \ Gone(l, nt, i, lo) = z..Upto(l, e)
    BY <1>1, <1>2, <1>4, <1>5, <1>6 DEF Upto
  <2>7. Gone(l, nt, i, lo) \subseteq Gone(l, nt, i, Iter(l, pn))
    BY <1>2, <1>6
  <2>8. ASSUME ~item.execute
        PROVE  Gone(l, nt, i, Iter(l, pn)) = Owned(l, nt, i) /\ Gone(l, nt, i, lo) = Owned(l, nt, i)
    <3>1. z > Last(l)
      BY <1>1, <1>2, <2>5, <2>8 DEF Upto, e
    <3>2. ASSUME NEW x \in Owned(l, nt, i) PROVE x < p /\ x < pn
      BY <1>1, <1>2, <1>4, <1>6, <3>1
    <3> QED
      BY <1>6, <3>2
  <2> QED
    BY Zenon, <2>3, <2>5, <2>6, <2>7, <2>8 DEF StaticMove, item, m, lo, c, p, pn
<1> QED
  BY <1>7, <1>8

\* The lower bound of a thread's descriptor, from one call of nextItem() to the next one.
LEMMA StaticStep ==
  ASSUME NEW l \in LoopType, NEW nt \in Nat \ {0}, NEW i \in 0..(nt - 1), NEW lo,
         LowerAt(l, nt, lo)
  PROVE  LET m == [l EXCEPT !.lower = lo]
         IN /\ StaticMove(l, nt, i, lo, StaticItem(m, nt, i), StaticLower(m, nt))
            /\ LowerAt(l, nt, StaticLower(m, nt))
<1>1. CASE l.chunk = 0
  <2>1. lo \in {l.lower, l.upper + l.step}
    BY <1>1 DEF LowerAt
  <2> QED
    BY Zenon, <1>1, <2>1, BlockMove DEF LowerAt
<1>2. CASE l.chunk # 0
  <2>1. PICK r \in Nat : lo = Iter(l, l.chunk * (nt * r))
    BY <1>2 DEF LowerAt
  <2>2. r + 1 \in Nat
    OBVIOUS
  <2> QED
    BY Zenon, <1>2, <2>1, <2>2, ChunkMove DEF LowerAt
<1> QED
  BY <1>1, <1>2

-----------------------------------------------------------------------------
\* What each thread has been given of a static loop

ItemsOf(S, i) == {a \in S : a.thread = i}

Share(l, nt, S, i, G) ==
  G \subseteq Owned(l, nt, i) /\ HandedOut(l, ItemsOf(S, i)) = Cells(l, G)

Shared(l, nt, S) ==
  /\ Apart(l, S) /\ Ranged(l, S)
  /\ \A a \in S : a.thread \in 0..(nt - 1)
  /\ \A i \in 0..(nt - 1) : \E G : Share(l, nt, S, i, G)

\* The owned iterations are iterations of the loop.
LEMMA OwnedIn ==
  ASSUME NEW l \in LoopType, NEW nt, NEW i, NEW G \in SUBSET Owned(l, nt, i)
  PROVE  G \subseteq 0..Last(l) /\ G \in SUBSET Int /\ Cells(l, G) \subseteq Iterations(l)
<1>1. G \subseteq 0..Last(l) /\ 0..Last(l) \in SUBSET Int
  BY NItersIs DEF Owned
<1> QED
  BY Zenon, <1>1, WholeLoop DEF Cells

\* Nothing is given at first.
LEMMA ShareNone ==
  ASSUME NEW l, NEW nt, NEW i, NEW S, \A a \in S : a.thread # i
  PROVE  Share(l, nt, S, i, {})
BY Zenon DEF Share, ItemsOf, HandedOut, Cells

\* One more item for thread i, of iterations it owns.
LEMMA ShareMore ==
  ASSUME NEW l \in LoopType, NEW nt \in Nat \ {0}, NEW i \in 0..(nt - 1), NEW S, Shared(l, nt, S),
         NEW G, Share(l, nt, S, i, G), NEW H \in SUBSET Owned(l, nt, i), G \subseteq H,
         NEW e, e.thread = i, Covered(l, e.item) = Cells(l, H \ G), InRange(l, e.item)
  PROVE  LET T == S \cup {e}
         IN /\ Shared(l, nt, T) /\ Share(l, nt, T, i, H)
            /\ \A F : \A j \in 0..(nt - 1) : j # i /\ Share(l, nt, S, j, F) => Share(l, nt, T, j, F)
<1> DEFINE T == S \cup {e}
<1>1. Ranged(l, T)
  BY Zenon DEF Shared, Ranged
<1>2. ASSUME NEW a \in S PROVE Covered(l, a.item) \cap Cells(l, H \ G) = {}
  <2>1. PICK j \in 0..(nt - 1) : a.thread = j
    BY Zenon DEF Shared
  <2>2. ASSUME NEW F, Share(l, nt, S, j, F) PROVE Covered(l, a.item) \subseteq Cells(l, F)
    BY Zenon, <2>1, <2>2 DEF Share, HandedOut, ItemsOf
  <2>3. CASE j = i
    <3>1. G \cap (H \ G) = {} /\ G \in SUBSET Int /\ H \ G \in SUBSET Int
      BY Zenon, OwnedIn DEF Share
    <3>2. Cells(l, G) \cap Cells(l, H \ G) = {}
      BY Zenon, <3>1, CellsApart
    <3> QED
      BY Zenon, <2>2, <2>3, <3>2
  <2>4. CASE j # i
    <3>1. PICK F : Share(l, nt, S, j, F)
      BY Zenon DEF Shared
    <3>2. Owned(l, nt, j) \cap Owned(l, nt, i) = {}
      BY <2>4, OwnedApart
    <3>3. F \cap (H \ G) = {} /\ F \in SUBSET Int /\ H \ G \in SUBSET Int
      <4>1. F \in SUBSET Owned(l, nt, j)
        BY Zenon, <3>1 DEF Share
      <4>2. F \in SUBSET Int
        BY Zenon, <4>1, OwnedIn
      <4>3. H \in SUBSET Int
        BY ONLY Zenon, l \in LoopType, H \in SUBSET Owned(l, nt, i), OwnedIn
      <4> QED
        BY Zenon, <3>2, <4>1, <4>2, <4>3
    <3>4. Cells(l, F) \cap Cells(l, H \ G) = {}
      BY Zenon, <3>3, CellsApart
    <3> QED
      BY Zenon, <2>2, <3>1, <3>4
  <2> QED
    BY <2>3, <2>4
<1>3. Covered(l, e.item) \cap HandedOut(l, S) = {}
  <2>1. ASSUME NEW y, y \in HandedOut(l, S), y \in Covered(l, e.item) PROVE FALSE
    <3>1. PICK a \in S : y \in Covered(l, a.item)
      BY Zenon, <2>1 DEF HandedOut
    <3> QED
      BY Zenon, <1>2, <2>1, <3>1
  <2> QED
    BY Zenon, <2>1
<1>4. Covered(l, e.item) \subseteq Iterations(l)
  <2>1. H \ G \in SUBSET Owned(l, nt, i)
    BY Zenon
  <2> QED
    BY Zenon, <2>1, OwnedIn
<1>5. Apart(l, T)
  BY Zenon, <1>3, <1>4, OneItemMore DEF Shared
<1>6. Share(l, nt, T, i, H)
  <2>1. HandedOut(l, ItemsOf(T, i)) = HandedOut(l, ItemsOf(S, i)) \cup Covered(l, e.item)
    BY Zenon DEF HandedOut, ItemsOf
  <2>2. G \cup (H \ G) = H
    BY Zenon
  <2>3. Cells(l, G) \cup Cells(l, H \ G) = Cells(l, H)
    BY Zenon, <2>2 DEF Cells
  <2> QED
    BY Zenon, <2>1, <2>3 DEF Share
<1>7. ASSUME NEW j \in 0..(nt - 1), NEW F, j # i, Share(l, nt, S, j, F) PROVE Share(l, nt, T, j, F)
  <2>1. ItemsOf(T, j) = ItemsOf(S, j)
    BY Zenon, <1>7 DEF ItemsOf
  <2> QED
    BY Zenon, <1>7, <2>1 DEF Share
<1>8. Shared(l, nt, T)
  BY Zenon, <1>1, <1>5, <1>6, <1>7 DEF Shared
<1> QED
  BY Zenon, <1>6, <1>7, <1>8

\* When every thread has been given all it owns, the whole loop has been handed out.
LEMMA SharedAll ==
  ASSUME NEW l \in LoopType, NEW nt \in Nat \ {0}, NEW S, Shared(l, nt, S),
         \A i \in 0..(nt - 1) : Share(l, nt, S, i, Owned(l, nt, i))
  PROVE  HandedOut(l, S) = Iterations(l)
<1>1. HandedOut(l, S) \subseteq Iterations(l)
  BY Zenon DEF Shared, Apart, HandedOut
<1>2. ASSUME NEW y \in Iterations(l) PROVE y \in HandedOut(l, S)
  <2>1. PICK x \in 0..Last(l) : y = Iter(l, x)
    BY Zenon, WholeLoop DEF Cells
  <2>2. PICK i \in 0..(nt - 1) : x \in Owned(l, nt, i)
    BY OwnedAll
  <2>3. y \in HandedOut(l, ItemsOf(S, i))
    BY Zenon, <2>1, <2>2 DEF Share, Cells
  <2> QED
    BY Zenon, <2>3 DEF HandedOut, ItemsOf
<1> QED
  BY Zenon, <1>1, <1>2

-----------------------------------------------------------------------------
\* A thread that asks for an item of a loop: the sets of items S that have been
\* handed out of loop l, before and after

\* The chunks before cc are the items of a dynamic or guided loop.
Chunked(kd, l, nt, cc, S) ==
  Taken(kd, l, nt, cc, HandedOut(l, S)) /\ Apart(l, S) /\ Ranged(l, S)

\* nextItem() of a dynamic or guided loop, while there are chunks.
LEMMA ChunkGiven ==
  ASSUME NEW kd \in {"dynamic", "guided"}, NEW l \in LoopType, NEW nt \in Nat \ {0},
         NEW cc, NEW S, Chunked(kd, l, nt, cc, S), ~(cc >= NumOfChunks(kd, l, nt)),
         NEW e, e.item = ChunkItem(kd, l, nt, cc)
  PROVE  e.item.execute /\ Chunked(kd, l, nt, cc + 1, S \cup {e})
<1>1. /\ e.item.execute /\ Covered(l, e.item) \subseteq Iterations(l)
      /\ Covered(l, e.item) \cap HandedOut(l, S) = {}
      /\ Taken(kd, l, nt, cc + 1, HandedOut(l, S) \cup Covered(l, e.item))
  <2> DEFINE item == ChunkItem(kd, l, nt, cc)
  <2>1. /\ item.execute /\ Covered(l, item) \subseteq Iterations(l)
        /\ Covered(l, item) \cap HandedOut(l, S) = {}
        /\ Taken(kd, l, nt, cc + 1, HandedOut(l, S) \cup Covered(l, item))
    BY Zenon, TakenNext DEF Chunked
  <2> HIDE DEF item
  <2>2. e.item = item
    BY Zenon DEF item
  <2> QED
    BY ONLY Zenon, <2>1, <2>2
<1>2. Iterations(l) # {} => InRange(l, e.item)
  BY Zenon, ChunkInRange DEF Chunked, Taken
<1>3. Ranged(l, S \cup {e})
  BY Zenon, <1>2 DEF Chunked, Ranged
<1>4. /\ Apart(l, S \cup {e})
      /\ HandedOut(l, S \cup {e}) = HandedOut(l, S) \cup Covered(l, e.item)
  BY ZenonT(30), <1>1, OneItemMore DEF Chunked
<1> QED
  BY Zenon, <1>1, <1>3, <1>4 DEF Chunked

\* nextItem() when there are none.
LEMMA ChunkRefused ==
  ASSUME NEW kd \in {"dynamic", "guided"}, NEW l \in LoopType, NEW nt \in Nat \ {0},
         NEW cc, NEW S, Chunked(kd, l, nt, cc, S), cc >= NumOfChunks(kd, l, nt)
  PROVE  /\ Chunked(kd, l, nt, cc + 1, S) /\ HandedOut(l, S) = Iterations(l)
         /\ cc + 1 >= NumOfChunks(kd, l, nt)
BY Zenon, TakenAll DEF Chunked

\* Before the first item.
LEMMA ChunkNone ==
  ASSUME NEW kd \in {"dynamic", "guided"}, NEW l \in LoopType, NEW nt \in Nat \ {0}
  PROVE  Chunked(kd, l, nt, 0, {})
BY Zenon, TakenNone, NoItems DEF Chunked, Ranged

\* Thread i has taken its iterations before the lower bound lo of its own
\* descriptor of a static loop.
Passed(l, nt, S, i, lo) == LowerAt(l, nt, lo) /\ Share(l, nt, S, i, Gone(l, nt, i, lo))

\* The items of a static loop have bounds in range.
LEMMA StaticInRange ==
  ASSUME NEW l \in LoopType, NEW nt \in Nat \ {0}, NEW i \in 0..(nt - 1), NEW lo, LowerAt(l, nt, lo),
         StaticItem([l EXCEPT !.lower = lo], nt, i).execute
  PROVE  InRange(l, StaticItem([l EXCEPT !.lower = lo], nt, i))
<1> DEFINE m == [l EXCEPT !.lower = lo]
           item == StaticItem(m, nt, i)
<1>1. lo \in Int
  <2>1. CASE l.chunk = 0
    BY <2>1, StepSplit DEF LowerAt
  <2>2. CASE l.chunk # 0
    <3>1. PICK r \in Nat : lo = Iter(l, l.chunk * (nt * r))
      BY <2>2 DEF LowerAt
    <3>2. l.chunk * (nt * r) \in Int
      BY DEF LoopType
    <3> QED
      BY <3>1, <3>2, IterAt, StepSplit
  <2> QED
    BY <2>1, <2>2
<1>2. /\ m \in LoopType /\ m.lower \in Int /\ m.upper \in Int /\ m.step \in Int /\ m.chunk \in Nat
      /\ m.step = l.step
  BY <1>1 DEF LoopType
<1>3. Sign(m) = Sign(l) /\ Sign(m) \in {-1, 1}
  BY <1>2 DEF Sign
<1> HIDE DEF m
<1>4. CASE m.lower * Sign(m) > m.upper * Sign(m)
  BY <1>4 DEF StaticItem, NoItem, Item, m
<1>5. CASE ~(m.lower * Sign(m) > m.upper * Sign(m)) /\ m.chunk = 0
  <2> DEFINE b == StaticBlock(m, nt, i)
  <2>1. /\ item.lower = b.lower /\ item.upper = b.upper
        /\ item.execute = (b.lower * Sign(m) <= b.upper * Sign(m))
    BY <1>5 DEF StaticItem, Item
  <2>2. b.lower \in Int /\ b.upper \in Int
    <3>1. NIters(m) \in Int
      BY <1>2, NItersIs
    <3>2. CDiv(NIters(m), nt) \in Int
      BY <3>1, CDivType
    <3>3. CMod(NIters(m), nt) \in Int
      BY <3>1, <3>2 DEF CMod
    <3>4. Min({CMod(NIters(m), nt), i}) \in Int
      BY <3>3, MinOfTwo
    <3> QED
      BY <1>2, <3>2, <3>3, <3>4 DEF StaticBlock
  <2> HIDE DEF b, item
  <2>3. item.lower * Sign(l) <= item.upper * Sign(l)
    BY <1>3, <2>1 DEF item, m
  <2> QED
    BY <2>1, <2>2, <2>3, Signed DEF InRange, item, m
<1>6. CASE ~(m.lower * Sign(m) > m.upper * Sign(m)) /\ m.chunk # 0
  <2> DEFINE a == m.lower + m.chunk * m.step * i
             hi == a + m.chunk * m.step - m.step
             end == IF hi * Sign(m) >= m.upper * Sign(m) THEN m.upper ELSE hi
  <2>1. item.lower = a /\ item.upper = end /\ item.execute = (a * Sign(m) <= end * Sign(m))
    BY <1>6 DEF StaticItem, Item
  <2>2. a \in Int /\ end \in Int
    <3>1. m.chunk * m.step \in Int /\ m.chunk * m.step * i \in Int
      BY <1>2
    <3> QED
      BY <1>2, <3>1
  <2> HIDE DEF a, end, item
  <2>3. item.lower * Sign(l) <= item.upper * Sign(l)
    BY <1>3, <2>1 DEF item, m
  <2> QED
    BY <2>1, <2>2, <2>3, Signed DEF InRange, item, m
<1> QED
  BY <1>4, <1>5, <1>6

\* nextItem() of a static loop, while the thread has iterations.
LEMMA ShareGiven ==
  ASSUME NEW l \in LoopType, NEW nt \in Nat \ {0}, NEW i \in 0..(nt - 1), NEW S, NEW lo,
         Shared(l, nt, S), Passed(l, nt, S, i, lo),
         StaticItem([l EXCEPT !.lower = lo], nt, i).execute,
         NEW e, e.thread = i, e.item = StaticItem([l EXCEPT !.lower = lo], nt, i)
  PROVE  LET m == [l EXCEPT !.lower = lo]
             T == S \cup {e}
         IN /\ Shared(l, nt, T) /\ Passed(l, nt, T, i, StaticLower(m, nt))
            /\ \A F : \A j \in 0..(nt - 1) : j # i /\ Share(l, nt, S, j, F) => Share(l, nt, T, j, F)
<1> DEFINE m == [l EXCEPT !.lower = lo]
           item == StaticItem(m, nt, i)
           next == StaticLower(m, nt)
           G == Gone(l, nt, i, lo)
           H == Gone(l, nt, i, next)
<1>1. StaticMove(l, nt, i, lo, item, next) /\ LowerAt(l, nt, next)
  BY Zenon, StaticStep DEF Passed
<1>2. /\ Covered(l, item) = Cells(l, H \ G) /\ G \subseteq H /\ H \in SUBSET Owned(l, nt, i)
      /\ e.item = item
  BY Zenon, <1>1 DEF StaticMove, Gone
<1>3. Share(l, nt, S, i, G)
  BY Zenon DEF Passed
<1>4. InRange(l, item)
  BY Zenon, StaticInRange DEF Passed
<1> HIDE DEF G, H, item, m, next
<1>5. LET T == S \cup {e}
      IN /\ Shared(l, nt, T) /\ Share(l, nt, T, i, H)
         /\ \A F : \A j \in 0..(nt - 1) : j # i /\ Share(l, nt, S, j, F) => Share(l, nt, T, j, F)
  BY Zenon, <1>2, <1>3, <1>4, ShareMore
<1> QED
  BY Zenon, <1>1, <1>5 DEF Passed, G, H, item, m, next

\* nextItem() of a static loop when it has none.
LEMMA ShareRefused ==
  ASSUME NEW l \in LoopType, NEW nt \in Nat \ {0}, NEW i \in 0..(nt - 1), NEW S, NEW lo,
         Passed(l, nt, S, i, lo), ~StaticItem([l EXCEPT !.lower = lo], nt, i).execute
  PROVE  Share(l, nt, S, i, Owned(l, nt, i))
<1>1. StaticMove(l, nt, i, lo, StaticItem([l EXCEPT !.lower = lo], nt, i),
                 StaticLower([l EXCEPT !.lower = lo], nt))
  BY Zenon, StaticStep DEF Passed
<1> QED
  BY Zenon, <1>1 DEF StaticMove, Passed

\* Before the thread's first item.
LEMMA PassedNone ==
  ASSUME NEW l \in LoopType, NEW nt \in Nat \ {0}, NEW i, NEW S, Share(l, nt, S, i, {})
  PROVE  Passed(l, nt, S, i, l.lower)
<1>1. Gone(l, nt, i, l.lower) = {}
  BY Zenon, GonePast
<1>2. LowerAt(l, nt, l.lower)
  <2>1. Iter(l, l.chunk * (nt * 0)) = l.lower
    BY DEF Iter, LoopType
  <2> QED
    BY Zenon, <2>1, 0 \in Nat DEF LowerAt
<1> QED
  BY Zenon, <1>1, <1>2 DEF Passed

-----------------------------------------------------------------------------
\* The slices that have run, in order, as items that are told apart by their place

SliceType == [lower : Int, upper : Int, last : BOOLEAN]

Pieces(g) == {[thread |-> k, item |-> g[k]] : k \in DOMAIN g}

\* A slice of iterations that have not run yet.
LEMMA PieceMore ==
  ASSUME NEW l, NEW g \in Seq(SliceType), NEW s \in SliceType, Apart(l, Pieces(g)),
         Covered(l, s) \subseteq Iterations(l), Covered(l, s) \cap HandedOut(l, Pieces(g)) = {}
  PROVE  /\ Apart(l, Pieces(Append(g, s)))
         /\ HandedOut(l, Pieces(Append(g, s))) = HandedOut(l, Pieces(g)) \cup Covered(l, s)
<1> DEFINE h == Append(g, s)
           e == [thread |-> Len(g) + 1, item |-> s]
<1>1. /\ Len(g) \in Nat /\ DOMAIN g = 1..Len(g) /\ DOMAIN h = DOMAIN g \cup {Len(g) + 1}
      /\ \A k \in DOMAIN g : h[k] = g[k]
      /\ h[Len(g) + 1] = s
  BY SMTT(30)
<1>2. Pieces(h) = Pieces(g) \cup {e}
  BY Zenon, <1>1 DEF Pieces
<1>3. e.item = s
  OBVIOUS
<1> HIDE DEF h, e
<1>4. /\ Apart(l, Pieces(g) \cup {e})
      /\ HandedOut(l, Pieces(g) \cup {e}) = HandedOut(l, Pieces(g)) \cup Covered(l, e.item)
  BY Zenon, <1>3, OneItemMore
<1> QED
  BY Zenon, <1>2, <1>3, <1>4 DEF h

\* What it says of the slices that their items are apart.
LEMMA PiecesApart ==
  ASSUME NEW l, NEW g
  PROVE  /\ Apart(l, Pieces(g)) <=>
              /\ \A k \in DOMAIN g : Covered(l, g[k]) \subseteq Iterations(l)
              /\ \A j, k \in DOMAIN g : j = k \/ Covered(l, g[j]) \cap Covered(l, g[k]) = {}
         /\ HandedOut(l, Pieces(g)) = UNION {Covered(l, g[k]) : k \in DOMAIN g}
<1> DEFINE P(k) == [thread |-> k, item |-> g[k]]
<1>1. \A k : P(k).item = g[k]
  OBVIOUS
<1>2. \A j, k : P(j) = P(k) => j = k
  OBVIOUS
<1>3. \A a : a \in Pieces(g) <=> \E k \in DOMAIN g : a = P(k)
  BY Zenon DEF Pieces
<1> HIDE DEF P
<1>4. \A k \in DOMAIN g : P(k) \in Pieces(g)
  BY Zenon, <1>3
<1>5. HandedOut(l, Pieces(g)) = UNION {Covered(l, g[k]) : k \in DOMAIN g}
  <2>1. ASSUME NEW y \in HandedOut(l, Pieces(g)) PROVE \E k \in DOMAIN g : y \in Covered(l, g[k])
    <3>1. PICK a \in Pieces(g) : y \in Covered(l, a.item)
      BY Zenon, <2>1 DEF HandedOut
    <3> QED
      BY Zenon, <1>1, <1>3, <3>1
  <2>2. ASSUME NEW k \in DOMAIN g, NEW y \in Covered(l, g[k]) PROVE y \in HandedOut(l, Pieces(g))
    BY Zenon, <1>1, <1>4 DEF HandedOut
  <2> QED
    BY Zenon, <2>1, <2>2
<1>6. ASSUME Apart(l, Pieces(g))
      PROVE  /\ \A k \in DOMAIN g : Covered(l, g[k]) \subseteq Iterations(l)
             /\ \A j, k \in DOMAIN g : j = k \/ Covered(l, g[j]) \cap Covered(l, g[k]) = {}
  BY Zenon, <1>1, <1>2, <1>4, <1>6 DEF Apart
<1>7. ASSUME \A k \in DOMAIN g : Covered(l, g[k]) \subseteq Iterations(l),
             \A j, k \in DOMAIN g : j = k \/ Covered(l, g[j]) \cap Covered(l, g[k]) = {}
      PROVE  Apart(l, Pieces(g))
  <2>1. ASSUME NEW a \in Pieces(g) PROVE Covered(l, a.item) \subseteq Iterations(l)
    BY Zenon, <1>1, <1>3, <1>7, <2>1
  <2>2. ASSUME NEW a \in Pieces(g), NEW b \in Pieces(g)
        PROVE  a = b \/ Covered(l, a.item) \cap Covered(l, b.item) = {}
    <3>1. PICK j \in DOMAIN g : a = P(j)
      BY Zenon, <1>3
    <3>2. PICK k \in DOMAIN g : b = P(k)
      BY Zenon, <1>3
    <3>3. j = k \/ Covered(l, g[j]) \cap Covered(l, g[k]) = {}
      BY Zenon, <1>7
    <3>4. a.item = g[j] /\ b.item = g[k] /\ (j = k => a = b)
      BY <1>1, <3>1, <3>2
    <3> QED
      BY Zenon, <3>3, <3>4
  <2> QED
    BY Zenon, <2>1, <2>2 DEF Apart
<1> QED
  BY Zenon, <1>5, <1>6, <1>7

-----------------------------------------------------------------------------
\* The slices of the static slicer: the next piece of slice i starts at iteration p and
\* is w iterations long, and the one after it starts v iterations further on

Slot(l, nt, i, p, w, v) ==
  IF l.chunk = 0
    THEN \/ p > Last(l)
         \/ /\ p = Start(l, nt, i) /\ w = Start(l, nt, i + 1) - Start(l, nt, i)
            /\ v = NIters(l) /\ Last(l) >= 0
    ELSE \E r \in Nat : p = l.chunk * (nt * r + i) /\ w = l.chunk /\ v = l.chunk * nt

\* A piece is the part of what slice i owns between p and p + v.
LEMMA SlotPart ==
  ASSUME NEW l \in LoopType, NEW nt \in Nat \ {0}, NEW i \in 0..(nt - 1),
         NEW p \in Int, NEW w \in Int, NEW v \in Int, Slot(l, nt, i, p, w, v), p <= Last(l)
  PROVE  /\ p >= 0 /\ w >= 1 /\ w <= v /\ Slot(l, nt, i, p + v, w, v)
         /\ \A x \in 0..Last(l) : p <= x /\ x < p + v => (x \in Owned(l, nt, i) <=> x < p + w)
<1>1. Last(l) \in Int
  BY NItersIs
<1>2. CASE l.chunk = 0
  <2> DEFINE q == NIters(l) \div nt
             a == NIters(l) % nt
  <2>1. /\ p = Start(l, nt, i) /\ w = Start(l, nt, i + 1) - Start(l, nt, i) /\ v = NIters(l)
        /\ Last(l) >= 0
    BY <1>1, <1>2 DEF Slot
  <2>2. /\ q \in Nat /\ a \in Nat /\ i \in Nat /\ Start(l, nt, i) \in Nat
        /\ Start(l, nt, i + 1) = Start(l, nt, i) + q + (IF a > i THEN 1 ELSE 0)
        /\ Start(l, nt, i + 1) <= Start(l, nt, nt) /\ Start(l, nt, nt) = Last(l) + 1
    <3>1. Last(l) >= 0
      BY <2>1
    <3> QED
      BY ONLY SMTT(30), <3>1, l \in LoopType, nt \in Nat \ {0}, i \in 0..(nt - 1), StartFacts
  <2>3. NIters(l) = Last(l) + 1 /\ NIters(l) = nt * q + a
    BY ZenonT(30), <2>1, NItersIs, DivMod
  <2>4. Start(l, nt, i) = q * i + (IF i <= a THEN i ELSE a)
    BY Zenon DEF Start
  <2> HIDE DEF q, a
  <2>5. w >= 1
    <3>1. ASSUME q = 0, ~(a > i) PROVE FALSE
      <4>1. Start(l, nt, i) = a /\ NIters(l) = a
        BY <2>2, <2>3, <2>4, <3>1
      <4> QED
        BY <1>1, <2>1, <2>3, <4>1
    <3> QED
      BY SMTT(30), <2>1, <2>2, <3>1
  <2>6. w <= v /\ p + v > Last(l) /\ p >= 0
    BY <1>1, <2>1, <2>2, <2>3
  <2>7. Slot(l, nt, i, p + v, w, v)
    BY Zenon, <1>2, <2>6 DEF Slot
  <2>8. ASSUME NEW x \in 0..Last(l), p <= x PROVE x \in Owned(l, nt, i) <=> x < p + w
    BY <1>1, <1>2, <2>1, <2>2, <2>8 DEF Owned
  <2> QED
    BY <2>5, <2>6, <2>7, <2>8
<1>3. CASE l.chunk # 0
  <2>1. PICK c \in Nat \ {0} : c = l.chunk
    BY <1>3 DEF LoopType
  <2>2. PICK r \in Nat : p = c * (nt * r + i) /\ w = c /\ v = c * nt
    BY Zenon, <1>3, <2>1 DEF Slot
  <2>3. nt * r \in Nat /\ i \in Nat /\ nt * r + i \in Nat
    OBVIOUS
  <2>4. p >= 0 /\ w >= 1 /\ w <= v
    BY <2>2, <2>3
  <2>5. p + v = c * (nt * (r + 1) + i)
    BY <2>2
  <2>6. Slot(l, nt, i, p + v, w, v)
    <3>1. r + 1 \in Nat
      OBVIOUS
    <3> QED
      BY Zenon, <1>3, <2>1, <2>2, <2>5, <3>1 DEF Slot
  <2>7. PICK b \in Nat : b = nt * r + i
    BY <2>3
  <2>8. b \in (nt * r)..(nt * r + i) /\ p = c * b /\ p + v = c * (b + nt)
    BY <2>2, <2>3, <2>7
  <2>9. ASSUME NEW x \in 0..Last(l), p <= x, x < p + v PROVE x \in Owned(l, nt, i) <=> x < p + w
    <3>1. x \in Nat /\ c * b <= x /\ x < c * (b + nt)
      BY <1>1, <2>8, <2>9
    <3>2. (x \div c) % nt = i <=> c * (nt * r + i) <= x /\ x < c * (nt * r + i) + c
      BY ZenonT(30), <2>8, <3>1, OwnedChunk
    <3>3. (x \div c) % nt = i <=> x < p + w
      BY <2>2, <2>9, <3>2
    <3> QED
      BY <1>3, <2>1, <3>3 DEF Owned
  <2> QED
    BY <2>4, <2>6, <2>9
<1> QED
  BY <1>2, <1>3

\* Where the first block of a slice starts in a loop without iterations: past its end.
LEMMA EmptyBlock ==
  ASSUME NEW l \in LoopType, NEW nt \in Nat \ {0}, NEW i \in 0..(nt - 1), Last(l) < 0,
         NEW y \in Nat
  PROVE  i * CDiv(NIters(l), nt) + y > Last(l)
<1>1. PICK t \in Int : t = NIters(l)
  BY NItersIs
<1>2. PICK z \in Int : z = Last(l)
  BY NItersIs
<1>3. t >= z + 1 /\ i \in Nat /\ z < 0
  BY <1>1, <1>2, NItersIs
<1>4. CASE t >= 0
  <2>1. t \in Nat
    BY <1>4
  <2>2. PICK q \in Nat : q = t \div nt /\ q = CDiv(t, nt)
    BY <2>1, DivNat, CDivOfNat
  <2>3. i * q >= 0
    BY <1>3
  <2> QED
    BY <1>1, <1>2, <1>3, <2>2, <2>3
<1>5. CASE t < 0
  <2>1. CDiv(t, nt) = -((-t) \div nt)
    BY <1>5 DEF CDiv, Abs
  <2>2. PICK b \in Nat : b = (-t) \div nt
    <3>1. -t \in Nat
      BY <1>5
    <3> QED
      BY <3>1, DivNat
  <2>3. nt * b <= -t
    BY <1>5, <2>2, DivBelow
  <2>4. i * b <= nt * b
    <3>1. PICK d \in Nat : nt = i + d
      <4>1. nt - i \in Nat /\ nt = i + (nt - i)
        OBVIOUS
      <4> QED
        BY <4>1
    <3>2. nt * b = i * b + d * b /\ d * b >= 0
      BY <1>3, <3>1
    <3> QED
      BY <1>3, <3>2
  <2>5. i * b <= -t /\ i * b \in Nat
    BY <1>3, <2>3, <2>4
  <2>6. i * (-b) = -(i * b)
    BY <1>3
  <2>7. i * CDiv(NIters(l), nt) = -(i * b)
    BY <1>1, <2>1, <2>2, <2>6
  <2> QED
    BY <1>2, <1>3, <2>5, <2>7
<1> QED
  BY <1>4, <1>5

\* What slice i has run after its next piece.
LEMMA SlotGone ==
  ASSUME NEW l \in LoopType, NEW nt \in Nat \ {0}, NEW i \in 0..(nt - 1),
         NEW p \in Int, NEW w \in Int, NEW v \in Int, Slot(l, nt, i, p, w, v), p <= Last(l)
  PROVE  LET D == p..Upto(l, p + w - 1)
         IN /\ Gone(l, nt, i, Iter(l, p + v)) = Gone(l, nt, i, Iter(l, p)) \cup D
            /\ Gone(l, nt, i, Iter(l, p)) \cap D = {} /\ D \subseteq Owned(l, nt, i) /\ p \in D
<1> DEFINE D == p..Upto(l, p + w - 1)
<1>1. /\ p >= 0 /\ w >= 1 /\ w <= v
      /\ \A x \in 0..Last(l) : p <= x /\ x < p + v => (x \in Owned(l, nt, i) <=> x < p + w)
  BY SlotPart
<1>2. Last(l) \in Int
  BY NItersIs
<1>3. /\ Gone(l, nt, i, Iter(l, p)) = {x \in Owned(l, nt, i) : x < p}
      /\ Gone(l, nt, i, Iter(l, p + v)) = {x \in Owned(l, nt, i) : x < p + v}
  BY GoneAt
<1>4. \A x : x \in D <=> x \in 0..Last(l) /\ p <= x /\ x < p + w
  BY <1>1, <1>2 DEF Upto
<1> HIDE DEF D
<1>5. \A x \in Owned(l, nt, i) : x \in 0..Last(l) /\ x \in Int
  BY <1>2 DEF Owned
<1>6. ASSUME NEW x \in D PROVE x \in Owned(l, nt, i) /\ ~(x < p) /\ x < p + v
  BY <1>1, <1>2, <1>4
<1>7. ASSUME NEW x \in Owned(l, nt, i), x < p + v, ~(x < p) PROVE x \in D
  BY <1>1, <1>4, <1>5, <1>7
<1>8. ASSUME NEW x \in Owned(l, nt, i), x < p PROVE x < p + v
  BY <1>1, <1>5, <1>8
<1>9. p \in D
  BY <1>1, <1>2, <1>4
<1> QED
  BY Zenon, <1>3, <1>6, <1>7, <1>8, <1>9 DEF D

\* A set of numbers up to m has a largest one.
LEMMA Largest ==
  ASSUME NEW m \in Nat, NEW S \in SUBSET (0..m), S # {}
  PROVE  Max(S) \in S /\ \A y \in S : y <= Max(S)
<1> DEFINE T == {m - x : x \in S}
<1>1. T \in SUBSET Nat /\ T # {}
  <2>1. \A x \in S : m - x \in Nat
    OBVIOUS
  <2> QED
    BY Zenon, <2>1
<1>2. Min(T) \in T /\ \A y \in T : Min(T) <= y
  BY ZenonT(30), <1>1, Smallest
<1>3. PICK x \in S : Min(T) = m - x
  BY Zenon, <1>2
<1>4. ASSUME NEW y \in S PROVE x >= y
  <2>1. m - y \in T
    OBVIOUS
  <2>2. m - x <= m - y
    BY Zenon, <1>2, <1>3, <2>1
  <2> QED
    BY <2>2
<1>5. Max(S) \in S /\ \A y \in S : Max(S) >= y
  BY Zenon, <1>4 DEF Max
<1> QED
  BY <1>5

\* Iterations are in the order of their numbers.
LEMMA IterOrder ==
  ASSUME NEW l \in LoopType, NEW x \in Int, NEW y \in Int
  PROVE  Iter(l, x) * l.step <= Iter(l, y) * l.step <=> x <= y
<1>1. Iter(l, x) \in Int /\ Iter(l, y) \in Int
  BY StepSplit DEF Iter
<1>2. Iter(l, x) * l.step <= Iter(l, y) * l.step <=> Iter(l, x) * Sign(l) <= Iter(l, y) * Sign(l)
  BY <1>1, Signed
<1>3. Iter(l, x) * Sign(l) <= Iter(l, y) * Sign(l) <=> x <= Ix(l, Iter(l, y))
  BY <1>1, IterAt
<1> QED
  BY <1>2, <1>3, IxOfIter

HasLast(l, s) ==
  s.last <=> \A i \in Iterations(l) : \E j \in Covered(l, s) : i * l.step <= j * l.step

\* A piece has the last iteration if it ends with the loop.
LEMMA LastPiece ==
  ASSUME NEW l \in LoopType, NEW p \in Nat, NEW e \in Int, p <= e, p <= Last(l), NEW s,
         Covered(l, s) = Cells(l, p..Upto(l, e)), s.last <=> e >= Last(l)
  PROVE  HasLast(l, s)
<1>1. Last(l) \in Nat /\ Upto(l, e) \in Int /\ Upto(l, e) <= e /\ Upto(l, e) <= Last(l)
      /\ (e >= Last(l) => Upto(l, e) = Last(l))
  BY SMTT(30), NItersIs DEF Upto
<1>2. ASSUME e >= Last(l), NEW y \in Iterations(l)
      PROVE  \E j \in Covered(l, s) : y * l.step <= j * l.step
  <2>1. PICK x \in 0..Last(l) : y = Iter(l, x)
    BY Zenon, WholeLoop DEF Cells
  <2>2. Last(l) \in p..Upto(l, e) /\ x <= Last(l) /\ x \in Int /\ Last(l) \in Int
    BY <1>1, <1>2
  <2>3. Iter(l, Last(l)) \in Covered(l, s)
    BY Zenon, <2>2 DEF Cells
  <2>4. y * l.step <= Iter(l, Last(l)) * l.step
    BY ZenonT(30), <2>1, <2>2, IterOrder
  <2> QED
    BY Zenon, <2>3, <2>4
<1>3. ASSUME \A y \in Iterations(l) : \E j \in Covered(l, s) : y * l.step <= j * l.step
      PROVE  e >= Last(l)
  <2>1. Last(l) \in 0..Last(l) /\ Last(l) \in Int
    BY <1>1
  <2>2. Iter(l, Last(l)) \in Iterations(l)
    BY Zenon, <2>1, WholeLoop DEF Cells
  <2>3. PICK x \in p..Upto(l, e) : Iter(l, Last(l)) * l.step <= Iter(l, x) * l.step
    BY Zenon, <1>3, <2>2 DEF Cells
  <2>4. Last(l) <= x
    <3>1. x \in Int
      BY <1>1
    <3> QED
      BY ONLY ZenonT(30), l \in LoopType, <2>1, <2>3, <3>1, IterOrder
  <2> QED
    BY <1>1, <2>3, <2>4
<1> QED
  BY Zenon, <1>2, <1>3 DEF HasLast

\* staticLoop() runs what is left of the piece that starts at p, and says whether that is
\* the end of the loop.
LEMMA SlotSlice ==
  ASSUME NEW l \in LoopType, NEW p \in Int, NEW w \in Int, w >= 1
  PROVE  LET end == Iter(l, p) + w * l.step - Sign(l)
             fin == end * Sign(l) >= l.upper * Sign(l)
             s == Slice(Iter(l, p), IF fin THEN l.upper ELSE end, fin)
         IN /\ s \in SliceType /\ Covered(l, s) = Cells(l, p..Upto(l, p + w - 1))
            /\ s.last <=> p + w - 1 >= Last(l)
<1> DEFINE end == Iter(l, p) + w * l.step - Sign(l)
           fin == end * Sign(l) >= l.upper * Sign(l)
           s == Slice(Iter(l, p), IF fin THEN l.upper ELSE end, fin)
<1>1. PICK e \in Int : e = p + w
  OBVIOUS
<1>2. /\ l.upper \in Int /\ l.step \in Int /\ l.lower \in Int /\ Sign(l) \in {-1, 1}
      /\ l.step * Sign(l) \in Nat \ {0} /\ Last(l) \in Int
  BY StepSplit, NItersIs
<1>3. Iter(l, p) \in Int /\ Iter(l, e) \in Int /\ Iter(l, e - 1) \in Int
  BY <1>2 DEF Iter
<1>4. Iter(l, p) + w * l.step = Iter(l, e) /\ Iter(l, e - 1) = Iter(l, e) - l.step
  BY <1>1, <1>2 DEF Iter
<1>5. end = Iter(l, e) - Sign(l) /\ end \in Int
  BY <1>2, <1>3, <1>4
<1>6. s.lower = Iter(l, p) /\ s.upper = (IF fin THEN l.upper ELSE end) /\ s.last = fin
  BY SMTT(30) DEF Slice
<1>7. s \in SliceType
  BY SMTT(30), <1>2, <1>3, <1>5 DEF Slice, SliceType
<1> HIDE DEF s
<1>8. end * Sign(l) = Iter(l, e) * Sign(l) - 1
  BY SMTT(30), <1>2, <1>3, <1>5
<1>9. fin <=> ~(e <= Last(l))
  <2>1. Iter(l, e) * Sign(l) <= l.upper * Sign(l) <=> e <= Last(l)
    BY <1>2, IterAt DEF Last
  <2> QED
    BY <1>2, <1>3, <1>8, <2>1
<1>10. Ix(l, end) = e - 1
  <2>1. \A x \in Int : Iter(l, x) * Sign(l) <= end * Sign(l) <=> x <= Ix(l, end)
    BY <1>5, IterAt
  <2>2. Ix(l, end) \in Int
    BY <1>5, IterAt
  <2>3. Iter(l, e - 1) * Sign(l) <= end * Sign(l)
    BY <1>2, <1>3, <1>4, <1>8
  <2>4. ~(Iter(l, e) * Sign(l) <= end * Sign(l))
    BY <1>2, <1>3, <1>8
  <2> QED
    BY <2>1, <2>2, <2>3, <2>4
<1> HIDE DEF end, fin
<1>11. Covered(l, s) = Cells(l, p..Ix(l, s.upper))
  BY SMTT(30), <1>2, <1>5, <1>6, CoveredCells
<1>12. Ix(l, s.upper) = Upto(l, e - 1)
  BY <1>1, <1>2, <1>6, <1>9, <1>10 DEF Upto, Last
<1>13. e - 1 = p + w - 1 /\ (fin <=> p + w - 1 >= Last(l))
  BY <1>1, <1>2, <1>9
<1> QED
  BY ZenonT(30), <1>6, <1>7, <1>11, <1>12, <1>13 DEF s, fin, end

\* The first piece of each slice: no iteration that the slice owns is before it.
LEMMA FirstSlot ==
  ASSUME loop \in LoopType, threads \in Nat \ {0}, NEW i \in 0..(threads - 1)
  PROVE  \E p, w, v \in Int :
           /\ StaticSlice(i) = [lower |-> Iter(loop, p), chunk |-> w * loop.step, stride |-> v * loop.step]
           /\ Slot(loop, threads, i, p, w, v)
           /\ \A x \in Owned(loop, threads, i) : p <= x
<1>1. PICK nt \in Nat \ {0} : nt = threads
  OBVIOUS
<1>2. PICK st \in Int : st = loop.step
  BY StepSplit
<1>3. PICK lo \in Int : lo = loop.lower
  BY StepSplit
<1>4. PICK t \in Int : t = NIters(loop)
  BY NItersIs
<1>5. Last(loop) \in Int /\ i \in Nat
  BY NItersIs
<1>6. CASE loop.chunk # 0
  <2>1. PICK c \in Nat \ {0} : c = loop.chunk
    BY <1>6 DEF LoopType
  <2>2. PICK p \in Nat : p = c * i
    BY <1>5
  <2>3. PICK v \in Nat : v = c * nt
    OBVIOUS
  <2>4. Iter(loop, p) = lo + i * (c * st)
    BY <1>2, <1>3, <1>5, <2>2 DEF Iter
  <2>5. v * st = (c * st) * nt
    BY <2>3
  <2>6. StaticSlice(i) = [lower |-> Iter(loop, p), chunk |-> c * loop.step, stride |-> v * loop.step]
    BY SMTT(30), <1>1, <1>2, <1>3, <1>6, <2>1, <2>4, <2>5 DEF StaticSlice
  <2>7. Slot(loop, threads, i, p, c, v)
    <3>1. p = c * (nt * 0 + i)
      BY <1>5, <2>2
    <3> QED
      BY Zenon, <1>1, <1>6, <2>1, <2>3, <3>1, 0 \in Nat DEF Slot
  <2>8. ASSUME NEW x \in Owned(loop, threads, i) PROVE p <= x
    <3>1. x \in Nat /\ (x \div c) % nt = i
      BY <1>1, <1>5, <1>6, <2>1 DEF Owned
    <3>2. PICK y \in Nat : y = x \div c
      BY <3>1, DivNat
    <3>3. PICK d \in Nat : d = y \div nt
      BY DivNat
    <3>4. y % nt = i
      BY Zenon, <3>1, <3>2
    <3>5. i <= y
      <4>1. y = nt * d + i
        <5>1. y = nt * (y \div nt) + (y % nt)
          BY ONLY y \in Nat, nt \in Nat \ {0}, DivMod
        <5> QED
          BY Zenon, <3>3, <3>4, <5>1
      <4>2. nt * d >= 0
        OBVIOUS
      <4> QED
        BY <1>5, <4>1, <4>2
    <3> QED
      BY <1>5, <2>2, <3>1, <3>2, <3>5, DivBelow
  <2>9. p \in Int /\ c \in Int /\ v \in Int
    OBVIOUS
  <2> QED
    BY Zenon, <2>6, <2>7, <2>8, <2>9
<1>7. CASE loop.chunk = 0
  <2>1. PICK d \in Int : d = CDiv(t, nt)
    BY CDivType
  <2>2. PICK a \in Int : a = CMod(t, nt)
    BY CDivType
  <2>3. PICK y \in Nat : y = Min({i, Max({a, 0})})
    BY <1>5, MinOfTwo, MaxOfTwo
  <2>4. PICK p \in Int : p = i * d + y
    BY <1>5
  <2>5. PICK w \in Int : w = d + (IF a > i THEN 1 ELSE 0)
    BY <1>5
  <2>6. Iter(loop, p) = lo + i * (d * st) + y * st
    BY <1>2, <1>3, <1>5, <2>4 DEF Iter
  <2>7. w * st = d * st + (IF a > i THEN st ELSE 0)
    BY <1>5, <2>5
  <2>8. StaticSlice(i) = [lower |-> Iter(loop, p), chunk |-> w * loop.step, stride |-> t * loop.step]
    BY SMTT(30), <1>1, <1>2, <1>3, <1>4, <1>7, <2>1, <2>2, <2>3, <2>6, <2>7 DEF StaticSlice
  <2>9. CASE Last(loop) < 0
    <3>1. p > Last(loop)
      BY <1>1, <1>4, <2>1, <2>4, <2>9, EmptyBlock
    <3>2. Owned(loop, threads, i) = {}
      BY <1>5, <2>9 DEF Owned
    <3>3. Slot(loop, threads, i, p, w, t)
      BY Zenon, <1>7, <3>1 DEF Slot
    <3> QED
      BY Zenon, <2>8, <3>2, <3>3
  <2>10. CASE Last(loop) >= 0
    <3>1. t \in Nat /\ d = t \div nt /\ a = t % nt
      <4>1. t \in Nat
        BY <1>4, <1>5, <2>10, NItersIs
      <4> QED
        BY ZenonT(30), <2>1, <2>2, <4>1, CDivOfNat
    <3>2. a \in 0..(nt - 1)
      BY <3>1, DivMod
    <3>3. y = (IF i <= a THEN i ELSE a)
      BY <1>5, <2>3, <3>2, MinOfTwo, MaxOfTwo
    <3>4. Start(loop, threads, i) = d * i + y
      BY <1>1, <1>4, <3>1, <3>3 DEF Start
    <3>5. p = Start(loop, threads, i)
      BY <1>5, <2>4, <3>4
    <3>6. Start(loop, threads, i + 1) = Start(loop, threads, i) + d + (IF a > i THEN 1 ELSE 0)
      BY ONLY ZenonT(30), <1>1, <1>4, <1>5, <2>10, <3>1, loop \in LoopType, StartFacts
    <3>7. w = Start(loop, threads, i + 1) - Start(loop, threads, i)
      BY <1>5, <2>5, <3>2, <3>5, <3>6
    <3>8. Slot(loop, threads, i, p, w, t)
      BY Zenon, <1>4, <1>7, <2>10, <3>5, <3>7 DEF Slot
    <3>9. \A x \in Owned(loop, threads, i) : p <= x
      BY Zenon, <1>7, <3>5 DEF Owned
    <3> QED
      BY Zenon, <2>8, <3>8, <3>9
  <2> QED
    BY SMTT(30), <1>5, <2>9, <2>10
<1> QED
  BY <1>6, <1>7

\* submit() makes a slice for every thread that owns an iteration.
LEMMA SlicesMade ==
  ASSUME loop \in LoopType, threads \in Nat \ {0}
  PROVE  /\ StaticSlices \in 1..threads
         /\ \A i \in StaticSlices..(threads - 1) : Owned(loop, threads, i) = {}
<1>1. Last(loop) \in Int
  BY NItersIs
<1>2. CASE loop.chunk = 0
  BY <1>2 DEF StaticSlices
<1>3. CASE loop.chunk # 0
  <2>1. PICK c \in Nat \ {0} : c = loop.chunk
    BY <1>3 DEF LoopType
  <2> DEFINE S == {i \in 1..threads : \A j \in 1..(i - 1) :
                     (loop.lower + j * loop.chunk * loop.step) * Sign(loop) <= loop.upper * Sign(loop)}
  <2>2. 1 \in S
    OBVIOUS
  <2>3. S \in SUBSET (0..threads) /\ threads \in Nat
    OBVIOUS
  <2>4. StaticSlices = Max(S)
    BY Zenon, <1>3 DEF StaticSlices
  <2>5. \A i \in 1..threads : i \notin S =>
          \E j \in 1..(i - 1) :
            ~((loop.lower + j * loop.chunk * loop.step) * Sign(loop) <= loop.upper * Sign(loop))
    BY Zenon
  <2> HIDE DEF S
  <2>6. Max(S) \in S /\ \A y \in S : y <= Max(S)
    BY ZenonT(30), <2>2, <2>3, Largest
  <2>7. PICK m \in 1..threads : m = Max(S)
    BY ZenonT(30), <2>6 DEF S
  <2>8. ASSUME NEW i \in m..(threads - 1), NEW x \in Owned(loop, threads, i) PROVE FALSE
    <3>1. i \in 1..(threads - 1) /\ i + 1 \notin S /\ i + 1 \in 1..threads
      BY <2>6, <2>7
    <3>2. PICK j \in 1..(i + 1 - 1) :
            ~((loop.lower + j * loop.chunk * loop.step) * Sign(loop) <= loop.upper * Sign(loop))
      BY <2>5, <3>1
    <3>3. loop.lower + j * loop.chunk * loop.step = Iter(loop, j * c) /\ j * c \in Int /\ j \in Nat
      BY <2>1, <3>2 DEF Iter
    <3>4. ~(j * c <= Last(loop))
      BY SMTT(30), <3>2, <3>3, IterAt, StepSplit DEF Last
    <3>5. x \in Nat /\ x <= Last(loop) /\ (x \div c) % threads = i /\ j <= i /\ i \in Nat
      BY <1>1, <1>3, <2>1, <3>1 DEF Owned
    <3>6. x < c * j
      BY <1>1, <3>3, <3>4, <3>5
    <3>7. PICK y \in Nat : y = x \div c
      BY <3>5, DivNat
    <3>8. y < j
      <4>1. x \in Int /\ j \in Int
        BY <3>3, <3>5
      <4>2. j <= x \div c <=> c * j <= x
        BY ONLY <4>1, c \in Nat \ {0}, DivBelow
      <4> QED
        BY <3>3, <3>5, <3>6, <3>7, <4>2
    <3>9. y % threads = y
      BY <3>1, <3>3, <3>5, <3>8
    <3> QED
      BY <3>3, <3>5, <3>7, <3>8, <3>9
  <2> QED
    BY Zenon, <2>4, <2>7, <2>8
<1> QED
  BY <1>2, <1>3

-----------------------------------------------------------------------------
\* The slices of a dynamic or guided loop: what is left of it starts at iteration p

LeftFrom(l, p) == [l EXCEPT !.lower = Iter(l, p), !.chunk = ChunkSize(l)]

\* dequeue() of what is left, with a slice up to iteration u: all of it, or a part.
LEMMA LeftSlice ==
  ASSUME NEW l \in LoopType, NEW p \in Int, NEW u \in Int
  PROVE  LET m == LeftFrom(l, p)
             all == Empty(m) \/ Iter(l, u) * Sign(m) >= m.upper * Sign(m)
         IN /\ Covered(l, Slice(m.lower, m.upper, FALSE)) = Cells(l, p..Last(l))
            /\ Covered(l, Slice(m.lower, Iter(l, u), FALSE)) = Cells(l, p..u)
            /\ Slice(m.lower, m.upper, FALSE) \in SliceType
            /\ Slice(m.lower, Iter(l, u), FALSE) \in SliceType
            /\ ~all => p <= Last(l) /\ u <= Last(l)
            /\ [m EXCEPT !.lower = Iter(l, u) + m.step] = LeftFrom(l, u + 1)
<1> DEFINE m == LeftFrom(l, p)
           a == Slice(m.lower, m.upper, FALSE)
           b == Slice(m.lower, Iter(l, u), FALSE)
<1>1. Iter(l, p) \in Int /\ Iter(l, u) \in Int /\ l.upper \in Int /\ l.step \in Int /\ Last(l) \in Int
  BY IterAt, StepSplit, NItersIs
<1>2. m.lower = Iter(l, p) /\ m.upper = l.upper /\ m.step = l.step /\ Sign(m) = Sign(l)
  BY DEF LeftFrom, LoopType, Sign
<1>3. a.lower = Iter(l, p) /\ a.upper = l.upper /\ b.lower = Iter(l, p) /\ b.upper = Iter(l, u)
  BY <1>2 DEF Slice
<1>4. a \in SliceType /\ b \in SliceType
  BY SMTT(30), <1>1, <1>2 DEF Slice, SliceType
<1>5. [m EXCEPT !.lower = Iter(l, u) + m.step] = LeftFrom(l, u + 1)
  <2>1. Iter(l, u) + l.step = Iter(l, u + 1)
    BY StepSplit DEF Iter
  <2> QED
    BY ZenonT(30), <1>2, <2>1 DEF LeftFrom, LoopType
<1> HIDE DEF m, a, b
<1>6. Covered(l, a) = Cells(l, p..Last(l))
  BY <1>1, <1>3, CoveredCells DEF Last
<1>7. Covered(l, b) = Cells(l, p..u)
  <2>1. Covered(l, b) = Cells(l, p..Ix(l, b.upper))
    BY <1>1, <1>3, CoveredCells
  <2> QED
    BY SMTT(30), <1>3, <2>1, IxOfIter
<1>8. ASSUME ~Empty(m) PROVE p <= Last(l)
  BY <1>1, <1>2, <1>8, IterAt, StepSplit DEF Empty, Last
<1>9. ASSUME ~(Iter(l, u) * Sign(m) >= m.upper * Sign(m)) PROVE u <= Last(l)
  BY <1>1, <1>2, <1>9, IterAt, StepSplit DEF Last
<1> QED
  BY Zenon, <1>4, <1>5, <1>6, <1>7, <1>8, <1>9 DEF m, a, b

=============================================================================
