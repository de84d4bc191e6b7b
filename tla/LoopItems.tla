----------------------------- MODULE LoopItems -----------------------------
(***************************************************************************)
(* The chunks of iterations that the worksharing plugins hand out.  A loop *)
(* is [lower, upper, step, chunk]; both bounds belong to it, and its step  *)
(* may be negative.                                                        *)
(***************************************************************************)
EXTENDS Integers, FiniteSetsExt

\* What the plugins are given; a step is not zero
LoopType == [lower : Int, upper : Int, step : Int \ {0}, chunk : Nat]

Schedules == {"dynamic", "guided", "static"}

Abs(n) == IF n < 0 THEN -n ELSE n

\* Division and remainder as C has them: towards zero
CDiv(a, b) ==
  LET q == Abs(a) \div Abs(b) IN IF (a < 0) = (b < 0) THEN q ELSE -q

CMod(a, b) == a - b * CDiv(a, b)

\* What  for (i = lower; i <= upper; i += step)  goes through
Iterations(l) ==
  {i \in Min({l.lower, l.upper})..Max({l.lower, l.upper}) :
     /\ (i - l.lower) % Abs(l.step) = 0
     /\ i * l.step <= l.upper * l.step /\ i * l.step >= l.lower * l.step}

\* The number of iterations, as all of the plugins compute it
NIters(l) == CDiv(l.upper - l.lower, l.step) + 1

Item(lo, hi, exec, fin) == [lower |-> lo, upper |-> hi, execute |-> exec, last |-> fin]

\* nextItem() returns without setting anything else
NoItem == Item(0, 0, FALSE, FALSE)

\* "Check bounds"
Clamp(l, hi) == IF hi * l.step > l.upper * l.step THEN l.upper ELSE hi

-----------------------------------------------------------------------------
\* WorkSharingDynamicFor

ChunkSize(l) == Max({l.chunk, 1})

DynamicChunks_Floor(l, nths) == CDiv(NIters(l), ChunkSize(l))

DynamicChunks(l, nths) ==
  CDiv(NIters(l), ChunkSize(l)) + IF CMod(NIters(l), ChunkSize(l)) # 0 THEN 1 ELSE 0

DynamicItem(l, nths, k) ==
  LET lo == l.lower + ChunkSize(l) * l.step * k
  IN Item(lo, Clamp(l, lo + ChunkSize(l) * l.step - l.step), TRUE, FALSE)

-----------------------------------------------------------------------------
\* WorkSharingGuidedFor

GuidedFactor == 2

GuidedSize(l, nths, left) == Max({CDiv(left, nths * GuidedFactor), ChunkSize(l)})

\* The iterations left before each chunk
GuidedLeft(l, nths) ==
  LET left[k \in Nat] ==
        IF k = 0 THEN NIters(l)
                 ELSE Max({before - GuidedSize(l, nths, before) : before \in {left[k - 1]}})
  IN left

GuidedChunks(l, nths) ==
  Min({k \in 0..Max({NIters(l), 0}) : GuidedLeft(l, nths)[k] <= 0})

GuidedItem(l, nths, k) ==
  LET left == GuidedLeft(l, nths)[k]
      lo == l.lower + (NIters(l) - left) * l.step
      hi == lo + GuidedSize(l, nths, left) * l.step - l.step
  IN Item(lo, Clamp(l, hi), TRUE, FALSE)

-----------------------------------------------------------------------------
\* WorkSharingStaticFor: thread 'thid' of 'nths' has a descriptor of its own,
\* whose lower bound moves; the item and the next lower bound

Sign(l) == IF l.step < 0 THEN -1 ELSE 1

StaticBlock(l, nths, thid) ==
  LET adjust == CMod(NIters(l), nths)
      schunk == (CDiv(NIters(l), nths) - 1) * l.step
      lo == l.lower + (schunk + l.step) * thid + Min({adjust, thid}) * l.step
  IN [lower |-> lo, upper |-> lo + schunk + IF adjust > thid THEN l.step ELSE 0]

StaticItem(l, nths, thid) ==
  IF l.lower * Sign(l) > l.upper * Sign(l) THEN NoItem
  ELSE IF l.chunk = 0
  THEN LET b == StaticBlock(l, nths, thid)
       IN Item(b.lower, b.upper, b.lower * Sign(l) <= b.upper * Sign(l), b.upper = l.upper)
  ELSE LET lo == l.lower + l.chunk * l.step * thid
           hi == lo + l.chunk * l.step - l.step
           fin == hi * Sign(l) >= l.upper * Sign(l)
           end == IF fin THEN l.upper ELSE hi
       IN Item(lo, end, lo * Sign(l) <= end * Sign(l), fin)

StaticLower(l, nths) ==
  IF l.lower * Sign(l) > l.upper * Sign(l) THEN l.lower
  ELSE IF l.chunk = 0 THEN l.upper + l.step
  ELSE l.lower + l.chunk * l.step * nths

-----------------------------------------------------------------------------
NumOfChunks(kind, l, nths) ==
  IF kind = "dynamic" THEN DynamicChunks(l, nths) ELSE GuidedChunks(l, nths)

ChunkItem(kind, l, nths, k) ==
  IF kind = "dynamic" THEN DynamicItem(l, nths, k) ELSE GuidedItem(l, nths, k)

\* ensure( lower * step <= upper * step, "Chunk bounds out of range" ), which both
\* make of every item they hand out; it is an assertion of debug builds
InRange(l, item) == item.lower * l.step <= item.upper * l.step

\* The iterations of an item
Covered(l, item) == Iterations([l EXCEPT !.lower = item.lower, !.upper = item.upper])
=============================================================================
