------------------------------ MODULE Slicers ------------------------------
(***************************************************************************)
(* A sliced work descriptor: each time a thread takes it from the queue,   *)
(* under the queue's lock, the slicer's dequeue() gives it a slice, until  *)
(* the last one is the descriptor itself.  The static slicer makes all of  *)
(* its slices in submit() instead.                                         *)
(***************************************************************************)
EXTENDS LoopItems, Sequences

CONSTANT Works  \* what may be sliced: the slicer 'kind', its nanos_loop_info_t
                \* 'loop', the number 'nths' of threads of the team the work can
                \* run on, and 'parts': n of repeat_n, nsect of compound_wd

VARIABLES
  slicer, loop, threads, parts,  \* the slicer and what it gets, fixed in a behaviour
  queued,                   \* the descriptor is in the queue
  nli,                      \* its loop: the iterations still to be sliced
  n,                        \* its n or nsect
  slices,                   \* static: slices[i] is what WorkDescriptor i has to do
  given                     \* the slices that have run, in order

slVars == <<slicer, loop, threads, parts, queued, nli, n, slices, given>>
work == <<slicer, loop, threads, parts>>

SLInit ==
  /\ \E w \in Works : slicer = w.kind /\ loop = w.loop /\ threads = w.nths /\ parts = w.parts
  /\ queued = FALSE /\ nli = loop /\ n = parts
  /\ slices = <<>> /\ given = <<>>

Slice(lo, hi, fin) == [lower |-> lo, upper |-> hi, last |-> fin]

Unsubmitted == ~queued /\ slices = <<>> /\ given = <<>>

-----------------------------------------------------------------------------
\* SlicerDynamicFor, SlicerGuidedFor

SubmitLoop_AsGiven(k) ==
  /\ slicer = k /\ k \in {"dynamic", "guided"} /\ Unsubmitted
  /\ queued' = TRUE
  /\ UNCHANGED <<work, nli, n, slices, given>>

SubmitLoop(k) ==
  /\ slicer = k /\ k \in {"dynamic", "guided"} /\ Unsubmitted
  /\ nli' = [nli EXCEPT !.chunk = ChunkSize(nli)]
  /\ queued' = TRUE
  /\ UNCHANGED <<work, n, slices, given>>

DynamicUpper(l) == l.lower + l.chunk * l.step - l.step

GuidedUpper(l) == l.lower + Max({CDiv(NIters(l), 2 * threads), l.chunk}) * l.step

Empty(l) == l.lower * Sign(l) > l.upper * Sign(l)

DequeueLoop_NoStep(upper) ==
  /\ queued
  /\ IF Empty(nli) \/ upper * Sign(nli) >= nli.upper * Sign(nli)
       THEN /\ given' = Append(given, Slice(nli.lower, nli.upper, FALSE))
            /\ queued' = FALSE /\ UNCHANGED nli
       ELSE /\ given' = Append(given, Slice(nli.lower, upper, FALSE))
            /\ nli' = [nli EXCEPT !.lower = upper]
            /\ UNCHANGED queued
  /\ UNCHANGED <<work, n, slices>>

DequeueLoop(upper) ==
  /\ queued
  /\ IF Empty(nli) \/ upper * Sign(nli) >= nli.upper * Sign(nli)
       THEN /\ given' = Append(given, Slice(nli.lower, nli.upper, FALSE))
            /\ queued' = FALSE /\ UNCHANGED nli
       ELSE /\ given' = Append(given, Slice(nli.lower, upper, FALSE))
            /\ nli' = [nli EXCEPT !.lower = upper + nli.step]
            /\ UNCHANGED queued
  /\ UNCHANGED <<work, n, slices>>

DequeueDynamic == slicer = "dynamic" /\ DequeueLoop(DynamicUpper(nli))

DequeueGuided == slicer = "guided" /\ DequeueLoop(GuidedUpper(nli))

-----------------------------------------------------------------------------
\* SlicerStaticFor: WorkDescriptor i, on the i-th thread that can run it

StaticSlice_NoAdjust(i) ==
  LET block == CDiv(NIters(loop), threads) * loop.step
      offset == loop.chunk * loop.step
  IN IF loop.chunk = 0
     THEN [lower |-> loop.lower + i * block, chunk |-> block,
           stride |-> NIters(loop) * loop.step]
     ELSE [lower |-> loop.lower + i * offset, chunk |-> offset, stride |-> offset * threads]

StaticSlice(i) ==
  LET block == CDiv(NIters(loop), threads) * loop.step
      adjust == CMod(NIters(loop), threads)
      offset == loop.chunk * loop.step
  IN IF loop.chunk = 0
     THEN [lower |-> loop.lower + i * block + Min({i, Max({adjust, 0})}) * loop.step,
           chunk |-> block + IF adjust > i THEN loop.step ELSE 0,
           stride |-> NIters(loop) * loop.step]
     ELSE [lower |-> loop.lower + i * offset, chunk |-> offset, stride |-> offset * threads]

\* No slice is made past the end of an interleaved loop
StaticSlices ==
  IF loop.chunk = 0 THEN threads
  ELSE Max({i \in 1..threads : \A j \in 1..(i - 1) :
              (loop.lower + j * loop.chunk * loop.step) * Sign(loop) <= loop.upper * Sign(loop)})

SubmitStatic ==
  /\ slicer = "static" /\ Unsubmitted
  /\ slices' = [i \in 1..StaticSlices |-> StaticSlice(i - 1)]
  /\ UNCHANGED <<work, queued, nli, n, given>>

\* A turn of the loop of staticLoop(), which returns at once if lower is past
\* upper
RunStatic_Strict(i) ==
  LET s == slices[i]
      end == s.lower + s.chunk - Sign(loop)
      fin == end * Sign(loop) > loop.upper * Sign(loop)
  IN /\ slicer = "static" /\ s.lower * Sign(loop) <= loop.upper * Sign(loop)
     /\ given' = Append(given, Slice(s.lower, IF fin THEN loop.upper ELSE end, fin))
     /\ slices' = [slices EXCEPT ![i].lower = @ + s.stride]
     /\ UNCHANGED <<work, queued, nli, n>>

RunStatic(i) ==
  LET s == slices[i]
      end == s.lower + s.chunk - Sign(loop)
      fin == end * Sign(loop) >= loop.upper * Sign(loop)
  IN /\ slicer = "static" /\ s.lower * Sign(loop) <= loop.upper * Sign(loop)
     /\ given' = Append(given, Slice(s.lower, IF fin THEN loop.upper ELSE end, fin))
     /\ slices' = [slices EXCEPT ![i].lower = @ + s.stride]
     /\ UNCHANGED <<work, queued, nli, n>>

-----------------------------------------------------------------------------
\* SlicerRepeatN, SlicerCompoundWD

SubmitParts ==
  /\ slicer \in {"repeat", "compound"} /\ Unsubmitted
  /\ queued' = TRUE
  /\ UNCHANGED <<work, nli, n, slices, given>>

DequeueRepeat ==
  /\ slicer = "repeat" /\ queued
  /\ n' = n - 1
  /\ queued' = (n' > 0)
  /\ given' = Append(given, 1)
  /\ UNCHANGED <<work, nli, slices>>

\* The descriptor runs the sections left (executeWDs) when it is the last one,
\* or when the policies say so
DequeueCompound_PostDecrement(serialize) ==
  /\ slicer = "compound" /\ queued
  /\ IF serialize \/ n = 1
       THEN /\ given' = given \o [i \in 1..n |-> i - 1]
            /\ queued' = FALSE /\ UNCHANGED n
       ELSE given' = Append(given, n) /\ n' = n - 1 /\ UNCHANGED queued
  /\ UNCHANGED <<work, nli, slices>>

DequeueCompound(serialize) ==
  /\ slicer = "compound" /\ queued
  /\ IF serialize \/ n = 1
       THEN /\ given' = given \o [i \in 1..n |-> i - 1]
            /\ queued' = FALSE /\ UNCHANGED n
       ELSE given' = Append(given, n - 1) /\ n' = n - 1 /\ UNCHANGED queued
  /\ UNCHANGED <<work, nli, slices>>

-----------------------------------------------------------------------------
Dequeue ==
  \/ DequeueDynamic \/ DequeueGuided \/ DequeueRepeat
  \/ \E serialize \in BOOLEAN : DequeueCompound(serialize)
  \/ \E i \in DOMAIN slices : RunStatic(i)

SLNext == SubmitLoop("dynamic") \/ SubmitLoop("guided") \/ SubmitStatic \/ SubmitParts \/ Dequeue

SLSpec == SLInit /\ [][SLNext]_slVars

-----------------------------------------------------------------------------
IsLoop == slicer \in {"dynamic", "guided", "static"}

\* Nothing is left to dequeue or to run
Done ==
  /\ ~Unsubmitted /\ ~queued
  /\ \A i \in DOMAIN slices : slices[i].lower * Sign(loop) > loop.upper * Sign(loop)

Piece(k) == Covered(loop, given[k])

\* No iteration is in two slices or out of the loop, for every bound, step and
\* chunk, whichever thread takes the next slice.
SlicesDisjoint ==
  IsLoop =>
    /\ \A k \in DOMAIN given : Piece(k) \subseteq Iterations(loop)
    /\ \A j, k \in DOMAIN given : j = k \/ Piece(j) \cap Piece(k) = {}

\* When nothing is left, the slices have covered the loop.
SlicesCover ==
  IsLoop /\ Done => UNION {Piece(k) : k \in DOMAIN given} = Iterations(loop)

\* Every section of a compound descriptor runs once, and a repeated one n times.
PartsOnce ==
  /\ slicer = "compound" /\ Done =>
       /\ Len(given) = parts
       /\ {given[k] : k \in DOMAIN given} = 0..(parts - 1)
  /\ slicer = "repeat" /\ Done => Len(given) = parts

\* staticLoop() sets 'last' in the slice that has the last iteration, and in no
\* other.
LastOnce ==
  slicer = "static" =>
    \A k \in DOMAIN given :
      given[k].last <=> \A i \in Iterations(loop) : \E j \in Piece(k) : i * loop.step <= j * loop.step

\* "Computing empty iteration spaces in order to avoid infinite task
\* generation": there are no more slices than iterations, but for an empty one
\* at the end.
SlicesBounded == IsLoop => Len(given) <= Cardinality(Iterations(loop)) + 1
=============================================================================
