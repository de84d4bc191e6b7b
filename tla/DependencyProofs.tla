-------------------------- MODULE DependencyProofs --------------------------
(***************************************************************************)
(* The theorems about the dependable objects, for any set of them, and     *)
(* about what the plain dependency domain promises, for any tasks,         *)
(* addresses, access lists and programs.                                   *)
(*                                                                         *)
(* DOInv, the inductive invariant of the dependable objects, has one       *)
(* conjunct per concern; every action has a lemma that proves each         *)
(* conjunct the action can disturb.  The steps of the domain are taken     *)
(* apart in the modules this one extends, each for the state before it     *)
(* that satisfies DOInv, DomainInv, OrderInv and ClearInv; here those      *)
(* invariants are put together and the properties are derived.             *)
(***************************************************************************)
EXTENDS PlainPromiseProofs, FiniteSetTheorems

-----------------------------------------------------------------------------
\* Counting predecessors

\* The predecessors of an object are finitely many.
LEMMA PredsFinite ==
  ASSUME NEW o \in DO
  PROVE  IsFiniteSet(Preds(o)) /\ Cardinality(Preds(o)) \in Nat
BY DOAssumption, FS_Subset, FS_CardinalityType DEF Preds

\* A set of one element that contains p is {p}.
LEMMA OneElement ==
  ASSUME NEW S, IsFiniteSet(S), Cardinality(S) = 1, NEW p \in S
  PROVE  S = {p}
BY FS_Singleton

\* What a counter of one means (SoleBlocker), from the inductive invariant.
LEMMA SoleBlockerFromInv ==
  ASSUME DOInv, NEW p \in DO, NEW s \in DO,
         s \in succ[p] \ visited[p], numPred[s] = 1
  PROVE  Preds(s) = {p} /\ phase[s] = "wait" /\ fake[s] = 0
<1>1. p \in Preds(s)
  BY DEF Preds
<1>2. IsFiniteSet(Preds(s)) /\ Cardinality(Preds(s)) \in Nat
  BY PredsFinite
<1>3. Cardinality(Preds(s)) # 0
  BY <1>1, <1>2, FS_EmptySet
<1>4. numPred[s] = fake[s] + Cardinality(Preds(s)) /\ fake[s] \in 0..1
  BY DEF DOInv, DOTypeOK, PredecessorsCounted
<1>5. Cardinality(Preds(s)) = 1 /\ fake[s] = 0
  BY <1>2, <1>3, <1>4
<1>6. Preds(s) = {p}
  BY <1>1, <1>2, <1>5, OneElement
<1> QED
  BY <1>1, <1>5, <1>6 DEF DOInv, BlockedInv

\* The successor found fit for the batch waits for the visiting object alone.
LEMMA BatchVisit ==
  ASSUME DOInv, NEW q \in DO, phase[q] = "batch"
  PROVE  Preds(cur[q]) = {q} /\ phase[cur[q]] = "wait" /\ cur[q] \in Task
BY SoleBlockerFromInv DEF DOInv, VisitInv, DO

\* Removing p from the predecessors of s and decrementing s keeps the counters.
LEMMA CountDown ==
  ASSUME DOInv, NEW p \in DO, NEW s \in DO, p \in Preds(s),
         numPred' = [numPred EXCEPT ![s] = @ - 1], fake' = fake,
         Preds(s)' = Preds(s) \ {p},
         \A x \in DO \ {s} : Preds(x)' = Preds(x)
  PROVE  PredecessorsCounted'
<1>1. Cardinality(Preds(s)') = Cardinality(Preds(s)) - 1
  BY ZenonT(30), PredsFinite, FS_RemoveElement
<1>2. /\ numPred \in [DO -> Int] /\ fake \in [DO -> 0..1]
      /\ \A x \in DO : numPred[x] = fake[x] + Cardinality(Preds(x))
  BY DEF DOInv, DOTypeOK, PredecessorsCounted
<1>3. \A x \in DO \ {s} : numPred'[x] = fake'[x] + Cardinality(Preds(x)')
  BY <1>2
<1>4. numPred'[s] = fake'[s] + Cardinality(Preds(s)')
  BY <1>1, <1>2, PredsFinite
<1> QED
  BY <1>3, <1>4 DEF PredecessorsCounted

-----------------------------------------------------------------------------

\* A fresh domain satisfies the inductive invariant.
LEMMA InvInit == DOInit => DOInv
<1> SUFFICES ASSUME DOInit PROVE DOInv
  OBVIOUS
<1>1. \A o \in DO : Preds(o) = {}
  BY DEF DOInit, Preds
<1>2. PredecessorsCounted
  BY <1>1, FS_EmptySet DEF DOInit, PredecessorsCounted
<1>3. DOTypeOK
  BY DEF DOInit, DOTypeOK, Phase
<1>4. \A t \in Task : HandedByPhase(t)
  BY DEF DOInit, HandedByPhase, DO
<1> QED
  BY <1>1, <1>2, <1>3, <1>4 DEF DOInit, DOInv, EdgesInv, BlockedInv, VisitInv, BatchInv

-----------------------------------------------------------------------------
\* Steps that leave the graph and the counters alone and move one object from a
\* phase to the next

\* start(): a satisfied task that has been handed out begins to run.
LEMMA InvStart ==
  ASSUME DOInv, NEW o \in DO, Start(o)
  PROVE  DOInv'
<1>1. \A x \in DO : Preds(x)' = Preds(x)
  BY DEF Start, Preds
<1>2. DOTypeOK'
  BY DEF DOInv, DOTypeOK, Start, Phase
<1>3. PredecessorsCounted'
  BY <1>1 DEF DOInv, PredecessorsCounted, Start
<1>4. \A t \in Task : HandedByPhase(t)'
  BY DEF DOInv, DOTypeOK, HandedByPhase, Start, DO
<1>5. \A x \in DO : EdgesInv(x)' /\ BlockedInv(x)'
  BY <1>1 DEF DOInv, DOTypeOK, Start, EdgesInv, BlockedInv, BeforeLoop
<1>6. \A x \in DO : VisitInv(x)'
  BY DEF DOInv, DOTypeOK, Start, VisitInv
<1>7. \A x \in DO : BatchInv(x)'
  BY DEF DOInv, Start, BatchInv, HandedByPhase
<1> QED
  BY <1>2, <1>3, <1>4, <1>5, <1>6, <1>7 DEF DOInv

\* The body of a task ends; done() has not been called.
LEMMA InvBodyEnd ==
  ASSUME DOInv, NEW o \in DO, BodyEnd(o)
  PROVE  DOInv'
<1>1. \A x \in DO : Preds(x)' = Preds(x)
  BY DEF BodyEnd, Preds
<1>2. DOTypeOK'
  BY DEF DOInv, DOTypeOK, BodyEnd, Phase
<1>3. PredecessorsCounted'
  BY <1>1 DEF DOInv, PredecessorsCounted, BodyEnd
<1>4. \A t \in Task : HandedByPhase(t)'
  BY DEF DOInv, HandedByPhase, BodyEnd
<1>5. \A x \in DO : EdgesInv(x)' /\ BlockedInv(x)'
  BY <1>1 DEF DOInv, DOTypeOK, BodyEnd, EdgesInv, BlockedInv, BeforeLoop
<1>6. \A x \in DO : VisitInv(x)'
  BY DEF DOInv, DOTypeOK, BodyEnd, VisitInv
<1>7. \A x \in DO : BatchInv(x)'
  BY DEF DOInv, DOTypeOK, BodyEnd, BatchInv, HandedByPhase
<1> QED
  BY <1>2, <1>3, <1>4, <1>5, <1>6, <1>7 DEF DOInv

\* workFinished() calls finished(): the object is to be purged.
LEMMA InvFinish ==
  ASSUME DOInv, NEW o \in DO, Finish(o)
  PROVE  DOInv'
<1>1. \A x \in DO : Preds(x)' = Preds(x)
  BY DEF Finish, Preds
<1>2. DOTypeOK'
  BY DEF DOInv, DOTypeOK, Finish, Phase
<1>3. PredecessorsCounted'
  BY <1>1 DEF DOInv, PredecessorsCounted, Finish
<1>4. \A t \in Task : HandedByPhase(t)'
  BY DEF DOInv, HandedByPhase, Finish
<1>5. \A x \in DO : EdgesInv(x)' /\ BlockedInv(x)'
  BY <1>1 DEF DOInv, Finish, EdgesInv, BlockedInv, BeforeLoop
<1>6. \A x \in DO : VisitInv(x)'
  BY DEF DOInv, Finish, VisitInv
<1>7. \A x \in DO : BatchInv(x)'
  BY DEF DOInv, Finish, BatchInv
<1> QED
  BY <1>2, <1>3, <1>4, <1>5, <1>6, <1>7 DEF DOInv

\* The object is known to no target any more and begins its loop.
LEMMA InvPurged ==
  ASSUME DOInv, NEW o \in DO, Purged(o)
  PROVE  DOInv'
<1>1. \A x \in DO : Preds(x)' = Preds(x)
  BY DEF Purged, Preds
<1>2. DOTypeOK'
  BY DEF DOInv, DOTypeOK, Purged, Phase
<1>3. PredecessorsCounted'
  BY <1>1 DEF DOInv, PredecessorsCounted, Purged
<1>4. \A t \in Task : HandedByPhase(t)'
  BY DEF DOInv, DOTypeOK, HandedByPhase, Purged, DO
<1>5. \A x \in DO : EdgesInv(x)' /\ BlockedInv(x)'
  BY <1>1 DEF DOInv, DOTypeOK, Purged, EdgesInv, BlockedInv, BeforeLoop
<1>6. \A x \in DO : VisitInv(x)'
  BY DEF DOInv, DOTypeOK, Purged, VisitInv
<1>7. \A x \in DO : BatchInv(x)'
  BY DEF DOInv, DOTypeOK, Purged, BatchInv, HandedByPhase
<1> QED
  BY <1>2, <1>3, <1>4, <1>5, <1>6, <1>7 DEF DOInv

\* The nested finished() of a commutation object returns.
LEMMA InvReturn ==
  ASSUME DOInv, NEW o \in DO, Return(o)
  PROVE  DOInv'
<1>1. \A x \in DO : Preds(x)' = Preds(x)
  BY DEF Return, Preds
<1>2. DOTypeOK'
  BY DEF DOInv, DOTypeOK, Return, Phase
<1>3. PredecessorsCounted'
  BY <1>1 DEF DOInv, PredecessorsCounted, Return
<1>4. \A t \in Task : HandedByPhase(t)'
  BY DEF DOInv, DOTypeOK, HandedByPhase, Return, DO
<1>5. \A x \in DO : EdgesInv(x)' /\ BlockedInv(x)'
  BY <1>1 DEF DOInv, DOTypeOK, Return, EdgesInv, BlockedInv, BeforeLoop
<1>6. \A x \in DO : VisitInv(x)'
  BY DEF DOInv, DOTypeOK, Return, VisitInv
<1>7. \A x \in DO : BatchInv(x)'
  BY DEF DOInv, DOTypeOK, Return, BatchInv, HandedByPhase
<1> QED
  BY <1>2, <1>3, <1>4, <1>5, <1>6, <1>7 DEF DOInv

\* finished() picks a successor and asks if it can be released in batch.
LEMMA InvVisit ==
  ASSUME DOInv, NEW p \in DO, NEW s \in DO, Visit(p, s)
  PROVE  DOInv'
<1>1. \A x \in DO : Preds(x)' = Preds(x)
  BY DEF Visit, Preds
<1>2. DOTypeOK'
  BY DEF DOInv, DOTypeOK, Visit, Phase
<1>3. PredecessorsCounted'
  BY <1>1 DEF DOInv, PredecessorsCounted, Visit
<1>4. \A t \in Task : HandedByPhase(t)'
  BY DEF DOInv, DOTypeOK, HandedByPhase, Visit, DO
<1>5. \A x \in DO : EdgesInv(x)' /\ BlockedInv(x)'
  BY <1>1 DEF DOInv, DOTypeOK, Visit, EdgesInv, BlockedInv, BeforeLoop
<1>6. \A x \in DO : VisitInv(x)'
  BY DEF DOInv, DOTypeOK, Visit, VisitInv, CanBeBatchReleased
<1>7. \A x \in DO : BatchInv(x)'
  BY DEF DOInv, DOTypeOK, Visit, BatchInv, HandedByPhase
<1> QED
  BY <1>2, <1>3, <1>4, <1>5, <1>6, <1>7 DEF DOInv

-----------------------------------------------------------------------------
\* Registration: an object enters, gets edges, and loses its fake predecessor

\* An object enters the domain with its fake predecessor.
LEMMA InvCreate ==
  ASSUME DOInv, NEW o \in DO, Create(o)
  PROVE  DOInv'
<1>1. \A x \in DO : Preds(x)' = Preds(x)
  BY DEF Create, Preds
<1>2. DOTypeOK'
  BY DEF DOInv, DOTypeOK, Create, Phase
<1>3. PredecessorsCounted'
  <2>1. fake[o] = 0
    BY DEF DOInv, DOTypeOK, Create, BlockedInv
  <2>2. Cardinality(Preds(o)) \in Nat
    BY PredsFinite
  <2> QED
    BY <1>1, <2>1, <2>2 DEF DOInv, DOTypeOK, PredecessorsCounted, Create
<1>4. \A t \in Task : HandedByPhase(t)'
  BY DOAssumption DEF DOInv, HandedByPhase, Create
<1>5. \A x \in DO : EdgesInv(x)' /\ BlockedInv(x)'
  BY <1>1 DEF DOInv, DOTypeOK, Create, EdgesInv, BlockedInv, BeforeLoop
<1>6. \A x \in DO : VisitInv(x)'
  BY BatchVisit DEF DOInv, DOTypeOK, Create, VisitInv
<1>7. \A x \in DO : BatchInv(x)'
  BY DEF DOInv, DOTypeOK, Create, BatchInv
<1> QED
  BY <1>2, <1>3, <1>4, <1>5, <1>6, <1>7 DEF DOInv

\* A task that a step leaves alone has been handed out as before.
LEMMA HandedKept ==
  ASSUME DOInv, NEW t \in Task, phase'[t] = phase[t], handed'[t] = handed[t],
         submitted'[t] = submitted[t], \A q \in DO : t \in batch'[q] <=> t \in batch[q]
  PROVE  HandedByPhase(t)'
BY Zenon DEF DOInv, HandedByPhase

\* A step that changes nothing keeps the invariant.
LEMMA StutterKeeps ==
  ASSUME DOInv, UNCHANGED doVars
  PROVE  DOInv'
<1>1. UNCHANGED <<numPred, fake, succ, visited, submitted, phase, cur, batch, handed>>
  BY Zenon DEF doVars
<1>2. DOTypeOK'
  BY Zenon, <1>1 DEF DOInv, DOTypeOK
<1>3. \A o \in DO : Preds(o)' = Preds(o)
  BY Zenon, <1>1 DEF Preds
<1>4. PredecessorsCounted'
  BY Zenon, <1>1, <1>3 DEF DOInv, PredecessorsCounted
<1>5. \A o \in DO : EdgesInv(o)' /\ BlockedInv(o)'
  BY Zenon, <1>1, <1>3 DEF DOInv, EdgesInv, BlockedInv
<1>6. \A o \in DO : VisitInv(o)' /\ BatchInv(o)'
  BY Zenon, <1>1 DEF DOInv, VisitInv, BatchInv
<1>7. \A t \in Task : HandedByPhase(t)'
  BY Zenon, <1>1, HandedKept
<1> QED
  BY Zenon, <1>2, <1>4, <1>5, <1>6, <1>7 DEF DOInv

\* addSuccessor() and increasePredecessors(): the set of edges and the
\* counter change together, and only for an object still being registered.
LEMMA InvAddSuccessor ==
  ASSUME DOInv, NEW p \in DO, NEW s \in DO, AddSuccessor(p, s)
  PROVE  DOInv'
<1> USE DEF AddSuccessor, AddEdge
<1>1. CASE s \in succ[p]
  <2>1. succ' = succ /\ numPred' = numPred
    BY <1>1 DEF DOInv, DOTypeOK
  <2> QED
    BY <2>1, StutterKeeps DEF doVars
<1>2. CASE s \notin succ[p]
  <2>1. /\ p \notin Preds(s)
        /\ Preds(s)' = Preds(s) \cup {p}
        /\ \A x \in DO \ {s} : Preds(x)' = Preds(x)
    BY <1>2 DEF DOInv, DOTypeOK, EdgesInv, Preds
  <2>2. DOTypeOK'
    BY DEF DOInv, DOTypeOK, Phase
  <2>3. PredecessorsCounted'
    <3>1. Cardinality(Preds(s)') = Cardinality(Preds(s)) + 1
      BY ZenonT(30), <2>1, PredsFinite, FS_AddElement
    <3>2. /\ numPred \in [DO -> Int] /\ fake \in [DO -> 0..1]
          /\ \A x \in DO : numPred[x] = fake[x] + Cardinality(Preds(x))
          /\ numPred' = [numPred EXCEPT ![s] = @ + 1] /\ fake' = fake
      BY <1>2 DEF DOInv, DOTypeOK, PredecessorsCounted
    <3>3. \A x \in DO \ {s} : numPred'[x] = fake'[x] + Cardinality(Preds(x)')
      BY <2>1, <3>2
    <3>4. numPred'[s] = fake'[s] + Cardinality(Preds(s)')
      BY <3>1, <3>2, PredsFinite
    <3> QED
      BY <3>3, <3>4 DEF PredecessorsCounted
  <2>4. \A t \in Task : HandedByPhase(t)'
    BY DEF DOInv, HandedByPhase
  <2>5. \A x \in DO : EdgesInv(x)' /\ BlockedInv(x)'
    BY <1>2, <2>1 DEF DOInv, DOTypeOK, EdgesInv, BlockedInv, BeforeLoop
  <2>6. \A x \in DO : VisitInv(x)'
    BY BatchVisit DEF DOInv, DOTypeOK, VisitInv
  <2>7. \A x \in DO : BatchInv(x)'
    BY DEF DOInv, BatchInv
  <2> QED
    BY <2>2, <2>3, <2>4, <2>5, <2>6, <2>7 DEF DOInv
<1> QED
  BY <1>1, <1>2

\* The registration ends; the object may be satisfied at once.
LEMMA InvReleaseFake ==
  ASSUME DOInv, NEW o \in DO, ReleaseFake(o)
  PROVE  DOInv'
<1> USE DEF ReleaseFake, DropFake
<1>1. \A x \in DO : Preds(x)' = Preds(x)
  BY DEF Preds
<1>2. DOTypeOK'
  BY DEF DOInv, DOTypeOK, Phase, SatisfiedPhase, DecreasedHanded
<1>3. /\ fake[o] = 1
      /\ numPred[o] = 1 + Cardinality(Preds(o))
      /\ Cardinality(Preds(o)) \in Nat
  BY PredsFinite DEF DOInv, PredecessorsCounted, BlockedInv
<1>4. numPred[o] = 1 => Preds(o) = {}
  BY <1>3, PredsFinite, FS_EmptySet
<1>5. PredecessorsCounted'
  <2>1. /\ numPred \in [DO -> Int] /\ fake \in [DO -> 0..1]
        /\ \A x \in DO : numPred[x] = fake[x] + Cardinality(Preds(x))
    BY DEF DOInv, DOTypeOK, PredecessorsCounted
  <2>2. \A x \in DO : numPred'[x] = fake'[x] + Cardinality(Preds(x)')
    BY <1>1, <1>3, <2>1
  <2> QED
    BY <2>2 DEF PredecessorsCounted
<1>6. \A t \in Task : HandedByPhase(t)'
  <2> SUFFICES ASSUME NEW t \in Task PROVE HandedByPhase(t)'
    OBVIOUS
  <2>1. CASE t = o
    <3>1. handed[o] = 0 /\ \A q \in DO : o \notin batch[q]
      BY <2>1 DEF DOInv, HandedByPhase, BatchInv
    <3>2. CASE numPred[o] = 1
      <4>1. phase'[o] = "ready" /\ handed'[o] = 1
        BY <2>1, <3>1, <3>2 DEF DOInv, DOTypeOK, SatisfiedPhase, DecreasedHanded
      <4> QED
        BY ZenonT(30), <2>1, <3>1, <4>1 DEF HandedByPhase
    <3>3. CASE numPred[o] # 1
      <4>1. phase'[t] = "wait" /\ handed'[t] = 0 /\ submitted'[t]
        BY ZenonT(30), <2>1, <3>1, <3>3 DEF DOInv, DOTypeOK, DecreasedHanded
      <4> HIDE DEF ReleaseFake, DropFake
      <4> QED
        BY <4>1 DEF HandedByPhase
    <3> QED
      BY <3>2, <3>3
  <2>2. CASE t # o
    <3>1. /\ t \in DO /\ phase'[t] = phase[t] /\ handed'[t] = handed[t]
          /\ submitted'[t] = submitted[t] /\ batch' = batch
      BY Zenon, <2>2 DEF DOInv, DOTypeOK, DO
    <3> HIDE DEF ReleaseFake, DropFake
    <3> QED
      BY Zenon, <3>1, HandedKept
  <2> QED
    BY <2>1, <2>2
<1>7. \A x \in DO : EdgesInv(x)' /\ BlockedInv(x)'
  BY <1>1, <1>4 DEF DOInv, DOTypeOK, EdgesInv, BlockedInv, BeforeLoop, SatisfiedPhase
<1>8. \A x \in DO : VisitInv(x)'
  BY BatchVisit DEF DOInv, VisitInv, SatisfiedPhase
<1>9. \A x \in DO : BatchInv(x)'
  BY DEF DOInv, DOTypeOK, BatchInv
<1> QED
  BY <1>2, <1>5, <1>6, <1>7, <1>8, <1>9 DEF DOInv

-----------------------------------------------------------------------------
\* The three ways a predecessor lets a successor go

\* releaseImmediateSuccessor(), with and without keepDeps.
LEMMA InvImmediateSuccessor ==
  ASSUME DOInv, NEW p \in DO, NEW s \in DO, NEW keepDeps \in BOOLEAN,
         ImmediateSuccessor(p, s, keepDeps)
  PROVE  DOInv'
<1>1. s \in succ[p] \ visited[p] /\ phase[p] \in {"wait", "ready", "run", "exit"}
  BY Zenon DEF DOInv, EdgesInv, BeforeLoop, ImmediateSuccessor, Held
<1>2. Preds(s) = {p} /\ phase[s] = "wait" /\ fake[s] = 0
  BY <1>1, SoleBlockerFromInv DEF ImmediateSuccessor
<1>3. \A q \in DO : phase[q] \in {"single", "batch"} => cur[q] # s
  BY <1>1, <1>2 DEF DOInv, VisitInv, Preds
<1>4. handed[s] = 0 /\ \A q \in DO : s \notin batch[q]
  BY Zenon, <1>2 DEF DOInv, HandedByPhase, BatchInv, ImmediateSuccessor
<1>5. CASE keepDeps
  <2>0. /\ handed' = [handed EXCEPT ![s] = @ + 1]
        /\ submitted' = [submitted EXCEPT ![s] = FALSE]
        /\ UNCHANGED <<succ, numPred, phase, fake, visited, cur, batch>>
    BY <1>5 DEF ImmediateSuccessor
  <2>1. \A x \in DO : Preds(x)' = Preds(x)
    BY <2>0 DEF Preds
  <2>2. DOTypeOK'
    BY <2>0 DEF DOInv, DOTypeOK
  <2>3. PredecessorsCounted'
    BY <2>0, <2>1 DEF DOInv, PredecessorsCounted
  <2>4. \A t \in Task : HandedByPhase(t)'
    <3>1. handed'[s] = handed[s] + 1 /\ ~submitted'[s] /\ phase'[s] = "wait"
      BY Zenon, <1>2, <2>0 DEF DOInv, DOTypeOK
    <3>2. handed'[s] = 1
      BY <1>4, <3>1
    <3>3. HandedByPhase(s)'
      BY Zenon, <3>1, <3>2 DEF HandedByPhase
    <3>4. ASSUME NEW t \in Task, t # s PROVE HandedByPhase(t)'
      BY Zenon, <2>0, <3>4, HandedKept DEF DOInv, DOTypeOK, DO
    <3> QED
      BY Zenon, <3>3, <3>4
  <2>5. \A x \in DO : EdgesInv(x)' /\ BlockedInv(x)' /\ BatchInv(x)'
    <3>1. \A x \in DO : EdgesInv(x)'
      BY Zenon, <2>0 DEF DOInv, EdgesInv
    <3>2. \A x \in DO : BlockedInv(x)'
      BY Zenon, <2>0, <2>1 DEF DOInv, BlockedInv
    <3>3. \A x \in DO : BatchInv(x)'
      BY Zenon, <2>0 DEF DOInv, BatchInv
    <3> QED
      BY Zenon, <3>1, <3>2, <3>3
  <2>6. \A x \in DO : VisitInv(x)'
    BY Zenon, <1>3, <2>0 DEF DOInv, DOTypeOK, VisitInv
  <2> QED
    BY <2>2, <2>3, <2>4, <2>5, <2>6 DEF DOInv
<1>6. CASE ~keepDeps
  <2>0. /\ handed' = [handed EXCEPT ![s] = @ + 1]
        /\ succ' = [succ EXCEPT ![p] = @ \ {s}]
        /\ numPred' = [numPred EXCEPT ![s] = @ - 1]
        /\ phase' = [phase EXCEPT ![s] = "ready"]
        /\ UNCHANGED <<submitted, fake, visited, cur, batch>>
    BY <1>6 DEF ImmediateSuccessor
  <2>1. /\ Preds(s)' = Preds(s) \ {p}
        /\ \A x \in DO \ {s} : Preds(x)' = Preds(x)
    BY Zenon, <1>1, <2>0 DEF DOInv, DOTypeOK, Preds
  <2>2. DOTypeOK'
    BY <2>0 DEF DOInv, DOTypeOK, Phase
  <2>3. PredecessorsCounted'
    BY ZenonT(30), <1>2, <2>0, <2>1, CountDown
  <2>4. \A t \in Task : HandedByPhase(t)'
    <3>1. handed'[s] = handed[s] + 1 /\ phase'[s] = "ready"
      BY Zenon, <2>0 DEF DOInv, DOTypeOK
    <3>2. handed'[s] = 1
      BY <1>4, <3>1
    <3>3. HandedByPhase(s)'
      BY Zenon, <1>4, <2>0, <3>1, <3>2 DEF HandedByPhase
    <3>4. ASSUME NEW t \in Task, t # s PROVE HandedByPhase(t)'
      BY Zenon, <2>0, <3>4, HandedKept DEF DOInv, DOTypeOK, DO
    <3> QED
      BY Zenon, <3>3, <3>4
  <2>5. \A x \in DO : EdgesInv(x)'
    BY <1>1, <1>2, <2>0 DEF DOInv, DOTypeOK, EdgesInv, BeforeLoop
  <2>6. \A x \in DO : BlockedInv(x)'
    BY Zenon, <1>2, <2>0, <2>1 DEF DOInv, DOTypeOK, BlockedInv
  <2>7. ASSUME NEW x \in DO PROVE VisitInv(x)'
    <3> SUFFICES ASSUME phase'[x] \in {"single", "batch"} PROVE VisitInv(x)'
      BY Zenon DEF VisitInv
    <3>1. x # s /\ x # p /\ phase'[x] = phase[x] /\ succ'[x] = succ[x]
      BY Zenon, <1>1, <2>0 DEF DOInv, DOTypeOK
    <3>2. VisitInv(x) /\ cur[x] # s
      BY Zenon, <1>3, <3>1 DEF DOInv
    <3>3. phase[x] = "batch" => numPred'[cur[x]] = numPred[cur[x]]
      BY Zenon, <2>0, <3>2 DEF DOInv, DOTypeOK, VisitInv, DO
    <3> QED
      BY Zenon, <2>0, <3>1, <3>2, <3>3 DEF VisitInv
  <2>8. \A x \in DO : BatchInv(x)'
    BY <1>4, <2>0 DEF DOInv, DOTypeOK, BatchInv
  <2> QED
    BY <2>2, <2>3, <2>4, <2>5, <2>6, <2>7, <2>8 DEF DOInv
<1> QED
  BY <1>5, <1>6

\* A successor is decremented on its own, and submitted if satisfied.
LEMMA InvDecreaseSingle ==
  ASSUME DOInv, NEW p \in DO, DecreaseSingle(p)
  PROVE  DOInv'
<1>0. PICK s \in DO : s = cur[p]
  BY Zenon DEF DOInv, DOTypeOK, VisitInv, DecreaseSingle
<1>1. s # p /\ s \in succ[p] \ visited[p] /\ p \in Preds(s)
  BY Zenon, <1>0 DEF DOInv, DOTypeOK, EdgesInv, VisitInv, DecreaseSingle, Preds
<1>2. /\ numPred' = [numPred EXCEPT ![s] = @ - 1]
      /\ visited' = [visited EXCEPT ![p] = @ \cup {s}]
      /\ handed' = [handed EXCEPT ![s] = DecreasedHanded(s, submitted[s])]
      /\ phase[p] = "single" /\ phase'[p] \in {"call", "loop"}
      /\ phase'[s] = IF numPred[s] = 1 THEN SatisfiedPhase(s) ELSE phase[s]
      /\ \A x \in DO \ {p, s} : phase'[x] = phase[x]
      /\ UNCHANGED <<fake, succ, submitted, cur, batch>>
  BY Zenon, <1>0, <1>1 DEF DOInv, DOTypeOK, DecreaseSingle, DecreasedPhase
<1>3. /\ Preds(s)' = Preds(s) \ {p}
      /\ \A x \in DO \ {s} : Preds(x)' = Preds(x)
  BY Zenon, <1>1, <1>2 DEF DOInv, DOTypeOK, Preds
<1>4. PredecessorsCounted'
  BY ZenonT(30), <1>1, <1>2, <1>3, CountDown
<1>5. DOTypeOK'
  BY <1>0, <1>1 DEF DOInv, DOTypeOK, DecreaseSingle, DecreasedPhase, DecreasedHanded,
              SatisfiedPhase, Phase
<1>6. /\ numPred[s] = 1 => Preds(s) = {p} /\ phase[s] = "wait"
      /\ phase[s] \in {"reg", "wait"}
  BY Zenon, <1>1, SoleBlockerFromInv DEF DOInv, BlockedInv
<1>7. \A q \in DO : phase[q] = "batch" => cur[q] # s
  BY Zenon, <1>1, <1>2, BatchVisit
<1>8. \A t \in Task : HandedByPhase(t)'
  <2> SUFFICES ASSUME NEW t \in Task PROVE HandedByPhase(t)'
    OBVIOUS
  <2>1. CASE t = s
    <3>1. /\ s \in Task /\ HandedByPhase(s) /\ handed[s] \in Nat
          /\ handed'[s] = DecreasedHanded(s, submitted[s])
      BY Zenon, <1>2, <2>1 DEF DOInv, DOTypeOK
    <3>2. CASE numPred[s] = 1
      <4>1. phase[s] = "wait" /\ phase'[s] = "ready"
        BY Zenon, <1>2, <1>6, <3>1, <3>2 DEF SatisfiedPhase
      <4>2. \A q \in DO : s \notin batch[q]
        BY Zenon, <4>1 DEF DOInv, BatchInv
      <4>3. /\ handed[s] = IF submitted[s] THEN 0 ELSE 1
            /\ handed'[s] = IF submitted[s] THEN handed[s] + 1 ELSE handed[s]
        BY Zenon, <3>1, <3>2, <4>1 DEF HandedByPhase, DecreasedHanded
      <4>4. handed'[s] = 1
        BY <4>3
      <4> QED
        BY Zenon, <1>2, <2>1, <4>1, <4>2, <4>4 DEF HandedByPhase
    <3>3. CASE numPred[s] # 1
      <4>1. phase'[s] = phase[s] /\ handed'[s] = handed[s]
        BY Zenon, <1>2, <3>1, <3>3 DEF DecreasedHanded
      <4> QED
        BY Zenon, <1>2, <1>6, <2>1, <3>1, <4>1 DEF HandedByPhase
    <3> QED
      BY Zenon, <3>2, <3>3
  <2>2. CASE t # s
    BY Zenon, <1>2, <2>2 DEF DOInv, DOTypeOK, HandedByPhase, DO
  <2> QED
    BY <2>1, <2>2
<1>9. \A x \in DO : EdgesInv(x)'
  BY Zenon, <1>1, <1>2, <1>6 DEF DOInv, DOTypeOK, EdgesInv, BeforeLoop, SatisfiedPhase
<1>10. \A x \in DO : BlockedInv(x)'
  BY <1>1, <1>2, <1>3, <1>6 DEF DOInv, DOTypeOK, BlockedInv, SatisfiedPhase
<1>11. \A x \in DO : VisitInv(x)'
  <2> SUFFICES ASSUME NEW x \in DO, x # p, phase'[x] \in {"single", "batch"}
               PROVE  VisitInv(x)'
    BY Zenon, <1>2 DEF VisitInv
  <2>1. x # s /\ phase'[x] = phase[x]
    <3>1. phase'[s] \in {"reg", "wait", "ready", "purge", "done"}
      BY Zenon, <1>2, <1>6 DEF SatisfiedPhase
    <3>2. x # s
      BY <3>1
    <3> QED
      BY Zenon, <1>2, <3>2
  <2>2. cur'[x] = cur[x] /\ visited'[x] = visited[x] /\ succ'[x] = succ[x]
    BY Zenon, <1>2 DEF DOInv, DOTypeOK
  <2>3. phase[x] = "batch" => numPred'[cur[x]] = numPred[cur[x]]
    BY <1>2, <1>7 DEF DOInv, DOTypeOK
  <2>4. VisitInv(x)
    BY DEF DOInv
  <2>5. (phase[x] = "batch" => submitted[cur[x]])' <=> (phase[x] = "batch" => submitted[cur[x]])
    BY <1>2, <2>1, <2>2
  <2> QED
    BY Zenon, <2>1, <2>2, <2>3, <2>4, <2>5 DEF VisitInv
<1>12. ASSUME NEW x \in DO PROVE BatchInv(x)'
  <2>1. batch' = batch /\ BatchInv(x) /\ batch[x] \subseteq DO
    BY Zenon, <1>2 DEF DOInv, DOTypeOK, DO
  <2>2. ASSUME NEW t \in batch[x] PROVE phase'[t] = "ready"
    <3>1. t \in DO /\ phase[t] = "ready"
      BY Zenon, <2>1 DEF BatchInv
    <3>2. t # s /\ t # p
      BY Zenon, <1>2, <1>6, <3>1
    <3> QED
      BY Zenon, <1>2, <3>1, <3>2
  <2> QED
    BY Zenon, <2>1, <2>2 DEF BatchInv
<1> QED
  BY <1>4, <1>5, <1>8, <1>9, <1>10, <1>11, <1>12 DEF DOInv

\* A successor is decremented for the batch: it is satisfied and waits in
\* exactly one batch.
LEMMA InvDecreaseBatch ==
  ASSUME DOInv, NEW p \in DO, DecreaseBatch(p)
  PROVE  DOInv'
<1>0. PICK s \in Task : s = cur[p]
  BY Zenon DEF DOInv, VisitInv, DecreaseBatch
<1>1. /\ s \in DO /\ s # p /\ s \in succ[p] \ visited[p] /\ p \in Preds(s)
      /\ numPred[s] = 1 /\ submitted[s]
  BY Zenon, <1>0 DEF DOInv, DOTypeOK, EdgesInv, VisitInv, DecreaseBatch, Preds, DO
<1>2. /\ numPred' = [numPred EXCEPT ![s] = @ - 1]
      /\ visited' = [visited EXCEPT ![p] = @ \cup {s}]
      /\ batch' = [batch EXCEPT ![p] = @ \cup {s}]
      /\ phase[p] = "batch" /\ phase'[p] = "loop" /\ phase'[s] = "ready"
      /\ \A x \in DO \ {p, s} : phase'[x] = phase[x]
      /\ UNCHANGED <<fake, succ, submitted, cur, handed>>
  BY <1>0, <1>1 DEF DOInv, DOTypeOK, DecreaseBatch
<1>3. /\ Preds(s)' = Preds(s) \ {p}
      /\ \A x \in DO \ {s} : Preds(x)' = Preds(x)
  BY <1>1, <1>2 DEF DOInv, DOTypeOK, Preds
<1>4. PredecessorsCounted'
  BY ZenonT(30), <1>1, <1>2, <1>3, CountDown
<1>5. DOTypeOK'
  BY <1>0, <1>1 DEF DOInv, DOTypeOK, DecreaseBatch, Phase
<1>6. Preds(s) = {p} /\ phase[s] = "wait"
  BY Zenon, <1>1, SoleBlockerFromInv
<1>7. \A q \in DO \ {p} : phase[q] \in {"single", "batch"} => cur[q] # s
  <2>1. ASSUME NEW q \in DO, phase[q] \in {"single", "batch"}, cur[q] = s PROVE q \in Preds(s)
    BY Zenon, <2>1 DEF DOInv, VisitInv, Preds
  <2> QED
    BY Zenon, <1>6, <2>1
<1>8. handed[s] = 0 /\ \A q \in DO : s \notin batch[q]
  BY Zenon, <1>1, <1>6 DEF DOInv, HandedByPhase, BatchInv
<1>9. \A t \in Task : HandedByPhase(t)'
  <2> SUFFICES ASSUME NEW t \in Task PROVE HandedByPhase(t)'
    OBVIOUS
  <2>1. CASE t = s
    BY <1>1, <1>2, <1>8, <2>1 DEF DOInv, DOTypeOK, HandedByPhase
  <2>2. CASE t # s
    <3>1. \A q \in DO : t \in batch'[q] <=> t \in batch[q]
      BY <1>2, <2>2 DEF DOInv, DOTypeOK
    <3>2. CASE t = p
      <4>1. HandedByPhase(p) /\ phase[p] = "batch" /\ phase'[p] = "loop" /\ handed' = handed
        BY Zenon, <1>2, <3>2 DEF DOInv
      <4> QED
        BY <3>2, <4>1 DEF HandedByPhase
    <3>3. CASE t # p
      BY Zenon, <1>2, <2>2, <3>1, <3>3, HandedKept DEF DO
    <3> QED
      BY Zenon, <3>2, <3>3
  <2> QED
    BY <2>1, <2>2
<1>10. \A x \in DO : EdgesInv(x)'
  BY <1>1, <1>2, <1>6 DEF DOInv, DOTypeOK, EdgesInv, BeforeLoop
<1>11. \A x \in DO : BlockedInv(x)'
  <2> SUFFICES ASSUME NEW x \in DO PROVE BlockedInv(x)'
    BY Zenon
  <2>0. BlockedInv(x) /\ fake' = fake
    BY Zenon, <1>2 DEF DOInv
  <2>1. CASE x = s
    <3>1. fake[s] # 1 /\ Preds(s)' = {}
      BY Zenon, <1>3, <1>6, <2>0, <2>1 DEF BlockedInv
    <3> QED
      BY Zenon, <1>2, <2>0, <2>1, <3>1 DEF BlockedInv
  <2>2. CASE x = p
    BY Zenon, <1>1, <1>2, <1>3, <2>0, <2>2 DEF BlockedInv
  <2>3. CASE x \notin {p, s}
    BY Zenon, <1>2, <1>3, <2>0, <2>3 DEF BlockedInv
  <2> QED
    BY Zenon, <2>1, <2>2, <2>3
<1>12. \A x \in DO : VisitInv(x)'
  <2> SUFFICES ASSUME NEW x \in DO, x # p, phase'[x] \in {"single", "batch"}
               PROVE  VisitInv(x)'
    BY Zenon, <1>2 DEF VisitInv
  <2>1. x # s /\ phase'[x] = phase[x]
    BY Zenon, <1>1, <1>2
  <2>2. cur'[x] = cur[x] /\ visited'[x] = visited[x] /\ succ'[x] = succ[x]
    BY Zenon, <1>2 DEF DOInv, DOTypeOK
  <2>3. phase[x] = "batch" => numPred'[cur[x]] = numPred[cur[x]]
    BY <1>2, <1>7, <2>1 DEF DOInv, DOTypeOK
  <2>4. VisitInv(x)
    BY DEF DOInv
  <2>5. (phase[x] = "batch" => submitted[cur[x]])' <=> (phase[x] = "batch" => submitted[cur[x]])
    BY Zenon, <1>2, <2>1, <2>2
  <2> QED
    BY ZenonT(30), <2>1, <2>2, <2>3, <2>4, <2>5 DEF VisitInv
<1>13. \A x \in DO : BatchInv(x)'
  <2> SUFFICES ASSUME NEW x \in DO, NEW t \in batch'[x]
               PROVE  phase'[t] = "ready" /\ \A q \in DO : t \in batch'[q] => q = x
    BY Zenon DEF BatchInv
  <2>1. \A q \in DO : t \in batch'[q] <=> t \in batch[q] \/ (q = p /\ t = s)
    BY Zenon, <1>2 DEF DOInv, DOTypeOK
  <2>2. CASE t = s
    BY Zenon, <1>2, <1>8, <2>1, <2>2
  <2>3. CASE t # s
    <3>1. t \in batch[x] /\ t \in DO /\ phase[t] = "ready" /\ \A q \in DO : t \in batch[q] => q = x
      BY Zenon, <2>1, <2>3 DEF DOInv, DOTypeOK, BatchInv, DO
    <3>2. t # p
      BY Zenon, <1>2, <3>1
    <3> QED
      BY Zenon, <1>2, <2>1, <2>3, <3>1, <3>2
  <2> QED
    BY Zenon, <2>2, <2>3
<1> QED
  BY <1>4, <1>5, <1>9, <1>10, <1>11, <1>12, <1>13 DEF DOInv

\* The batch is submitted and the object is over.
LEMMA InvSubmitBatch ==
  ASSUME DOInv, NEW p \in DO, SubmitBatch(p)
  PROVE  DOInv'
<1>1. \A x \in DO : Preds(x)' = Preds(x)
  BY Zenon DEF DOInv, DOTypeOK, SubmitBatch, Preds
<1>2. DOTypeOK'
  BY DEF DOInv, DOTypeOK, SubmitBatch, Phase
<1>3. PredecessorsCounted'
  BY ZenonT(30), <1>1 DEF DOInv, PredecessorsCounted, SubmitBatch
<1>4. \A t \in Task : HandedByPhase(t)'
  <2> SUFFICES ASSUME NEW t \in Task PROVE HandedByPhase(t)'
    OBVIOUS
  <2>1. t \in DO /\ HandedByPhase(t) /\ phase[p] = "loop"
    BY Zenon DEF DOInv, DO, SubmitBatch
  <2>2. CASE t \in batch[p]
    <3>1. phase'[t] = "ready" /\ \A q \in DO : t \notin batch'[q]
      BY Zenon, <2>1, <2>2 DEF DOInv, DOTypeOK, BatchInv, SubmitBatch
    <3>2. handed[t] = 0 /\ handed'[t] = 1
      <4>1. phase[t] = "ready" /\ handed'[t] = handed[t] + 1
        BY Zenon, <2>1, <2>2 DEF DOInv, BatchInv, SubmitBatch
      <4>2. handed[t] = 0
        BY Zenon, <2>1, <2>2, <4>1 DEF HandedByPhase
      <4> QED
        BY <4>1, <4>2
    <3> QED
      BY <3>1, <3>2 DEF HandedByPhase
  <2>3. CASE t \notin batch[p]
    <3>1. \A q \in DO : t \in batch'[q] <=> t \in batch[q]
      BY <2>3 DEF DOInv, DOTypeOK, SubmitBatch
    <3>2. handed'[t] = handed[t] /\ submitted' = submitted
      BY Zenon, <2>1, <2>3 DEF SubmitBatch
    <3> QED
      BY Zenon, <2>1, <3>1, <3>2 DEF DOInv, DOTypeOK, HandedByPhase, SubmitBatch
  <2> QED
    BY Zenon, <2>2, <2>3
<1>5. \A x \in DO : EdgesInv(x)' /\ BlockedInv(x)'
  BY Zenon, <1>1 DEF DOInv, DOTypeOK, SubmitBatch, EdgesInv, BlockedInv, BeforeLoop
<1>6. \A x \in DO : VisitInv(x)'
  BY Zenon DEF DOInv, DOTypeOK, SubmitBatch, VisitInv
<1>7. \A x \in DO : BatchInv(x)'
  BY DEF DOInv, DOTypeOK, SubmitBatch, BatchInv
<1> QED
  BY <1>2, <1>3, <1>4, <1>5, <1>6, <1>7 DEF DOInv

-----------------------------------------------------------------------------

\* Every step of every object preserves the inductive invariant.
LEMMA InvNext == DOInv /\ [DONext]_doVars => DOInv'
<1> SUFFICES ASSUME DOInv, [DONext]_doVars PROVE DOInv'
  OBVIOUS
<1>1. CASE UNCHANGED doVars
  BY Zenon, <1>1, StutterKeeps
<1>2. CASE \E o \in DO : Create(o) \/ ReleaseFake(o) \/ Start(o) \/ BodyEnd(o)
  BY <1>2, InvCreate, InvReleaseFake, InvStart, InvBodyEnd
<1>3. CASE \E p, s \in DO : AddSuccessor(p, s) \/ Visit(p, s)
  BY <1>3, InvAddSuccessor, InvVisit
<1>4. CASE \E p, s \in DO, keepDeps \in BOOLEAN : ImmediateSuccessor(p, s, keepDeps)
  BY <1>4, InvImmediateSuccessor
<1>5. CASE \E p \in DO : \/ Finish(p) \/ Purged(p) \/ DecreaseSingle(p)
                        \/ Return(p) \/ DecreaseBatch(p) \/ SubmitBatch(p)
  BY <1>5, InvFinish, InvPurged, InvDecreaseSingle, InvReturn, InvDecreaseBatch,
     InvSubmitBatch
<1> QED
  BY <1>1, <1>2, <1>3, <1>4, <1>5 DEF DONext

\* The inductive invariant holds of the dependable objects in every reachable
\* state, for any number of tasks, commutation objects and waits.
THEOREM Inductive == DOSpec => []DOInv
BY InvInit, InvNext, PTL DEF DOSpec

\* Type correctness of the protocol state.
THEOREM TypeCorrect == DOSpec => []DOTypeOK
<1>1. DOInv => DOTypeOK
  BY DEF DOInv
<1> QED
  BY <1>1, Inductive, PTL

\* decreasePredecessors() and increasePredecessors() balance: the counter is the
\* fake predecessor plus the objects that will still decrement it.
THEOREM CountersExact == DOSpec => []PredecessorsCounted
<1>1. DOInv => PredecessorsCounted
  BY DEF DOInv
<1> QED
  BY <1>1, Inductive, PTL

\* The fatal_cond after a batch release in finished() cannot fire.
THEOREM BatchReleaseCorrect == DOSpec => []BatchReleaseIsLast
<1>1. DOInv => BatchReleaseIsLast
  BY DEF DOInv, VisitInv, BatchReleaseIsLast
<1> QED
  BY <1>1, Inductive, PTL

\* No task is submitted twice, or run without having been handed to a thread.
THEOREM HandedOutOnce == DOSpec => []HandedOnce
<1>1. DOInv => HandedOnce
  <2> SUFFICES ASSUME DOInv, NEW o \in Task
               PROVE  /\ handed[o] \in {0, 1}
                      /\ phase[o] \in {"run", "exit", "purge", "loop", "done"} => handed[o] = 1
                      /\ handed[o] = 1 => phase[o] # "wait" \/ ~submitted[o]
    BY Zenon DEF HandedOnce
  <2>1. HandedByPhase(o)
    BY Zenon DEF DOInv
  <2> QED
    BY ONLY <2>1 DEF HandedByPhase
<1> QED
  BY <1>1, Inductive, PTL

\* The second test of the counter in releaseImmediateSuccessor() cannot fail.
THEOREM SuccessorStaysSole == DOSpec => []SoleBlocker
<1>1. DOInv => SoleBlocker
  BY SoleBlockerFromInv DEF SoleBlocker
<1> QED
  BY <1>1, Inductive, PTL

-----------------------------------------------------------------------------
\* The domain and its objects

\* What a counter of one means.
LEMMA SoleBlockerHolds == DOInv => SoleBlocker
  BY SoleBlockerFromInv DEF SoleBlocker

\* And what it means after a step.
LEMMA NextSoleBlocker == DOInv' => SoleBlocker'
  BY SoleBlockerHolds, PTL

\* Every step keeps the objects and the domain in order, and is one of their protocol.
LEMMA ProtocolSteps ==
  ASSUME DOInv, DomainInv, JoinInv, [PlainNext]_vars
  PROVE  DOInv' /\ DomainInv' /\ JoinInv' /\ [DONext]_doVars
<1>1. DomainInv' /\ JoinInv' /\ [DONext]_doVars
  BY SoleBlockerHolds, DomainNext, JoinNext
<1> QED
  BY <1>1, InvNext

\* The invariants of the objects and of the domain hold together, and with them that a
\* task never joins a CommutationDO it has already joined: the increase that the domain
\* makes for the edge, without asking whether it is new, is always right.
THEOREM DomainCorrect == PlainSpec => [](DOInv /\ DomainInv /\ JoinInv)
<1>1. PlainInit => DOInv /\ DomainInv /\ JoinInv
  BY Zenon, InvInit, DomainInit, JoinInit DEF PlainInit
<1>2. DOInv /\ DomainInv /\ JoinInv /\ [PlainNext]_vars => DOInv' /\ DomainInv' /\ JoinInv'
  BY ProtocolSteps
<1> QED
  BY <1>1, <1>2, PTL DEF PlainSpec

\* The domain uses the dependable objects only as their protocol allows: edges are added
\* only to an object under registration and from one that has not begun its loop, and
\* an object begins its loop only after it has purged itself.
THEOREM DomainRefinesObjects == PlainSpec => RefinesDependableObject
<1>1. PlainInit => DOInit
  BY DEF PlainInit
<1>2. DOInv /\ DomainInv /\ JoinInv /\ [PlainNext]_vars => [DONext]_doVars
  BY ProtocolSteps
<1> QED
  BY <1>1, <1>2, DomainCorrect, PTL DEF PlainSpec, RefinesDependableObject, DOSpec

\* Once finished() begins its loop over the successors, no TrackableObject refers to the
\* object and the registering thread is not linking to it.
THEOREM PurgedStaysUnreachable == PlainSpec => []PurgedIsUnreachable
<1>1. ASSUME DOInv, DomainInv PROVE PurgedIsUnreachable
  <2> SUFFICES ASSUME NEW p \in Task \cup Comm, phase[p] \in Released, NEW x \in Addr
               PROVE  /\ status[x].lastWriter # p /\ p \notin status[x].readers
                      /\ status[x].commDO # p
    <3>1. ThreadInv /\ DomainTypeOK
      BY Zenon, <1>1 DEF DomainInv
    <3>2. reg.toLink # {} => a \in Addr /\ reg.toLink \subseteq status[a].readers
      BY Zenon, <3>1, AccessType DEF ThreadInv, AccessSteps, WriterSteps
    <3> QED
      BY <3>2 DEF PurgedIsUnreachable
  <2>1. /\ p \notin unpurged /\ reads[p] = {} /\ TargetInv(x) /\ p # NoDO
    BY Zenon, <1>1, DOAssumption DEF DomainInv, PurgeInv, Known, DO
  <2> QED
    BY <2>1 DEF TargetInv, Released
<1> QED
  BY <1>1, DomainCorrect, PTL

-----------------------------------------------------------------------------
\* The order of the tasks

\* Every step keeps the order.
LEMMA GoodSteps ==
  ASSUME Good, [PlainNext]_vars
  PROVE  Good' /\ Step
<1>1. DOInv' /\ DomainInv' /\ JoinInv' /\ [DONext]_doVars
  BY ProtocolSteps DEF Good
<1>2. SoleBlocker'
  BY <1>1, NextSoleBlocker
<1>3. Step
  BY <1>1 DEF Step
<1> QED
  BY <1>1, <1>2, <1>3, OrderInductive DEF Good

\* The domain keeps hold of every task that accessed an address, and every task that
\* conflicts with a registered access is ahead of its object.
THEOREM OrderCorrect == PlainSpec => []Good
<1>1. PlainInit => Good
  BY Zenon, InvInit, DomainInit, JoinInit, OrderInitial, SoleBlockerHolds DEF PlainInit, Good
<1>2. Good /\ [PlainNext]_vars => Good'
  BY GoodSteps
<1> QED
  BY <1>1, <1>2, PTL DEF PlainSpec

\* The tasks execute as the abstract order says: a task starts only when all earlier
\* conflicting tasks have ended.
THEOREM TasksInOrder == PlainSpec => RefinesTaskOrder
<1>1. PlainInit => Order!OrderInit
  BY Zenon DEF PlainInit, DOInit, Order!OrderInit, TaskState, DO
<1> QED
  BY <1>1, RefinesNext, OrderCorrect, PTL DEF PlainSpec, RefinesTaskOrder, Order!OrderSpec

-----------------------------------------------------------------------------
\* wait_on and taskwait

\* Every object that is not over is carried to its end by a task, by another object or by
\* the registering thread.
THEOREM ObjectsCarried == PlainSpec => [](Good /\ ClearInv)
<1>1. Good /\ ClearInv /\ [PlainNext]_vars => ClearInv'
  BY GoodSteps, ClearInductive
<1> QED
  BY <1>1, OrderCorrect, ClearInitial, PTL DEF PlainSpec

\* wait_on returns only when every task that conflicts with the accesses waited for has
\* ended.
THEOREM WaitOnReturns == PlainSpec => WaitOnIsSound
<1>1. ASSUME Good, ClearInv, [PlainNext]_vars, reg.pc = "blocked", reg'.pc = "idle",
             NEW t \in Task, Order!Conflict(accesses[t], accesses[reg.obj])
      PROVE  TaskState(t) = "ended"
  <2>1. WaitReturn
    BY Zenon, <1>1, WaitsEnd
  <2>2. PICK w : w = reg.obj
    OBVIOUS
  <2>3. /\ w \in Wait /\ w \in DO /\ w \in Owner /\ w \notin Task
        /\ phase[w] = "done" /\ reg.todo = <<>>
    BY ZenonT(30), <1>1, <2>1, <2>2, DOAssumption DEF WaitReturn, ClearInv, CarriedInv, StepInv, Good,
       DomainInv, ThreadInv, Owner, DO
  <2>4. Preds(w) = {}
    BY Zenon, <1>1, <2>3 DEF Good, DOInv, BlockedInv
  <2>5. Earlier(t, w) /\ t # w
    BY ZenonT(30), <1>1, <2>2, <2>3 DEF Earlier, Waiting
  <2> QED
    BY Zenon, <1>1, <2>2, <2>3, <2>4, <2>5, ConflictsEnded
<1>2. ASSUME Good, ClearInv, [PlainNext]_vars
      PROVE  [(reg.pc = "blocked" /\ reg'.pc = "idle") =>
                \A t \in Task : Order!Conflict(accesses[t], accesses[reg.obj])
                                  => TaskState(t) = "ended"]_vars
  BY <1>1, <1>2
<1> QED
  BY <1>2, ObjectsCarried, PTL DEF PlainSpec, WaitOnIsSound

\* An object that waits has a predecessor.
LEMMA WaitsForSome ==
  ASSUME DOInv, ClassInv, NEW o \in Comm, phase[o] = "wait"
  PROVE  Preds(o) # {}
<1>1. o \in DO /\ numPred[o] # 0
  BY DEF ClassInv, DO
<1>2. fake[o] = 0
  BY <1>1 DEF DOInv, DOTypeOK, BlockedInv
<1>3. numPred[o] = fake[o] + Cardinality(Preds(o)) /\ Cardinality({}) = 0
  BY Zenon, <1>1, FS_EmptySet DEF DOInv, PredecessorsCounted
<1> QED
  BY <1>1, <1>2, <1>3

\* When the tasks are over and no CommutationDO is open, every object is over.
LEMMA NothingLeft ==
  ASSUME Good, ClearInv, reg.pc = "taskwait", \A x \in Addr : status[x].commDO = NoDO,
         \A t \in Task : phase[t] \in {"none", "done"}, NEW o \in DO
  PROVE  phase[o] \in {"none", "done"}
<1>1. /\ DOInv /\ ClassInv /\ OpenInv /\ CallInv /\ WaitInv /\ ThreadInv
      /\ phase \in [DO -> Phase] /\ Task \subseteq DO
      /\ NoDO \notin Comm /\ reg.todo = <<>> /\ reg.initial = NoDO
  BY Zenon, DOAssumption DEF Good, DOInv, DOTypeOK, DomainInv, ThreadInv, ClearInv, CarriedInv, DO
<1>2. CASE o \in Task
  BY <1>2
<1>3. CASE o \in Wait
  <2>1. ~Waiting
    BY <1>1 DEF Waiting, Registers
  <2> QED
    BY <1>1, <1>3, <2>1 DEF WaitInv, ClassInv
<1>4. CASE o \in Comm
  <2>1. phase[o] # "reg"
    BY <1>1, <1>4 DEF OpenInv
  <2>2. phase[o] \notin Finishing
    <3>1. ~InCall(o)
      BY <1>1 DEF InCall
    <3> QED
      BY <1>1, <1>4, <3>1 DEF CallInv
  <2>3. phase[o] # "wait"
    <3> SUFFICES ASSUME phase[o] = "wait" PROVE FALSE
      OBVIOUS
    <3>1. Preds(o) # {}
      BY Zenon, <1>1, <1>4, WaitsForSome
    <3>2. PICK p \in DO : o \in succ[p]
      BY <3>1 DEF Preds
    <3>3. p \in Task /\ succ[p] = {}
      BY Zenon, <1>1, <1>4, <3>2 DEF ClassInv
    <3> QED
      BY <3>2, <3>3
  <2>4. phase[o] \notin {"ready", "run", "exit"}
    BY <1>1, <1>4 DEF ClassInv
  <2> QED
    BY <1>1, <2>1, <2>2, <2>3, <2>4 DEF Phase, Finishing
<1> QED
  BY <1>2, <1>3, <1>4 DEF DO

\* When taskwait clears the domain, the tasks, the waits and the CommutationDOs are all
\* over: none of them is still to run, and none is still to purge itself.
THEOREM ClearingIsSafe == PlainSpec => ClearIsSafe
<1>1. ASSUME Good, ClearInv, [PlainNext]_vars, reg.pc = "taskwait", reg'.pc = "idle",
             NEW o \in DO
      PROVE  phase[o] \in {"none", "done"}
  <2>1. ClearDomain
    BY <1>1, WaitsEnd
  <2> QED
    BY <1>1, <2>1, NothingLeft DEF ClearDomain
<1>2. ASSUME Good, ClearInv, [PlainNext]_vars
      PROVE  [(reg.pc = "taskwait" /\ reg'.pc = "idle") =>
                \A o \in DO : phase[o] \in {"none", "done"}]_vars
  BY <1>1, <1>2
<1> QED
  BY <1>2, ObjectsCarried, PTL DEF PlainSpec, ClearIsSafe
=============================================================================
