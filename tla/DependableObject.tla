-------------------------- MODULE DependableObject --------------------------
(***************************************************************************)
(* The protocol of a DependableObject (core/dependableobject.{hpp,cpp}):   *)
(* the counter of predecessors, the set of successors, and the three ways  *)
(* a finishing object releases them: one by one, in a batch, or by handing *)
(* an immediate successor to the thread that ran it.                       *)
(*                                                                         *)
(* Three subclasses implement dependenciesSatisfied() differently: a Task  *)
(* (DOSubmit) is submitted to the scheduler, a Comm (CommutationDO) runs   *)
(* its own finished() inside the call, a Wait (DOWait) wakes its waiter.   *)
(*                                                                         *)
(* Which edges are added, and when, is decided by a dependency domain;     *)
(* here any edge may be added that the domain is entitled to add: to an    *)
(* object still being registered, from an object not yet purged from the   *)
(* domain.  PlainDeps is one such domain and is checked to refine this     *)
(* specification.                                                          *)
(*                                                                         *)
(* A step is a critical section on the predecessor's object lock or one    *)
(* access to the atomic counter.                                           *)
(***************************************************************************)
EXTENDS Integers, FiniteSets

CONSTANTS Task, Comm, Wait,  \* the objects of the three subclasses
          NoDO,              \* the null pointer
          BatchValid         \* tasks the policy accepts in a batch submission

DO == Task \cup Comm \cup Wait

ASSUME DOAssumption ==
  /\ IsFiniteSet(DO)
  /\ Task \cap Comm = {} /\ Task \cap Wait = {} /\ Comm \cap Wait = {}
  /\ NoDO \notin DO
  /\ BatchValid \subseteq Task

VARIABLES
  numPred,    \* _numPredecessors
  fake,       \* 1 while the object owns its own fake (or dummy) predecessor
  succ,       \* _successors
  visited,    \* successors the loop of finished() has already decremented
  submitted,  \* _submitted and _needsSubmission
  phase,      \* where the object is in its life
  cur,        \* successor the loop of finished() is working on
  batch,      \* immediateSucc: successors collected for the batch submission
  handed      \* how many times the scheduler or a thread has got the task

doVars == <<numPred, fake, succ, visited, submitted, phase, cur, batch, handed>>

-----------------------------------------------------------------------------

\* "reg": being registered; "wait": registered, predecessors left;
\* "ready": satisfied; "run": its body executes; "exit": body over, done() not
\* yet called; "purge": in finished(), still known to the domain; "loop",
\* "single", "batch", "call": in the loop over its successors
Phase == {"none", "reg", "wait", "ready", "run", "exit", "purge",
          "loop", "single", "batch", "call", "done"}

\* The objects that still have to decrement o
Preds(o) == {p \in DO : o \in succ[p] \ visited[p]}

\* dependenciesSatisfied() of the subclass of o, as the phase it leads to
SatisfiedPhase(o) ==
  IF o \in Task THEN "ready" ELSE IF o \in Comm THEN "purge" ELSE "done"

\* decreasePredecessors() without batchRelease: the counter is decremented, and
\* the step that reaches zero calls dependenciesSatisfied(), which submits a
\* task unless its submission was disabled
DecreasedPhase(o) == IF numPred[o] = 1 THEN SatisfiedPhase(o) ELSE phase[o]
DecreasedHanded(o, needs) ==
  IF numPred[o] = 1 /\ o \in Task /\ needs THEN handed[o] + 1 ELSE handed[o]

\* canBeBatchReleased()
CanBeBatchReleased_AnyClass(o) == numPred[o] = 1

CanBeBatchReleased(o) ==
  /\ o \in Task
  /\ numPred[o] = 1
  /\ o \in BatchValid
  /\ submitted[o]

DOInit ==
  /\ numPred = [o \in DO |-> 0]
  /\ fake = [o \in DO |-> 0]
  /\ succ = [o \in DO |-> {}]
  /\ visited = [o \in DO |-> {}]
  /\ submitted = [o \in DO |-> FALSE]
  /\ phase = [o \in DO |-> "none"]
  /\ cur = [o \in DO |-> NoDO]
  /\ batch = [o \in DO |-> {}]
  /\ handed = [o \in DO |-> 0]

-----------------------------------------------------------------------------

\* An object enters the domain with a fake predecessor.  The DOWait of a work
\* descriptor is registered again at every wait.
Create_NoFake(o) ==
  /\ phase[o] = "none" \/ (o \in Wait /\ phase[o] = "done")
  /\ phase' = [phase EXCEPT ![o] = "reg"]
  /\ UNCHANGED <<numPred, fake, succ, visited, submitted, cur, batch, handed>>

Create(o) ==
  /\ phase[o] = "none" \/ (o \in Wait /\ phase[o] = "done")
  /\ numPred' = [numPred EXCEPT ![o] = @ + 1]
  /\ fake' = [fake EXCEPT ![o] = 1]
  /\ phase' = [phase EXCEPT ![o] = "reg"]
  /\ UNCHANGED <<succ, visited, submitted, cur, batch, handed>>

\* p->addSuccessor(s) after an s.increasePredecessors() that does not depend on
\* whether the edge is new
CountedEdge(p, s) ==
  /\ succ' = [succ EXCEPT ![p] = @ \cup {s}]
  /\ numPred' = [numPred EXCEPT ![s] = @ + 1]
  /\ UNCHANGED <<fake, visited, submitted, phase, cur, batch, handed>>

\* p->addSuccessor(s) and, when the edge is new, s.increasePredecessors(),
\* under the lock of p
AddEdge(p, s) ==
  /\ succ' = [succ EXCEPT ![p] = @ \cup {s}]
  /\ numPred' = [numPred EXCEPT ![s] = IF s \in succ[p] THEN @ ELSE @ + 1]
  /\ UNCHANGED <<fake, visited, submitted, phase, cur, batch, handed>>

\* The edges a domain is entitled to add
AddSuccessor_Late(p, s) ==
  /\ phase[s] \in {"reg", "wait"}
  /\ phase[p] \in {"reg", "wait", "ready", "run", "exit", "purge"}
  /\ p \notin Wait \cup {s}
  /\ AddEdge(p, s)

AddSuccessor(p, s) ==
  /\ phase[s] = "reg"
  /\ phase[p] \in {"reg", "wait", "ready", "run", "exit", "purge"}
  /\ p \notin Wait \cup {s}
  /\ AddEdge(p, s)

\* The registration ends: submitted(), then the fake predecessor is released.
\* For a Comm this is the decrease in finalizeReduction().
DropFake(o) ==
  /\ numPred' = [numPred EXCEPT ![o] = @ - 1]
  /\ fake' = [fake EXCEPT ![o] = 0]
  /\ submitted' = [submitted EXCEPT ![o] = o \in Task]
  /\ phase' = [phase EXCEPT ![o] =
                 IF numPred[o] = 1 THEN SatisfiedPhase(o) ELSE "wait"]
  /\ handed' = [handed EXCEPT ![o] = DecreasedHanded(o, TRUE)]
  /\ UNCHANGED <<succ, visited, cur, batch>>

ReleaseFake(o) == phase[o] = "reg" /\ DropFake(o)

\* A thread runs a satisfied task that the scheduler, or the thread itself, has
Start(o) ==
  /\ o \in Task
  /\ phase[o] = "ready"
  /\ handed[o] > 0
  /\ phase' = [phase EXCEPT ![o] = "run"]
  /\ UNCHANGED <<numPred, fake, succ, visited, submitted, cur, batch, handed>>

BodyEnd(o) ==
  /\ phase[o] = "run"
  /\ phase' = [phase EXCEPT ![o] = "exit"]
  /\ UNCHANGED <<numPred, fake, succ, visited, submitted, cur, batch, handed>>

\* p has been handed to a thread, which runs it or keeps it in its pipeline
Held(p) == handed[p] = 1 /\ phase[p] \in {"wait", "ready", "run", "exit"}

\* releaseImmediateSuccessor(), under the lock of p.  With keepDeps (an
\* AsyncThread that fills its pipeline behind p, which it has itself got and not
\* finished) the edge stays and the submission of s is disabled; otherwise (the
\* thread of p, after the body of p) the edge goes and s is satisfied without
\* being submitted.
ImmediateSuccessor_StillSubmits(p, s, keepDeps) ==
  /\ IF keepDeps THEN Held(p) ELSE phase[p] = "exit"
  /\ s \in succ[p]
  /\ s \in Task
  /\ numPred[s] = 1
  /\ submitted[s]
  /\ handed' = [handed EXCEPT ![s] = @ + 1]
  /\ UNCHANGED <<numPred, fake, succ, visited, submitted, phase, cur, batch>>

ImmediateSuccessor(p, s, keepDeps) ==
  /\ IF keepDeps THEN Held(p) ELSE phase[p] = "exit"
  /\ s \in succ[p]
  /\ s \in Task
  /\ numPred[s] = 1
  /\ submitted[s]
  /\ handed' = [handed EXCEPT ![s] = @ + 1]
  /\ \/ /\ keepDeps
        /\ submitted' = [submitted EXCEPT ![s] = FALSE]
        /\ UNCHANGED <<succ, numPred, phase>>
     \/ /\ ~keepDeps
        /\ succ' = [succ EXCEPT ![p] = @ \ {s}]
        /\ numPred' = [numPred EXCEPT ![s] = @ - 1]
        /\ phase' = [phase EXCEPT ![s] = "ready"]
        /\ UNCHANGED submitted
  /\ UNCHANGED <<fake, visited, cur, batch>>

-----------------------------------------------------------------------------
\* finished()

Finish(o) ==
  /\ phase[o] = "exit"
  /\ phase' = [phase EXCEPT ![o] = "purge"]
  /\ UNCHANGED <<numPred, fake, succ, visited, submitted, cur, batch, handed>>

\* The object is no longer a last writer nor a reader of any target
Purged(o) ==
  /\ phase[o] = "purge"
  /\ phase' = [phase EXCEPT ![o] = "loop"]
  /\ UNCHANGED <<numPred, fake, succ, visited, submitted, cur, batch, handed>>

\* The next successor: with more than one, ask whether it can be released in
\* the batch; the answer is used in a later step
Visit(p, s) ==
  /\ phase[p] = "loop"
  /\ s \in succ[p] \ visited[p]
  /\ cur' = [cur EXCEPT ![p] = s]
  /\ phase' = [phase EXCEPT ![p] =
                 IF Cardinality(succ[p]) > 1 /\ CanBeBatchReleased(s)
                   THEN "batch" ELSE "single"]
  /\ UNCHANGED <<numPred, fake, succ, visited, submitted, batch, handed>>

\* decreasePredecessors( NULL, this, false, false ); a satisfied Comm runs its
\* finished() before the call returns
DecreaseSingle_AlwaysSubmits(p) ==
  LET s == cur[p] IN
  /\ phase[p] = "single"
  /\ numPred' = [numPred EXCEPT ![s] = @ - 1]
  /\ visited' = [visited EXCEPT ![p] = @ \cup {s}]
  /\ handed' = [handed EXCEPT ![s] = DecreasedHanded(s, TRUE)]
  /\ phase' = [phase EXCEPT
                 ![p] = IF numPred[s] = 1 /\ s \in Comm THEN "call" ELSE "loop",
                 ![s] = DecreasedPhase(s)]
  /\ UNCHANGED <<fake, succ, submitted, cur, batch>>

DecreaseSingle(p) ==
  LET s == cur[p] IN
  /\ phase[p] = "single"
  /\ numPred' = [numPred EXCEPT ![s] = @ - 1]
  /\ visited' = [visited EXCEPT ![p] = @ \cup {s}]
  /\ handed' = [handed EXCEPT ![s] = DecreasedHanded(s, submitted[s])]
  /\ phase' = [phase EXCEPT
                 ![p] = IF numPred[s] = 1 /\ s \in Comm THEN "call" ELSE "loop",
                 ![s] = DecreasedPhase(s)]
  /\ UNCHANGED <<fake, succ, submitted, cur, batch>>

Return(p) ==
  /\ phase[p] = "call"
  /\ phase[cur[p]] = "done"
  /\ phase' = [phase EXCEPT ![p] = "loop"]
  /\ UNCHANGED <<numPred, fake, succ, visited, submitted, cur, batch, handed>>

\* decreasePredecessors( NULL, this, true, false ): s is satisfied but not
\* submitted until the loop ends
DecreaseBatch(p) ==
  LET s == cur[p] IN
  /\ phase[p] = "batch"
  /\ numPred' = [numPred EXCEPT ![s] = @ - 1]
  /\ visited' = [visited EXCEPT ![p] = @ \cup {s}]
  /\ batch' = [batch EXCEPT ![p] = @ \cup {s}]
  /\ phase' = [phase EXCEPT ![p] = "loop", ![s] = "ready"]
  /\ UNCHANGED <<fake, succ, submitted, cur, handed>>

\* The loop is over: Scheduler::submit( immediateSucc, numImmediate ).  The
\* object is not used again (workFinished() deletes it).
SubmitBatch(p) ==
  /\ phase[p] = "loop"
  /\ visited[p] = succ[p]
  /\ handed' = [o \in DO |-> IF o \in batch[p] THEN handed[o] + 1 ELSE handed[o]]
  /\ batch' = [batch EXCEPT ![p] = {}]
  /\ succ' = [succ EXCEPT ![p] = {}]
  /\ visited' = [visited EXCEPT ![p] = {}]
  /\ cur' = [cur EXCEPT ![p] = NoDO]
  /\ phase' = [phase EXCEPT ![p] = "done"]
  /\ UNCHANGED <<numPred, fake, submitted>>

-----------------------------------------------------------------------------

DONext ==
  \/ \E o \in DO : Create(o) \/ ReleaseFake(o) \/ Start(o) \/ BodyEnd(o)
  \/ \E p, s \in DO : AddSuccessor(p, s) \/ Visit(p, s)
  \/ \E p, s \in DO, keepDeps \in BOOLEAN : ImmediateSuccessor(p, s, keepDeps)
  \/ \E p \in DO : \/ Finish(p) \/ Purged(p) \/ DecreaseSingle(p)
                   \/ Return(p) \/ DecreaseBatch(p) \/ SubmitBatch(p)

DOSpec == DOInit /\ [][DONext]_doVars

-----------------------------------------------------------------------------

DOTypeOK ==
  /\ numPred \in [DO -> Int]
  /\ fake \in [DO -> 0..1]
  /\ succ \in [DO -> SUBSET DO]
  /\ visited \in [DO -> SUBSET DO]
  /\ submitted \in [DO -> BOOLEAN]
  /\ phase \in [DO -> Phase]
  /\ cur \in [DO -> DO \cup {NoDO}]
  /\ batch \in [DO -> SUBSET Task]
  /\ handed \in [DO -> Nat]

\* The counter of an object is exactly its fake predecessor plus the objects
\* that will still decrement it: no increase or decrease is lost or repeated,
\* whatever the interleaving of addSuccessor(), the immediate successor and the
\* loops of concurrent finished() calls.
PredecessorsCounted ==
  \A o \in DO : numPred[o] = fake[o] + Cardinality(Preds(o))

\* fatal_cond( numPred != 0, "Num predecessors is not 0" ) never fires: the
\* answer of canBeBatchReleased() is still right when it is used.
BatchReleaseIsLast ==
  \A p \in DO : phase[p] = "batch" => numPred[cur[p]] = 1

\* A task reaches a thread at most once, through exactly one of the ways (own
\* submission, batch, immediate successor, prefetch), and never before the
\* objects it depends on have released it, except as a prefetch.
HandedOnce ==
  \A o \in Task :
    /\ handed[o] \in {0, 1}
    /\ phase[o] \in {"run", "exit", "purge", "loop", "done"} => handed[o] = 1
    /\ handed[o] = 1 => phase[o] # "wait" \/ ~submitted[o]

\* What releaseImmediateSuccessor() relies on: a successor of p whose counter is
\* one waits for p alone and is fully registered, so the test repeated after the
\* erase cannot fail (incorrectlyErased stays empty).
SoleBlocker ==
  \A p, s \in DO :
    (s \in succ[p] \ visited[p] /\ numPred[s] = 1)
      => Preds(s) = {p} /\ phase[s] = "wait"

-----------------------------------------------------------------------------
\* The inductive invariant behind the properties above

BeforeLoop == {"none", "reg", "wait", "ready", "run", "exit", "purge"}

\* How many times a task has been handed out follows from where it is
HandedByPhase(t) ==
  /\ phase[t] \in {"none", "reg"} => handed[t] = 0
  /\ phase[t] = "wait" => handed[t] = IF submitted[t] THEN 0 ELSE 1
  /\ phase[t] = "ready" => handed[t] = IF \E p \in DO : t \in batch[p] THEN 0 ELSE 1
  /\ phase[t] \notin {"none", "reg", "wait", "ready"} => handed[t] = 1

\* An object visits its successors only after it is purged; a wait has none
EdgesInv(o) ==
  /\ visited[o] \subseteq succ[o]
  /\ o \notin succ[o]
  /\ o \in Wait => succ[o] = {}
  /\ phase[o] \in BeforeLoop => visited[o] = {}

\* An object with predecessors left is not satisfied
BlockedInv(o) ==
  /\ fake[o] = 1 <=> phase[o] = "reg"
  /\ Preds(o) # {} => phase[o] \in {"reg", "wait"}

\* The successor an object is visiting still counts it, and is its own to
\* release when it was found fit for the batch
VisitInv(o) ==
  /\ phase[o] \in {"single", "batch"} => cur[o] \in succ[o] \ visited[o]
  /\ phase[o] = "batch" =>
       cur[o] \in Task /\ numPred[cur[o]] = 1 /\ submitted[cur[o]]

\* A task is in at most one batch, and satisfied
BatchInv(o) ==
  \A t \in batch[o] : phase[t] = "ready" /\ \A p \in DO : t \in batch[p] => p = o

DOInv ==
  /\ DOTypeOK
  /\ PredecessorsCounted
  /\ \A o \in DO : EdgesInv(o) /\ BlockedInv(o) /\ VisitInv(o) /\ BatchInv(o)
  /\ \A t \in Task : HandedByPhase(t)

=============================================================================
