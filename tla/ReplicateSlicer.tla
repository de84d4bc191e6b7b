-------------------------- MODULE ReplicateSlicer --------------------------
(***************************************************************************)
(* SlicerReplicate: a worksharing loop run by tasks.  The creator makes    *)
(* the loop's descriptor; every task made from the sliced descriptor takes *)
(* items until there are none.                                             *)
(***************************************************************************)
EXTENDS WorkSharing, Slicers

CONSTANTS ReplicateKinds, ReplicateLoops  \* the schedules and the loops

\* There is one loop, so currentChunk and items are those of one descriptor,
\* which the tasks share; lower[t] is the lowerBound of t's copy of it (static)
VARIABLES
  submitted,
  running    \* the threads that run a slice

replicated == <<nths, kind, loop>>
rsVars == <<replicated, submitted, queued, currentChunk, lower, running, items>>

RSInit ==
  /\ nths = MaxThreads /\ kind \in ReplicateKinds /\ loop \in ReplicateLoops
  /\ submitted = FALSE /\ queued = FALSE
  /\ currentChunk = 0
  /\ lower = [t \in TeamThread |-> loop.lower]
  /\ running = {} /\ items = {}

Chunks == NumOfChunks(kind, loop, nths)

\* submit(): one copy, and one descriptor, for each thread of the team if the
\* schedule is static (instanceOnCreation)
SubmitReplicate_OnlyOthers ==
  /\ ~submitted /\ submitted' = TRUE
  /\ IF kind = "static" THEN running' = TeamThread \ {0} /\ UNCHANGED queued
                        ELSE queued' = TRUE /\ UNCHANGED running
  /\ UNCHANGED <<replicated, currentChunk, lower, items>>

SubmitReplicate ==
  /\ ~submitted /\ submitted' = TRUE
  /\ IF kind = "static" THEN running' = TeamThread /\ UNCHANGED queued
                        ELSE queued' = TRUE /\ UNCHANGED running
  /\ UNCHANGED <<replicated, currentChunk, lower, items>>

GetItemsLeft == Chunks - currentChunk

\* dequeue(), under the lock of the queue
DequeueTask(t) ==
  /\ queued /\ t \notin running
  /\ queued' = (GetItemsLeft > 1)
  /\ running' = running \cup {t}
  /\ UNCHANGED <<replicated, submitted, currentChunk, lower, items>>

GiveTask(t, item) ==
  IF item.execute THEN items' = Handed(items, t, item) /\ UNCHANGED running
                  ELSE running' = running \ {t} /\ UNCHANGED items

TaskItem_ReadThenAdd(t) ==
  /\ t \in running /\ kind # "static"
  /\ \E mychunk \in {currentChunk, currentChunk - 1} \cap Nat :
       GiveTask(t, IF mychunk >= Chunks THEN NoItem
               ELSE ChunkItem(kind, loop, nths, mychunk))
  /\ currentChunk' = currentChunk + 1
  /\ UNCHANGED <<replicated, submitted, queued, lower>>

TaskItem(t) ==
  /\ t \in running /\ kind # "static"
  /\ currentChunk' = currentChunk + 1
  /\ GiveTask(t, IF currentChunk >= Chunks THEN NoItem
             ELSE ChunkItem(kind, loop, nths, currentChunk))
  /\ UNCHANGED <<replicated, submitted, queued, lower>>

TaskStatic(t) ==
  LET l == [loop EXCEPT !.lower = lower[t]]
  IN /\ t \in running /\ kind = "static"
     /\ GiveTask(t, StaticItem(l, nths, t))
     /\ lower' = [lower EXCEPT ![t] = StaticLower(l, nths)]
     /\ UNCHANGED <<replicated, submitted, queued, currentChunk>>

RSNext == SubmitReplicate \/ \E t \in TeamThread : DequeueTask(t) \/ TaskItem(t) \/ TaskStatic(t)

RSSpec == RSInit /\ [][RSNext]_rsVars

-----------------------------------------------------------------------------

\* The items left are read while other tasks take them, and yet, when the last
\* slice has been taken and all have ended, the whole loop has run.
LoopIsDone ==
  submitted /\ ~queued /\ running = {} =>
    UNION {Covered(loop, a.item) : a \in items} = Iterations(loop)

\* No iteration is run by two tasks, or twice by one, or out of the loop, and the
\* items have the bounds that the plugins ensure.
TasksDisjoint ==
  /\ \A a \in items : /\ Covered(loop, a.item) \subseteq Iterations(loop)
                       /\ Iterations(loop) # {} => InRange(loop, a.item)
  /\ \A a, b \in items : a = b \/ Covered(loop, a.item) \cap Covered(loop, b.item) = {}
=============================================================================
