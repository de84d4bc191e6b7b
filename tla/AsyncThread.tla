----------------------------- MODULE AsyncThread -----------------------------
(***************************************************************************)
(* The pipeline of an asynchronous thread, which drives a device.  The     *)
(* thread takes up several tasks and starts their copies ahead.  What is   *)
(* to be done next for a task is the action of an event; the thread polls  *)
(* its events (checkEvents) and runs the actions of those that are raised. *)
(*                                                                         *)
(* The operators map the pipeline before a member function to the one      *)
(* after it.  What they read of the rest of the runtime are parameters:    *)
(* fits, whether the data of the task fit in the device's memory; ready,   *)
(* whether the copies of the task are done; waits, whether the task has    *)
(* predecessors left.  Completed events stay in the code's list until they *)
(* reach its front, without effect; they are left out.                     *)
(***************************************************************************)
EXTENDS Integers, SequencesExt

VARIABLE
  async  \* async[t]: the pipeline of thread t, see NewPipeline

NewPipeline(none) ==
  [running |-> <<>>,        \* _runningWDs
   memory  |-> {},          \* tasks whose data have memory on the device
   events  |-> <<>>,        \* the events that are not completed
   at |-> 1, left |-> 0,    \* loop of checkEvents: position, visits left
   then |-> "idle",         \* what follows the loop, or a search that fails
   last |-> none]           \* idle(): the task whose successor is prefetched

canGetWork(p, maxPrefetch) == Len(p.running) < maxPrefetch

addEvent(p, w, action, isRaised) ==
  [p EXCEPT !.events = Append(@, [wd |-> w, action |-> action, raised |-> isRaised])]

\* Mutant: a task whose data do not fit is forgotten.
preRunWD_NoRetry(p, w, fits) ==
  IF fits
  THEN addEvent([p EXCEPT !.memory = @ \union {w}], w, "checkWDInputs", FALSE)
  ELSE p

\* Allocates memory and starts the input copies; without room, tries again at
\* the next poll (processNonAllocatedWDData).
preRunWD(p, w, fits) ==
  IF fits
  THEN addEvent([p EXCEPT !.memory = @ \union {w}], w, "checkWDInputs", FALSE)
  ELSE addEvent(p, w, "preRunWD", TRUE)

addNextWD(p, w, fits) == preRunWD([p EXCEPT !.running = Append(@, w)], w, fits)

\* Mutant: the kernel is launched whatever the task waits for.
runWD_NoWait(p, w, waits) == addEvent(p, w, "checkWDOutputs", FALSE)

\* A task with predecessors left asks again at the next poll
\* (processDependentWD); otherwise its kernel is launched.
runWD(p, w, waits) ==
  IF waits THEN addEvent(p, w, "runWD", TRUE) ELSE addEvent(p, w, "checkWDOutputs", FALSE)

checkWDInputs(p, w, ready, waits) ==
  IF ready THEN runWD(p, w, waits) ELSE addEvent(p, w, "runWD", FALSE)

\* Starts the output copies.
checkWDOutputs(p, w) == addEvent(p, w, "postRunWD", FALSE)

\* The memory is released when the output copies are found done.
postRunWD(p, w, ready) ==
  IF ready THEN [p EXCEPT !.running = Remove(@, w), !.memory = @ \ {w}]
  ELSE addEvent(p, w, "outputDataReady", FALSE)

\* checkEvents visits the events there are when it is called, and those that
\* the actions add at the next call.
checkEvents(p, then) ==
  [p EXCEPT !.at = 1, !.left = Len(p.events), !.then = then]
NextEvent(p) == p.events[p.at]
Skipped(p) == [p EXCEPT !.at = @ + 1, !.left = @ - 1]
Completed(p) == [p EXCEPT !.events = RemoveAt(@, p.at), !.left = @ - 1]

\* The outcomes of an action: the new pipeline, whether the kernel of the task
\* was launched, and whether the task is finished.
ProcessActions(p, fits, waits) ==
  LET e == NextEvent(p)
      c == Completed(p)
      out(q, launched, finished) == [pipeline |-> q, launched |-> launched, finished |-> finished]
  IN  CASE e.action = "preRunWD" -> {out(preRunWD(c, e.wd, fits), FALSE, FALSE)}
        [] e.action = "checkWDInputs" ->
             {out(checkWDInputs(c, e.wd, ready, waits), ready /\ ~waits, FALSE) : ready \in BOOLEAN}
        [] e.action = "runWD" -> {out(runWD(c, e.wd, waits), ~waits, FALSE)}
        [] e.action = "checkWDOutputs" -> {out(checkWDOutputs(c, e.wd), FALSE, FALSE)}
        [] e.action = "postRunWD" ->
             {out(postRunWD(c, e.wd, ready), FALSE, ready) : ready \in BOOLEAN}
        [] e.action = "outputDataReady" -> {out(postRunWD(c, e.wd, TRUE), FALSE, TRUE)}

\* The device completes what an event stands for.
Raised(p, i) == [p EXCEPT !.events[i].raised = TRUE]
=============================================================================
