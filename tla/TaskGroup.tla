----------------------------- MODULE TaskGroup -----------------------------
(***************************************************************************)
(* Work descriptors that create children and wait for them: taskwait       *)
(* (waitCompletion, on the counter _components) and wait_on (on a DOWait), *)
(* both through a SynchronizedCondition and Scheduler::waitOnCondition,    *)
(* and the end of a work descriptor (done(), exitWork(), deletion).        *)
(*                                                                         *)
(* A work descriptor is a process; it makes steps while a thread runs it.  *)
(* Threads support user-level threads and the scheduler is enabled, so a   *)
(* waiter always leaves its thread: to a ready work descriptor or to the   *)
(* idle one.                                                               *)
(***************************************************************************)
EXTENDS WorkDescriptors, Integers, FiniteSets

CONSTANTS Root,      \* the work descriptor the program starts with
          Threads,   \* number of threads
          MaxWaits   \* bound on the waits each work descriptor calls: a function

ASSUME TaskGroupAssumption ==
  /\ IsFiniteSet(WD) /\ Root \in WD /\ NoWD \notin WD
  /\ Threads \in Nat \ {0} /\ MaxWaits \in [WD -> Nat]

VARIABLES
  parent,         \* _parent
  components,     \* _components
  refcount,       \* _refcount of _componentsSyncCond
  preds,          \* predecessors of the DOWait; the owner stands for the fake one
  depsSatisfied,  \* _depsSatisfied of the DOWait
  lock,           \* owner of the lock of each condition
  waiter,         \* conditions whose _waiter is set
  state,          \* the work descriptor as the scheduler sees it
  pc,             \* its next step
  cond,           \* the condition it waits on or signals
  ret,            \* the step after the wait or the signal
  waits           \* waits it has called

vars == <<parent, components, refcount, preds, depsSatisfied, lock, waiter,
          state, pc, cond, ret, waits>>

-----------------------------------------------------------------------------

\* The conditions of a work descriptor: _componentsSyncCond and its DOWait's
Comp(w) == <<w, "components">>
Deps(w) == <<w, "deps">>
Cond == WD \X {"components", "deps"}
Owner(k) == k[1]

\* checkCondition()
Holds(k) == IF k = Comp(Owner(k)) THEN components[Owner(k)] = 0
                                  ELSE depsSatisfied[Owner(k)]

State == {"none", "queued", "running", "blocked", "deleted"}
PC == {"body", "release", "satisfy", "check", "loop", "locked", "switch", "drain",
       "sigLock", "sigWake", "children", "reference", "decrease",
       "unreference", "over"}

\* w is in done(), past the release of its successors
Finished(w) ==
  \/ pc[w] \in {"children", "reference", "decrease", "unreference", "over"}
  \/ ret[w] \in {"children", "reference", "unreference"}

Running(w, step) == state[w] = "running" /\ pc[w] = step
Goto(w, step) == pc' = [pc EXCEPT ![w] = step]

GroupInit ==
  /\ parent = [w \in WD |-> NoWD]
  /\ components = [w \in WD |-> 0]
  /\ refcount = [w \in WD |-> 0]
  /\ preds = [w \in WD |-> {}]
  /\ depsSatisfied = [w \in WD |-> FALSE]
  /\ lock = [k \in Cond |-> NoWD]
  /\ waiter = {}
  /\ state = [w \in WD |-> IF w = Root THEN "running" ELSE "none"]
  /\ pc = [w \in WD |-> "body"]
  /\ cond = [w \in WD |-> Comp(w)]
  /\ ret = [w \in WD |-> "body"]
  /\ waits = [w \in WD |-> 0]

-----------------------------------------------------------------------------
\* The body of a work descriptor

\* addWork() and the submission of the child
Create(w, c) ==
  /\ Running(w, "body") /\ state[c] = "none"
  /\ components' = [components EXCEPT ![w] = @ + 1]
  /\ parent' = [parent EXCEPT ![c] = w]
  /\ state' = [state EXCEPT ![c] = "queued"]
  /\ UNCHANGED <<refcount, preds, depsSatisfied, lock, waiter, pc, cond, ret, waits>>

\* waitCompletion(), called by the body
TaskWait(w) ==
  /\ Running(w, "body") /\ waits[w] < MaxWaits[w]
  /\ waits' = [waits EXCEPT ![w] = @ + 1]
  /\ cond' = [cond EXCEPT ![w] = Comp(w)]
  /\ ret' = [ret EXCEPT ![w] = "body"]
  /\ Goto(w, "check")
  /\ UNCHANGED <<parent, components, refcount, preds, depsSatisfied, lock, waiter, state>>

\* waitOn(): the DOWait is initialised and linked to children that have not
\* released their successors yet
WaitOn(w, cs) ==
  /\ Running(w, "body") /\ waits[w] < MaxWaits[w]
  /\ \A c \in cs : parent[c] = w /\ ~Finished(c)
  /\ waits' = [waits EXCEPT ![w] = @ + 1]
  /\ depsSatisfied' = [depsSatisfied EXCEPT ![w] = FALSE]
  /\ preds' = [preds EXCEPT ![w] = cs \cup {w}]
  /\ cond' = [cond EXCEPT ![w] = Deps(w)]
  /\ ret' = [ret EXCEPT ![w] = "body"]
  /\ Goto(w, "release")
  /\ UNCHANGED <<parent, components, refcount, lock, waiter, state>>

\* The fake predecessor goes; if it was the last, the waiter signals itself
Release(w) ==
  /\ Running(w, "release")
  /\ preds' = [preds EXCEPT ![w] = @ \ {w}]
  /\ IF preds[w] = {w}
       THEN Goto(w, "satisfy") /\ ret' = [ret EXCEPT ![w] = "check"]
       ELSE Goto(w, "check") /\ UNCHANGED ret
  /\ UNCHANGED <<parent, components, refcount, depsSatisfied, lock, waiter, state, cond, waits>>

\* DOWait::dependenciesSatisfied(): the flag, then signal()
Satisfy(w) ==
  /\ Running(w, "satisfy")
  /\ depsSatisfied' = [depsSatisfied EXCEPT ![Owner(cond[w])] = TRUE]
  /\ Goto(w, "sigLock")
  /\ UNCHANGED <<parent, components, refcount, preds, lock, waiter, state, cond, ret, waits>>

-----------------------------------------------------------------------------
\* Scheduler::waitOnCondition()

\* The condition holds: back to the caller, which for _componentsSyncCond first
\* waits for the signalers
Waited(w) ==
  /\ IF cond[w] = Comp(w)
       THEN Goto(w, "drain") /\ UNCHANGED ret
       ELSE Goto(w, "body") /\ ret' = [ret EXCEPT ![w] = "body"]
  /\ UNCHANGED <<parent, components, refcount, preds, depsSatisfied, lock, waiter, state, cond, waits>>

CheckTrue(w) ==
  /\ Running(w, "check")
  /\ Holds(cond[w])
  /\ Waited(w)

CheckFalse(w) ==
  /\ Running(w, "check")
  /\ ~Holds(cond[w])
  /\ Goto(w, "loop")
  /\ UNCHANGED <<parent, components, refcount, preds, depsSatisfied, lock, waiter, state,
                 cond, ret, waits>>

\* After some failed checks: lock, check again, and leave the thread to another
\* work descriptor
Lock(w) ==
  /\ Running(w, "loop")
  /\ lock[cond[w]] = NoWD
  /\ lock' = [lock EXCEPT ![cond[w]] = w]
  /\ Goto(w, "locked")
  /\ UNCHANGED <<parent, components, refcount, preds, depsSatisfied, waiter, state, cond, ret, waits>>

Unlock(w) ==
  /\ Running(w, "locked")
  /\ Holds(cond[w])
  /\ lock' = [lock EXCEPT ![cond[w]] = NoWD]
  /\ Goto(w, "check")
  /\ UNCHANGED <<parent, components, refcount, preds, depsSatisfied, waiter, state, cond, ret, waits>>

Recheck_Never(w) ==
  /\ Running(w, "locked")
  /\ Goto(w, "switch")
  /\ UNCHANGED <<parent, components, refcount, preds, depsSatisfied, lock, waiter, state, cond,
                 ret, waits>>

Recheck(w) ==
  /\ Running(w, "locked")
  /\ ~Holds(cond[w])
  /\ Goto(w, "switch")
  /\ UNCHANGED <<parent, components, refcount, preds, depsSatisfied, lock, waiter, state, cond,
                 ret, waits>>

\* switchHelper(), between the two stacks: the work descriptor is blocked and
\* made the waiter, and the lock it took before is released
Block(w) ==
  /\ Running(w, "switch")
  /\ state' = [state EXCEPT ![w] = "blocked"]
  /\ waiter' = waiter \cup {cond[w]}
  /\ lock' = [lock EXCEPT ![cond[w]] = NoWD]
  /\ Goto(w, "check")
  /\ UNCHANGED <<parent, components, refcount, preds, depsSatisfied, cond, ret, waits>>

\* waitConditionAndSignalers(): until no child is inside exitWork()
Drain_NotAtAll(w) ==
  /\ Running(w, "drain")
  /\ Goto(w, ret[w])
  /\ ret' = [ret EXCEPT ![w] = "body"]
  /\ UNCHANGED <<parent, components, refcount, preds, depsSatisfied, lock, waiter, state,
                 cond, waits>>

Drain(w) ==
  /\ Running(w, "drain")
  /\ refcount[w] = 0
  /\ Goto(w, ret[w])
  /\ ret' = [ret EXCEPT ![w] = "body"]
  /\ UNCHANGED <<parent, components, refcount, preds, depsSatisfied, lock, waiter, state,
                 cond, waits>>

-----------------------------------------------------------------------------
\* SynchronizedCondition::signal()

SignalLock_NoLock(w) ==
  /\ Running(w, "sigLock")
  /\ Goto(w, "sigWake")
  /\ UNCHANGED <<parent, components, refcount, preds, depsSatisfied, lock, waiter, state, cond,
                 ret, waits>>

SignalLock(w) ==
  /\ Running(w, "sigLock")
  /\ lock[cond[w]] = NoWD
  /\ lock' = [lock EXCEPT ![cond[w]] = w]
  /\ Goto(w, "sigWake")
  /\ UNCHANGED <<parent, components, refcount, preds, depsSatisfied, waiter, state, cond, ret, waits>>

\* The waiter, if any, is woken up: made ready and queued
SignalWake(w) ==
  /\ Running(w, "sigWake")
  /\ waiter' = waiter \ {cond[w]}
  /\ state' = IF cond[w] \in waiter
                THEN [state EXCEPT ![Owner(cond[w])] = "queued"] ELSE state
  /\ lock' = [lock EXCEPT ![cond[w]] = NoWD]
  /\ Goto(w, ret[w])
  /\ ret' = [ret EXCEPT ![w] = "body"]
  /\ UNCHANGED <<parent, components, refcount, preds, depsSatisfied, cond, waits>>

-----------------------------------------------------------------------------
\* WorkDescriptor::done() and the deletion

\* workFinished(): the successors are released; if one is the DOWait of the
\* parent and this was its last predecessor, it is satisfied here
Finish(w) ==
  /\ Running(w, "body") /\ w # Root
  /\ LET p == parent[w] IN
     /\ preds' = [preds EXCEPT ![p] = @ \ {w}]
     /\ IF preds[p] = {w}
          THEN /\ Goto(w, "satisfy")
               /\ cond' = [cond EXCEPT ![w] = Deps(p)]
               /\ ret' = [ret EXCEPT ![w] = "children"]
          ELSE Goto(w, "children") /\ UNCHANGED <<cond, ret>>
  /\ UNCHANGED <<parent, components, refcount, depsSatisfied, lock, waiter, state, waits>>

\* System::finish() waits for the children of the main work descriptor
Shutdown(w) ==
  /\ Running(w, "body") /\ w = Root
  /\ cond' = [cond EXCEPT ![w] = Comp(w)]
  /\ ret' = [ret EXCEPT ![w] = "over"]
  /\ Goto(w, "check")
  /\ UNCHANGED <<parent, components, refcount, preds, depsSatisfied, lock, waiter, state, waits>>

\* "Waiting for children (just to keep structures)"
Children_NoWait(w) ==
  /\ Running(w, "children")
  /\ Goto(w, "reference")
  /\ UNCHANGED <<parent, components, refcount, preds, depsSatisfied, lock, waiter, state, cond,
                 ret, waits>>

Children(w) ==
  /\ Running(w, "children")
  /\ IF components[w] # 0
       THEN /\ cond' = [cond EXCEPT ![w] = Comp(w)]
            /\ ret' = [ret EXCEPT ![w] = "reference"]
            /\ Goto(w, "check")
       ELSE Goto(w, "reference") /\ UNCHANGED <<cond, ret>>
  /\ UNCHANGED <<parent, components, refcount, preds, depsSatisfied, lock, waiter, state, waits>>

\* exitWork() of the parent
Reference(w) ==
  /\ Running(w, "reference")
  /\ refcount' = [refcount EXCEPT ![parent[w]] = @ + 1]
  /\ Goto(w, "decrease")
  /\ UNCHANGED <<parent, components, preds, depsSatisfied, lock, waiter, state, cond, ret, waits>>

Decrease_SignalsLate(w) ==
  /\ Running(w, "decrease")
  /\ components' = [components EXCEPT ![parent[w]] = @ - 1]
  /\ IF components[parent[w]] = 0
       THEN /\ cond' = [cond EXCEPT ![w] = Comp(parent[w])]
            /\ ret' = [ret EXCEPT ![w] = "unreference"]
            /\ Goto(w, "sigLock")
       ELSE Goto(w, "unreference") /\ UNCHANGED <<cond, ret>>
  /\ UNCHANGED <<parent, refcount, preds, depsSatisfied, lock, waiter, state, waits>>

Decrease(w) ==
  /\ Running(w, "decrease")
  /\ components' = [components EXCEPT ![parent[w]] = @ - 1]
  /\ IF components[parent[w]] = 1
       THEN /\ cond' = [cond EXCEPT ![w] = Comp(parent[w])]
            /\ ret' = [ret EXCEPT ![w] = "unreference"]
            /\ Goto(w, "sigLock")
       ELSE Goto(w, "unreference") /\ UNCHANGED <<cond, ret>>
  /\ UNCHANGED <<parent, refcount, preds, depsSatisfied, lock, waiter, state, waits>>

Unreference(w) ==
  /\ Running(w, "unreference")
  /\ refcount' = [refcount EXCEPT ![parent[w]] = @ - 1]
  /\ parent' = [parent EXCEPT ![w] = NoWD]
  /\ Goto(w, "over")
  /\ UNCHANGED <<components, preds, depsSatisfied, lock, waiter, state, cond, ret, waits>>

\* The thread destroys the work descriptor once it has left its stack
Delete(w) ==
  /\ Running(w, "over") /\ w # Root
  /\ state' = [state EXCEPT ![w] = "deleted"]
  /\ UNCHANGED <<parent, components, refcount, preds, depsSatisfied, lock, waiter, pc, cond,
                 ret, waits>>

-----------------------------------------------------------------------------

\* A thread takes a ready work descriptor
Dispatch(w) ==
  /\ state[w] = "queued"
  /\ Cardinality({v \in WD : state[v] = "running"}) < Threads
  /\ state' = [state EXCEPT ![w] = "running"]
  /\ UNCHANGED <<parent, components, refcount, preds, depsSatisfied, lock, waiter, pc, cond,
                 ret, waits>>

\* What a thread does with the work descriptor it runs, once the body has called
\* into the runtime
RuntimeStep(w) ==
  \/ Release(w) \/ Satisfy(w)
  \/ CheckTrue(w) \/ CheckFalse(w) \/ Lock(w) \/ Unlock(w) \/ Recheck(w) \/ Block(w) \/ Drain(w)
  \/ SignalLock(w) \/ SignalWake(w)
  \/ Children(w) \/ Reference(w) \/ Decrease(w) \/ Unreference(w) \/ Delete(w)

GroupNext ==
  \E w \in WD :
    \/ \E c \in WD : Create(w, c)
    \/ TaskWait(w) \/ \E cs \in SUBSET WD : WaitOn(w, cs)
    \/ Finish(w) \/ Shutdown(w) \/ RuntimeStep(w) \/ Dispatch(w)

GroupSpec == GroupInit /\ [][GroupNext]_vars

\* Threads keep running, task bodies end, and the scheduler gives every queued
\* work descriptor to a thread that is free again and again
GroupFairness ==
  \A w \in WD : WF_vars(RuntimeStep(w)) /\ WF_vars(Finish(w) \/ Shutdown(w)) /\ SF_vars(Dispatch(w))

GroupFairSpec == GroupSpec /\ GroupFairness

-----------------------------------------------------------------------------

GroupTypeOK ==
  /\ parent \in [WD -> WD \cup {NoWD}]
  /\ components \in [WD -> Nat] /\ refcount \in [WD -> Nat]
  /\ preds \in [WD -> SUBSET WD] /\ depsSatisfied \in [WD -> BOOLEAN]
  /\ lock \in [Cond -> WD \cup {NoWD}] /\ waiter \subseteq Cond
  /\ state \in [WD -> State] /\ pc \in [WD -> PC] /\ ret \in [WD -> PC]
  /\ cond \in [WD -> Cond] /\ waits \in [WD -> Nat]

\* c is inside parent->exitWork(), past the reference()
Signaling(c) ==
  \/ pc[c] \in {"decrease", "unreference"}
  \/ pc[c] \in {"sigLock", "sigWake"} /\ ret[c] = "unreference"

-----------------------------------------------------------------------------
\* The inductive invariant

\* v is inside signal() on k
SignalsOn(v, k) == cond[v] = k /\ pc[v] \in {"sigLock", "sigWake"}

\* c has left the count of its parent's components
Decreased(c) == pc[c] = "unreference" \/ ret[c] = "unreference"

\* Where each step was called from and which condition it is about
StepInv(v) ==
  /\ pc[v] \in {"body", "release", "children", "reference", "decrease", "unreference", "over"}
       => ret[v] = "body"
  /\ pc[v] = "release" => cond[v] = Deps(v)
  /\ pc[v] \in {"check", "loop", "locked", "switch", "drain"} =>
       \/ cond[v] = Comp(v) /\ ret[v] \in {"body", "reference", "over"}
       \/ cond[v] = Deps(v) /\ ret[v] = "body" /\ pc[v] # "drain"
  /\ pc[v] \in {"satisfy", "sigLock", "sigWake"} =>
       \/ cond[v] = Deps(v) /\ ret[v] = "check"
       \/ parent[v] \in WD /\ cond[v] = Deps(parent[v]) /\ ret[v] = "children"
       \/ parent[v] \in WD /\ cond[v] = Comp(parent[v]) /\ ret[v] = "unreference"
          /\ pc[v] # "satisfy"

\* The life of a work descriptor
LifeInv(v) ==
  /\ state[v] = "none" => v # Root /\ pc[v] = "body" /\ parent[v] = NoWD
  /\ state[v] = "deleted" => pc[v] = "over"
  /\ parent[v] = NoWD => v = Root \/ state[v] = "none" \/ pc[v] = "over"
  /\ v = Root => /\ parent[v] = NoWD /\ ret[v] # "reference"
                 /\ pc[v] \notin {"children", "reference", "decrease", "unreference"}
  /\ pc[v] \in {"drain", "reference", "decrease", "unreference", "over"}
       \/ ret[v] = "unreference" => components[v] = 0

\* The children behind _components and behind _refcount
Counted(w) == {c \in WD : parent[c] = w /\ ~Decreased(c)}
Signalers(w) == {c \in WD : parent[c] = w /\ Signaling(c)}

CountInv(w) ==
  /\ components[w] = Cardinality(Counted(w))
  /\ refcount[w] = Cardinality(Signalers(w))

\* The lock of a condition and its waiter
LockInv(v) == pc[v] \in {"locked", "switch", "sigWake"} => lock[cond[v]] = v
WaiterInv(k) ==
  state[Owner(k)] = "blocked" /\ pc[Owner(k)] = "check" /\ cond[Owner(k)] = k

\* The same for a work descriptor about to become a waiter
NoLostSwitch ==
  \A v \in WD : pc[v] = "switch" /\ Holds(cond[v]) => \E u \in WD : SignalsOn(u, cond[v])

\* A waiter whose condition has come true has a signal() on its way: the check
\* under the lock leaves no window in which the wake-up is lost.
NoLostWakeUp ==
  \A k \in waiter : Holds(k) =>
    \E v \in WD : SignalsOn(v, k)

\* "ensures that there condition will not be signaled after the wait": when
\* waitConditionAndSignalers() returns, no child is inside exitWork(), so the
\* work descriptor and its condition may be destroyed.
TaskWaitDrains ==
  [][\A w \in WD : pc[w] = "drain" /\ pc'[w] # "drain" =>
       \A c \in WD : parent[c] = w => ~Signaling(c)]_vars

\* The DOWait of a work descriptor is signalled while the work descriptor is
\* alive, although wait_on does not wait for its signalers: the signaler is a
\* child that has not called exitWork() yet.
DOWaitOutlivesSignal ==
  \A v \in WD :
    pc[v] \in {"satisfy", "sigLock", "sigWake"} /\ cond[v] = Deps(Owner(cond[v]))
      => state[Owner(cond[v])] # "deleted"

\* done() keeps the structures of a work descriptor until its children are over:
\* no child is inside exitWork() of a deleted parent.
ParentOutlivesChildren ==
  \A c \in WD : Signaling(c) => state[parent[c]] # "deleted"

\* A blocked work descriptor is resumed once its children have ended.
WaitersResume == \A w \in WD : state[w] = "blocked" ~> state[w] = "running"

\* Every created work descriptor ends, waits or not, with any number of threads.
AllEnd == \A w \in WD \ {Root} : state[w] = "queued" ~> state[w] = "deleted"

GroupInv ==
  /\ GroupTypeOK /\ NoLostWakeUp /\ NoLostSwitch
  /\ \A w \in WD : StepInv(w) /\ LifeInv(w) /\ CountInv(w) /\ LockInv(w)
  /\ \A k \in waiter : WaiterInv(k)
=============================================================================
