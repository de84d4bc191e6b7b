# A verification of the Nanos++ runtime

TLA+ specifications of the parts of Nanos++ (`src/`) that decide *when* something
runs: the task dependences, the waits, the scheduler with its ready queues and
policies, the asynchronous threads, the thread manager, the barriers, the
worksharing loops and the slicers, and the messages by which tasks and their data
reach the nodes of a cluster. TLC checks them on small instances, and TLAPS
proves the protocols at the centre (dependable objects, the order of the tasks in
the plain dependency domain, waits of work descriptors, owners of commutative
accesses, membership and CPU mask of the thread manager, single guards, barriers,
creation of shared loops) and the division of loops by the worksharing plugins and
the slicers, for any number of tasks and threads and for any loop.

## The system

A program creates **work descriptors** (tasks). A task submitted with data
accesses goes through a **dependency domain**, the one of its parent, which makes
it a **dependable object**, links it behind the earlier tasks it conflicts with,
and lets it go when they have finished. Satisfied tasks reach the **scheduler**:
a policy keeps them in ready queues, and the threads of a **team** take them. A
task with **commutative** accesses is taken only by a thread that gets the
ownership of all of them. An **asynchronous thread** drives a device: it takes
several tasks up, prefetches their data and completes them by polling events. A
task waits for its children, or for some data, on a **synchronized condition**:
the thread leaves it blocked and runs something else until it is signalled. The
**thread manager** puts threads without work to sleep and wakes them up, within the
masks of CPUs the program sets. Threads of a team also meet in **barriers**, share
the iterations of **worksharing** loops and pass **single** guards; a **slicer**
turns one work descriptor into many. **Directories and caches** keep the copies of
the data coherent over the memories of devices and cluster nodes, and the
**network** layer moves them between nodes.

`PROJECT.json` lists all the parts, with the ones that are not modelled.

## The modules

| Part | Modules | Code |
|---|---|---|
| Dependable objects | `DependableObject` (theorems in `DependencyProofs`) | `core/dependableobject.*`, `dependableobjectwd.cpp`, `commutationdepobj.hpp` |
| Plain dependency domain | `PlainDeps`, abstract `TaskOrder`, `PlainOrderProofs`, `PlainPromiseProofs`, `DependencyProofs` | `plugins/deps/plain_deps.cpp`, `basedependenciesdomain.hpp` |
| Groups and waits | `WorkDescriptors`, `TaskGroup`, `TaskGroupProofs` | `core/workdescriptor.*`, `schedule.cpp`, `synchronizedcondition.hpp` |
| Owners of commutative accesses | `CommutativeOwners` (proofs in `TaskGroupProofs`) | `core/workdescriptor.*` |
| Scheduler, ready queues, policies | `Scheduler` | `core/schedule.cpp`, `wddeque.hpp`, `plugins/sched/*` |
| Asynchronous threads | `AsyncThread` (used by `Scheduler`) | `core/asyncthread.cpp`, `genericevent_decl.hpp` |
| Thread manager, malleable team | `ThreadManager`, `ThreadManagerProofs` | `core/threadmanager.cpp`, `basethread.*`, `smpthread.cpp`, `smpplugin.cpp` |
| Barriers | `CentralizedBarrier`, `OldCentralizedBarrier`, `TreeBarrier`, `DisseminationBarrier`, `BarrierCall`, abstract `Barrier` | `plugins/barr/*` |
| Worksharing | `LoopItems`, `WorkSharing` | `plugins/worksharing/*`, `core/basethread.hpp` |
| Slicers | `Slicers`, `ReplicateSlicer` (with `LoopItems`) | `plugins/slicers/*` |
| Cluster and network | `Cluster` | `core/network.cpp`, `router.hpp`, `memoryops.cpp`, `arch/cluster/gasnetapi.cpp`, `clusterthread.cpp` |
| Single guards | `TeamSingle` | `core/threadteam.cpp`, `basethread.cpp` |

`TeamConstructs` puts the barriers, single guards and shared loop descriptors of a
team into one specification (proofs in `TeamConstructsProofs`), and `LoopPlugins`
the plugins that divide a loop (proofs in `LoopItemsProofs` and
`LoopProofs`).

An `MC*` module gives the constants of a module their values; a `.cfg` file is
one run. A definition called `X_Something` beside an `X` is `X` with a plausible
bug, kept to show that the properties notice it; no specification uses it.

### DependableObject

State: for each object its counter, whether its fake predecessor is still there,
its successors and those already visited by `finished()`, the flag that allows
its submission, where it is in its life, and how many times a thread or the
scheduler has got it. One action per critical section on the object lock or
access to the atomic counter: `Create` and `DropFake` bracket the registration,
`AddEdge` is `addSuccessor()` with `increasePredecessors()` (`CountedEdge` is the
same with an increase made whether or not the edge is new), `ImmediateSuccessor` is
`releaseImmediateSuccessor()`, called by the thread of a task after its body or, with
`keepDeps`, by an asynchronous thread for any task it has got and not finished
(`Held`), and `Finish`, `Purged`, `Visit`, `DecreaseSingle`, `DecreaseBatch`, `Return`
and `SubmitBatch` are the steps of `finished()`. Which edges are added is left open:
any edge to an object that is being registered, from one that is not yet purged.

### PlainDeps

Extends `DependableObject` with the `TrackableObject` of each address (last
writer, readers, open commutation object) and with one registering thread, whose
steps are those of `submitDependableObjectInternal()`: dispatch on the access,
`finalizeReduction()`, `dependOnLastWriter()` (a read outside the lock and a
check under it), `dependOnReaders()` (with the readers lock held), the commutation
objects before and after a run of commutative or concurrent tasks, and the
release of the fake predecessor. The tasks finish concurrently. The flush of the
readers and the store of the last writer in `setAsWriter()` are one step: no
other thread reads both.

A list may name an address several times, but at most once as commutative or
concurrent (`RelaxedOnce`). `LinkComm` increases the counter of the commutation object
without asking whether the edge is new: with two such accesses to one address the
counter stays one too high, and every later task on the address waits for ever. A
task that names an address both as commutative or concurrent and otherwise waits for
itself through the commutation object; the run `plain` and the proofs include it, and
say of it that nothing runs too early.

`RefinesTaskOrder` is the promise to the user: tasks with conflicting accesses
run in submission order (`TaskOrder`). `RefinesDependableObject` says the domain
adds only edges the protocol allows, so that the theorems about
`DependableObject` apply to it.

### TaskGroup

A work descriptor is a process that creates children, calls taskwait and wait_on,
and ends with `done()`. `Check*`, `Lock`, `Recheck`, `Unlock` and `Block` are
`Scheduler::waitOnCondition()` and `switchHelper()`; `SignalLock` and `SignalWake`
are `signal()` and `wakeUp()`; `Reference`, `Decrease` and `Unreference` are
`exitWork()`; `Drain` is the loop of `waitConditionAndSignalers()`. The scheduler
is a choice among queued work descriptors, limited by the number of threads.

### CommutativeOwners and Scheduler

`CommutativeOwners` has one owner pointer per commutative address. `TakeTarget` and
`Refused` are one compare-and-swap each of `tryAcquireCommutativeAccesses()`, and
`GiveBack` one of the stores of an attempt that was refused, so that the attempts of
different tasks interleave; `ReleaseTarget` is one store of
`releaseCommutativeAccesses()`. The stores do not look at who owns the pointer. A list
names no target twice (`NamedOnce`): the second store of a release could clear the
pointer after another task has taken it. `AcquireAll` and `StartAll` are whole
attempts, for a task that no queue holds and that only one thread can be trying.

`Scheduler` extends it with the ready queues and the threads. A program is a tree of
tasks with dependences, priorities, tied threads and commutative lists; it is chosen
in the initial state together with the policy. `Create`, `Register`, `Reorder` and
`Submit` are the creation of a task up to `Scheduler::submit()`; `Wait` is the switch
away in `waitOnCondition()`; `BeforeExit`, `Done`, `ReleaseSuccessor` and `Exit` are
the end of a task, with `atBeforeExit()`, `done()`, `finished()` and the wake-up of
the parent. `Done` releases one commutative access per step, and `succs` has first the
successor that `atBeforeExit()` took and then those that `finished()` has to submit: a
task with children waits for them only after it has submitted its successors. A search
for work (`StartSearch`, `Visit`, `Try`) visits one queue per step, because queues
change between two visits; while it tries to own the accesses of a task the queue
stays locked. Which queue a task goes to and which queues a search visits, in which
order and at which end, is the policy's: bf, dbf, wf, node, mpq, botlev and socket are
all there, with the sorted insertion of `WDPriorityQueue`, its cached highest
priority, and the 8-bit stand-in for the unsigned queue index that socket lets wrap
around. Here the lock and check protocol of conditions is one step; it is `TaskGroup`
that has it in full.

### AsyncThread

Functions from the pipeline of a thread before a member function to the one after
it: `preRunWD` (allocate and start the copies, or try again), `checkWDInputs`,
`runWD` (launch, or ask again while predecessors are left), `checkWDOutputs`,
`postRunWD`. Each adds the event whose action is the next of them. In `Scheduler`, an
asynchronous thread fills its pipeline from the searches and from `Prefetch`
(`atPrefetch()`, which may take up the successor of a task that is still running),
`PollEvent` is one iteration of `checkEvents()`, and `Device` completes a copy or a
kernel at any time and in any order.

### ThreadManager

The status of a thread is the set of its flags: told to sleep, waiting on its
condition variable, told to leave the team, on its way into it, a member, expected.
`sleep`, `tryWakeUp`, `setLeaveTeam`, `leaveAndWait` and `resume` are the member
functions under the thread's lock. The idle loop checks the flags (`CheckSleep`),
looks for work, blocks itself through the manager (`BlockThread`, `Tag`,
`updateCpuStatus`) and waits (`WaitForWork`, `Resume`); a submission or a descriptor
handed to a thread wakes threads up (`UnblockCheck`, `UnblockThread`, `Wake`,
`acquireOne`, `acquireDefaultCPUs`). `ChangeMask` has the calls that set or add to
the masks, and `setNumThreads` with `IsStable`, `SwitchToThread`, `Switched` and
`UpdateActiveWorkers` the change of the number of threads, with the move of the
caller to another thread. The loops over CPUs and threads take one step per
element: they hold the lock of the manager or that of the programming model
interface, and the holder of the other one may write the same masks in between.

### The barriers

Each algorithm is modelled with its counters, flags and conditions, a participant
stepping at each access to shared state, and is checked to implement `Barrier`:
nobody leaves barrier *n* before all have entered it. The lock protocol of the
conditions is the one of `TaskGroup` and is one step here.

### Loops and slicers

`LoopItems` has the arithmetic of the chunks, with the division of C, and `InRange`,
the `ensure` that dynamic and guided loops make of each item. `WorkSharing` has the
team's list of descriptors (lookup, compare-and-swap, initialisation, publication) and
the threads that take items, which are told apart by the thread and the number of the
call that handed them out, so that an item given twice is seen; `Slicers` and
`ReplicateSlicer` have the slices made of one work descriptor.

### TeamSingle

The shared counter of the team and each thread's own. A synchronised
initialisation takes two counts; its increment is a load and a store, as in
builds without the new atomic operations (the other builds have fewer
behaviours).

### Cluster

The master (node 0) runs tasks itself and sends others to remote nodes. A region
holds the number of tasks that have written it, so that a task that reads can be
asked whether it reads what a sequential run would give it. `Take`,
`BeginTransfer`, `EndTransfer`, `SendWork` and `ClearCompleted` are an iteration of
`workerClusterLoop()`: the task is prepared, its regions are sent from the master
(`put()`) or requested from the node that has them (`sendRequestPut()`), with a
wait for a buffer of the destination in between, the directory is updated and the
task follows. `HostTake`, `HostGet`, `RecvReply` and `HostRun` are a task on the
master. Which location is the source is `Router::getSource()`: for a remote
destination the first in the set, hence the master whenever it has the data (its
comment says that locations are classified as local or remote; the condition counts
remote nodes among the local ones).

Messages are a set, delivered in any order. A remote node has the counters and sets
of `Network`: tasks are submitted in the order of their numbers and when as much data
as was sent for them has arrived (`AddData`, `AddWDs`, `Chains`); requests, gets and
announcements of transfers are taken up in the order of theirs (`Process`); a request
for an address with an announced transfer is delayed until it has arrived (`Release`);
a transfer from the master waits for the metadata of its region (`Metadatum`,
`NotifyPut`; transfers between nodes carry the number 0 and do not wait). A handler
is one step up to the place where it lets go of one lock and takes another: `MatchPut`
is the second half of `notifyPut()`, `DelayRequest` that of
`processSendDataRequest()`, and at most as many handlers are in between as the node
has threads. `_dataSendRequests` is the set `sendQ`; notifications queued in
`_freeBufferReqs` and `_workDoneReqs` count as messages on the way; the actions delayed
by metadata are taken one at a time; a task runs in one step. The order of dependent
tasks (`Ready`) is the one `TaskOrder` promises. `merged` is a history variable.

## The runs

| Run | Instance | Distinct states | Shows |
|---|---|---|---|
| `dobj` | 2 tasks, 1 commutation object, 1 wait | 147 094 | counters exact, batch and immediate release sound, tasks handed out once |
| `plain` | 3 tasks on 1 address in 5 modes, 3 on 2 addresses, 2 tasks with 2 waits, 2 with repeated addresses | 505 023 | order of conflicting tasks, both refinements, wait_on and taskwait return when they may |
| `plain_live` | 2 tasks, 1 wait | 84 593 | tasks finish and calls return |
| `group` | 3 work descriptors, 2 threads, 2 waits of the root, 1 of the others | 157 686 | no lost wake-up, taskwait drains its signalers, waiters resume, all end |
| `sched` | 2 threads, 5 tasks, 7 policies, 53 programs | 180 434 | no task lost, duplicated or stranded; priorities; commutative exclusion; prefetched tasks wait for their predecessors; every program ends |
| `threads` | 3 threads on 2 CPUs, 2 or 3 calls, 5 setups | 187 307 | team and expected members agree, the active mask is true, no work is forgotten, who is told to leave leaves |
| `team` | 4 participants in 4 barriers, 3 threads in 8 guards and in 2 loops | 89 931 | the barriers refine `Barrier`, one winner, nothing used before it is initialised, everyone leaves |
| `loops` | 576 loops, 3 schedules, up to 3 threads; 8 sections | 277 140 | each iteration exactly once, one last item, slicing ends, one creator per loop |
| `cluster` | 2 remote nodes with 1 or 2 threads and 1 buffer, 2 programs of 4 and 5 tasks on 2 regions | 624 098 | tasks read what a sequential run would have them read; with one thread per node they all end |

Deadlock is checked in `sched`, where a program that has ended is the only place to
stop. The other runs say `CHECK_DEADLOCK FALSE` because what they model stops: the
program has no more tasks, barriers or loops, or (in `threads`) it has made all its
calls. What should not stop before is a liveness property of those runs.

### Disagreements with the code's own statements

Three runs end in a counterexample, each to a statement made by the code:

* `group_outlive`: `done()` waits for the children "just to keep structures", but
  only if the counter of children is not zero. The last child decrements it
  before it signals, so the parent can be deleted while the child is inside
  `exitWork()`.
* `comm_kept`: a commutative task that ends before its children releases its
  accesses and then blocks until they have ended. The wake-up checks its
  constraints, which acquires the accesses again, and nothing releases them.
* `dissem`: the dissemination barrier uses one semaphore for all its steps; with
  four participants, one returns before another has entered.

### Premises: where a property stops

Some properties hold only under a premise that is part of their definition. Each
premise is there because TLC refutes the property without it (for `WorkIsTaken`, with
a submission and a change of mask, or with three calls), and each is a limit of the
code worth knowing:

* `EveryTaskRuns` assumes that commutative accesses are named in one order
  (`SameOrder`). The attempts take the pointers one by one and do not back off, and
  two tasks in different queues that name two accesses in opposite orders can refuse
  each other for ever.
* `EveryTaskRuns` assumes tasks of one size (`SameSize`) on a device. A prefetched
  task keeps its memory while it waits for its predecessor, which may never fit
  beside it.
* `RunsInOrder` asks that the body of a predecessor is over, not that the task has
  ended: `atBeforeExit()` releases an immediate successor before the ending task
  calls `done()`, and with priorities bf puts it in the team's queue, where another
  thread may start it first (the program `Passed`).
* `RunsInOrder` excludes bf with priorities when a task has both a device and a cpu
  implementation (`MayBeStolen`). `atPrefetch()` can put a successor, still
  dependent, back into the ready queue; only asynchronous threads check its
  predecessors again.
* `HighestFirst` excludes smart priorities, which write the priority of a queued
  task before they move it in the queue.
* `MaskIsTrue` and the second half of `WorkIsTaken` assume that the program leaves
  the masks and the number of threads alone (`Untouched`). `setNumThreads()` does
  not update the active mask, and the masks are written under two different locks.
  With a stale mask every thread can go to sleep while tasks are queued.
* `LeaversLeave` makes an exception for the last active thread, which the idle loop
  does not let wait.
* `EveryTaskEnds` assumes one thread per remote node. With two,
  `processSendDataRequest()` finds an address awaited and lets go of the lock; the
  transfer arrives and finds no delayed request; the request is then delayed for ever.
* `EveryTaskEnds` makes an exception, even with one thread, once two transfers to an
  address have arrived before the first was announced (`merged`).
  `_receivedUnmatchedPutRequests` is a set and counts them as one, so the second
  announcement is never met and later requests for the address wait for ever.
* `RunsOnCurrentData` makes the same exception for nodes with several threads. There
  a stalled `notifyPut()` lets the announcement of the next transfer fall together
  with its own in `_waitingPutRequests`, takes both out, and a delayed request is
  answered with the old data.
* `IterationOnce` asks for `ensure( ..., "Chunk bounds out of range" )` only where the
  loop has iterations. The number of iterations is computed with a division that
  rounds towards zero, so a loop whose bounds are less than a step apart the wrong way
  round (from 2 to 1 by 2) counts as one of one iteration: dynamic and guided loops
  hand out an item from 2 to 1, which covers nothing and fails the `ensure` in a debug
  build.
* In `threads`, `setNumThreads()` is called by any thread only where threads do not
  block themselves, and by the main thread elsewhere. A caller that is not expected
  holds the lock of the team while it wakes an expected member up, which needs that
  lock if the member sleeps: `isStable()` then waits for itself.

### Why the bounds are enough to be interesting

Three tasks make a writer, a reader and a later writer, or two groups of
commutative tasks with one in between; two make every pair of modes. Two
addresses let a task be reached through two edges, or be linked through one while
it is released through the other; lists that name an address twice meet their own
edges and readers. Three work descriptors make a parent, a child
that is itself a parent, and siblings, and two threads leave one of them without a
thread.

The programs of `sched` are chosen so that two threads meet in each mechanism: two
commutative tasks in opposite orders beside one of higher priority, a commutative task
that blocks while its sibling wants the access, a fork with a task tied to the other
thread, a task that ends before its children, a successor that owns its accesses
before it is queued, a priority raised while its task is in the queue or has just left
it, and a chain with a task on the critical path of botlev. With a device there is
memory for one task and room for two or three in the pipeline, so that allocations are
retried, a successor is prefetched while its predecessor runs, and one is queued again
behind a task of higher priority.

In `threads`, two of the three threads share a CPU, so that a CPU stays active while
one of its threads sleeps, and one is alone on the other. Two calls are one that puts
a thread on its way and one that meets it there; five setups separate blocking or
not, a tied or untied master, and which calls the program makes.

The first program of `cluster` writes a region, reads it, writes it again and reads it
twice: the shortest in which two transfers between the same nodes are followed by a
further request, which is what the announcements are for. In the second a task gathers
two regions with one buffer to receive them. Two tasks may be under way to a node, so
that the second reuses data sent for the first.

Four participants make a tree of three levels and two steps of dissemination; four
barriers make the phase of the tree wrap around. The loops have both signs of the
step, steps that do not divide the range, empty ranges, and chunks from zero to more
than the iterations.

### Fairness

`PlainFairness` and `GroupFairness` say that threads keep running (weak fairness
of the steps inside the runtime), that bodies of tasks end, and that the scheduler
gives a queued task to a thread: strong fairness in `TaskGroup`, because a thread
becomes free again and again. That this is what the scheduler does is shown in
`sched`, whose own fairness is strong per thread and weak per device. A thread is a
kernel thread that polls in the idle loop, and one that keeps asking for the lock of
a queue, which others hold for one pop only, gets it; a device completes what it was
given. `threads` needs only weak fairness per thread. Nothing forces the program to
submit more or to call the runtime. `cluster` assumes only that some step is taken
while one is possible: threads without work poll, and every program has finitely many
steps. Barriers, loops and guards assume that a thread
inside the call keeps running unless it is blocked.

## The proofs

TLAPS checks seven proof developments for arbitrary constants: any tasks, threads,
addresses, CPUs, participants, loops and programs, and any access lists the
assumptions below allow.

**DependableObject** (in `DependencyProofs`, from `DOAssumption` alone). The inductive
invariant `DOInv` is the type, the exact counters (`PredecessorsCounted`) and, per
object: visited successors are successors, and exist only once the object is purged
(`EdgesInv`); an object with predecessors left is not satisfied (`BlockedInv`); the
successor being visited still counts its visitor, and one found fit for the batch has
no other (`VisitInv`); a satisfied task is in at most one batch (`BatchInv`); and how
often a task was handed out is a function of where it is (`HandedByPhase`). The
counters alone are not inductive: a batch release keeps them only because the
successor has no other predecessor, which is true because an edge is only added to an
object that is still being registered, whose counter is therefore above one. From it
follow `CountersExact`, `BatchReleaseCorrect` (the `fatal_cond` never fires),
`HandedOutOnce` and `SuccessorStaysSole`.

**PlainDeps.** Four layers, each inductive relative to the ones below. Their steps
are lemmas about one step from a state in which the invariants of all the layers hold;
`DependencyProofs` puts them together, and with `DOInv`, and has the theorems.

`DomainInv` (`PlainOrderProofs`) says what the local variables of the registering
thread hold at each of its steps (`ThreadInv`), that a `TrackableObject` refers only
to objects that have yet to purge themselves from it (`TargetInv`), and that an
object is purged between its body and its loop (`PurgeInv`). Hence every step of the
domain is one the dependable objects allow (`DomainRefinesObjects`), `DOInv` holds
for them, and an object in its loop over the successors is out of reach
(`PurgedStaysUnreachable`). `JoinInv` (same module) is what makes this true of
`LinkComm`: a task that has yet to register a commutative or concurrent access to an
address is not linked to the open commutation object of that address, because its list
has no second such access, so that the increase is always made for a new edge.

`OrderInv` (same module, and `PlainPromiseProofs` for the steps that end an access or
a registration) is about paths in a graph that changes. An object that waits for
conflicting tasks is seldom linked to all of them: `setAsWriter()` forgets the readers
and the last writer before it, and edges disappear when a task ends. `Ahead[o]` has
the objects that are over or reach `o` through edges not yet released. Two facts make
it usable: it is transitive, and no step takes an object that was ahead out of it
(`AheadGrows`), since an edge goes only when its source is over. `TrackedInv` says
that a task that accessed an address is over, ahead of the last writer, among the
readers, or ahead of the open commutation object; `ChainInv` that the last writer is
ahead of the readers and of that object; `LinkedInv` what has been linked at each step
of the registration; `ConflictInv`, their consequence, that an object is behind every
earlier task that conflicts with an access it has registered. `Reaches` is defined by
closed sets, not by a recursive path, so that no induction is needed. A satisfied
object has no predecessors, so what is ahead of it is over: this is `TasksInOrder`,
the refinement of `TaskOrder`.

`ClearInv` (`PlainPromiseProofs`) says who carries an object that is not over
towards its end: a commutation object that still has its fake predecessor is in a
`TrackableObject` or in the hands of the registering thread, one that finishes does
so inside a call of a task or of that thread, and a wait is registered only while its
call lasts. With it `WaitOnReturns` and `ClearingIsSafe` follow. For
the latter, only tasks come before a commutation object (`ClassInv`): one that still
waited when the tasks are over would have a predecessor, and there is none left.

**TaskGroup.** `GroupInv` relates each step to the one it was called from
(`StepInv`), the counters to the sets of children they count (`CountInv`), the
locks to their holders (`LockInv`), and the waiters to the blocked work
descriptors. `NoLostWakeUp` needs its counterpart for a work descriptor that is
about to block (`NoLostSwitch`): the check under the lock makes it true, and the
lock keeps the signaler from finding no waiter. The theorems are `WakeUpsArrive`,
`DOWaitIsAlive` and `TaskWaitSafe`.

**CommutativeOwners.** `CommutativeExclusion` follows from `OwnersInv`: a task under
way owns all its targets, one that releases them owns those it has not cleared yet,
and an attempt, also a refused one, owns those it has taken and not given back. The
last two parts make it inductive: `GiveBack` and `ReleaseTarget` clear pointers
without looking at them, and only because these are the task's own, and no list names
one twice, do they not take a target away from another task. The theorems are about
`OwnersSpec`, whose actions are the steps by which `Scheduler` changes owners; that
`Scheduler` takes no others is checked by the run `sched`, which has both properties
as invariants.

**ThreadManager.** `TeamInv` is inductive as it stands. It says of each thread, by
its flags alone, that a member that is not expected was told to leave, that one
expected outside of the team enters it when it resumes, that one not waiting is a
member, and that one told to leave also sleeps and is, until it waits, not
expected; and that exactly the threads asleep in their condition wait. It
does not mention the locks: each function keeps it under the lock of the thread
alone, which is why the two locks of the masks do not endanger it. `TeamMembership`
is the theorem. `MaskStaysTrue` needs more: `MaskInv` says that the lock of the manager
has one holder (`LockInv`), and how far the mask and the flags of the threads have
drifted apart at each step of that holder (`HolderInv`), for instance that the loop of
`applyCpuMask()` has woken up the threads of the CPUs it has passed. It is stated, as
the property is, for programs that leave the masks alone (`Untouched`).

**TeamSingle.** `TSInv` says where the construct starts that each thread is in,
how far the team's count is at least, and that while it is in the middle of an
initialisation exactly one thread holds it. Hence the load and the store of the
increment see the same value (`CountNeverLost`).

**Barriers.** `TCInv` has one conjunct per barrier. For the centralized barriers it
says that there is a round *r* such that everyone has gone through *r* barriers but
for those that have been released and have yet to return (`CBRound`, `OCRound`), and
that the semaphore counts the participants that are in it; the last one finds all
others waiting because the count of a subset of the team equals the team's only if it
is the team. In the tree barrier there is no common round while it is under way:
`LinkInv` relates each child to its parent, how many times each has told the other
(modulo 3, which is all that the semaphores hold) and how far one may be ahead. That
nobody leaves before all have entered goes from a leaf up to the root and down again,
by a well-founded argument on the numbers of the participants. The theorems are
`BarriersHold` (the refinement of `Barrier`) and `ReductionsHold`.

**Loops.** The plugins compute bounds, and the properties are about sets of
iterations. `LoopItemsProofs` numbers the iterations (`Iter`, `Ix`, `Last`), for steps of
either sign that need not divide the range, and shows of each computation which
numbers it stands for: that `NIters`, the division of C that the code uses, is their
count for a loop that is not empty, and at most one for an empty one (`NItersIs`);
that the chunks of a dynamic and of a guided loop follow each other up to the end
(`ChunkFacts`); and that in a static loop, in blocks or in chunks, each iteration has
exactly one owner (`OwnedApart`, `OwnedAll`) and one call of `nextItem()` takes its
thread from one of its positions to the next (`StaticStep`). The items of a loop with
iterations pass the `ensure` (`ChunkInRange`, `StaticInRange`). What is left of a guided
loop is a recursive function: that it exists follows from the least counterexample
(`GuidedLeftIs`), not from an induction theorem.

The invariants, in `LoopProofs`, then say how far everyone is. `WSInv` is about the
descriptors: a linked loop has one creator, who fills it in before saying so.
`HandInv` is about the items: those of a dynamic or guided loop are its chunks below
`currentChunk`, and a thread that has gone past it found none left; those of a thread
in a static loop are the iterations it owns below its own lower bound. `RSInv` says
the same of the tasks of a replicated loop, of which at least one runs, or is still to
be made, until there are no chunks. `DynamicInv` says that what is left of a sliced
loop starts where the slices that have run end, and that none of them but the last is
empty; `StaticInv` where each slice of the static slicer is, and that a piece tells
whether it ends the loop; `PartsInv` that the sections that have run are the last
ones. `LPInv` puts them together. The theorems are `EachIterationOnce`,
`WholeLoopCovered`, `LastToldOnce`, `SlicesAreBounded` and `CreatorsHold`. Numbers are
unbounded in the model and in the proofs, so a loop so near the limits of its 64-bit
bounds that the code's sums overflow is outside of them.

The assumptions are the named `ASSUME`s of the modules: the classes of objects are
disjoint and finite, tasks are numbered in the order of their submission, the domain
is used by one thread with one wait at a time, a wait names no commutative or
concurrent access (an `ensure` of the code), and a task names no address twice as
commutative or concurrent; the root is a work descriptor, the null
pointer is not one; the threads are numbered, and every CPU of the process has one, as
`startWorkerThreads()` leaves it (a CPU that gets its first thread later is not
modelled); the sequence of constructs is well formed; a team numbers its threads from
zero and has at least one; the loops have steps other than zero and chunks that are not
negative, and a repeated or compound descriptor has at least one part. TLC evaluates
them in the runs.

Only model-checked are:

* the liveness properties, since the prover does not handle fairness;
* the queues and policies of the scheduler (`TasksAccounted`, `RunsInOrder`,
  `HighestFirst`): what a search finds is computed by folds and filters over sequences
  and sets, and what they return for every input takes an induction over data;
* `RunsOnCurrentData` of the cluster, whose invariant would have to follow a version
  through every message and queue of the network;
* the three disagreements.

## What is not modelled

* **Memory**: of the directory, the caches and the controllers `Cluster` has the
  locations and versions of whole regions. Overlapping and partial regions, which are
  most of the code, the eviction and invalidation of cached copies and the write
  policies are left out. `AsyncThread` sees of it only whether the data of a task fit
  and whether its copies are done.
* **Network and cluster**: the packets of a transfer and of a task, strided transfers
  (the same protocol with one more copy), accelerators of remote nodes, remote
  allocation, start-up and exit, and several communication threads on the master. By
  reading the code, not by a run: with several of these a request with a later number
  may hold the buffer that an earlier one waits for (`gasnetapi.cpp:1443`). The default
  is one (`clusterconfig.hpp:75`).
* **Region dependency domains**: the algorithm of `PlainDeps` over a tree of
  overlapping regions instead of addresses.
* **Devices**: FPGA, GPU, OpenCL and MPI code is calls into libraries that are not in
  the repository, around the asynchronous threads. The streams by which a GPU thread
  orders dependent kernels, and polls made from inside an action while an
  invalidation waits, are left out of `AsyncThread`.
* **Affinity and versioning policies**: they choose by the location of data, or by
  measured times. **Throttle policies** compare a counter with a limit.
* **Thread manager**: calls into DLB, the creation of workers and the shutdown.
  **Teams**: nested teams, and barriers resized while threads are inside.
* Instrumentation, configuration, the C API, the allocator and context-switch
  assembly change nothing the properties are about. Locks and atomic operations of
  the support library are single steps.
