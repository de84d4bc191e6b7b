----------------------------- MODULE MCScheduler -----------------------------
(* Instances of Scheduler: each policy on small programs, with two threads. *)
EXTENDS Scheduler, TLC

MCThread == 0..1
MCWD == 0..4
MCNone == -1
MCTarget == {"x", "y"}

\* Tasks 1.. are children of the main task; fields are overridden below.
Base(n) ==
  [policy |-> "bf", prios |-> FALSE, smart |-> FALSE, stack |-> FALSE,
   parent |-> [w \in MCWD |-> IF w \in 1..n THEN 0 ELSE NoWD],
   after |-> [w \in MCWD |-> {}], prio |-> [w \in MCWD |-> 0],
   tied |-> [w \in MCWD |-> IF w = 0 THEN 0 ELSE NoThread],
   comm |-> [w \in MCWD |-> <<>>], waits |-> {0},
   node |-> [w \in MCWD |-> w % 2], socketOf |-> [t \in MCThread |-> t],
   cpusPerSocket |-> 1, stealParents |-> TRUE, big |-> {0}, steal |-> FALSE,
   numQueues |-> 3, maxPriority |-> 2,
   async |-> {}, runsOn |-> [w \in MCWD |-> {"smp"}], maxPrefetch |-> 2,
   size |-> [w \in MCWD |-> 1], room |-> 2]

\* Two tasks that want the same two accesses in opposite orders, one of higher
\* priority without any.
Commuting == [Base(3) EXCEPT !.comm = (1 :> <<"x", "y">>) @@ (2 :> <<"y", "x">>) @@ @,
                             !.prio = (3 :> 1) @@ @, !.prios = TRUE]
\* A commutative task waits for a child while its sibling wants the access.
Nested == [Base(2) EXCEPT !.parent = (3 :> 1) @@ @, !.waits = {0, 1},
                          !.comm = (1 :> <<"x">>) @@ (2 :> <<"x">>) @@ @]
\* A fork: 2 and 3 after 1, 3 tied to the other thread, of higher priority.
Forked == [Base(3) EXCEPT !.after = (2 :> {1}) @@ (3 :> {1}) @@ @,
                          !.prio = (3 :> 2) @@ @, !.tied = (3 :> 1) @@ @, !.prios = TRUE]
\* A chain, whose second task is on the critical path when the first one ends.
Chained == [Base(3) EXCEPT !.after = (2 :> {1}) @@ (3 :> {2}) @@ @]
\* A task ends before its children, without a taskwait.
Detached == [Base(2) EXCEPT !.parent = (3 :> 1) @@ (4 :> 1) @@ @, !.after = (2 :> {1}) @@ @]
\* The successor of the first task acquires before it is queued, while a sibling
\* wants the same access.
Inherited == [Base(4) EXCEPT !.after = (2 :> {1}) @@ (4 :> {3}) @@ @,
                             !.comm = (2 :> <<"x", "y">>) @@ (3 :> <<"x", "y">>) @@ (4 :> <<"x">>) @@ @]
\* The last task raises the priority of the first one, in the queue or not.
Raising == [Base(3) EXCEPT !.after = (3 :> {1}) @@ @, !.smart = TRUE,
                           !.prio = (1 :> 1) @@ (2 :> 2) @@ (3 :> 3) @@ @]

\* A task of higher priority waits when the first task ends, so that its
\* successor is queued for any thread.
Passed == [Base(3) EXCEPT !.after = (2 :> {1}) @@ @, !.prio = (3 :> 1) @@ @, !.prios = TRUE]

\* Thread 1 drives a device with room for the data of one task; 2 succeeds 1 and
\* 3 is independent.
Offload == [Base(3) EXCEPT !.after = (2 :> {1}) @@ @, !.async = {1}, !.room = 1,
                           !.runsOn = [w \in 1..3 |-> {"device"}] @@ @]
\* Four device tasks, a longer pipeline, and a dependence on a task of the cpu.
Pipelined == [Offload EXCEPT !.parent = (4 :> 0) @@ @, !.after = (4 :> {2, 3}) @@ @,
                             !.runsOn = (3 :> {"smp"}) @@ (4 :> {"device"}) @@ @, !.maxPrefetch = 3]
\* The prefetched successor is queued again, behind a task of higher priority.
Queued == [Offload EXCEPT !.prios = TRUE, !.prio = (3 :> 1) @@ @]

\* The predecessor needs more memory than its successor.
Sized == [Offload EXCEPT !.after = (2 :> {}) @@ (3 :> {2}) @@ @, !.maxPrefetch = 3,
                         !.size = (2 :> 2) @@ @, !.room = 2]

With(p, shapes) == {[s EXCEPT !.policy = p] : s \in shapes}

MCProgram ==
  UNION {With(p, {Commuting, Nested, Forked, Detached, Inherited}) :
           p \in {"bf", "dbf", "wf", "node", "mpq", "botlev", "socket"}}
  \union With("bf", {Raising, Passed, [Forked EXCEPT !.stack = TRUE, !.prios = FALSE]})
  \union With("mpq", {[Forked EXCEPT !.prios = FALSE]})
  \union With("botlev", {[Forked EXCEPT !.steal = TRUE], Chained, [Chained EXCEPT !.steal = TRUE]})
  \union With("socket", {[s EXCEPT !.stealParents = FALSE] : s \in {Commuting, Inherited}})
  \union UNION {With(p, {Offload}) : p \in {"bf", "node", "mpq", "botlev", "socket"}}
  \union With("bf", {Pipelined, Sized, Queued, [Queued EXCEPT !.runsOn = (2 :> {"smp", "device"}) @@ @]})

\* A commutative task ends before its child, without a taskwait.
MCKept == With("bf", {[Nested EXCEPT !.waits = {0}]})
=============================================================================
