------------------------------ MODULE Scheduler ------------------------------
(***************************************************************************)
(* The scheduler of ready tasks: Scheduler::submit, the idle loop, blocking *)
(* on a condition, waking up and exiting, over the ready queues of seven    *)
(* scheduling policies (bf, dbf, wf, node, mpq, botlev, socket).            *)
(*                                                                          *)
(* A program is a tree of tasks.  A task creates its children in the order  *)
(* of their numbers, may wait for them (taskwait), and ends.  Creating a    *)
(* task registers its dependences; it is submitted once its predecessors    *)
(* have ended.  Task 0 is the implicit task of thread 0.                    *)
(*                                                                          *)
(* One step is one critical section of a queue lock, one compare-and-swap   *)
(* on a commutative owner, or the code between two of them.  A thread that  *)
(* looks for work visits its queues one after the other, so the queues      *)
(* change between two visits.  The search keeps the queue locked while it   *)
(* tries to acquire the commutative accesses of a task it met.              *)
(***************************************************************************)
EXTENDS CommutativeOwners, AsyncThread, FiniteSets, SequencesExt

CONSTANTS
  Thread,    \* 0..n-1
  Program,   \* the programs and policies of interest
  NoThread   \* for a task that is tied to no thread

VARIABLES
  prog,       \* the program, the policy and the threads: fixed
  prio,       \* prio[w]: _priority
  queues,     \* contents of each ready queue, front first
  maxPrio,    \* _maxPriority, cached by each WDPriorityQueue
  readyTasks, \* SchedulerStats::_readyTasks
  pol,        \* what the policy remembers of tasks
  phase,      \* phase[w]: see Phase
  blocked,    \* tasks that are the waiter of their own children's condition
  cur,        \* cur[t]: the current WD, or NoWD for the thread's own
  pc,         \* pc[t]: see Step
  polls,      \* polls[t]: the queues still to visit in this search
  seen,       \* seen[t]: position of the task under trial in the search
  fresh,      \* fresh[t]: the task being created, or NoWD
  raised,     \* raised[t]: the task whose priority was just raised, or NoWD
  succs       \* succs[t]: the successor taken from the task that ends, then those left

queueVars == <<prio, queues, maxPrio, readyTasks, pol>>
progVars == <<prog, async>>
taskVars == <<phase, blocked>>
threadVars == <<cur, pc, polls, seen, fresh, raised, succs>>
vars == <<ownerVars, progVars, queueVars, taskVars, threadVars>>

Phase == {"none", "created", "linked", "deps", "ready", "ahead", "body", "ended", "gone"}

Children(w) == {c \in WD : prog.parent[c] = w}
Successors(w) == {s \in WD : w \in prog.after[s] /\ phase[s] \notin {"none", "created"}}
Tied(w) == prog.tied[w]
\* Depths beyond 1 are treated alike by every policy.
Depth(w) == IF w = 0 THEN 0 ELSE IF prog.parent[w] = 0 THEN 1 ELSE 2
HasDO(w) == comm[w] # <<>> \/ \E v \in WD : w \in prog.after[v] \/ v \in prog.after[w]
IsAsync(t) == t \in prog.async
DepsSatisfied(w) == \A p \in prog.after[w] : phase[p] \in {"ended", "gone"}
ChildrenGone(w) == \A c \in Children(w) : phase[c] = "gone"

----------------------------------------------------------------------------
(* Ready queues: WDDeque keeps insertion order, WDPriorityQueue sorts. *)

NextQ(t) == <<"next", t>>     \* BaseThread::_nextWDs
Own(t)   == <<"own", t>>      \* the thread's queue of dbf and wf
Team(i)  == <<"team", i>>     \* the team's queues of the others
QueueId  == ({"next", "own"} \X Thread) \union ({"team"} \X (0..4))

usePriorities == prog.prios \/ prog.smart
Ordered(q) == /\ q[1] # "next"
              /\ \/ prog.policy \in {"botlev", "socket"}
                 \/ prog.policy \in {"bf", "dbf", "node"} /\ usePriorities

QueueOf(w) == {q \in QueueId : \E i \in DOMAIN queues[q] : queues[q][i] = w}
Locked(q) == \E t \in Thread : pc[t] = "try" /\ Head(polls[t]) \in {q} \X {"front", "back", "steal"}

\* Mutant: the shortcut to the end tests the wrong way round.
Slots_Back(s, p, fifo, pr) ==
  IF s = <<>> \/ pr[Last(s)] <= p THEN {Len(s) + 1} ELSE {1}

\* Positions insertOrdered may choose: std::upper_bound and std::lower_bound
\* return a boundary, the only one when the queue is sorted.
Slots(s, p, fifo, pr) ==
  IF fifo
  THEN IF s = <<>> \/ pr[Last(s)] >= p THEN {Len(s) + 1}
       ELSE {i \in 1..(Len(s) + 1) : /\ i > 1 => pr[s[i - 1]] >= p
                                     /\ i <= Len(s) => pr[s[i]] < p}
  ELSE IF s = <<>> \/ pr[Head(s)] < p THEN {1}
       ELSE {i \in 1..(Len(s) + 1) : /\ i > 1 => pr[s[i - 1]] > p
                                     /\ i <= Len(s) => pr[s[i]] <= p}

Inserted(q, s, w, fifo, pr) ==
  {InsertAt(s, i, w) : i \in IF Ordered(q) THEN Slots(s, pr[w], fifo, pr)
                             ELSE {IF fifo THEN Len(s) + 1 ELSE 1}}

\* push_back (fifo) or push_front of a task whose priority is now p.
Push(q, w, fifo, p) ==
  /\ ~Locked(q)
  /\ prio' = [prio EXCEPT ![w] = p]
  /\ \E s \in Inserted(q, queues[q], w, fifo, [prio EXCEPT ![w] = p]) :
       /\ queues' = [queues EXCEPT ![q] = s]
       /\ maxPrio' = [maxPrio EXCEPT ![q] = IF Head(s) = w THEN p ELSE @]
  /\ readyTasks' = readyTasks + 1

\* reorderWD: erase and insert again, if the task is still in that queue.
Reordered(q, s, w, pr) ==
  IF \E i \in DOMAIN s : s[i] = w THEN Inserted(q, Remove(s, w), w, TRUE, pr) ELSE {s}

----------------------------------------------------------------------------
(* The policies: where queue() puts a task, and where atIdle looks. *)

MpqIndex(p) ==
  LET i == (p * (prog.numQueues - 1)) \div (IF prog.maxPriority = 0 THEN 1 ELSE prog.maxPriority)
  IN  IF i >= prog.numQueues THEN prog.numQueues - 1 ELSE i

SimpleQueue(t, w) ==
  LET toTied == Tied(w) # NoThread /\ prog.policy \in {"bf", "dbf", "node"}
      q == IF toTied THEN NextQ(Tied(w)) ELSE
           CASE prog.policy = "bf" -> Team(0)
             [] prog.policy \in {"dbf", "wf"} -> Own(t)
             [] prog.policy = "node" -> Team(IF Depth(w) > 1 THEN 0 ELSE 1)
             [] prog.policy = "mpq" -> Team(MpqIndex(prio[w]))
      fifo == toTied \/ (prog.policy \in {"bf", "mpq"} /\ ~prog.stack)
  IN  /\ Push(q, w, fifo, prio[w])
      /\ UNCHANGED pol

\* botlev: a task that starts a longest path, or that succeeds the last
\* critical task on it, is critical and goes to queue 1.
BotLevQueue(w) ==
  LET level == pol.level[w]
      longest == level >= pol.maxBotLev
      onPath == w \in pol.topSuccesors /\ level >= pol.currMax - 1
  IN  \/ /\ ~HasDO(w)
         /\ Push(Team(2), w, TRUE, IF Depth(w) = 0 THEN 0 ELSE prio[w])
         /\ UNCHANGED pol
      \/ /\ HasDO(w) /\ (longest \/ onPath)
         /\ Push(Team(1), w, TRUE, level)
         /\ pol' = [pol EXCEPT !.maxBotLev = IF longest THEN level ELSE @,
                               !.currMax = level, !.topSuccesors = Successors(w)]
      \/ /\ HasDO(w) /\ ~longest /\ ~onPath
         /\ Push(Team(0), w, TRUE, level)
         /\ UNCHANGED pol

\* socket: _wakeUpQueue is an unsigned, all ones while the task has no queue.
\* It is modelled with 8 bits.
NoQueue == 2^8 - 1
nodeToQueue(n, topLevel) == IF topLevel THEN n * 2 + 1 ELSE n * 2 + 2
\* A task of depth > 1 has no queue index of its own yet: it is odd, and the
\* increment wraps around to the general queue.
ChildIndex == IF NoQueue % 2 # 0 THEN (NoQueue + 1) % 2^8 ELSE NoQueue

\* queue and atSubmit: a task that has a queue returns to it, another one is
\* distributed.
SocketQueue(w) ==
  LET index == pol.wakeUpQueue[w]
      node == prog.node[w]
      chosen == IF Depth(w) = 0 THEN 0
                ELSE IF index # NoQueue THEN index
                ELSE IF Depth(w) > 1 THEN ChildIndex
                ELSE IF node = -1 THEN 0 ELSE nodeToQueue(node, TRUE)
      keeps == Depth(w) > 1 \/ (Depth(w) = 1 /\ node # -1)
  IN  /\ Push(Team(chosen), w, TRUE, prio[w])
      /\ pol' = [pol EXCEPT !.wakeUpQueue[w] = IF keeps THEN chosen ELSE @]

Queue(t, w) ==
  \/ prog.policy \in {"bf", "dbf", "wf", "node", "mpq"} /\ SimpleQueue(t, w)
  \/ prog.policy = "botlev" /\ BotLevQueue(w)
  \/ prog.policy = "socket" /\ SocketQueue(w)

AtFront(q) == <<q, "front">>
\* Victims of dbf and wf, from a random one on, the thread itself included.
Victims(first) == [i \in 1..Cardinality(Thread) |->
                     <<Own((first + i) % Cardinality(Thread)), "back">>]

\* socket looks at its top-level queue while few deeper tasks wait.
SocketPolls(t) ==
  LET v == prog.socketOf[t]
      deepTasksN == Len(queues[Team(nodeToQueue(v, FALSE))])
      parentQueue == /\ deepTasksN < prog.cpusPerSocket
                     /\ queues[Team(nodeToQueue(v, TRUE))] # <<>>
  IN  <<AtFront(Team(nodeToQueue(v, parentQueue))), AtFront(Team(0)),
        <<Team(nodeToQueue(1 - v, prog.stealParents)), "steal">>>>

BotLevPolls(t) ==
  IF t \in prog.big THEN <<AtFront(Team(1)), AtFront(Team(0)), AtFront(Team(2))>>
  ELSE IF prog.steal THEN <<AtFront(Team(0)), AtFront(Team(1)), AtFront(Team(2))>>
  ELSE <<AtFront(Team(0)), AtFront(Team(2))>>

\* The visits of one search: the thread's next tasks, which an asynchronous
\* thread has not, then the policy's.
Searches(t) ==
  LET after(s) == IF IsAsync(t) THEN s ELSE <<AtFront(NextQ(t))>> \o s
  IN  CASE prog.policy = "bf" -> {after(<<AtFront(Team(0))>>)}
        [] prog.policy \in {"dbf", "wf"} ->
             {after(<<AtFront(Own(t)), <<Own(t), "parent">>>> \o Victims(f)) : f \in Thread}
        [] prog.policy = "node" -> {after(<<AtFront(Team(0)), AtFront(Team(1))>>)}
        [] prog.policy = "mpq" ->
             {after([i \in 1..prog.numQueues |-> AtFront(Team(prog.numQueues - i))])}
        [] prog.policy = "botlev" -> {after(BotLevPolls(t))}
        [] prog.policy = "socket" -> {after(SocketPolls(t))}
----------------------------------------------------------------------------
(* Looking for work: idleLoop, waitOnCondition and the queues' pops. *)

\* checkBasicConstraints but for the commutative accesses.
CanRun(t, w) == /\ Tied(w) \in {NoThread, t}
                /\ (IF IsAsync(t) THEN "device" ELSE "smp") \in prog.runsOn[w]
\* A task under way owns its accesses already.
MustAcquire(w) == comm[w] # <<>> /\ w \notin active

\* The tasks a visit examines, in order.  pop_back of a priority queue starts
\* at the front too.  "parent" is removeWD of the parent of the task that
\* blocks, wherever it is queued.
Candidates(t) ==
  LET v == Head(polls[t])
      parent == IF cur[t] = NoWD THEN NoWD ELSE prog.parent[cur[t]]
      s == SelectSeq(queues[v[1]], LAMBDA w : CanRun(t, w))
  IN  CASE v[2] = "parent" -> IF parent # NoWD /\ QueueOf(parent) # {} /\ CanRun(t, parent)
                              THEN <<parent>> ELSE <<>>
        [] v[2] = "back" /\ ~Ordered(v[1]) -> Reverse(s)
        [] OTHER -> s

\* waitOnCondition keeps the condition locked until the thread has switched to
\* another task; only then is the current task a waiter.
Waiter(t) == {cur[t]} \ {NoWD}

StartSearch(t) ==
  /\ pc[t] = "idle" /\ readyTasks > 0
  /\ IsAsync(t) => canGetWork(async[t], prog.maxPrefetch)
  /\ polls' \in {[polls EXCEPT ![t] = s] : s \in Searches(t)}
  /\ pc' = [pc EXCEPT ![t] = "poll"]
  /\ async' = IF IsAsync(t) THEN [async EXCEPT ![t].then = "enter"] ELSE async
  /\ UNCHANGED <<ownerVars, prog, queueVars, taskVars, cur, seen, fresh, raised, succs>>

NextVisit(t) ==
  LET over == Len(polls[t]) = 1 IN
  /\ polls' = [polls EXCEPT ![t] = Tail(@)]
  /\ pc' = [pc EXCEPT ![t] = IF ~over THEN "poll" ELSE
                                   IF IsAsync(t) THEN async[t].then ELSE "idle"]
  /\ blocked' = IF over THEN blocked \union Waiter(t) ELSE blocked
  /\ cur' = IF over THEN [cur EXCEPT ![t] = NoWD] ELSE cur
  /\ seen' = [seen EXCEPT ![t] = 0]
  /\ UNCHANGED <<progVars, queueVars, phase, fresh, raised, succs>>

SwitchTo(t, w) ==
  /\ phase' = [phase EXCEPT ![w] = IF @ \in {"ready", "ahead"} THEN "body" ELSE @]
  /\ cur' = [cur EXCEPT ![t] = w]
  /\ pc' = [pc EXCEPT ![t] = IF phase[w] = "ended" THEN "exit" ELSE "body"]
  /\ UNCHANGED async

\* allocateTaskMemory: the memory that the tasks of the pipeline hold is not
\* taken from them.
Fits(t, w) == FoldSet(LAMBDA v, n : n + prog.size[v], prog.size[w], async[t].memory) <= prog.room

\* An asynchronous thread adds the task to its pipeline: inlineWorkAsync, or
\* the loop of idle(), which polls the events next.
AddNext(t, w) ==
  LET added == addNextWD(async[t], w, Fits(t, w))
      inIdle == async[t].then = "idle"
  IN  /\ async' = [async EXCEPT ![t] =
                     IF inIdle THEN checkEvents([added EXCEPT !.last = w], "more") ELSE added]
      /\ phase' = [phase EXCEPT ![w] = "ahead"]
      /\ pc' = [pc EXCEPT ![t] = IF inIdle THEN "events" ELSE "idle"]
      /\ UNCHANGED cur

\* The task leaves its queue for the thread.  removeWD does not refresh the
\* cached priority.
Take(t, w) ==
  LET v == Head(polls[t])
      q == CHOOSE r \in QueueId : r \in QueueOf(w)
      rest == Remove(queues[q], w)
  IN  /\ ~Locked(q) \/ pc[t] = "try"
      /\ queues' = [queues EXCEPT ![q] = rest]
      /\ maxPrio' = IF v[2] = "parent" THEN maxPrio
                    ELSE [maxPrio EXCEPT ![q] = IF rest = <<>> THEN 0 ELSE prio[Head(rest)]]
      /\ readyTasks' = readyTasks - 1
      /\ pol' = IF v[2] = "steal" THEN [pol EXCEPT !.wakeUpQueue[w] = q[2]] ELSE pol
      /\ IF IsAsync(t) THEN AddNext(t, w) ELSE SwitchTo(t, w)
      /\ blocked' = blocked \union Waiter(t)
      /\ polls' = [polls EXCEPT ![t] = <<>>]
      /\ seen' = [seen EXCEPT ![t] = 0]
      /\ UNCHANGED <<prog, prio, fresh, raised, succs>>

Owning(w) == \/ w \in active /\ UNCHANGED ownerVars
             \/ phase[w] \in {"ready", "ahead"} /\ StartOwning(w)
             \/ phase[w] \notin {"ready", "ahead"} /\ KeepTargets(w)

Visit(t) ==
  /\ pc[t] = "poll" /\ ~Locked(Head(polls[t])[1])
  /\ LET c == Candidates(t) IN
     \/ c = <<>> /\ NextVisit(t) /\ UNCHANGED ownerVars
     \/ /\ c # <<>> /\ MustAcquire(Head(c))
        /\ pc' = [pc EXCEPT ![t] = "try"] /\ seen' = [seen EXCEPT ![t] = 1]
        /\ UNCHANGED <<ownerVars, progVars, queueVars, taskVars, cur, polls, fresh, raised, succs>>
     \/ c # <<>> /\ ~MustAcquire(Head(c)) /\ Take(t, Head(c)) /\ Owning(Head(c))

Try(t) ==
  /\ pc[t] = "try"
  /\ LET c == Candidates(t) IN
     \/ /\ TakeTarget(c[seen[t]])
        /\ UNCHANGED <<progVars, queueVars, taskVars, threadVars>>
     \/ /\ Refused(c[seen[t]]) \/ GiveBack(c[seen[t]])
        /\ \/ /\ c[seen[t]] \in failed'
              /\ UNCHANGED <<progVars, queueVars, taskVars, threadVars>>
           \/ c[seen[t]] \notin failed' /\ seen[t] = Len(c) /\ NextVisit(t)
           \/ /\ c[seen[t]] \notin failed' /\ seen[t] < Len(c)
              /\ seen' = [seen EXCEPT ![t] = @ + 1]
              /\ UNCHANGED <<progVars, queueVars, taskVars, cur, pc, polls, fresh, raised, succs>>
     \/ Owning(c[seen[t]]) /\ Take(t, c[seen[t]])

----------------------------------------------------------------------------
(* What a running task does: create tasks, wait for them, end. *)

Uncreated(w) == {c \in Children(w) : phase[c] = "none"}

\* setupWD: the priority of a task adds to its parent's.
Create(t) ==
  LET w == cur[t]
      c == CHOOSE x \in Uncreated(w) : \A y \in Uncreated(w) : x <= y
  IN  /\ pc[t] = "body" /\ Uncreated(w) # {}
      /\ phase' = [phase EXCEPT ![c] = "created"]
      /\ prio' = [prio EXCEPT ![c] = @ + prio[w]]
      /\ fresh' = [fresh EXCEPT ![t] = c]
      /\ pc' = [pc EXCEPT ![t] = "register"]
      /\ UNCHANGED <<ownerVars, progVars, queues, maxPrio, readyTasks, pol, blocked,
                     cur, polls, seen, raised, succs>>

Pending(c) == {p \in prog.after[c] : phase[p] \notin {"ended", "gone"}}

\* Length of the longest path of dependences from p down to c, or -1.
PathTo(c) == LET f[p \in 0..c] == IF p = c THEN 0 ELSE
                    LET s == {x \in (p + 1)..c : p \in prog.after[x] /\ f[x] >= 0}
                    IN  IF s = {} THEN -1 ELSE 1 + Max({f[x] : x \in s})
             IN  f

\* botlev's atCreate: a longer path down to the new task raises the bottom
\* levels of its predecessors.  Those already queued are inserted again, with
\* the priority they had.
UpdateBottomLevels(c) ==
  LET path == PathTo(c)
      level == [w \in WD |-> IF w <= c /\ path[w] > pol.level[w] THEN path[w] ELSE pol.level[w]]
      moved == {w \in WD : level[w] # pol.level[w]}
      moveIn(q, order) == FoldLeft(LAMBDA s, w : CHOOSE r \in Reordered(q, s, w, prio) : TRUE,
                                   queues[q], order)
  IN  /\ ~Locked(Team(0)) /\ ~Locked(Team(1))
      /\ \E order \in SetToSeqs(moved) :
           queues' = [q \in QueueId |-> IF q \in {Team(0), Team(1)}
                                        THEN moveIn(q, order) ELSE queues[q]]
      /\ pol' = [pol EXCEPT !.level = level]

\* The dependences of the new task are found.  With smart priorities
\* (atSuccessor) a predecessor of lower priority gets the new task's: its
\* priority is written first, and its place in the queue follows later.
Register(t) ==
  LET c == fresh[t]
      lower == {p \in Pending(c) : prio[p] < prio[c]}
      submits == /\ phase' = [phase EXCEPT ![c] = "linked"]
                 /\ pc' = [pc EXCEPT ![t] = "submit"] /\ UNCHANGED <<prio, raised>>
  IN  /\ pc[t] = "register"
      /\ \/ /\ prog.policy = "botlev" /\ UpdateBottomLevels(c) /\ submits
         \/ /\ prog.policy # "botlev" /\ ~(prog.smart /\ lower # {}) /\ submits
            /\ UNCHANGED <<queues, pol>>
         \/ /\ prog.smart /\ \E p \in lower : /\ prio' = [prio EXCEPT ![p] = prio[c]]
                                              /\ raised' = [raised EXCEPT ![t] = p]
            /\ pc' = [pc EXCEPT ![t] = "reorder"]
            /\ UNCHANGED <<queues, pol, phase>>
      /\ UNCHANGED <<ownerVars, progVars, maxPrio, readyTasks, blocked, cur, polls, seen, fresh, succs>>

Reorder(t) ==
  LET p == raised[t] IN
  /\ pc[t] = "reorder"
  /\ \/ QueueOf(p) = {} /\ UNCHANGED <<queues, maxPrio>>
     \/ \E q \in QueueOf(p) :
          /\ ~Locked(q)
          /\ \E s \in Reordered(q, queues[q], p, prio) :
               /\ queues' = [queues EXCEPT ![q] = s]
               /\ maxPrio' = [maxPrio EXCEPT ![q] = IF Head(s) = p THEN prio[p] ELSE @]
  /\ pc' = [pc EXCEPT ![t] = "register"] /\ raised' = [raised EXCEPT ![t] = NoWD]
  /\ UNCHANGED <<ownerVars, progVars, prio, readyTasks, pol, taskVars, cur, polls, seen, fresh, succs>>

\* A ready task goes to the queue of the thread it is tied to, if any.
QueueReady(t, w) == Queue(IF Tied(w) = NoThread THEN t ELSE Tied(w), w)

\* A task with dependences is always queued; one without is handed to
\* atSubmit, and work first switches to it at once.
Submit(t) ==
  LET c == fresh[t]
      switches == prog.policy = "wf" /\ ~HasDO(c) /\ CanRun(t, c)
      becomes(p) == phase' = [phase EXCEPT ![c] = p]
  IN  /\ pc[t] = "submit"
      /\ \/ ~DepsSatisfied(c) /\ becomes("deps") /\ UNCHANGED <<ownerVars, queueVars, cur>>
         \/ /\ DepsSatisfied(c) /\ ~switches
            /\ QueueReady(t, c) /\ becomes("ready") /\ UNCHANGED <<ownerVars, cur>>
         \/ /\ DepsSatisfied(c) /\ switches
            /\ Queue(t, cur[t]) /\ StartOwning(c) /\ becomes("body")
            /\ cur' = [cur EXCEPT ![t] = c]
      /\ pc' = [pc EXCEPT ![t] = "body"] /\ fresh' = [fresh EXCEPT ![t] = NoWD]
      /\ UNCHANGED <<progVars, blocked, polls, seen, raised, succs>>

\* The successors the thread has to submit.  One that several tasks release at
\* the same time is submitted by any of them.
Released(t) == {s \in succs[t] : phase[s] = "deps" /\ DepsSatisfied(s)}

\* A taskwait, or the wait for the children at the end of a task (done), after
\* its successors were released.
Wait(t) ==
  /\ \/ pc[t] = "body" /\ Uncreated(cur[t]) = {} /\ cur[t] \in prog.waits
     \/ pc[t] = "exit" /\ Released(t) = {}
  /\ ~ChildrenGone(cur[t])
  /\ polls' \in {[polls EXCEPT ![t] = s] : s \in Searches(t)}
  /\ pc' = [pc EXCEPT ![t] = "poll"]
  /\ succs' = [succs EXCEPT ![t] = {}]
  /\ UNCHANGED <<ownerVars, progVars, queueVars, taskVars, cur, seen, fresh, raised>>

\* atBeforeExit of bf, node and mpq: a task that only waits for the ending one
\* and that the thread may run.
ImmediateSuccessors(t, w) ==
  {s \in Successors(w) : /\ prog.policy \in {"bf", "node"} \/ (prog.policy = "mpq" /\ ~usePriorities)
                         /\ phase[s] = "deps" /\ Pending(s) = {w}
                         /\ CanRun(t, s) /\ CanOwn(s)}
\* bf queues the successor instead if a task of higher priority is queued.
Outranked(s) == prog.policy = "bf" /\ usePriorities /\ prio[s] < maxPrio[Team(0)]

BeforeExit(t) ==
  LET w == cur[t] IN
  /\ pc[t] = "body" /\ Uncreated(w) = {} /\ (w \in prog.waits => ChildrenGone(w))
  /\ \/ /\ ImmediateSuccessors(t, w) = {}
        /\ UNCHANGED <<ownerVars, queueVars, phase, succs>>
     \/ \E s \in ImmediateSuccessors(t, w) :
          /\ phase' = [phase EXCEPT ![s] = "ready"]
          /\ AcquireAll(s)
          /\ succs' = [succs EXCEPT ![t] = {s}]
          /\ IF Outranked(s)
             THEN Queue(t, s)
             ELSE Push(NextQ(t), s, TRUE, prio[s]) /\ UNCHANGED pol
  /\ pc' = [pc EXCEPT ![t] = "done"]
  /\ UNCHANGED <<progVars, blocked, cur, polls, seen, fresh, raised>>

\* done(): when the commutative accesses are released, the task can have no more
\* successors, and finished() goes through those that atBeforeExit has left.
Done(t) ==
  /\ pc[t] = "done"
  /\ ReleaseTarget(cur[t])
  /\ IF cur[t] \in leaving' THEN UNCHANGED <<phase, pc, succs>> ELSE
       /\ phase' = [phase EXCEPT ![cur[t]] = "ended"]
       /\ pc' = [pc EXCEPT ![t] = "exit"]
       /\ succs' = [succs EXCEPT ![t] = Successors(cur[t]) \ @]
  /\ UNCHANGED <<progVars, queueVars, blocked, cur, polls, seen, fresh, raised>>

\* finished(): the successors that waited for this task alone are submitted.
\* bf takes several in one batch, tied ones included, into the team's queue.
ReleaseSuccessor(t) ==
  /\ pc[t] = "exit"
  /\ \E s \in Released(t) :
       /\ IF prog.policy = "bf" /\ Cardinality(succs[t]) > 1
          THEN Push(Team(0), s, ~prog.stack, prio[s]) /\ UNCHANGED pol
          ELSE QueueReady(t, s)
       /\ phase' = [phase EXCEPT ![s] = "ready"]
  /\ UNCHANGED <<ownerVars, progVars, blocked, threadVars>>

\* Mutant: the waiter is woken but stays in the condition.
WakeUp_StaysWaiter(t, p) ==
  /\ UNCHANGED <<blocked, owner, pol>>
  /\ Push(NextQ(IF CanRun(t, p) THEN t ELSE Tied(p)), p, TRUE, prio[p])

\* atWakeUp of a task that was waiting: it becomes a next task of the thread
\* if the thread may run it, which acquires its commutative accesses (again).
WakeUp(t, p) ==
  LET runs == CanRun(t, p) /\ (p \in active \/ CanOwn(p)) IN
  /\ blocked' = blocked \ {p}
  /\ owner' = IF runs THEN Acquired(p) ELSE owner
  /\ IF runs \/ Tied(p) # NoThread
     THEN Push(NextQ(IF runs THEN t ELSE Tied(p)), p, TRUE, prio[p]) /\ UNCHANGED pol
     ELSE Queue(t, p)

\* Mutant: the condition is not locked between its last check and the switch.
ConditionFree_Never(p) == TRUE

\* Nobody signals a condition while a thread has it locked.
ConditionFree(p) == \A t \in Thread : cur[t] = p => pc[t] \notin {"poll", "try"}

Exit(t) ==
  LET w == cur[t]
      p == prog.parent[w]
      last == p # NoWD /\ \A c \in Children(p) \ {w} : phase[c] = "gone"
  IN  /\ pc[t] = "exit" /\ Released(t) = {} /\ ChildrenGone(w)
      /\ last => ConditionFree(p)
      /\ phase' = [phase EXCEPT ![w] = "gone"]
      /\ IF last /\ p \in blocked THEN WakeUp(t, p) ELSE UNCHANGED <<owner, queueVars, blocked>>
      /\ cur' = [cur EXCEPT ![t] = NoWD]
      /\ pc' = [pc EXCEPT ![t] = IF IsAsync(t) THEN "events" ELSE "idle"]
      /\ succs' = [succs EXCEPT ![t] = {}]
      /\ UNCHANGED <<comm, got, active, failed, leaving, progVars, polls, seen, fresh, raised>>

----------------------------------------------------------------------------
(* An asynchronous thread that finds no task: idle() polls its events and    *)
(* fills its pipeline with prefetched tasks.                                 *)

\* Without events and ready tasks idle() changes nothing.
EnterIdle(t) ==
  /\ IsAsync(t)
  /\ \/ pc[t] = "enter"
     \/ /\ pc[t] = "idle" /\ async[t].events # <<>>
        /\ readyTasks = 0 \/ ~canGetWork(async[t], prog.maxPrefetch)
  /\ async' = [async EXCEPT ![t] = checkEvents([@ EXCEPT !.last = NoWD], "more")]
  /\ pc' = [pc EXCEPT ![t] = "events"]
  /\ UNCHANGED <<ownerVars, prog, queueVars, taskVars, cur, polls, seen, fresh, raised, succs>>

\* One event.  A finished task goes through done().
PollEvent(t) ==
  LET p == async[t]
      e == NextEvent(p)
  IN  /\ pc[t] = "events" /\ p.left > 0
      /\ \/ /\ ~e.raised /\ async' = [async EXCEPT ![t] = Skipped(p)]
            /\ UNCHANGED <<phase, cur, pc>>
         \/ /\ e.raised
            /\ \E o \in ProcessActions(p, Fits(t, e.wd), ~DepsSatisfied(e.wd)) :
                 /\ async' = [async EXCEPT ![t] = o.pipeline]
                 /\ phase' = [phase EXCEPT ![e.wd] = IF o.launched THEN "body" ELSE @]
                 /\ cur' = [cur EXCEPT ![t] = IF o.finished THEN e.wd ELSE @]
                 /\ pc' = [pc EXCEPT ![t] = IF o.finished THEN "done" ELSE @]
      /\ UNCHANGED <<ownerVars, prog, queueVars, blocked, polls, seen, fresh, raised, succs>>

\* The poll is over: on to the next prefetch, after another poll, while there
\* is room in the pipeline.
PollOver(t) ==
  LET p == async[t]
      more == canGetWork(p, prog.maxPrefetch)
      newest == IF p.running = <<>> THEN NoWD ELSE Last(p.running)
  IN  /\ pc[t] = "events" /\ p.left = 0
      /\ IF p.then = "more"
         THEN /\ async' = [async EXCEPT ![t] = IF more THEN checkEvents(p, "again") ELSE p]
              /\ pc' = [pc EXCEPT ![t] = IF more THEN "events" ELSE "idle"]
         ELSE /\ async' = [async EXCEPT ![t].last = IF @ = NoWD THEN newest ELSE @]
              /\ pc' = [pc EXCEPT ![t] = "prefetch"]
      /\ UNCHANGED <<ownerVars, prog, queueVars, taskVars, cur, polls, seen, fresh, raised, succs>>

\* atPrefetch: the immediate successor of the last task keeps its dependence
\* on it and is not submitted again; without one, the policy's search.
Prefetch(t) ==
  LET last == async[t].last
      found == IF last = NoWD THEN {} ELSE ImmediateSuccessors(t, last)
      searches == /\ polls' \in {[polls EXCEPT ![t] = s] : s \in Searches(t)}
                  /\ pc' = [pc EXCEPT ![t] = "poll"]
                  /\ async' = [async EXCEPT ![t].then = "idle"]
  IN  /\ pc[t] = "prefetch"
      /\ \/ found = {} /\ searches /\ UNCHANGED <<ownerVars, queueVars, phase>>
         \/ \E s \in found :
              /\ phase' = [phase EXCEPT ![s] = "ahead"]
              /\ \/ Outranked(s) /\ AcquireAll(s) /\ Queue(t, s) /\ searches
                 \/ /\ ~Outranked(s) /\ StartAll(s)
                    /\ async' = [async EXCEPT ![t] =
                         checkEvents([addNextWD(@, s, Fits(t, s)) EXCEPT !.last = s], "more")]
                    /\ pc' = [pc EXCEPT ![t] = "events"]
                    /\ UNCHANGED <<queueVars, polls>>
      /\ UNCHANGED <<prog, blocked, cur, seen, fresh, raised, succs>>

\* The device completes a copy or a kernel.
Device(t) ==
  /\ \E i \in DOMAIN async[t].events :
       /\ ~async[t].events[i].raised
       /\ async' = [async EXCEPT ![t] = Raised(@, i)]
  /\ UNCHANGED <<ownerVars, prog, queueVars, taskVars, threadVars>>

----------------------------------------------------------------------------
SchedInit ==
  /\ prog \in Program
  /\ comm = prog.comm
  /\ owner = [x \in Target |-> NoWD] /\ got = [w \in WD |-> 0] /\ active = {0}
  /\ failed = {} /\ leaving = {}
  /\ prio = prog.prio
  /\ queues = [q \in QueueId |-> <<>>] /\ maxPrio = [q \in QueueId |-> 0]
  /\ readyTasks = 0
  /\ pol = [level |-> [w \in WD |-> 0], maxBotLev |-> 1, currMax |-> 1, topSuccesors |-> {},
            wakeUpQueue |-> [w \in WD |-> NoQueue]]
  /\ phase = [w \in WD |-> IF w = 0 THEN "body" ELSE "none"] /\ blocked = {}
  /\ cur = [t \in Thread |-> IF t = 0 THEN 0 ELSE NoWD]
  /\ pc = [t \in Thread |-> IF t = 0 THEN "body" ELSE "idle"]
  /\ polls = [t \in Thread |-> <<>>] /\ seen = [t \in Thread |-> 0]
  /\ async = [t \in Thread |-> NewPipeline(NoWD)]
  /\ fresh = [t \in Thread |-> NoWD] /\ raised = [t \in Thread |-> NoWD]
  /\ succs = [t \in Thread |-> {}]

Step(t) == \/ StartSearch(t) \/ Visit(t) \/ Try(t)
           \/ Create(t) \/ Register(t) \/ Reorder(t) \/ Submit(t)
           \/ Wait(t) \/ BeforeExit(t) \/ Done(t) \/ ReleaseSuccessor(t) \/ Exit(t)
           \/ EnterIdle(t) \/ PollEvent(t) \/ PollOver(t) \/ Prefetch(t)

Finished == phase[0] = "gone" /\ UNCHANGED vars

SchedNext == (\E t \in Thread : Step(t) \/ Device(t)) \/ Finished

\* The threads are kernel threads, so each one takes steps while it can; and a
\* thread that keeps asking for the lock of a queue, which others hold only
\* during a pop, gets it.  A device completes what it was given.
SchedSpec == /\ SchedInit /\ [][SchedNext]_vars
             /\ \A t \in Thread : SF_vars(Step(t)) /\ WF_vars(Device(t))

----------------------------------------------------------------------------
(* Properties *)

Held(t, w) == cur[t] = w \/ \E i \in DOMAIN async[t].running : async[t].running[i] = w
Positions(w) == {p \in QueueId \X (1..Cardinality(WD)) :
                   p[2] <= Len(queues[p[1]]) /\ queues[p[1]][p[2]] = w}

\* No task is lost or duplicated between the queues and the threads.  A task
\* that is ready is in one queue, once; a task under way is the current task of
\* one thread, or in one queue, or a waiter; no other task is anywhere.  And
\* _readyTasks, which the idle loop reads to decide whether to search at all,
\* counts exactly the queued tasks.
TasksAccounted ==
  /\ readyTasks = FoldSet(LAMBDA q, n : n + Len(queues[q]), 0, QueueId)
  /\ \A w \in WD :
       LET queued == Cardinality(Positions(w))
           held == Cardinality({t \in Thread : Held(t, w)})
           waiter == IF w \in blocked THEN 1 ELSE 0
       IN  CASE phase[w] = "ready" -> queued = 1 /\ held + waiter = 0
             [] phase[w] \in {"ahead", "body", "ended"} -> queued + held + waiter = 1
             [] OTHER -> queued + held + waiter = 0

\* A pop of a priority queue never passes over a task of higher priority that
\* the thread may run (tasks with commutative accesses apart, which may have
\* been refused).  Excludes smart priorities, which write the priority of a
\* queued task before they move it.
HighestFirst ==
  [][~prog.smart =>
       \A t \in Thread, q \in QueueId :
         \A i \in DOMAIN queues[q], j \in DOMAIN queues[q] :
           LET taken == queues[q][i]
               left == queues[q][j]
           IN  /\ Ordered(q) /\ cur'[t] = taken /\ cur[t] # taken
               /\ Head(polls[t])[2] # "parent" /\ comm[left] = <<>> /\ CanRun(t, left)
               => prio[left] <= prio[taken]]_vars

\* No two tasks name a pair of commutative accesses in opposite orders.
SameOrder ==
  \A v, w \in WD : \A i, j \in DOMAIN comm[v], k, l \in DOMAIN comm[w] :
    comm[v][i] = comm[w][k] /\ comm[v][j] = comm[w][l] /\ i < j => k < l

\* The tasks of a pipeline need as much memory as each other.
SameSize == \A v, w \in WD : prog.size[v] = prog.size[w]

\* Every program ends: each of its tasks is found by some thread and run to its
\* end, under every policy, whatever the order in which the threads search: no
\* wake-up is lost between the last look at a condition and the switch away,
\* and no task is left in a queue that nobody visits.  The accesses must be
\* named in one order: tryAcquireCommutativeAccesses does not back off, and two
\* tasks in different queues that take two accesses in opposite orders may
\* refuse each other for ever.  And the tasks of a device must be of one size:
\* a prefetched task that fits keeps its memory while it waits for its
\* predecessor, which may never fit beside it; among equals, the order of the
\* events makes memory first come, first served.
EveryTaskRuns ==
  SameOrder /\ SameSize => <>(\A w \in WD : prog.parent[w] # NoWD \/ w = 0 => phase[w] = "gone")

\* The one way around the event loop: a task with two implementations, under bf
\* with priorities.
MayBeStolen == prog.policy = "bf" /\ usePriorities /\ \E w \in WD : Cardinality(prog.runsOn[w]) > 1

\* The code of a task has run to its end; done() may not have been called yet.
BodyOver(p) ==
  phase[p] \in {"ended", "gone"} \/ \E t \in Thread : cur[t] = p /\ pc[t] = "done"

\* A task never starts before its predecessors have run to their end, although
\* atBeforeExit releases a successor, which any thread may then find in a queue,
\* before the task that ends calls done(); and although an asynchronous thread
\* takes up the successor of a task that is still running, copies its data and
\* keeps it in its pipeline ("Keep the dependency to signal when the WD can
\* actually be run respecting dependencies").  Excludes bf with priorities if a
\* task also has an implementation for the cpu: atPrefetch may put the
\* successor, still dependent, back into the ready queue, and a cpu thread
\* starts what it finds there.
RunsInOrder ==
  ~MayBeStolen =>
    \A w \in WD : phase[w] \in {"body", "ended", "gone"} =>
      \A p \in prog.after[w] : BodyOver(p)

\* "Release ownership of commutative targets. Called when a task is finished."
FinishedOwnsNothing == \A x \in Target : owner[x] # NoWD => phase[owner[x]] # "gone"
=============================================================================
