---------------------------- MODULE ThreadManager ----------------------------
(***************************************************************************)
(* The thread manager and the malleable team of an OmpSs program: threads  *)
(* without work block themselves and leave their CPU, submitting work or   *)
(* handing it to a thread wakes threads up, and the program changes the    *)
(* masks of CPUs and the number of threads while all of this goes on.      *)
(*                                                                         *)
(* A critical section under the lock of a thread (lock(), unlock(), the    *)
(* mutex of its condition variable) is one step; what the lock of the      *)
(* manager or that of the programming model interface covers is several,   *)
(* because the masks and the flags of the threads are read, and written by *)
(* holders of the other lock, in between.  Work is only counted.           *)
(***************************************************************************)
EXTENDS Naturals, FiniteSets, FiniteSetsExt

CONSTANTS
  Worker,     \* the threads, in the order of their creation: 1..n
  Cpu,        \* the CPUs of the machine: 1..m
  CpuOf,      \* the CPU each thread is bound to
  Setups      \* the options: [block, untied, uses, calls]

\* startWorkerThreads() numbers the threads and gives every active CPU at least one,
\* and the CPUs left without a thread are not active
ASSUME WorkerAssumption ==
  /\ IsFiniteSet(Worker) /\ Worker = 1..Cardinality(Worker) /\ Worker # {}
  /\ IsFiniteSet(Cpu) /\ Cpu = 1..Cardinality(Cpu)
  /\ CpuOf \in [Worker -> Cpu] /\ \A c \in Cpu : \E t \in Worker : CpuOf[t] = c

MainThread == 1

VARIABLES
  setup,      \* the options of this behaviour
  th,         \* the status of each thread and its place in the team
  processMask, activeMask,   \* _cpuProcessMask, _cpuActiveMask
  peActive,   \* the CPUs whose processing element is active
  tmLock, pmLock, teamLock,   \* the manager's, the interface's, the team's
  nextWDs,    \* how many work descriptors wait in the queue of each thread
  queued,     \* and in the queue of the team
  moved,      \* the thread to which switchToThread() moves the caller, or 0
  num,        \* the argument of setNumThreads()
  mgrPc, tgt, back, mask,   \* per thread: its step, its arguments, its return
  calls       \* how often the program has called the runtime: a bound

tmLocks == <<tmLock, pmLock, teamLock>>
cpuMasks == <<processMask, activeMask, peActive>>
work == <<nextWDs, queued, moved>>
control == <<mgrPc, tgt, back, mask>>
tmVars == <<setup, th, cpuMasks, tmLocks, work, num, control, calls>>

-----------------------------------------------------------------------------
\* The status of one thread is the set of its flags: must_sleep, is_waiting,
\* must_leave_team, and for the team: a next team, being in it, being expected.

Flags == {"sleep", "waiting", "leave", "next", "member", "expected"}

setLeaveTeam(s) ==
  IF s \intersect {"member", "next"} = {} THEN s \union {"leave"}
  ELSE IF "waiting" \in s THEN s \ {"expected", "leave", "member"}
  ELSE (s \ {"expected"}) \union {"leave"}

\* "Only abandon team if the PE is not active"
sleep(s, isActive) ==
  IF "sleep" \in s THEN s
  ELSE IF isActive THEN s \union {"sleep"} ELSE setLeaveTeam(s \union {"sleep"})

tryWakeUp_KeepsLeave(s, team) ==
  LET awake == s \ {"sleep"} IN
  IF "member" \in s THEN IF team THEN awake \union {"expected"} ELSE awake
  ELSE IF "waiting" \in s THEN IF team THEN awake \union {"next", "expected"} ELSE awake
  ELSE (awake \ {"next"}) \union IF team THEN {"member", "expected"} ELSE {}
tryWakeUp_OnlyOrphans(s, team) ==
  LET awake == s \ {"sleep", "leave"} IN
  IF "member" \in s THEN IF "waiting" \in s THEN s \ {"leave"} ELSE awake \union {"expected"}
  ELSE IF "waiting" \in s THEN IF team THEN awake \union {"next", "expected"} ELSE awake
  ELSE (awake \ {"next"}) \union IF team THEN {"member", "expected"} ELSE {}
tryWakeUp(s, team) ==
  LET awake == s \ {"sleep", "leave"} IN
  IF "member" \in s THEN IF team THEN awake \union {"expected"} ELSE awake
  ELSE IF "waiting" \in s THEN IF team THEN awake \union {"next", "expected"} ELSE awake
  ELSE (awake \ {"next"}) \union IF team THEN {"member", "expected"} ELSE {}

leaveAndWait_Stays(s) == s \union {"waiting"}
leaveAndWait(s) ==
  (IF "leave" \in s /\ s \intersect {"member", "next"} # {} THEN s \ {"leave", "member"} ELSE s)
    \union {"waiting"}

enters(s) == "member" \notin s /\ "next" \in s

resume(s) == (s \ {"waiting"}) \union IF enters(s) THEN {"member", "expected"} ELSE {}

Set(S, f(_)) == th' = [t \in Worker |-> IF t \in S THEN f(th[t]) ELSE th[t]]

-----------------------------------------------------------------------------
isSleeping(t) == "sleep" \in th[t]
isWaiting(t) == "waiting" \in th[t]
isLeavingTeam(t) == "leave" \in th[t]
isMember(t) == "member" \in th[t]
isExpected(t) == "expected" \in th[t]

members == {t \in Worker : isMember(t)}
expected == {t \in Worker : isExpected(t)}

On(c) == {t \in Worker : CpuOf[t] = c}
getRunningThreads(c) == {t \in On(c) : ~isSleeping(t)}

hasNextWD(t) == nextWDs[t] > 0 \/ moved = t

isGreedy == Cardinality(activeMask) < Cardinality(Worker)

\* The CPU of t is the only active one of the process
LastCpu(t) == processMask \intersect activeMask = {CpuOf[t]}

lastActiveThread(t) ==
  /\ LastCpu(t)
  /\ Cardinality(getRunningThreads(CpuOf[t])) <= IF isSleeping(t) THEN 0 ELSE 1

\* A tied master keeps its CPU
WithMaster(m) == IF setup.untied THEN m ELSE m \union {CpuOf[MainThread]}

At(t, p) == mgrPc[t] = p
Goto(t, p) == mgrPc' = [mgrPc EXCEPT ![t] = p]
Stay == UNCHANGED <<tgt, back, mask>>
Arg(t, x) == tgt' = [tgt EXCEPT ![t] = x]
\* Call p with argument x and go on at b afterwards
Call(t, p, x, b) ==
  Goto(t, p) /\ Arg(t, x) /\ back' = [back EXCEPT ![t] = b] /\ UNCHANGED mask
\* Return to where the call was made from
Return(t) ==
  /\ Goto(t, back[t]) /\ back' = [back EXCEPT ![t] = "none"] /\ mask' = [mask EXCEPT ![t] = {}]
  /\ Arg(t, IF back[t] = "switch" THEN tgt[t] ELSE 0)

TMInit ==
  /\ setup \in Setups
  /\ th = [t \in Worker |-> {"member", "expected"}]
  /\ processMask = Cpu /\ activeMask = Cpu /\ peActive = Cpu
  /\ tmLock = FALSE /\ pmLock = FALSE /\ teamLock = FALSE
  /\ nextWDs = [t \in Worker |-> 0] /\ queued = 0 /\ moved = 0
  /\ num = 0
  /\ mgrPc = [t \in Worker |-> IF t = MainThread THEN "run" ELSE "idle"]
  /\ tgt = [t \in Worker |-> 0]
  /\ back = [t \in Worker |-> "none"]
  /\ mask = [t \in Worker |-> {}]
  /\ calls = 0

-----------------------------------------------------------------------------
\* The idle loop

CheckSleep(t) ==
  /\ At(t, "idle")
  /\ Goto(t, IF isSleeping(t) /\ ~lastActiveThread(t) /\ ~hasNextWD(t) THEN "wait" ELSE "look")
  /\ Stay /\ UNCHANGED <<setup, th, cpuMasks, tmLocks, work, num, calls>>

\* With a work descriptor in hand: "Trigger a wakeup if there's more WDs in the queue"
Found(t) ==
  IF isMember(t) /\ isGreedy /\ queued' > 0 THEN Call(t, "acquire", 0, "run") ELSE Goto(t, "run") /\ Stay

\* Without one the thread yields, or tries to block once it has yielded enough
Idle(t) ==
  /\ \/ Goto(t, "idle")
     \/ setup.block /\ ~isSleeping(t) /\ (t = MainThread => setup.untied) /\ Goto(t, "block")
  /\ Stay

GetWork(t) ==
  /\ At(t, "look")
  /\ \/ nextWDs[t] > 0 /\ nextWDs' = [nextWDs EXCEPT ![t] = @ - 1]
        /\ UNCHANGED <<queued, moved>> /\ Found(t)
     \/ moved = t /\ moved' = 0 /\ UNCHANGED <<nextWDs, queued>> /\ Call(t, "unblocking", t, "moved")
     \/ ~hasNextWD(t) /\ isMember(t) /\ queued > 0 /\ queued' = queued - 1
        /\ UNCHANGED <<nextWDs, moved>> /\ Found(t)
     \/ ~hasNextWD(t) /\ (isMember(t) => queued = 0) /\ UNCHANGED work /\ Idle(t)
  /\ UNCHANGED <<setup, th, cpuMasks, tmLocks, num, calls>>

BlockThread_NoCheck(t) ==
  /\ At(t, "block") /\ ~tmLock
  /\ Goto(t, "tag") /\ tmLock' = TRUE
  /\ Stay /\ UNCHANGED <<setup, th, cpuMasks, pmLock, teamLock, work, num, calls>>
\* "Do not release if this CPU is the last active within the process_mask"
BlockThread(t) ==
  /\ At(t, "block") /\ ~tmLock
  /\ IF LastCpu(t) THEN Goto(t, "idle") /\ UNCHANGED tmLock ELSE Goto(t, "tag") /\ tmLock' = TRUE
  /\ Stay /\ UNCHANGED <<setup, th, cpuMasks, pmLock, teamLock, work, num, calls>>

Tag(t) ==
  /\ At(t, "tag")
  /\ CpuOf[t] \in peActive \/ ~teamLock
  /\ Set({t}, LAMBDA s : sleep(s, CpuOf[t] \in peActive))
  /\ Call(t, "status", t, "idle")
  /\ UNCHANGED <<setup, cpuMasks, tmLocks, work, num, calls>>

updateCpuStatus(t) ==
  /\ At(t, "status")
  /\ LET c == CpuOf[tgt[t]] IN
     activeMask' = IF getRunningThreads(c) = {} THEN activeMask \ {c} ELSE activeMask \union {c}
  /\ tmLock' = FALSE
  /\ Return(t)
  /\ UNCHANGED <<setup, th, processMask, peActive, pmLock, teamLock, work, num, calls>>

\* SMPThread::wait() under its mutex; the flags may have changed since the check
WaitForWork(t) ==
  /\ At(t, "wait")
  /\ IF isSleeping(t) /\ ~hasNextWD(t)
       THEN (isLeavingTeam(t) => ~teamLock) /\ Set({t}, leaveAndWait) /\ Goto(t, "asleep")
       ELSE UNCHANGED th /\ Goto(t, "look")
  /\ Stay /\ UNCHANGED <<setup, cpuMasks, tmLocks, work, num, calls>>

\* condWait() returns, and the flag is tested again
Resume(t) ==
  /\ At(t, "asleep") /\ ~isSleeping(t)
  /\ enters(th[t]) => ~teamLock
  /\ Set({t}, resume)
  /\ Goto(t, "look")
  /\ Stay /\ UNCHANGED <<setup, cpuMasks, tmLocks, work, num, calls>>

-----------------------------------------------------------------------------
\* Waking up one thread

\* The flag of the thread is read without a lock
UnblockCheck(t) ==
  /\ At(t, "unblocking")
  /\ IF isSleeping(tgt[t]) THEN Goto(t, "unblock") /\ Stay ELSE Return(t)
  /\ UNCHANGED <<setup, th, cpuMasks, tmLocks, work, num, calls>>

UnblockThread(t) ==
  /\ At(t, "unblock") /\ ~tmLock /\ tmLock' = TRUE
  /\ Goto(t, "wake")
  /\ Stay /\ UNCHANGED <<setup, th, cpuMasks, pmLock, teamLock, work, num, calls>>

\* addExpectedThread() takes the lock of the team
Wake(t) ==
  /\ At(t, "wake") /\ (isMember(t) => ~teamLock)
  /\ Set({tgt[t]}, LAMBDA s : tryWakeUp(s, isMember(t)))
  /\ Goto(t, "status")
  /\ Stay /\ UNCHANGED <<setup, cpuMasks, tmLocks, work, num, calls>>

-----------------------------------------------------------------------------
\* Acquiring CPUs and changing the masks

\* "do not wait for a lock release if the lock is busy"
acquireOne(t) ==
  /\ At(t, "acquire")
  /\ IF tmLock \/ ~isGreedy \/ ~isMember(t) \/ processMask \subseteq activeMask
       THEN Return(t) /\ UNCHANGED tmLock
       ELSE /\ tmLock' = TRUE
            /\ mask' = [mask EXCEPT ![t] = activeMask \union {Min(processMask \ activeMask)}]
            /\ Goto(t, "assign") /\ UNCHANGED <<tgt, back>>
  /\ UNCHANGED <<setup, th, cpuMasks, pmLock, teamLock, work, num, calls>>

\* The lowest max CPUs of a mask
Lowest(S, max) == {c \in S : Cardinality({d \in S : d < c}) < max}

acquireDefaultCPUs(t) ==
  /\ At(t, "acquireAll") /\ ~tmLock
  /\ IF processMask \subseteq activeMask THEN Return(t) /\ UNCHANGED tmLock
     ELSE /\ tmLock' = TRUE
          /\ mask' = [mask EXCEPT ![t] = activeMask \union Lowest(processMask, tgt[t])]
          /\ Goto(t, "assign") /\ UNCHANGED <<tgt, back>>
  /\ UNCHANGED <<setup, th, cpuMasks, pmLock, teamLock, work, num, calls>>

setCpuActiveMask(t) ==
  /\ At(t, "assign")
  /\ activeMask' = WithMaster(mask[t])
  /\ Goto(t, "apply") /\ mask' = [mask EXCEPT ![t] = {}]
  /\ UNCHANGED <<setup, th, processMask, peActive, tmLocks, work, num, tgt, back, calls>>

\* The masks are read at every CPU, as they are by then
VisitCpu(t, c) ==
  /\ peActive' = IF c \in processMask THEN peActive \union {c} ELSE peActive \ {c}
  /\ Goto(t, IF c \in activeMask THEN "wakeUpThreads" ELSE "sleepThreads") /\ Arg(t, c)
  /\ mask' = [mask EXCEPT ![t] = IF c \in activeMask /\ ~isMember(t) THEN {} ELSE On(c)]
  /\ UNCHANGED <<tmLock, back>>

applyCpuMask(t) ==
  /\ At(t, "apply") /\ VisitCpu(t, Min(Cpu))
  /\ UNCHANGED <<setup, th, processMask, activeMask, pmLock, teamLock, work, num, calls>>

\* One thread of the CPU
WakeOrSleep(t) ==
  /\ mask[t] # {} /\ mask' = [mask EXCEPT ![t] = @ \ {Min(@)}]
  /\ \/ At(t, "wakeUpThreads") /\ ~teamLock /\ Set({Min(mask[t])}, LAMBDA s : tryWakeUp(s, TRUE))
     \/ At(t, "sleepThreads") /\ (tgt[t] \in peActive \/ ~teamLock)
        /\ Set({Min(mask[t])}, LAMBDA s : sleep(s, tgt[t] \in peActive))
  /\ UNCHANGED <<setup, cpuMasks, tmLocks, work, num, mgrPc, tgt, back, calls>>

\* The next CPU, or the end of the loop and of the critical section it is in
NextCpu(t) ==
  /\ At(t, "wakeUpThreads") \/ At(t, "sleepThreads")
  /\ mask[t] = {}
  /\ IF tgt[t] = Max(Cpu)
       THEN Return(t) /\ tmLock' = (tmLock /\ back[t] = "unlock") /\ UNCHANGED peActive
       ELSE VisitCpu(t, Min({d \in Cpu : d > tgt[t]}))
  /\ UNCHANGED <<setup, th, processMask, activeMask, pmLock, teamLock, work, num, calls>>

\* A call of the programming model interface ends
Unlock(t) ==
  /\ At(t, "unlock") /\ pmLock' = FALSE /\ num' = 0
  /\ Goto(t, "run")
  /\ Stay /\ UNCHANGED <<setup, th, cpuMasks, tmLock, teamLock, work, calls>>

-----------------------------------------------------------------------------
\* setNumThreads()

\* "Current thread does not belong to the team, switch to first team member",
\* with the lock of the team in its hands
IsStable(t) ==
  /\ At(t, "stable") /\ ~teamLock
  /\ \/ t \in expected /\ members = expected /\ Call(t, "num", Min(Worker), "unlock") /\ UNCHANGED teamLock
     \/ t \notin expected /\ teamLock' = TRUE /\ \E u \in expected : Call(t, "unblocking", u, "switch")
  /\ UNCHANGED <<setup, th, cpuMasks, tmLock, pmLock, work, num, calls>>

\* The work descriptor is tied to the other thread and queued there
SwitchToThread(t) ==
  /\ At(t, "switch")
  /\ moved' = tgt[t]
  /\ Call(t, "unblocking", tgt[t], "idle")
  /\ UNCHANGED <<setup, th, cpuMasks, tmLocks, nextWDs, queued, num, calls>>

\* and goes on there: the rest of isStable()
Switched(t) ==
  /\ At(t, "moved")
  /\ teamLock' = FALSE
  /\ Call(t, IF members = expected THEN "num" ELSE "stable", Min(Worker), "unlock")
  /\ UNCHANGED <<setup, th, cpuMasks, tmLock, pmLock, work, num, calls>>

\* One thread of the loop of updateActiveWorkers()
UpdateActiveWorkers(t) ==
  LET w == tgt[t]
      Out(s) == sleep(setLeaveTeam(s), CpuOf[w] \in peActive)
  IN
  /\ At(t, "num") /\ ~teamLock
  /\ IF w \in Lowest(Worker, num) THEN Set({w}, LAMBDA s : tryWakeUp(s, TRUE)) ELSE Set({w}, Out)
  /\ IF w = Max(Worker) THEN Return(t)
     ELSE Goto(t, "num") /\ Arg(t, Min({v \in Worker : v > w})) /\ UNCHANGED <<back, mask>>
  /\ UNCHANGED <<setup, cpuMasks, tmLocks, work, num, calls>>

-----------------------------------------------------------------------------
\* What a running work descriptor does

EndWD(t) ==
  /\ At(t, "run") /\ Goto(t, "idle")
  /\ Stay /\ UNCHANGED <<setup, th, cpuMasks, tmLocks, work, num, calls>>

\* A thread is woken up before the descriptor is queued, if there are others
SubmitWD(t) ==
  /\ IF isGreedy /\ queued > 0 THEN Call(t, "acquire", 0, "push") ELSE Goto(t, "push") /\ Stay
  /\ UNCHANGED <<cpuMasks, tmLocks, work, num>>

QueueWD(t) ==
  /\ At(t, "push") /\ queued' = queued + 1 /\ Goto(t, "run")
  /\ Stay /\ UNCHANGED <<setup, th, cpuMasks, tmLocks, nextWDs, moved, num, calls>>

addNextWD(t) ==
  \E u \in Worker \ {t} :
    /\ nextWDs' = [nextWDs EXCEPT ![u] = @ + 1]
    /\ Call(t, "unblocking", u, "run")
    /\ UNCHANGED <<cpuMasks, tmLocks, queued, moved, num>>

\* The replicate slicer
Replicate(t) ==
  /\ isGreedy /\ isMember(t)
  /\ \E max \in 1..Cardinality(Cpu) : Call(t, "acquireAll", max, "run")
  /\ UNCHANGED <<cpuMasks, tmLocks, work, num>>

enableCpu(c) == c \notin activeMask /\ activeMask' = activeMask \union {c} /\ UNCHANGED processMask
disableCpu(c) == c \in activeMask /\ activeMask' = activeMask \ {c} /\ UNCHANGED processMask
setCpuProcessMask(m) == processMask' = WithMaster(m) /\ activeMask' = WithMaster(m)
addCpuProcessMask(m) == processMask' = processMask \union m /\ activeMask' = activeMask \union m
userSetCpuActiveMask(m) == activeMask' = WithMaster(m) /\ UNCHANGED processMask
addCpuActiveMask(m) == activeMask' = activeMask \union m /\ UNCHANGED processMask

ChangeMask(t) ==
  /\ ~pmLock /\ pmLock' = TRUE
  /\ \/ \E c \in Cpu : enableCpu(c) \/ disableCpu(c)
     \/ \E m \in SUBSET Cpu \ {{}} : \/ setCpuProcessMask(m) \/ addCpuProcessMask(m)
                                     \/ userSetCpuActiveMask(m) \/ addCpuActiveMask(m)
  /\ Call(t, "apply", 0, "unlock")
  /\ UNCHANGED <<peActive, tmLock, teamLock, work, num>>

setNumThreads(t) ==
  /\ ~pmLock /\ pmLock' = TRUE
  /\ num' \in 1..Cardinality(Worker)
  /\ Goto(t, "stable")
  /\ Stay /\ UNCHANGED <<cpuMasks, tmLock, teamLock, work>>

CallRuntime(t) ==
  /\ At(t, "run") /\ calls < setup.calls /\ calls' = calls + 1
  /\ \/ "submit" \in setup.uses /\ SubmitWD(t)
     \/ "tied" \in setup.uses /\ addNextWD(t)
     \/ "replicate" \in setup.uses /\ Replicate(t)
     \/ "mask" \in setup.uses /\ ChangeMask(t)
     \/ "num" \in setup.uses /\ setNumThreads(t)
     \/ "mainNum" \in setup.uses /\ t = MainThread /\ setNumThreads(t)
  /\ UNCHANGED <<setup, th>>

ManagerStep(t) ==
  \/ CheckSleep(t) \/ GetWork(t) \/ BlockThread(t) \/ Tag(t) \/ updateCpuStatus(t)
  \/ WaitForWork(t) \/ Resume(t) \/ UnblockCheck(t) \/ UnblockThread(t) \/ Wake(t)
  \/ acquireOne(t) \/ acquireDefaultCPUs(t) \/ setCpuActiveMask(t) \/ applyCpuMask(t) \/ WakeOrSleep(t)
  \/ NextCpu(t) \/ Unlock(t)
  \/ IsStable(t) \/ SwitchToThread(t) \/ Switched(t) \/ UpdateActiveWorkers(t)
  \/ EndWD(t) \/ QueueWD(t)

TMNext == \E t \in Worker : ManagerStep(t) \/ CallRuntime(t)

\* The operating system runs every thread, and the tasks end
TMFairness == \A t \in Worker : WF_tmVars(ManagerStep(t))

TMSpec == TMInit /\ [][TMNext]_tmVars /\ TMFairness

-----------------------------------------------------------------------------
\* Where an operation of the manager may return to
Places == {"none", "idle", "run", "push", "switch", "moved", "unlock"}

Steps ==
  Places \union {"look", "block", "tag", "status", "wait", "asleep", "unblocking", "unblock", "wake",
                 "acquire", "acquireAll", "assign", "apply", "wakeUpThreads", "sleepThreads",
                 "stable", "num"}

TMTypeOK ==
  /\ th \in [Worker -> SUBSET Flags]
  /\ mgrPc \in [Worker -> Steps]
  /\ back \in [Worker -> Places]

\* Told to leave, a thread is no longer expected and will sleep; one that is
\* expected and not in the team enters it when it is resumed.
StatusInv(s) ==
  /\ "member" \in s /\ "expected" \notin s => "leave" \in s
  /\ "expected" \in s /\ "member" \notin s => {"waiting", "next"} \subseteq s
  /\ "waiting" \notin s => "member" \in s
  /\ "waiting" \in s /\ s \intersect {"member", "sleep"} = {} => "next" \in s
  /\ "leave" \in s => "sleep" \in s
  /\ "leave" \in s /\ "waiting" \notin s => "expected" \notin s

\* The team and its expected members differ only by threads on their way in or
\* out, whatever calls of the manager, of the masks and of the number of threads
\* overlap; and a thread that is not waiting is in the team, whose scheduling
\* policy it uses.
TeamInv ==
  /\ TMTypeOK
  /\ \A t \in Worker : StatusInv(th[t]) /\ (isWaiting(t) <=> At(t, "asleep"))

\* The program leaves the masks and the number of threads alone
Untouched == setup.uses \intersect {"mask", "num", "mainNum"} = {}

\* Between two operations of the manager the active CPUs are those with a
\* thread that is awake, and one of the process is left: the check of the last
\* CPU, the flag and the mask are consistent.
MaskIsTrue ==
  Untouched /\ ~tmLock =>
    /\ activeMask = {CpuOf[t] : t \in {u \in Worker : ~isSleeping(u)}}
    /\ activeMask \intersect processMask # {}

\* Work is not forgotten: what is handed to a thread is taken by it, even if it
\* was about to block when it was handed, unless its CPU or the thread is taken
\* away from the team; and what is queued is taken by someone.
WorkIsTaken ==
  /\ \A t \in Worker : nextWDs[t] > 0 ~> (nextWDs[t] = 0 \/ CpuOf[t] \notin activeMask \/ ~isExpected(t))
  /\ Untouched => (queued > 0 ~> queued = 0)

\* A thread that is told to leave the team leaves it or is called back, unless
\* it is the last active thread, which goes on as a member.
LeaversLeave ==
  \A t \in Worker : isMember(t) /\ ~isExpected(t) ~>
                      (~isMember(t) \/ isExpected(t) \/ lastActiveThread(t))
=============================================================================
