------------------------- MODULE ThreadManagerProofs -------------------------
(***************************************************************************)
(* The team of the thread manager for any number of threads and CPUs.      *)
(***************************************************************************)
EXTENDS ThreadManager, FiniteSetTheorems, WellFoundedInduction, TLAPS

\* A status in which nothing is lost
Sound(s) == s \in SUBSET Flags /\ StatusInv(s)

\* sleep() of a sound status is sound, and leaves the waiting flag alone.
LEMMA SleepSound ==
  ASSUME NEW s, Sound(s)
  PROVE  \A a \in BOOLEAN : Sound(sleep(s, a)) /\ ("waiting" \in sleep(s, a) <=> "waiting" \in s)
  BY DEF Sound, Flags, StatusInv, sleep, setLeaveTeam

\* What updateActiveWorkers() does to the threads beyond the new number:
\* setLeaveTeam() and sleep() together keep a status sound.
LEMMA OutSound ==
  ASSUME NEW s, Sound(s)
  PROVE  \A a \in BOOLEAN : /\ Sound(sleep(setLeaveTeam(s), a))
                            /\ "waiting" \in sleep(setLeaveTeam(s), a) <=> "waiting" \in s
  BY ZenonT(60) DEF Sound, Flags, StatusInv, sleep, setLeaveTeam

\* tryWakeUp() with a team keeps a status sound.
LEMMA WakeSound ==
  ASSUME NEW s, Sound(s)
  PROVE  Sound(tryWakeUp(s, TRUE)) /\ ("waiting" \in tryWakeUp(s, TRUE) <=> "waiting" \in s)
  BY DEF Sound, Flags, StatusInv, tryWakeUp

\* A thread that runs and is told to sleep may wait.
LEMMA WaitSound ==
  ASSUME NEW s, Sound(s), "sleep" \in s, "waiting" \notin s
  PROVE  Sound(leaveAndWait(s)) /\ "waiting" \in leaveAndWait(s)
  BY DEF Sound, Flags, StatusInv, leaveAndWait

\* A thread that waits and has been woken up may resume.
LEMMA ResumeSound ==
  ASSUME NEW s, Sound(s), "sleep" \notin s, "waiting" \in s
  PROVE  Sound(resume(s)) /\ "waiting" \notin resume(s)
  BY DEF Sound, Flags, StatusInv, resume, enters

-----------------------------------------------------------------------------
\* No thread falls asleep or is resumed
Quiet ==
  /\ mgrPc' \in [Worker -> Steps] /\ back' \in [Worker -> Places]
  /\ \A u \in Worker : mgrPc'[u] = "asleep" <=> mgrPc[u] = "asleep"

\* Every status stays sound, and whether its thread waits stays as it is
Kept ==
  /\ th' \in [Worker -> SUBSET Flags]
  /\ \A u \in Worker : StatusInv(th'[u]) /\ ("waiting" \in th'[u] <=> "waiting" \in th[u])

\* A step that keeps both keeps the invariant.
LEMMA QuietKept ==
  ASSUME TeamInv, Quiet, Kept
  PROVE  TeamInv'
  BY DEF TeamInv, TMTypeOK, Quiet, Kept, Places, isWaiting, At

\* A step that changes no status keeps them all.
LEMMA SameKept ==
  ASSUME TeamInv, UNCHANGED th
  PROVE  Kept
  BY DEF TeamInv, TMTypeOK, Kept

\* The statuses of a team with the invariant are sound.
LEMMA AllSound ==
  ASSUME TeamInv, NEW u \in Worker
  PROVE  Sound(th[u])
  BY DEF TeamInv, TMTypeOK, Sound

\* The idle loop and what a work descriptor does, up to the calls they make,
\* change no status.
LEMMA LoopQuiet ==
  ASSUME TeamInv, NEW t \in Worker, CheckSleep(t) \/ GetWork(t) \/ EndWD(t) \/ QueueWD(t) \/ CallRuntime(t)
  PROVE  Quiet /\ UNCHANGED th
<1> USE DEF TeamInv, TMTypeOK, Quiet, At, Goto, Stay, Steps, Places
<1>1. CASE CheckSleep(t)
  BY <1>1 DEF CheckSleep
<1>2. CASE GetWork(t)
  BY <1>2 DEF GetWork, Found, Idle, Call
<1>3. CASE EndWD(t)
  BY <1>3 DEF EndWD
<1>4. CASE QueueWD(t)
  BY <1>4 DEF QueueWD
<1>5. CASE CallRuntime(t)
  BY Zenon, <1>5 DEF CallRuntime, SubmitWD, addNextWD, Replicate, ChangeMask, setNumThreads, Call
<1> QED BY <1>1, <1>2, <1>3, <1>4, <1>5

\* The steps of the manager and of the interface that take locks, write masks,
\* call and return change no status either, and no caller returns to the wait.
LEMMA ManagerQuiet ==
  ASSUME TeamInv, NEW t \in Worker,
         \/ BlockThread(t) \/ updateCpuStatus(t) \/ UnblockCheck(t) \/ UnblockThread(t)
         \/ acquireOne(t) \/ acquireDefaultCPUs(t) \/ setCpuActiveMask(t) \/ applyCpuMask(t)
         \/ NextCpu(t) \/ Unlock(t) \/ IsStable(t) \/ SwitchToThread(t) \/ Switched(t)
  PROVE  Quiet /\ UNCHANGED th
<1> USE DEF TeamInv, TMTypeOK, Quiet, At, Goto, Stay, Steps, Places
<1>1. CASE BlockThread(t)
  BY <1>1 DEF BlockThread
<1>2. CASE updateCpuStatus(t)
  BY <1>2 DEF updateCpuStatus, Return
<1>3. CASE UnblockCheck(t)
  BY <1>3 DEF UnblockCheck, Return
<1>4. CASE UnblockThread(t)
  BY <1>4 DEF UnblockThread
<1>5. CASE acquireOne(t)
  BY <1>5 DEF acquireOne, Return
<1>6. CASE acquireDefaultCPUs(t)
  BY <1>6 DEF acquireDefaultCPUs, Return
<1>7. CASE setCpuActiveMask(t)
  BY <1>7 DEF setCpuActiveMask
<1>8. CASE applyCpuMask(t)
  BY <1>8 DEF applyCpuMask, VisitCpu
<1>9. CASE NextCpu(t)
  BY <1>9 DEF NextCpu, VisitCpu, Return
<1>10. CASE Unlock(t)
  BY <1>10 DEF Unlock
<1>11. CASE IsStable(t)
  BY <1>11 DEF IsStable, Call
<1>12. CASE SwitchToThread(t)
  BY <1>12 DEF SwitchToThread, Call
<1>13. CASE Switched(t)
  BY <1>13 DEF Switched, Call
<1> QED BY Zenon, <1>1, <1>2, <1>3, <1>4, <1>5, <1>6, <1>7, <1>8, <1>9, <1>10, <1>11, <1>12, <1>13

\* Telling threads to sleep and waking them up keeps every status sound: the
\* caller is in the team, since it is not waiting.
LEMMA FlagsKept ==
  ASSUME TeamInv, NEW t \in Worker, Tag(t) \/ Wake(t) \/ WakeOrSleep(t) \/ UpdateActiveWorkers(t)
  PROVE  Quiet /\ Kept
<1>1. CASE Tag(t)
  <2>1. Quiet
    BY Zenon, <1>1 DEF Tag, Call, TeamInv, TMTypeOK, Quiet, At, Goto, Steps, Places
  <2>2. Kept
    BY Zenon, <1>1, AllSound, SleepSound DEF Tag, Set, Kept, Sound, sleep
  <2> QED BY <2>1, <2>2
<1>2. CASE Wake(t)
  <2>1. Quiet
    BY <1>2 DEF Wake, Stay, TeamInv, TMTypeOK, Quiet, At, Goto, Steps, Places
  <2>2. isMember(t) = TRUE
    BY <1>2 DEF Wake, TeamInv, StatusInv, At, isWaiting, isMember
  <2>3. Kept
    BY Zenon, <1>2, <2>2, AllSound, WakeSound DEF Wake, Set, Kept, Sound
  <2> QED BY <2>1, <2>3
<1>3. CASE WakeOrSleep(t)
  <2>1. Quiet
    BY <1>3 DEF WakeOrSleep, TeamInv, TMTypeOK, Quiet
  <2>2. Kept
    <3>1. CASE Set({Min(mask[t])}, LAMBDA s : tryWakeUp(s, TRUE))
      BY Zenon, <3>1, AllSound, WakeSound DEF Set, Kept, Sound
    <3>2. CASE Set({Min(mask[t])}, LAMBDA s : sleep(s, tgt[t] \in peActive))
      BY Zenon, <3>2, AllSound, SleepSound DEF Set, Kept, Sound, sleep
    <3> QED BY <1>3, <3>1, <3>2 DEF WakeOrSleep
  <2> QED BY <2>1, <2>2
<1>4. CASE UpdateActiveWorkers(t)
  <2>1. Quiet
    BY <1>4 DEF UpdateActiveWorkers, Return, TeamInv, TMTypeOK, Quiet, At, Goto, Steps, Places
  <2>2. Kept
    <3>1. CASE Set({tgt[t]}, LAMBDA s : tryWakeUp(s, TRUE))
      BY Zenon, <3>1, AllSound, WakeSound DEF Set, Kept, Sound
    <3>2. CASE Set({tgt[t]}, LAMBDA s : sleep(setLeaveTeam(s), CpuOf[tgt[t]] \in peActive))
      BY Zenon, <3>2, AllSound, OutSound DEF Set, Kept, Sound, sleep
    <3> QED BY <1>4, <3>1, <3>2 DEF UpdateActiveWorkers
  <2> QED BY <2>1, <2>2
<1> QED BY <1>1, <1>2, <1>3, <1>4

\* A thread that begins to wait and one that resumes keep the invariant.
LEMMA WaitKept ==
  ASSUME TeamInv, NEW t \in Worker, WaitForWork(t) \/ Resume(t)
  PROVE  TeamInv'
<1>1. CASE WaitForWork(t) /\ UNCHANGED th /\ Goto(t, "look")
  BY <1>1 DEF WaitForWork, Stay, TeamInv, TMTypeOK, Goto, At, Steps, Places, isWaiting
<1>2. CASE WaitForWork(t) /\ Set({t}, leaveAndWait) /\ Goto(t, "asleep") /\ isSleeping(t)
  <2>1. Sound(leaveAndWait(th[t])) /\ "waiting" \in leaveAndWait(th[t])
    BY Zenon, <1>2, AllSound, WaitSound DEF WaitForWork, TeamInv, At, isWaiting, isSleeping
  <2> QED BY <1>2, <2>1 DEF WaitForWork, Stay, Set, Sound, TeamInv, TMTypeOK, Goto, At, Steps, Places, isWaiting
<1>3. CASE Resume(t)
  <2>1. Sound(resume(th[t])) /\ "waiting" \notin resume(th[t])
    BY Zenon, <1>3, AllSound, ResumeSound DEF Resume, TeamInv, At, isWaiting, isSleeping
  <2> QED BY Zenon, <1>3, <2>1 DEF Resume, Stay, Set, Sound, TeamInv, TMTypeOK, Goto, At, Steps, Places, isWaiting
<1> QED BY <1>1, <1>2, <1>3 DEF WaitForWork

\* The team and its expected members differ only by threads on their way in or
\* out (blockThread(), unblockThread(), applyCpuMask(), updateActiveWorkers(),
\* SMPThread::wait()), for any threads, CPUs, options and program.
THEOREM TeamMembership == TMSpec => []TeamInv
<1>1. TMInit => TeamInv
  BY DEF TMInit, TeamInv, TMTypeOK, StatusInv, Flags, Steps, Places, isWaiting, At
<1>2. TeamInv /\ [TMNext]_tmVars => TeamInv'
  <2> SUFFICES ASSUME TeamInv, [TMNext]_tmVars PROVE TeamInv'
    OBVIOUS
  <2>1. CASE UNCHANGED tmVars
    BY <2>1 DEF tmVars, control, TeamInv, TMTypeOK, isWaiting, At
  <2>2. ASSUME NEW t \in Worker, ManagerStep(t) \/ CallRuntime(t)
        PROVE  TeamInv'
    BY <2>2, LoopQuiet, ManagerQuiet, FlagsKept, WaitKept, QuietKept, SameKept DEF ManagerStep
  <2> QED BY <2>1, <2>2 DEF TMNext
<1> QED BY <1>1, <1>2, PTL DEF TMSpec

-----------------------------------------------------------------------------
\* The active mask

\* The CPUs with a thread that is awake
AwakeCpus == {CpuOf[t] : t \in {u \in Worker : ~isSleeping(u)}}

\* The steps under the lock of the manager, and those of the calls that Untouched rules out
Holding == {"tag", "status", "wake", "assign", "apply", "wakeUpThreads", "sleepThreads"}
Foreign == {"stable", "num", "switch", "moved", "unlock"}

\* What a program that leaves the masks alone cannot disturb
AloneInv ==
  /\ processMask = Cpu /\ moved = 0 /\ tmLock \in BOOLEAN /\ activeMask \subseteq Cpu
  /\ mask \in [Worker -> SUBSET Nat] /\ tgt \in [Worker -> Nat]
  /\ \A t \in Worker : /\ mgrPc[t] \notin Foreign /\ back[t] \notin Foreign
                       /\ mgrPc[t] \in {"unblocking", "unblock", "wake", "status"}
                            => tgt[t] \in Worker

\* The lock has one holder
LockInv ==
  /\ tmLock <=> \E t \in Worker : mgrPc[t] \in Holding
  /\ \A t, u \in Worker : mgrPc[t] \in Holding /\ mgrPc[u] \in Holding => t = u

\* How far the mask and the flags have drifted apart at each step of the holder.
\* The loop of applyCpuMask() has woken up the threads it has passed.
HolderInv(t) ==
  /\ mgrPc[t] \in {"tag", "wake", "assign"} => activeMask = AwakeCpus
  /\ mgrPc[t] = "tag" => activeMask # {CpuOf[t]}
  /\ mgrPc[t] = "assign" => activeMask \subseteq mask[t] /\ mask[t] \subseteq Cpu
  /\ mgrPc[t] = "status" =>
       activeMask \ {CpuOf[tgt[t]]} = AwakeCpus \ {CpuOf[tgt[t]]}
  /\ mgrPc[t] \in {"apply", "wakeUpThreads", "sleepThreads"} => AwakeCpus \subseteq activeMask
  /\ mgrPc[t] \in {"wakeUpThreads", "sleepThreads"} =>
       /\ tgt[t] \in Cpu /\ mask[t] \subseteq On(tgt[t])
       /\ mgrPc[t] = "wakeUpThreads" <=> tgt[t] \in activeMask
       /\ \A u \in Worker :
            /\ CpuOf[u] \in activeMask /\ CpuOf[u] <= tgt[t] /\ u \notin mask[t]
            => ~isSleeping(u)

MaskInv ==
  Untouched =>
    /\ AloneInv /\ LockInv
    /\ AwakeCpus # {}
    /\ ~tmLock => activeMask = AwakeCpus
    /\ \A t \in Worker : HolderInv(t)

\* A set of natural numbers has a least one.
LEMMA MinIn ==
  ASSUME NEW S \in SUBSET Nat, S # {}
  PROVE  Min(S) \in S /\ \A y \in S : Min(S) <= y
<1>1. PICK x \in S : \A y \in S : ~(<<y, x>> \in OpToRel(<, Nat))
  BY Zenon, NatLessThanWellFounded, WFMin
<1>2. ASSUME NEW y \in S PROVE x <= y
  <2>0. x \in Nat /\ y \in Nat
    OBVIOUS
  <2>1. <<y, x>> \notin OpToRel(<, Nat)
    BY Zenon, <1>1
  <2>2. ~(y < x)
    <3> SUFFICES ASSUME y < x PROVE <<y, x>> \in OpToRel(<, Nat)
      BY Zenon, <2>1
    <3> QED
      BY <2>0 DEF OpToRel
  <2> QED
    BY <2>0, <2>2
<1> QED
  BY Zenon, <1>2 DEF Min

\* Numbers that differ are strictly ordered.
LEMMA StrictlyBelow ==
  ASSUME NEW a \in Nat, NEW b \in Nat, a <= b, a # b
  PROVE  a < b
  OBVIOUS

\* The threads and the CPUs are numbered from one.
LEMMA Numbered ==
  /\ Worker \subseteq Nat \ {0} /\ MainThread \in Worker
  /\ Cpu \subseteq Nat /\ Cpu # {} /\ Max(Cpu) \in Cpu /\ \A c \in Cpu : c <= Max(Cpu)
  /\ \A c \in Cpu : On(c) \subseteq Worker /\ On(c) # {}
<1>1. PICK n \in Nat, m \in Nat : Worker = 1..n /\ Cpu = 1..m
  BY WorkerAssumption, FS_CardinalityType
<1>2. Worker # {} /\ Cpu # {}
  BY WorkerAssumption
<1>3. Max(Cpu) \in Cpu /\ \A c \in Cpu : c <= Max(Cpu)
  <2>1. m \in Cpu /\ \A c \in Cpu : m >= c
    BY <1>1, <1>2
  <2> QED
    BY Zenon, <1>1, <2>1 DEF Max
<1>4. Worker \subseteq Nat \ {0} /\ MainThread \in Worker /\ Cpu \subseteq Nat
  BY <1>1, <1>2 DEF MainThread
<1>5. \A c \in Cpu : On(c) \subseteq Worker /\ On(c) # {}
  BY WorkerAssumption DEF On
<1> QED
  BY <1>2, <1>3, <1>4, <1>5

\* The loop over the CPUs goes on at the next one, and skips none.
LEMMA NextUp ==
  ASSUME NEW c \in Cpu, c # Max(Cpu)
  PROVE  LET d == Min({e \in Cpu : e > c}) IN
         d \in Cpu /\ c < d /\ \A e \in Cpu : e < d => e <= c
<1>0. Cpu \subseteq Nat /\ Max(Cpu) \in Cpu /\ c <= Max(Cpu)
  BY Numbered
<1>1. {e \in Cpu : e > c} \in SUBSET Nat /\ Max(Cpu) \in {e \in Cpu : e > c}
  <2>1. PICK m : m = Max(Cpu)
    OBVIOUS
  <2>2. m \in Cpu /\ m \in Nat /\ c \in Nat /\ c <= m /\ c # m
    BY Zenon, <1>0, <2>1
  <2>3. m > c
    BY <2>2
  <2> QED
    BY Zenon, <1>0, <2>1, <2>2, <2>3
<1>2. /\ Min({e \in Cpu : e > c}) \in {e \in Cpu : e > c}
      /\ \A e \in {f \in Cpu : f > c} : Min({f \in Cpu : f > c}) <= e
  BY <1>1, MinIn
<1> DEFINE d == Min({e \in Cpu : e > c})
<1>3. d \in Cpu /\ d > c /\ \A e \in Cpu : e > c => d <= e
  BY <1>2
<1> HIDE DEF d
<1>4. \A e \in Cpu : e < d => e <= c
  BY <1>0, <1>3
<1>5. c < d
  BY <1>0, <1>3
<1> QED
  BY <1>3, <1>4, <1>5 DEF d

\* Who is awake depends on the flags of the threads alone.
LEMMA AwakeSame ==
  ASSUME \A u \in Worker : "sleep" \in th'[u] <=> "sleep" \in th[u]
  PROVE  AwakeCpus' = AwakeCpus
  BY DEF AwakeCpus, isSleeping

\* A step of t that touches nothing of the other threads and stays within what a program
\* that leaves the masks alone does
OneStep(t) ==
  /\ UNCHANGED <<setup, processMask>> /\ moved' = 0
  /\ mask' \in [Worker -> SUBSET Nat] /\ tgt' \in [Worker -> Nat]
  /\ \A u \in Worker \ {t} : /\ mgrPc'[u] = mgrPc[u] /\ back'[u] = back[u]
                             /\ tgt'[u] = tgt[u] /\ mask'[u] = mask[u]
  /\ mgrPc'[t] \notin Foreign /\ back'[t] \notin Foreign
  /\ mgrPc'[t] \in {"unblocking", "unblock", "wake", "status"} => tgt'[t] \in Worker

\* A step outside the lock keeps what the lock protects.
LEMMA OutsideLock ==
  ASSUME Untouched, MaskInv, NEW t \in Worker, OneStep(t), UNCHANGED <<tmLock, activeMask>>,
         \A u \in Worker : "sleep" \in th'[u] <=> "sleep" \in th[u],
         mgrPc[t] \notin Holding, mgrPc'[t] \notin Holding
  PROVE  MaskInv'
<1>1. /\ AloneInv /\ LockInv /\ AwakeCpus # {} /\ (~tmLock => activeMask = AwakeCpus)
      /\ \A u \in Worker : HolderInv(u)
  BY DEF MaskInv
<1>2. AwakeCpus' = AwakeCpus /\ \A u \in Worker : isSleeping(u)' <=> isSleeping(u)
  BY AwakeSame DEF isSleeping
<1>3. AloneInv'
  BY <1>1 DEF OneStep, AloneInv
<1>4. LockInv'
  BY <1>1 DEF OneStep, LockInv
<1>5. ASSUME NEW u \in Worker PROVE HolderInv(u)'
  <2>1. CASE u = t
    BY Zenon, <2>1 DEF HolderInv, Holding
  <2>2. CASE u # t
    BY Zenon, <1>1, <1>2, <2>2 DEF OneStep, HolderInv, On
  <2> QED
    BY Zenon, <2>1, <2>2
<1> QED
  BY <1>1, <1>2, <1>3, <1>4, <1>5 DEF MaskInv

\* A step of the holder of the lock, or one that takes it, is alone with the mask.
LEMMA InsideLock ==
  ASSUME Untouched, MaskInv, NEW t \in Worker, OneStep(t),
         mgrPc[t] \in Holding \/ ~tmLock, tmLock' \in BOOLEAN,
         tmLock' <=> mgrPc'[t] \in Holding,
         activeMask' \subseteq Cpu, AwakeCpus' # {},
         HolderInv(t)', mgrPc'[t] \notin Holding => activeMask' = AwakeCpus'
  PROVE  MaskInv'
<1>1. AloneInv /\ LockInv
  BY Zenon DEF MaskInv
<1>2. \A u \in Worker \ {t} : mgrPc'[u] \notin Holding
  BY <1>1 DEF OneStep, LockInv
<1>3. AloneInv'
  BY <1>1 DEF OneStep, AloneInv
<1>4. LockInv'
  BY <1>1, <1>2 DEF LockInv
<1>5. ASSUME NEW u \in Worker PROVE HolderInv(u)'
  <2>1. u # t => mgrPc'[u] \notin Holding
    BY Zenon, <1>2
  <2>2. mgrPc'[u] \notin Holding => HolderInv(u)'
    BY Zenon DEF HolderInv, Holding
  <2> QED
    BY Zenon, <2>1, <2>2
<1> QED
  BY <1>3, <1>4, <1>5 DEF MaskInv

\* The idle loop, the calls of a work descriptor and the checks made without the lock.
LEMMA MaskOutside ==
  ASSUME Untouched, TeamInv, MaskInv, NEW t \in Worker,
         \/ CheckSleep(t) \/ GetWork(t) \/ WaitForWork(t) \/ Resume(t) \/ UnblockCheck(t)
         \/ EndWD(t) \/ QueueWD(t) \/ CallRuntime(t)
  PROVE  MaskInv'
<1>1. /\ AloneInv /\ mgrPc \in [Worker -> Steps] /\ back \in [Worker -> Places]
      /\ th \in [Worker -> SUBSET Flags] /\ Worker \subseteq Nat \ {0} /\ back[t] \notin Foreign
  BY Numbered DEF MaskInv, TeamInv, TMTypeOK, AloneInv
<1> USE DEF At, Goto, Stay, Call, Return, Arg, Foreign, Holding
<1>2. CASE CheckSleep(t) \/ EndWD(t) \/ QueueWD(t)
  <2>1. OneStep(t) /\ mgrPc[t] \notin Holding /\ mgrPc'[t] \notin Holding
    BY <1>1, <1>2 DEF CheckSleep, EndWD, QueueWD, OneStep, AloneInv, cpuMasks, work
  <2> QED
    BY Zenon, <1>2, <2>1, OutsideLock DEF CheckSleep, EndWD, QueueWD, cpuMasks, tmLocks
<1>3. CASE GetWork(t)
  <2>1. moved = 0 /\ moved # t
    BY Zenon, <1>1 DEF AloneInv
  <2>2. /\ UNCHANGED <<setup, processMask>> /\ moved' = 0 /\ mgrPc[t] = "look"
        /\ \/ \E p \in {"run", "idle", "block"} : Goto(t, p) /\ Stay
           \/ Call(t, "acquire", 0, "run")
    BY Zenon, <1>3, <2>1 DEF GetWork, Found, Idle, cpuMasks, work
  <2>3. OneStep(t) /\ mgrPc[t] \notin Holding /\ mgrPc'[t] \notin Holding
    BY <1>1, <2>2 DEF OneStep, AloneInv
  <2> QED
    BY Zenon, <1>3, <2>3, OutsideLock DEF GetWork, cpuMasks, tmLocks
<1>4. CASE UnblockCheck(t)
  <2>1. OneStep(t) /\ mgrPc[t] \notin Holding /\ mgrPc'[t] \notin Holding
    BY <1>1, <1>4 DEF UnblockCheck, OneStep, AloneInv, cpuMasks, work, Places
  <2> QED
    BY Zenon, <1>4, <2>1, OutsideLock DEF UnblockCheck, cpuMasks, tmLocks
<1>5. CASE WaitForWork(t) \/ Resume(t)
  <2>1. OneStep(t) /\ mgrPc[t] \notin Holding /\ mgrPc'[t] \notin Holding
    BY <1>1, <1>5 DEF WaitForWork, Resume, OneStep, AloneInv, cpuMasks, work
  <2>2. \A u \in Worker : "sleep" \in th'[u] <=> "sleep" \in th[u]
    BY <1>1, <1>5 DEF WaitForWork, Resume, Set, leaveAndWait, resume
  <2> QED
    BY Zenon, <1>5, <2>1, <2>2, OutsideLock DEF WaitForWork, Resume, cpuMasks, tmLocks
<1>6. CASE CallRuntime(t)
  <2>1. UNCHANGED <<setup, th>> /\ (SubmitWD(t) \/ addNextWD(t) \/ Replicate(t)) /\ At(t, "run")
    BY Zenon, <1>6 DEF CallRuntime, Untouched
  <2>2. OneStep(t) /\ mgrPc[t] \notin Holding /\ mgrPc'[t] \notin Holding
    <3>1. CASE SubmitWD(t)
      BY <1>1, <2>1, <3>1 DEF SubmitWD, OneStep, AloneInv, cpuMasks, work
    <3>2. CASE addNextWD(t)
      BY <1>1, <2>1, <3>2 DEF addNextWD, OneStep, AloneInv, cpuMasks, work
    <3>3. CASE Replicate(t)
      <4>1. Cardinality(Cpu) \in Nat
        BY WorkerAssumption, FS_CardinalityType
      <4> QED
        BY <1>1, <2>1, <3>3, <4>1 DEF Replicate, OneStep, AloneInv, cpuMasks, work
    <3> QED
      BY Zenon, <2>1, <3>1, <3>2, <3>3
  <2> QED
    BY Zenon, <2>1, <2>2, OutsideLock DEF SubmitWD, addNextWD, Replicate, cpuMasks, tmLocks
<1> QED
  BY <1>2, <1>3, <1>4, <1>5, <1>6

\* The steps that take the lock, or give up.
LEMMA MaskTakesLock ==
  ASSUME Untouched, TeamInv, MaskInv, NEW t \in Worker,
         BlockThread(t) \/ UnblockThread(t) \/ acquireOne(t) \/ acquireDefaultCPUs(t)
  PROVE  MaskInv'
<1>1. /\ AloneInv /\ LockInv /\ mgrPc \in [Worker -> Steps] /\ back \in [Worker -> Places]
      /\ back[t] \notin Foreign /\ Cpu \subseteq Nat /\ AwakeCpus # {}
      /\ (~tmLock => activeMask = AwakeCpus)
      /\ processMask = Cpu /\ activeMask \subseteq Cpu
  BY Zenon, Numbered DEF MaskInv, TeamInv, TMTypeOK, AloneInv
<1>2. UNCHANGED <<th, activeMask, setup, processMask, moved>>
  BY Zenon DEF BlockThread, UnblockThread, acquireOne, acquireDefaultCPUs, cpuMasks, work
<1>3. AwakeCpus' = AwakeCpus
  BY Zenon, <1>2, AwakeSame
<1>4. CASE tmLock' = tmLock /\ ~UnblockThread(t)
  <2>1. OneStep(t) /\ mgrPc[t] \notin Holding /\ mgrPc'[t] \notin Holding
    <3>1. CASE BlockThread(t)
      BY Zenon, <1>1, <1>2, <1>4, <3>1 DEF BlockThread, At, Goto, Stay, OneStep, AloneInv, Holding,
         Foreign
    <3>2. CASE acquireOne(t) \/ acquireDefaultCPUs(t)
      <4>1. Return(t) /\ mgrPc[t] \in {"acquire", "acquireAll"}
        BY Zenon, <1>1, <1>4, <3>2 DEF acquireOne, acquireDefaultCPUs, At, AloneInv
      <4> QED
        BY Zenon, <1>1, <1>2, <4>1 DEF Return, Goto, Arg, OneStep, AloneInv, Holding, Foreign, Places
    <3> QED
      BY Zenon, <1>4, <3>1, <3>2
  <2> QED
    BY Zenon, <1>2, <1>4, <2>1, OutsideLock
<1>5. CASE BlockThread(t) /\ tmLock' # tmLock
  <2>1. /\ Goto(t, "tag") /\ Stay /\ ~tmLock /\ tmLock' = TRUE
        /\ activeMask # {CpuOf[t]}
    BY Zenon, <1>1, <1>5 DEF BlockThread, LastCpu
  <2>2. OneStep(t) /\ mgrPc'[t] = "tag"
    BY <1>1, <1>2, <2>1 DEF Goto, Stay, OneStep, AloneInv, Foreign
  <2>3. HolderInv(t)'
    BY Zenon, <1>1, <1>2, <1>3, <2>1, <2>2 DEF HolderInv
  <2> QED
    BY Zenon, <1>1, <1>2, <1>3, <2>1, <2>2, <2>3, InsideLock DEF Holding
<1>6. CASE UnblockThread(t)
  <2>1. At(t, "unblock") /\ Goto(t, "wake") /\ Stay /\ ~tmLock /\ tmLock' = TRUE
    BY <1>6 DEF UnblockThread
  <2>2. OneStep(t) /\ mgrPc'[t] = "wake"
    BY Zenon, <1>1, <1>2, <2>1 DEF At, Goto, Stay, OneStep, AloneInv, Foreign
  <2>3. HolderInv(t)'
    BY Zenon, <1>1, <1>2, <1>3, <2>1, <2>2 DEF HolderInv
  <2> QED
    BY <1>1, <1>2, <1>3, <2>1, <2>2, <2>3, InsideLock DEF Holding
<1>7. CASE (acquireOne(t) \/ acquireDefaultCPUs(t)) /\ tmLock' # tmLock
  <2>1. /\ Goto(t, "assign") /\ UNCHANGED <<tgt, back>> /\ ~tmLock /\ tmLock' = TRUE
        /\ \E m \in SUBSET Cpu :
             activeMask \subseteq m /\ mask' = [mask EXCEPT ![t] = m]
    <3>1. CASE acquireOne(t)
      <4>1. ~(processMask \subseteq activeMask)
        BY Zenon, <1>7, <3>1 DEF acquireOne
      <4>2. Min(processMask \ activeMask) \in Cpu
        BY <1>1, <4>1, MinIn
      <4>3. activeMask \union {Min(processMask \ activeMask)} \in SUBSET Cpu
        BY Zenon, <1>1, <4>2
      <4> QED
        BY Zenon, <1>7, <3>1, <4>3 DEF acquireOne
    <3>2. CASE acquireDefaultCPUs(t)
      <4>1. activeMask \union Lowest(processMask, tgt[t]) \in SUBSET Cpu
        BY Zenon, <1>1 DEF Lowest
      <4> QED
        BY Zenon, <1>7, <3>2, <4>1 DEF acquireDefaultCPUs
    <3> QED
      BY Zenon, <1>7, <3>1, <3>2
  <2>2. PICK m \in SUBSET Cpu : activeMask \subseteq m /\ mask' = [mask EXCEPT ![t] = m]
    BY Zenon, <2>1
  <2>3. OneStep(t) /\ mgrPc'[t] = "assign" /\ mask'[t] = m
    BY <1>1, <1>2, <2>1, <2>2 DEF Goto, OneStep, AloneInv, Foreign
  <2>4. HolderInv(t)'
    BY Zenon, <1>1, <1>2, <1>3, <2>1, <2>2, <2>3 DEF HolderInv
  <2> QED
    BY <1>1, <1>2, <1>3, <2>1, <2>3, <2>4, InsideLock DEF Holding
<1> QED
  BY Zenon, <1>4, <1>5, <1>6, <1>7

\* Tagging a thread or waking it up under the lock changes the flag of one thread.
LEMMA MaskTags ==
  ASSUME Untouched, TeamInv, MaskInv, NEW t \in Worker, Tag(t) \/ Wake(t)
  PROVE  MaskInv'
<1>1. /\ AloneInv /\ LockInv /\ mgrPc \in [Worker -> Steps] /\ back \in [Worker -> Places]
      /\ back[t] \notin Foreign /\ AwakeCpus # {} /\ HolderInv(t) /\ t \in Nat
      /\ mgrPc[t] \in {"tag", "wake"} /\ activeMask = AwakeCpus /\ tmLock
  BY Numbered DEF MaskInv, TeamInv, TMTypeOK, AloneInv, Tag, Wake, At, HolderInv, LockInv, Holding
<1>2. UNCHANGED <<activeMask, setup, processMask, moved, tmLock>>
  BY DEF Tag, Wake, cpuMasks, work, tmLocks
<1>3. PICK v \in Worker :
        /\ OneStep(t) /\ mgrPc'[t] = "status" /\ tgt'[t] = v
        /\ \A u \in Worker \ {v} : "sleep" \in th'[u] <=> "sleep" \in th[u]
        /\ "sleep" \in th'[v] => v = t /\ activeMask # {CpuOf[t]}
  <2>1. CASE Tag(t)
    <3>1. OneStep(t) /\ mgrPc'[t] = "status" /\ tgt'[t] = t
      BY <1>1, <1>2, <2>1 DEF Tag, Call, Goto, Arg, OneStep, AloneInv, Foreign
    <3> QED
      BY Zenon, <1>1, <2>1, <3>1 DEF Tag, At, Set, HolderInv
  <2>2. CASE Wake(t)
    <3>1. OneStep(t) /\ mgrPc'[t] = "status" /\ tgt'[t] = tgt[t] /\ tgt[t] \in Worker
      BY Zenon, <1>1, <1>2, <2>2 DEF Wake, At, Stay, Goto, OneStep, AloneInv, Foreign
    <3>2. "sleep" \notin tryWakeUp(th[tgt[t]], isMember(t))
      BY Zenon DEF tryWakeUp
    <3> QED
      BY Zenon, <2>2, <3>1, <3>2 DEF Wake, Set
  <2> QED
    BY Zenon, <2>1, <2>2
<1>4. AwakeCpus' \ {CpuOf[v]} = AwakeCpus \ {CpuOf[v]}
  BY <1>3 DEF AwakeCpus, isSleeping
<1>5. AwakeCpus' # {}
  <2>1. CASE "sleep" \in th'[v]
    BY <1>1, <1>3, <1>4, <2>1
  <2>2. CASE "sleep" \notin th'[v]
    BY Zenon, <2>2 DEF AwakeCpus, isSleeping
  <2> QED
    BY <2>1, <2>2
<1>6. HolderInv(t)'
  BY Zenon, <1>1, <1>2, <1>3, <1>4 DEF HolderInv
<1> QED
  BY Zenon, <1>1, <1>2, <1>3, <1>5, <1>6, InsideLock DEF Holding, AloneInv

\* updateCpuStatus() repairs the mask, and the lock is released.
LEMMA MaskUpdates ==
  ASSUME Untouched, TeamInv, MaskInv, NEW t \in Worker, updateCpuStatus(t)
  PROVE  MaskInv'
<1>1. /\ AloneInv /\ LockInv /\ mgrPc \in [Worker -> Steps] /\ back \in [Worker -> Places]
      /\ back[t] \notin Foreign /\ AwakeCpus # {} /\ HolderInv(t)
      /\ mgrPc[t] = "status" /\ tgt[t] \in Worker /\ activeMask \subseteq Cpu
  BY Zenon DEF MaskInv, TeamInv, TMTypeOK, AloneInv, updateCpuStatus, At
<1>2. UNCHANGED <<th, setup, processMask, moved>> /\ tmLock' = FALSE /\ AwakeCpus' = AwakeCpus
  BY Zenon, AwakeSame DEF updateCpuStatus, work
<1>3. PICK c \in Cpu : c = CpuOf[tgt[t]]
  BY <1>1, WorkerAssumption
<1>4. activeMask' = IF c \in AwakeCpus THEN activeMask \union {c} ELSE activeMask \ {c}
  <2>1. getRunningThreads(c) = {} <=> c \notin AwakeCpus
    BY Zenon DEF getRunningThreads, On, AwakeCpus
  <2> QED
    BY <1>3, <2>1 DEF updateCpuStatus
<1>5. activeMask \ {c} = AwakeCpus \ {c}
  BY Zenon, <1>1, <1>3 DEF HolderInv
<1>6. activeMask' = AwakeCpus
  BY Zenon, <1>4, <1>5
<1>7. OneStep(t) /\ mgrPc'[t] \notin Holding
  BY Zenon, <1>1, <1>2 DEF updateCpuStatus, Return, Goto, Arg, OneStep, AloneInv, Holding, Foreign, Places
<1>8. HolderInv(t)'
  BY Zenon, <1>7 DEF HolderInv, Holding
<1> QED
  BY Zenon, <1>1, <1>2, <1>3, <1>4, <1>6, <1>7, <1>8, InsideLock DEF Holding

\* setCpuActiveMask() adds CPUs whose threads still sleep.
LEMMA MaskAssigns ==
  ASSUME Untouched, TeamInv, MaskInv, NEW t \in Worker, setCpuActiveMask(t)
  PROVE  MaskInv'
<1>1. /\ AloneInv /\ LockInv /\ mgrPc \in [Worker -> Steps] /\ back[t] \notin Foreign
      /\ AwakeCpus # {} /\ HolderInv(t) /\ mgrPc[t] = "assign" /\ tmLock
  BY Zenon DEF MaskInv, TeamInv, TMTypeOK, AloneInv, setCpuActiveMask, At, LockInv, Holding
<1>2. /\ UNCHANGED <<th, setup, processMask, moved, tmLock, tgt, back>> /\ AwakeCpus' = AwakeCpus
      /\ activeMask' = WithMaster(mask[t]) /\ Goto(t, "apply")
      /\ mask' = [mask EXCEPT ![t] = {}]
  BY Zenon, AwakeSame DEF setCpuActiveMask, work, tmLocks
<1>3. AwakeCpus \subseteq activeMask' /\ activeMask' \subseteq Cpu
  BY Zenon, <1>1, <1>2, Numbered, WorkerAssumption DEF HolderInv, WithMaster
<1>4. OneStep(t) /\ mgrPc'[t] = "apply"
  BY <1>1, <1>2 DEF Goto, OneStep, AloneInv, Foreign
<1>5. HolderInv(t)'
  BY <1>2, <1>3, <1>4 DEF HolderInv
<1> QED
  BY Zenon, <1>1, <1>2, <1>3, <1>4, <1>5, InsideLock DEF Holding

\* The loop of applyCpuMask() comes to the CPU c after it has woken up the threads of the
\* active CPUs before it.  The caller is in the team, since it is not waiting, and so the
\* threads of c are woken up.
LEMMA MaskVisits ==
  ASSUME Untouched, TeamInv, MaskInv, NEW t \in Worker, NEW c \in Cpu, VisitCpu(t, c),
         mgrPc[t] \in {"apply", "wakeUpThreads", "sleepThreads"},
         UNCHANGED <<th, setup, processMask, activeMask, moved>>,
         \A u \in Worker : CpuOf[u] \in activeMask /\ CpuOf[u] < c => ~isSleeping(u)
  PROVE  MaskInv'
<1>1. /\ AloneInv /\ LockInv /\ mgrPc \in [Worker -> Steps] /\ back[t] \notin Foreign
      /\ AwakeCpus # {} /\ HolderInv(t) /\ tmLock /\ activeMask \subseteq Cpu
      /\ AwakeCpus \subseteq activeMask
  BY Zenon DEF MaskInv, TeamInv, TMTypeOK, AloneInv, LockInv, Holding, HolderInv
<1>2. isMember(t)
  BY Zenon DEF TeamInv, StatusInv, At, isWaiting, isMember
<1>3. /\ AwakeCpus' = AwakeCpus /\ UNCHANGED <<tmLock, back>>
      /\ Goto(t, IF c \in activeMask THEN "wakeUpThreads" ELSE "sleepThreads")
      /\ Arg(t, c) /\ mask' = [mask EXCEPT ![t] = On(c)]
  BY Zenon, <1>2, AwakeSame DEF VisitCpu
<1>4. /\ OneStep(t) /\ tgt'[t] = c /\ mask'[t] = On(c)
      /\ mgrPc'[t] \in {"wakeUpThreads", "sleepThreads"}
      /\ mgrPc'[t] = "wakeUpThreads" <=> c \in activeMask
  BY Zenon, <1>1, <1>3, Numbered DEF Goto, Arg, OneStep, AloneInv, Foreign
<1>5. ASSUME NEW u \in Worker, CpuOf[u] <= c, u \notin On(c) PROVE CpuOf[u] < c
  <2>1. CpuOf[u] \in Nat /\ c \in Nat /\ CpuOf[u] # c
    BY Zenon, <1>5, Numbered, WorkerAssumption DEF On
  <2> QED
    BY Zenon, <1>5, <2>1, StrictlyBelow
<1>6. \A u \in Worker : isSleeping(u)' <=> isSleeping(u)
  BY Zenon DEF isSleeping
<1>7. HolderInv(t)'
  BY Zenon, <1>1, <1>3, <1>4, <1>5, <1>6 DEF HolderInv, On
<1> QED
  BY Zenon, <1>1, <1>3, <1>4, <1>7, InsideLock DEF Holding

\* The loop begins at the first CPU and goes on to the next; when it ends every active CPU
\* has a thread that is awake, and the lock is released.
LEMMA MaskLoops ==
  ASSUME Untouched, TeamInv, MaskInv, NEW t \in Worker, applyCpuMask(t) \/ NextCpu(t)
  PROVE  MaskInv'
<1>1. /\ AloneInv /\ LockInv /\ mgrPc \in [Worker -> Steps] /\ back \in [Worker -> Places]
      /\ back[t] \notin Foreign /\ AwakeCpus # {} /\ HolderInv(t) /\ activeMask \subseteq Cpu
      /\ CpuOf \in [Worker -> Cpu] /\ Cpu \subseteq Nat
  BY Zenon, Numbered, WorkerAssumption DEF MaskInv, TeamInv, TMTypeOK, AloneInv
<1>2. UNCHANGED <<th, setup, processMask, activeMask, moved>>
  BY Zenon DEF applyCpuMask, NextCpu, work
<1>3. CASE applyCpuMask(t)
  <2>1. PICK c : c = Min(Cpu)
    OBVIOUS
  <2>2. c \in Cpu /\ \A d \in Cpu : c <= d
    BY <1>1, <2>1, Numbered, MinIn
  <2>3. \A u \in Worker : ~(CpuOf[u] < c)
    <3>1. \A d \in Cpu : d \in Nat /\ c \in Nat /\ c <= d
      BY <1>1, <2>2
    <3>2. \A d \in Cpu : ~(d < c)
      BY <3>1
    <3> QED
      BY Zenon, <1>1, <3>2
  <2> QED
    BY <1>1, <1>2, <1>3, <2>1, <2>2, <2>3, MaskVisits DEF applyCpuMask, At
<1>4. CASE NextCpu(t)
  <2>1. /\ mgrPc[t] \in {"wakeUpThreads", "sleepThreads"} /\ mask[t] = {} /\ tgt[t] \in Cpu
        /\ AwakeCpus \subseteq activeMask
        /\ \A u \in Worker : CpuOf[u] \in activeMask /\ CpuOf[u] <= tgt[t] => ~isSleeping(u)
    BY Zenon, <1>1, <1>4 DEF NextCpu, At, HolderInv
  <2>2. CASE tgt[t] = Max(Cpu)
    <3>1. Return(t) /\ tmLock' = FALSE
      BY Zenon, <1>1, <1>4, <2>2 DEF NextCpu, Foreign
    <3>2. AwakeCpus' = AwakeCpus
      BY <1>2, AwakeSame
    <3>3. activeMask \subseteq AwakeCpus
      <4> SUFFICES ASSUME NEW c \in activeMask PROVE c \in AwakeCpus
        OBVIOUS
      <4>1. PICK u \in Worker : CpuOf[u] = c
        BY <1>1, WorkerAssumption
      <4>2. ~isSleeping(u)
        BY Zenon, <1>1, <2>1, <2>2, <4>1, Numbered
      <4> QED
        BY Zenon, <4>1, <4>2 DEF AwakeCpus
    <3>4. OneStep(t) /\ mgrPc'[t] \notin Holding
      BY Zenon, <1>1, <1>2, <3>1 DEF Return, Goto, Arg, OneStep, AloneInv, Holding, Foreign, Places
    <3>5. HolderInv(t)'
      BY Zenon, <3>4 DEF HolderInv, Holding
    <3>6. /\ activeMask' = AwakeCpus' /\ AwakeCpus' # {} /\ activeMask' \subseteq Cpu
          /\ tmLock' \in BOOLEAN /\ (tmLock' <=> mgrPc'[t] \in Holding) /\ mgrPc[t] \in Holding
      BY Zenon, <1>1, <1>2, <2>1, <3>1, <3>2, <3>3, <3>4 DEF Holding
    <3> QED
      BY Zenon, <3>4, <3>5, <3>6, InsideLock
  <2>3. CASE tgt[t] # Max(Cpu)
    <3>1. PICK d \in Cpu : VisitCpu(t, d) /\ \A e \in Cpu : e < d => e <= tgt[t]
      BY Zenon, <1>4, <2>1, <2>3, NextUp DEF NextCpu
    <3>2. \A u \in Worker : CpuOf[u] \in activeMask /\ CpuOf[u] < d => ~isSleeping(u)
      BY Zenon, <1>1, <2>1, <3>1
    <3> QED
      BY Zenon, <1>2, <2>1, <3>1, <3>2, MaskVisits
  <2> QED
    BY <2>2, <2>3
<1> QED
  BY Zenon, <1>3, <1>4

\* One thread of the CPU the loop is at: on an active CPU it is woken up, on another it
\* sleeps already.
LEMMA MaskWakes ==
  ASSUME Untouched, TeamInv, MaskInv, NEW t \in Worker, WakeOrSleep(t)
  PROVE  MaskInv'
<1>1. /\ AloneInv /\ LockInv /\ mgrPc \in [Worker -> Steps] /\ back[t] \notin Foreign
      /\ AwakeCpus # {} /\ HolderInv(t) /\ activeMask \subseteq Cpu
      /\ mgrPc[t] \in {"wakeUpThreads", "sleepThreads"}
      /\ mask[t] # {} /\ mask[t] \in SUBSET Nat /\ mask[t] \subseteq On(tgt[t])
  BY Zenon DEF MaskInv, TeamInv, TMTypeOK, AloneInv, WakeOrSleep, At, HolderInv
<1>2. PICK v \in Worker : v = Min(mask[t]) /\ v \in mask[t] /\ CpuOf[v] = tgt[t]
  BY Zenon, <1>1, MinIn DEF On
<1>3. /\ UNCHANGED <<setup, processMask, activeMask, moved, tmLock, mgrPc, tgt, back>>
      /\ mask' = [mask EXCEPT ![t] = @ \ {v}]
  BY Zenon, <1>2 DEF WakeOrSleep, cpuMasks, tmLocks, work
<1>4. OneStep(t) /\ mask'[t] = mask[t] \ {v}
  BY Zenon, <1>1, <1>3 DEF OneStep, AloneInv, Foreign
<1>5. /\ \A u \in Worker \ {v} : th'[u] = th[u]
      /\ mgrPc[t] = "wakeUpThreads" => "sleep" \notin th'[v]
      /\ mgrPc[t] = "sleepThreads" => th'[v] = th[v]
  <2>1. CASE mgrPc[t] = "wakeUpThreads"
    <3>1. "sleep" \notin tryWakeUp(th[v], TRUE)
      BY DEF tryWakeUp
    <3> QED
      BY Zenon, <1>2, <2>1, <3>1 DEF WakeOrSleep, At, Set
  <2>2. CASE mgrPc[t] = "sleepThreads"
    <3>1. "sleep" \in th[v]
      BY Zenon, <1>1, <1>2, <2>2 DEF HolderInv, AwakeCpus, isSleeping
    <3> QED
      BY Zenon, <1>2, <2>2, <3>1 DEF WakeOrSleep, At, Set, sleep
  <2> QED
    BY Zenon, <1>1, <2>1, <2>2
<1>6. AwakeCpus \subseteq AwakeCpus' /\ AwakeCpus' \subseteq activeMask
  <2>1. AwakeCpus \subseteq AwakeCpus'
    BY Zenon, <1>1, <1>5 DEF AwakeCpus, isSleeping
  <2>2. ASSUME NEW u \in Worker, "sleep" \notin th'[u] PROVE CpuOf[u] \in activeMask
    BY Zenon, <1>1, <1>2, <1>5, <2>2 DEF HolderInv, AwakeCpus, isSleeping
  <2> QED
    BY Zenon, <2>1, <2>2 DEF AwakeCpus, isSleeping
<1>7. ASSUME NEW u \in Worker, CpuOf[u] \in activeMask, CpuOf[u] <= tgt[t],
             u \notin mask'[t]
      PROVE  "sleep" \notin th'[u]
  <2>1. CASE u = v
    BY Zenon, <1>1, <1>2, <1>5, <1>7, <2>1 DEF HolderInv
  <2>2. CASE u # v
    BY Zenon, <1>1, <1>4, <1>5, <1>7, <2>2 DEF HolderInv, isSleeping
  <2> QED
    BY Zenon, <2>1, <2>2
<1>8. HolderInv(t)'
  BY Zenon, <1>1, <1>3, <1>4, <1>6, <1>7 DEF HolderInv, isSleeping, On
<1> QED
  BY Zenon, <1>1, <1>3, <1>4, <1>6, <1>8, InsideLock DEF Holding, AloneInv, LockInv

\* In the beginning every thread is awake and every CPU has one.
LEMMA MaskInitial == TMInit => MaskInv
<1> SUFFICES ASSUME TMInit PROVE MaskInv
  OBVIOUS
<1>1. /\ AwakeCpus = Cpu /\ Cpu # {} /\ Cpu \subseteq Nat /\ 0 \in Nat
  <2>1. \A t \in Worker : ~isSleeping(t)
    BY DEF TMInit, isSleeping
  <2> QED
    BY Zenon, <2>1, Numbered, WorkerAssumption DEF AwakeCpus
<1>2. /\ \A t \in Worker : mgrPc[t] \in {"run", "idle"}
      /\ activeMask = Cpu /\ tmLock = FALSE
  BY DEF TMInit
<1>3. AloneInv
  BY Zenon, <1>1, <1>2 DEF TMInit, AloneInv, Foreign
<1>4. LockInv /\ \A t \in Worker : HolderInv(t)
  BY Zenon, <1>2 DEF LockInv, HolderInv, Holding
<1> QED
  BY <1>1, <1>2, <1>3, <1>4 DEF MaskInv

\* Every step keeps the mask and the flags together.
LEMMA MaskInductive ==
  ASSUME TeamInv, MaskInv, [TMNext]_tmVars
  PROVE  MaskInv'
<1>1. CASE UNCHANGED tmVars
  <2>1. UNCHANGED <<setup, th, processMask, activeMask, tmLock, moved, mgrPc, tgt, back, mask>>
    BY Zenon, <1>1 DEF tmVars, cpuMasks, tmLocks, work, control
  <2>2. (Untouched' <=> Untouched) /\ AwakeCpus' = AwakeCpus
    BY Zenon, <2>1, AwakeSame DEF Untouched
  <2>3. AloneInv => AloneInv'
    BY Zenon, <2>1 DEF AloneInv
  <2>4. LockInv => LockInv'
    BY Zenon, <2>1 DEF LockInv
  <2>5. ASSUME NEW t \in Worker, HolderInv(t) PROVE HolderInv(t)'
    BY Zenon, <2>1, <2>2, <2>5 DEF HolderInv, isSleeping, On
  <2> QED
    BY Zenon, <2>1, <2>2, <2>3, <2>4, <2>5 DEF MaskInv
<1>2. ASSUME NEW t \in Worker, ManagerStep(t) \/ CallRuntime(t)
      PROVE  MaskInv'
  <2>1. setup' = setup
    BY Zenon, <1>2 DEF ManagerStep, CallRuntime, CheckSleep, GetWork, BlockThread, Tag, updateCpuStatus,
       WaitForWork, Resume, UnblockCheck, UnblockThread, Wake, acquireOne, acquireDefaultCPUs,
       setCpuActiveMask, applyCpuMask, WakeOrSleep, NextCpu, Unlock, IsStable, SwitchToThread,
       Switched, UpdateActiveWorkers, EndWD, QueueWD
  <2>2. CASE ~Untouched
    BY Zenon, <2>1, <2>2 DEF MaskInv, Untouched
  <2>3. CASE Untouched
    <3>1. ~Unlock(t) /\ ~IsStable(t) /\ ~SwitchToThread(t) /\ ~Switched(t)
          /\ ~UpdateActiveWorkers(t)
      BY <2>3 DEF MaskInv, AloneInv, Foreign, Unlock, IsStable, SwitchToThread, Switched,
         UpdateActiveWorkers, At
    <3> QED
      BY <1>2, <2>3, <3>1, MaskOutside, MaskTakesLock, MaskTags, MaskUpdates, MaskAssigns,
         MaskLoops, MaskWakes DEF ManagerStep
  <2> QED
    BY <2>2, <2>3
<1> QED
  BY <1>1, <1>2 DEF TMNext

\* As long as the program leaves the masks and the number of threads alone, the active mask
\* between two operations of the manager is the set of CPUs with a thread that is awake,
\* and it is never empty: blockThread(), unblockThread(), acquireOne() and
\* acquireDefaultCPUs() cannot put the last CPU of the process to sleep, for any threads and CPUs.
THEOREM MaskStaysTrue == TMSpec => []MaskIsTrue
<1>1. ASSUME MaskInv PROVE MaskIsTrue
  <2> SUFFICES ASSUME Untouched, ~tmLock
               PROVE  /\ activeMask = {CpuOf[t] : t \in {u \in Worker : ~isSleeping(u)}}
                      /\ activeMask \intersect processMask # {}
    BY DEF MaskIsTrue
  <2>1. activeMask = AwakeCpus /\ AwakeCpus # {} /\ activeMask \subseteq Cpu /\ processMask = Cpu
    BY <1>1 DEF MaskInv, AloneInv
  <2> QED
    BY <2>1 DEF AwakeCpus
<1> QED
  BY <1>1, TeamMembership, MaskInitial, MaskInductive, PTL DEF TMSpec
=============================================================================
