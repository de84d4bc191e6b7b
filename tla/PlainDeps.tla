----------------------------- MODULE PlainDeps -----------------------------
(***************************************************************************)
(* The plain dependency domain (plugins/deps/plain_deps.cpp and            *)
(* basedependenciesdomain.hpp): for every address a TrackableObject with   *)
(* the last writer, the readers since, and the open CommutationDO.  One    *)
(* thread, the one that runs the parent task, registers tasks and waits in *)
(* the domain; the threads that run the tasks finish them concurrently.    *)
(*                                                                         *)
(* A step of the registering thread is one critical section, or one read   *)
(* of shared state outside any lock.                                       *)
(***************************************************************************)
EXTENDS DependableObject, Sequences

CONSTANTS Addr,         \* addresses
          NoAddr,       \* no address
          WaitAccesses, \* access lists nanos_wait_on may be called with
          Workers,      \* number of threads running tasks
          Programs      \* what the parent task may do: submit up to 'tasks' tasks
                        \* with access lists of 'lists', call wait_on and taskwait
                        \* up to 'waits' times; 'keepDeps' has TRUE if the threads
                        \* take immediate successors early, FALSE if at the end
                        \* (keepWDDeps())

RelaxedMode == {"comm", "conc"}
AccessOf(modes) == [addr : Addr, mode : modes]
Access == AccessOf({"in", "out", "inout"} \cup RelaxedMode)

\* Of the relaxed accesses of a list no two are to the same address: the second
\* would increase the counter of the CommutationDO for an edge it already has
RelaxedOnce(xs) ==
  \A i, j \in 1..Len(xs) :
    xs[i].mode \in RelaxedMode /\ xs[j].mode \in RelaxedMode /\ xs[i].addr = xs[j].addr
      => i = j

\* ensure( !depObj.waits(), "Commutative & concurrent should not wait" )
ASSUME PlainDepsAssumption ==
  /\ Cardinality(Task) \in Nat /\ Task = 1..Cardinality(Task)
  /\ Comm \subseteq Int /\ Cardinality(Wait) = 1
  /\ NoAddr \notin Addr
  /\ Workers \in Nat \ {0}
  /\ WaitAccesses \subseteq Seq(AccessOf({"in", "out", "inout"}))
  /\ \A p \in Programs : /\ p.tasks \in Task /\ p.waits \in Nat
                         /\ p.lists \subseteq {xs \in Seq(Access) : RelaxedOnce(xs)}
                         /\ p.keepDeps \subseteq BOOLEAN

VARIABLES
  program,        \* the program of this behaviour
  status,         \* the TrackableObject of each address
  writes, reads,  \* _outputObjects and _readObjects of each object
  commutative,    \* _commutative of each CommutationDO
  unpurged,       \* objects that may still be last writers of their targets
  reg,            \* the registering thread: its step and its local variables
  accesses,       \* the access list each task or wait was registered with
  waits           \* wait_on and taskwait calls so far

objVars == <<writes, reads, commutative, unpurged>>
histVars == <<accesses, waits>>
vars == <<doVars, program, status, objVars, reg, histVars>>

-----------------------------------------------------------------------------

a == reg.todo[1].addr        \* the access being registered
mode == reg.todo[1].mode
Relaxed == mode \in RelaxedMode

\* The object whose readers are linked and that becomes the writer: the initial
\* CommutationDO of a relaxed access, else the task or wait itself
Target == IF Relaxed THEN reg.initial ELSE reg.obj

\* The next step of the registering thread; "next" ends an access
Goto(step) ==
  reg' = IF step = "next"
           THEN [reg EXCEPT !.pc = "access", !.todo = Tail(@),
                            !.writer = NoDO, !.initial = NoDO]
           ELSE [reg EXCEPT !.pc = step]

\* The CommutationDO a new one is given the name of
FreeComm(c) ==
  /\ phase[c] = "none"
  /\ \A d \in Comm : phase[d] = "none" => c <= d

PlainInit ==
  /\ DOInit
  /\ program \in Programs
  /\ status = [x \in Addr |-> [lastWriter |-> NoDO, readers |-> {}, commDO |-> NoDO]]
  /\ writes = [o \in DO |-> {}]
  /\ reads = [o \in DO |-> {}]
  /\ commutative = [c \in Comm |-> FALSE]
  /\ unpurged = DO
  /\ reg = [pc |-> "idle", obj |-> NoDO, todo |-> <<>>, writer |-> NoDO,
            initial |-> NoDO, toLink |-> {}, locked |-> NoAddr]
  /\ accesses = [o \in Task \cup Wait |-> <<>>]
  /\ waits = 0

-----------------------------------------------------------------------------
\* submitDependableObjectInternal()

Register(o, xs) ==
  /\ reg.pc = "idle"
  /\ Create(o)
  /\ reg' = [reg EXCEPT !.pc = "access", !.obj = o, !.todo = xs]
  /\ accesses' = [accesses EXCEPT ![o] = xs]
  /\ UNCHANGED <<status, objVars>>

SubmitTask ==
  \E t \in 1..program.tasks, xs \in program.lists :
    /\ \A u \in Task : u < t <=> phase[u] # "none"
    /\ Register(t, xs)
    /\ UNCHANGED waits

WaitOn ==
  \E w \in Wait, xs \in WaitAccesses :
    /\ waits < program.waits
    /\ Register(w, xs)
    /\ waits' = waits + 1

\* submitDependableObjectDataAccess(): dispatch on the next access, or none left
DataAccess_NoFinalize ==
  /\ reg.pc = "access"
  /\ Goto(IF reg.todo = <<>> THEN "submit" ELSE IF Relaxed THEN "initial" ELSE "readWriter")
  /\ UNCHANGED <<doVars, status, objVars, histVars>>

DataAccess ==
  /\ reg.pc = "access"
  /\ Goto(IF reg.todo = <<>> THEN "submit"
          ELSE IF status[a].lastWriter = reg.obj THEN "next"
          ELSE IF Relaxed THEN "initial" ELSE "finalize")
  /\ UNCHANGED <<doVars, status, objVars, histVars>>

\* submitted() and the release of the fake predecessor; a DOWait then blocks
EndSubmit ==
  /\ reg.pc = "submit"
  /\ DropFake(reg.obj)
  /\ Goto(IF reg.obj \in Wait THEN "blocked" ELSE "idle")
  /\ UNCHANGED <<status, objVars, histVars>>

WaitReturn ==
  /\ reg.pc = "blocked"
  /\ phase[reg.obj] = "done"
  /\ Goto("idle")
  /\ UNCHANGED <<doVars, status, objVars, histVars>>

-----------------------------------------------------------------------------
\* The data accesses of BaseDependenciesDomain

\* finalizeReduction(): the open CommutationDO becomes the last writer and loses
\* its dummy predecessor; if that was the last one, its finished() runs here
CloseComm_NoRelease(x, next) ==
  LET c == status[x].commDO IN
  /\ status' = [status EXCEPT ![x].commDO = NoDO,
                              ![x].lastWriter = IF c = NoDO THEN @ ELSE c]
  /\ Goto(next)
  /\ UNCHANGED doVars

CloseComm(x, next) ==
  LET c == status[x].commDO IN
  IF c = NoDO
    THEN Goto(next) /\ UNCHANGED <<doVars, status>>
    ELSE /\ status' = [status EXCEPT ![x].commDO = NoDO, ![x].lastWriter = c]
         /\ DropFake(c)
         /\ reg' = [reg EXCEPT !.writer = c,
                               !.pc = IF numPred[c] = 1 THEN "finalizeCall" ELSE next]

FinalizeReduction ==
  /\ reg.pc = "finalize"
  /\ CloseComm(a, "finalized")
  /\ UNCHANGED <<objVars, histVars>>

FinalizeReturn ==
  /\ reg.pc = "finalizeCall"
  /\ phase[reg.writer] = "done"
  /\ Goto(IF reg.todo = <<>> THEN "taskwait" ELSE "finalized")
  /\ UNCHANGED <<doVars, status, objVars, histVars>>

\* Inout and input go on with the last writer; output skips it if there are
\* readers; a relaxed access creates its new CommutationDO
Finalized_NoReadersNoWriter ==
  /\ reg.pc = "finalized"
  /\ Goto(IF Relaxed THEN "target"
          ELSE IF mode = "out" /\ status[a].readers = {} THEN "lockReaders"
          ELSE "readWriter")
  /\ UNCHANGED <<doVars, status, objVars, histVars>>

Finalized ==
  /\ reg.pc = "finalized"
  /\ Goto(IF Relaxed THEN "target"
          ELSE IF mode = "out" /\ status[a].readers # {} THEN "lockReaders"
          ELSE "readWriter")
  /\ UNCHANGED <<doVars, status, objVars, histVars>>

AfterWriter ==
  IF Relaxed THEN "releaseInitial"
  ELSE IF mode = "in" THEN "addReader" ELSE "lockReaders"

\* dependOnLastWriter(): read outside the lock ...
ReadLastWriter ==
  /\ reg.pc = "readWriter"
  /\ LET w == status[a].lastWriter IN
     reg' = [reg EXCEPT !.writer = w,
               !.pc = IF w \in {NoDO, reg.obj} THEN AfterWriter ELSE "linkWriter"]
  /\ UNCHANGED <<doVars, status, objVars, histVars>>

\* ... and checked again under the lock of the writer
LinkLastWriter_NoRecheck ==
  /\ reg.pc = "linkWriter"
  /\ AddEdge(reg.writer, reg.obj)
  /\ Goto(AfterWriter)
  /\ UNCHANGED <<status, objVars, histVars>>

LinkLastWriter ==
  /\ reg.pc = "linkWriter"
  /\ IF status[a].lastWriter = reg.writer
       THEN AddEdge(reg.writer, reg.obj)
       ELSE UNCHANGED doVars
  /\ Goto(AfterWriter)
  /\ UNCHANGED <<status, objVars, histVars>>

\* dependOnReaders(): the readers lock is held for the whole loop
LockReaders ==
  /\ reg.pc = "lockReaders"
  /\ reg' = [reg EXCEPT !.pc = "linkReaders", !.locked = a,
                        !.toLink = status[a].readers \ {Target}]
  /\ UNCHANGED <<doVars, status, objVars, histVars>>

LinkReader ==
  /\ reg.pc = "linkReaders"
  /\ \E r \in reg.toLink :
       /\ AddEdge(r, Target)
       /\ reg' = [reg EXCEPT !.toLink = @ \ {r}]
  /\ UNCHANGED <<status, objVars, histVars>>

UnlockReaders ==
  /\ reg.pc = "linkReaders"
  /\ reg.toLink = {}
  /\ reg' = [reg EXCEPT !.pc = "setWriter", !.locked = NoAddr]
  /\ UNCHANGED <<doVars, status, objVars, histVars>>

\* setAsWriter() (its steps are the same for the initial CommutationDO), and
\* addReadTarget() of an inout access; a wait only flushes the readers
SetAsWriter ==
  /\ reg.pc = "setWriter"
  /\ IF Target \in Wait
       THEN /\ status' = [status EXCEPT ![a].readers = {}]
            /\ UNCHANGED <<writes, reads>>
       ELSE /\ status' = [status EXCEPT ![a].readers = {}, ![a].lastWriter = Target]
            /\ writes' = [writes EXCEPT ![Target] = @ \cup {a}]
            /\ reads' = [reads EXCEPT ![Target] =
                           IF mode = "inout" THEN @ \cup {a} ELSE @]
  /\ Goto(IF Relaxed THEN "target" ELSE "next")
  /\ UNCHANGED <<doVars, commutative, unpurged, histVars>>

\* addAsReader() and addReadTarget(), skipped by a wait
AddAsReader ==
  /\ reg.pc = "addReader"
  /\ IF reg.obj \in Wait
       THEN UNCHANGED <<status, reads>>
       ELSE /\ status' = [status EXCEPT ![a].readers = @ \cup {reg.obj}]
            /\ reads' = [reads EXCEPT ![reg.obj] = @ \cup {a}]
  /\ Goto("next")
  /\ UNCHANGED <<doVars, writes, commutative, unpurged, histVars>>

\* setUpInitialCommutationDependableObject(): the readers so far, if any, are
\* gathered behind a new CommutationDO
SetUpInitial ==
  /\ reg.pc = "initial"
  /\ IF status[a].readers = {}
       THEN Goto("target") /\ UNCHANGED <<doVars, commutative>>
       ELSE \E c \in Comm :
              /\ FreeComm(c)
              /\ Create(c)
              /\ commutative' = [commutative EXCEPT ![c] = mode = "comm"]
              /\ reg' = [reg EXCEPT !.pc = "lockReaders", !.initial = c]
  /\ UNCHANGED <<status, writes, reads, unpurged, histVars>>

\* setUpTargetCommutationDependableObject(): the open CommutationDO is used if
\* it is of the same kind, else it is finalized first and a new one created
SetUpTarget_AnyKind ==
  LET c == status[a].commDO IN
  /\ reg.pc = "target"
  /\ IF c = NoDO
       THEN \E d \in Comm :
              /\ FreeComm(d)
              /\ Create(d)
              /\ status' = [status EXCEPT ![a].commDO = d]
              /\ commutative' = [commutative EXCEPT ![d] = mode = "comm"]
              /\ writes' = [writes EXCEPT ![d] = {a}]
       ELSE UNCHANGED <<doVars, status, commutative, writes>>
  /\ Goto("linkComm")
  /\ UNCHANGED <<reads, unpurged, histVars>>

SetUpTarget ==
  LET c == status[a].commDO IN
  /\ reg.pc = "target"
  /\ IF c = NoDO
       THEN /\ \E d \in Comm :
                 /\ FreeComm(d)
                 /\ Create(d)
                 /\ status' = [status EXCEPT ![a].commDO = d]
                 /\ commutative' = [commutative EXCEPT ![d] = mode = "comm"]
                 /\ writes' = [writes EXCEPT ![d] = {a}]
            /\ Goto("linkComm")
       ELSE /\ Goto(IF commutative[c] = (mode = "comm") THEN "linkComm" ELSE "finalize")
            /\ UNCHANGED <<doVars, status, commutative, writes>>
  /\ UNCHANGED <<reads, unpurged, histVars>>

\* depObj.addSuccessor( *commDO ), with the increase made for it when the target
\* was set up, before it was known whether the edge is new
LinkComm ==
  /\ reg.pc = "linkComm"
  /\ CountedEdge(reg.obj, status[a].commDO)
  /\ Goto("readWriter")
  /\ UNCHANGED <<status, objVars, histVars>>

\* The fake predecessor of the initial CommutationDO goes last; if no reader is
\* left, its finished() runs here
ReleaseInitial_Never ==
  /\ reg.pc = "releaseInitial"
  /\ Goto("next")
  /\ UNCHANGED <<doVars, status, objVars, histVars>>

ReleaseInitial ==
  /\ reg.pc = "releaseInitial"
  /\ IF reg.initial = NoDO
       THEN Goto("next") /\ UNCHANGED doVars
       ELSE /\ DropFake(reg.initial)
            /\ Goto(IF numPred[reg.initial] = 1 THEN "releaseCall" ELSE "next")
  /\ UNCHANGED <<status, objVars, histVars>>

ReleaseReturn ==
  /\ reg.pc = "releaseCall"
  /\ phase[reg.initial] = "done"
  /\ Goto("next")
  /\ UNCHANGED <<doVars, status, objVars, histVars>>

-----------------------------------------------------------------------------
\* waitCompletion() of the parent: finalizeAllReductions(), wait until every
\* task is over, clearDependenciesDomain()

TaskWait ==
  /\ reg.pc = "idle"
  /\ waits < program.waits
  /\ waits' = waits + 1
  /\ Goto("taskwait")
  /\ UNCHANGED <<doVars, status, objVars, accesses>>

FinalizeAll ==
  /\ reg.pc = "taskwait"
  /\ \E x \in Addr :
       /\ status[x].commDO # NoDO
       /\ CloseComm(x, "taskwait")
  /\ UNCHANGED <<objVars, histVars>>

ClearDomain_NoFinalize ==
  /\ reg.pc = "taskwait"
  /\ \A t \in Task : phase[t] \in {"none", "done"}
  /\ status' = [x \in Addr |-> [lastWriter |-> NoDO, readers |-> {}, commDO |-> NoDO]]
  /\ Goto("idle")
  /\ UNCHANGED <<doVars, objVars, histVars>>

ClearDomain ==
  /\ reg.pc = "taskwait"
  /\ \A x \in Addr : status[x].commDO = NoDO
  /\ \A t \in Task : phase[t] \in {"none", "done"}
  /\ status' = [x \in Addr |-> [lastWriter |-> NoDO, readers |-> {}, commDO |-> NoDO]]
  /\ Goto("idle")
  /\ UNCHANGED <<doVars, objVars, histVars>>

-----------------------------------------------------------------------------
\* The threads that run tasks

StartTask(t) ==
  /\ Cardinality({u \in Task : phase[u] \notin
        {"none", "reg", "wait", "ready", "done"}}) < Workers
  /\ Start(t)
  /\ UNCHANGED <<status, objVars, reg, histVars>>

\* The first part of finished(): under the domain's and its own lock the object
\* stops being the last writer of its targets (a CommutationDO has called
\* removeCommDO() before) ...
DeleteLastWriter(p) ==
  /\ phase[p] = "purge" /\ p \in unpurged
  /\ status' = [x \in Addr |->
       [status[x] EXCEPT
          !.lastWriter = IF x \in writes[p] /\ @ = p THEN NoDO ELSE @,
          !.commDO = IF x \in writes[p] /\ @ = p THEN NoDO ELSE @]]
  /\ unpurged' = unpurged \ {p}
  /\ UNCHANGED <<doVars, writes, reads, commutative, reg, histVars>>

\* ... then, target by target under the readers lock, a reader
DeleteReader_NoLock(p) ==
  /\ phase[p] = "purge" /\ p \notin unpurged
  /\ \E x \in reads[p] :
       /\ status' = [status EXCEPT ![x].readers = @ \ {p}]
       /\ reads' = [reads EXCEPT ![p] = @ \ {x}]
  /\ UNCHANGED <<doVars, writes, commutative, unpurged, reg, histVars>>

DeleteReader(p) ==
  /\ phase[p] = "purge" /\ p \notin unpurged
  /\ \E x \in reads[p] :
       /\ reg.locked # x
       /\ status' = [status EXCEPT ![x].readers = @ \ {p}]
       /\ reads' = [reads EXCEPT ![p] = @ \ {x}]
  /\ UNCHANGED <<doVars, writes, commutative, unpurged, reg, histVars>>

EndPurge_KeepsReaders(p) ==
  /\ p \notin unpurged
  /\ Purged(p)
  /\ UNCHANGED <<status, objVars, reg, histVars>>

EndPurge(p) ==
  /\ p \notin unpurged /\ reads[p] = {}
  /\ Purged(p)
  /\ UNCHANGED <<status, objVars, reg, histVars>>

\* The rest of finished(), and what the thread of a task does before it
Running(p) ==
  /\ \/ BodyEnd(p) \/ Finish(p) \/ DecreaseSingle(p) \/ Return(p)
     \/ DecreaseBatch(p) \/ SubmitBatch(p)
     \/ \E s \in DO : Visit(p, s)
  /\ UNCHANGED <<status, objVars, reg, histVars>>

TakeSuccessor(p) ==
  /\ \E s \in Task, keepDeps \in program.keepDeps : ImmediateSuccessor(p, s, keepDeps)
  /\ UNCHANGED <<status, objVars, reg, histVars>>

-----------------------------------------------------------------------------

Registration ==
  \/ DataAccess \/ EndSubmit \/ WaitReturn
  \/ FinalizeReduction \/ FinalizeReturn \/ Finalized
  \/ ReadLastWriter \/ LinkLastWriter
  \/ LockReaders \/ LinkReader \/ UnlockReaders \/ SetAsWriter \/ AddAsReader
  \/ SetUpInitial \/ SetUpTarget \/ LinkComm \/ ReleaseInitial \/ ReleaseReturn
  \/ FinalizeAll \/ ClearDomain

Execution(p) ==
  \/ StartTask(p) \/ Running(p)
  \/ DeleteLastWriter(p) \/ DeleteReader(p) \/ EndPurge(p)

Registering == Registration /\ UNCHANGED program

Executing(p) == Execution(p) /\ UNCHANGED program

PlainNext ==
  \/ (SubmitTask \/ WaitOn \/ TaskWait) /\ UNCHANGED program
  \/ Registering
  \/ \E p \in DO : Executing(p) \/ (TakeSuccessor(p) /\ UNCHANGED program)

PlainSpec == PlainInit /\ [][PlainNext]_vars

\* Every thread of the runtime keeps running, and the scheduler gives every
\* ready task to some thread.  The program need not submit more tasks.
PlainFairness ==
  /\ WF_vars(Registering)
  /\ \A p \in DO : WF_vars(Executing(p))

PlainFairSpec == PlainSpec /\ PlainFairness

-----------------------------------------------------------------------------

Released == {"loop", "single", "batch", "call", "done"}

\* "This step guarantees that any Object that wants to add depObj as a successor
\* has done it before we continue or, alternatively, won't do it": once the loop
\* over the successors begins, the object is in no TrackableObject, and the
\* registering thread is not linking to it either.
PurgedIsUnreachable ==
  \A p \in Task \cup Comm : phase[p] \in Released =>
    /\ \A x \in Addr : /\ status[x].lastWriter # p
                       /\ p \notin status[x].readers
                       /\ status[x].commDO # p
    /\ p \notin reg.toLink

TaskState(t) ==
  IF phase[t] = "none" THEN "new"
  ELSE IF phase[t] \in {"reg", "wait", "ready"} THEN "pending"
  ELSE IF phase[t] = "run" THEN "running"
  ELSE "ended"

Order == INSTANCE TaskOrder WITH Tasks <- Task,
                                 state <- [t \in Task |-> TaskState(t)],
                                 access <- [t \in Task |-> accesses[t]]

\* The tasks execute as the abstract order says: a task starts only when all
\* earlier conflicting tasks have ended, although edges are added and released
\* concurrently and transitively implied edges are left out.
RefinesTaskOrder == Order!OrderSpec

\* The domain uses the dependable objects only as their protocol allows.
RefinesDependableObject == DOSpec

\* wait_on returns only when every earlier task that conflicts with the waited
\* accesses has ended (the waiting task uses the data next).
WaitOnIsSound ==
  [][(reg.pc = "blocked" /\ reg'.pc = "idle") =>
       \A t \in Task : Order!Conflict(accesses[t], accesses[reg.obj])
                         => TaskState(t) = "ended"]_vars

\* When the taskwait clears the domain no object in it can still be reached by a
\* thread: not only the tasks are over, but also the CommutationDOs, which no
\* counter of the parent accounts for.
ClearIsSafe ==
  [][(reg.pc = "taskwait" /\ reg'.pc = "idle") =>
       \A o \in DO : phase[o] \in {"none", "done"}]_vars

\* Every submitted task is eventually run and finished.
TasksComplete == \A t \in Task : phase[t] = "reg" ~> phase[t] = "done"

\* Registrations, wait_on and taskwait eventually return.
CallsReturn == (reg.pc # "idle") ~> (reg.pc = "idle")
=============================================================================
