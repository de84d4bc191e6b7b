-------------------------- MODULE PlainOrderProofs --------------------------
(***************************************************************************)
(* The steps of the plain dependency domain, for any tasks, addresses,     *)
(* access lists and programs: it uses the dependable objects only as their *)
(* protocol allows, every task that accessed an address is kept hold of,   *)
(* and a registration ends with all tasks it conflicts with ahead of it.   *)
(*                                                                         *)
(* DomainInv says which objects the domain and the registering thread may  *)
(* refer to; with it every step is a step of the protocol, so DOInv, the   *)
(* invariant of the protocol, holds as well (module DependencyProofs).     *)
(*                                                                         *)
(* The order of the tasks is not about single edges: the domain leaves out *)
(* the edges that others imply, and edges are released while new ones are  *)
(* added. Ahead[o] is what the graph guarantees, the objects that are over *)
(* or reach o through edges not yet released. It only grows, whatever the  *)
(* threads do; OrderInv says what the TrackableObject of an address and    *)
(* the registration under way know of it. The steps that look for          *)
(* predecessors and link them keep it; those that end an access are in     *)
(* module PlainPromiseProofs.                                              *)
(***************************************************************************)
EXTENDS PlainDeps, TLAPS

-----------------------------------------------------------------------------
\* What the domain refers to

\* The steps inside the registration of one access, by kind
RelaxedSteps == {"initial", "target", "linkComm", "releaseInitial", "releaseCall"}
WriterSteps == {"lockReaders", "linkReaders", "setWriter"}
AccessSteps == RelaxedSteps \cup WriterSteps \cup
               {"finalize", "finalized", "readWriter", "linkWriter", "addReader"}

Known == Task \cup Comm  \* the objects that can have successors

Steps == AccessSteps \cup {"idle", "access", "submit", "blocked", "finalizeCall", "taskwait"}
Thread == [pc : Steps, obj : Task \cup Wait \cup {NoDO}, todo : Seq(Access),
           writer : Known \cup {NoDO}, initial : Comm \cup {NoDO},
           toLink : SUBSET Task, locked : Addr \cup {NoAddr}]

Targets == [Addr -> [lastWriter : Known \cup {NoDO}, readers : SUBSET Task,
                     commDO : Comm \cup {NoDO}]]

DomainTypeOK ==
  /\ program \in Programs
  /\ status \in Targets
  /\ writes \in [DO -> SUBSET Addr]
  /\ reads \in [DO -> SUBSET Addr]
  /\ commutative \in [Comm -> BOOLEAN]
  /\ reg \in Thread
  /\ accesses \in [Task \cup Wait -> Seq(Access)]

\* An object is being registered
Registers == reg.todo # <<>> \/ reg.pc \in {"access", "submit"}

\* The registering thread: where it is and what its local variables hold
ThreadInv ==
  /\ reg.pc \in AccessSteps => reg.todo # <<>>
  /\ reg.pc \in {"idle", "submit", "blocked", "taskwait"} => reg.todo = <<>>
  /\ Registers => reg.obj # NoDO /\ phase[reg.obj] = "reg"
  /\ reg.obj \in Wait =>
       \A i \in 1..Len(reg.todo) : reg.todo[i].mode \notin RelaxedMode
  /\ reg.pc \in RelaxedSteps => Relaxed
  /\ reg.pc = "addReader" => mode = "in"
  /\ reg.pc \in WriterSteps /\ Relaxed => reg.initial # NoDO
  /\ reg.initial # NoDO =>
       /\ reg.todo # <<>> /\ Relaxed
       /\ \A x \in Addr : status[x].commDO # reg.initial
       /\ phase[reg.initial] = "reg" \/ reg.pc = "releaseCall"
  /\ reg.pc = "linkComm" => status[a].commDO # NoDO
  /\ reg.pc = "linkWriter" => reg.writer \notin {NoDO, reg.obj}
  /\ IF reg.pc = "linkReaders"
       THEN reg.locked = a /\ reg.toLink \subseteq status[a].readers \ {Target}
       ELSE reg.locked = NoAddr /\ reg.toLink = {}

\* The TrackableObject of x refers only to objects that still have to purge
\* themselves from it
TargetInv(x) ==
  LET w == status[x].lastWriter
      c == status[x].commDO
  IN  /\ w # NoDO => w \in unpurged /\ x \in writes[w] /\ phase[w] # "none"
      /\ \A r \in status[x].readers : x \in reads[r] /\ phase[r] # "none"
      /\ c # NoDO => phase[c] = "reg" /\ writes[c] = {x}

\* An object is purged after its body and before its loop
PurgeInv(p) ==
  /\ phase[p] \in {"none", "reg", "wait", "ready", "run", "exit"} => p \in unpurged
  /\ phase[p] \in Released => p \notin unpurged /\ reads[p] = {}

DomainInv ==
  /\ DomainTypeOK
  /\ ThreadInv
  /\ \A x \in Addr : TargetInv(x)
  /\ \A p \in Known : PurgeInv(p)

\* From the step that joins the open CommutationDO on, the first access of the list is
\* linked (relaxed accesses only)
JoinedSteps == {"readWriter", "linkWriter", "releaseInitial", "releaseCall"}
ToJoin(i) ==
  /\ reg.todo[i].mode \in RelaxedMode
  /\ i = 1 => reg.pc \notin JoinedSteps

\* addSuccessor( *commDO ) always makes a new edge, as the increase made for it assumes:
\* the object has not joined the open CommutationDO of any address it still has to join
JoinInv ==
  /\ RelaxedOnce(reg.todo)
  /\ \A i \in 1..Len(reg.todo) :
       ToJoin(i) => status[reg.todo[i].addr].commDO \notin succ[reg.obj]
  /\ \A o \in DO : phase[o] = "none" => succ[o] = {}

\* The domain begins in order.
LEMMA DomainInit ==
  ASSUME PlainInit
  PROVE  DomainInv
<1>1. reg \in Thread
  BY DEF PlainInit, Thread, Steps
<1>2. DomainTypeOK
  BY <1>1 DEF PlainInit, DomainTypeOK, Targets
<1>3. ThreadInv
  <2>1. /\ reg.pc = "idle" /\ reg.todo = <<>> /\ reg.obj = NoDO /\ reg.initial = NoDO
        /\ reg.toLink = {} /\ reg.locked = NoAddr
    BY DEF PlainInit
  <2>2. NoDO \notin Wait /\ "idle" \notin AccessSteps
    BY DOAssumption DEF DO, AccessSteps, RelaxedSteps, WriterSteps
  <2> QED
    BY <2>1, <2>2 DEF ThreadInv, Registers, AccessSteps
<1>4. \A x \in Addr : TargetInv(x)
  BY Zenon DEF PlainInit, TargetInv
<1>5. \A p \in Known : PurgeInv(p)
  BY DEF PlainInit, DOInit, PurgeInv, Released, Known, DO
<1> QED
  BY Zenon, <1>2, <1>3, <1>4, <1>5 DEF DomainInv

-----------------------------------------------------------------------------
\* The domain uses the objects as their protocol allows

\* The access under registration is an access of the program.
LEMMA AccessType ==
  ASSUME DomainTypeOK, reg.todo # <<>>
  PROVE  /\ a \in Addr /\ reg.todo[1] \in Access
         /\ Tail(reg.todo) \in Seq(Access) /\ Len(Tail(reg.todo)) = Len(reg.todo) - 1
         /\ Len(reg.todo) \in Nat \ {0}
         /\ \A i \in 1..Len(Tail(reg.todo)) : Tail(reg.todo)[i] = reg.todo[i + 1]
<1>1. reg.todo \in Seq(Access)
  BY DEF DomainTypeOK, Thread
<1>2. Len(reg.todo) \in Nat \ {0} /\ reg.todo[1] \in Access
  BY <1>1
<1> QED
  BY <1>1, <1>2 DEF a, Access, AccessOf

\* Where a step of the registering thread may lead.
LEMMA GotoType ==
  ASSUME DomainTypeOK, NEW step, Goto(step),
         step \in Steps \/ (step = "next" /\ reg.todo # <<>>)
  PROVE  /\ reg' \in Thread
         /\ step # "next" => reg' = [reg EXCEPT !.pc = step]
         /\ step = "next" => /\ reg'.pc = "access" /\ reg'.todo = Tail(reg.todo)
                             /\ reg'.initial = NoDO /\ reg'.obj = reg.obj
                             /\ reg'.toLink = reg.toLink /\ reg'.locked = reg.locked
<1>1. CASE step = "next"
  <2>1. reg.todo # <<>>
    BY <1>1 DEF Steps, AccessSteps, RelaxedSteps, WriterSteps
  <2>2. Tail(reg.todo) \in Seq(Access)
    BY <2>1, AccessType
  <2> QED
    BY Zenon, <1>1, <2>2 DEF Goto, DomainTypeOK, Thread, Steps
<1>2. CASE step # "next"
  BY Zenon, <1>2 DEF Goto, DomainTypeOK, Thread
<1> QED
  BY <1>1, <1>2

\* After an access the thread is ready for the next one of the same object.
LEMMA ThreadNext ==
  ASSUME DomainTypeOK, ThreadInv, reg.todo # <<>>, reg.pc # "linkReaders", Goto("next"),
         phase'[reg.obj] = "reg"
  PROVE  reg' \in Thread /\ ThreadInv'
<1>1. reg' \in Thread
  BY GotoType
<1>2. /\ reg'.pc = "access" /\ reg'.todo = Tail(reg.todo) /\ reg'.initial = NoDO
      /\ reg'.obj = reg.obj /\ reg'.toLink = {} /\ reg'.locked = NoAddr
  BY GotoType DEF ThreadInv
<1>3. reg.obj # NoDO
  BY DEF ThreadInv, Registers
<1>4. reg.obj \in Wait =>
        \A i \in 1..Len(Tail(reg.todo)) : Tail(reg.todo)[i].mode \notin RelaxedMode
  BY AccessType DEF ThreadInv
<1> QED
  BY <1>1, <1>2, <1>3, <1>4 DEF ThreadInv, AccessSteps, RelaxedSteps, WriterSteps, Registers

\* The steps of the registering thread that only read shared state and change its
\* own variables.
LocalStep == \/ DataAccess \/ WaitReturn \/ FinalizeReturn \/ Finalized
             \/ ReleaseReturn \/ TaskWait \/ ReadLastWriter \/ LockReaders \/ UnlockReaders

\* Such a step keeps the domain in order: it only forgets what it has dealt with, or
\* remembers objects it has just found in a TrackableObject.
LEMMA DomainLocal ==
  ASSUME DomainInv, LocalStep, UNCHANGED program
  PROVE  DomainInv' /\ UNCHANGED doVars
<1>1. UNCHANGED <<doVars, status, objVars, accesses>>
  BY DEF LocalStep, DataAccess, WaitReturn, FinalizeReturn, Finalized, ReleaseReturn, TaskWait,
         ReadLastWriter, LockReaders, UnlockReaders, histVars
<1>2. DomainTypeOK /\ ThreadInv
  BY DEF DomainInv
<1> USE DEF Steps, AccessSteps, RelaxedSteps, WriterSteps
<1>3. ASSUME DataAccess PROVE reg' \in Thread /\ ThreadInv'
  <2>1. reg' \in Thread
    BY Zenon, <1>2, <1>3, GotoType DEF DataAccess, ThreadInv
  <2>2. CASE reg.todo # <<>> /\ status[a].lastWriter = reg.obj
    BY <1>1, <1>2, <1>3, <2>2, ThreadNext DEF DataAccess, ThreadInv, doVars, Registers
  <2>3. CASE reg.todo = <<>> \/ status[a].lastWriter # reg.obj
    BY Zenon, <1>1, <1>2, <1>3, <2>3, AccessType
       DEF DataAccess, Goto, ThreadInv, DomainTypeOK, Thread, doVars, Registers, a, mode, Relaxed, Target
  <2> QED
    BY <2>1, <2>2, <2>3
<1>4. ASSUME WaitReturn PROVE reg' \in Thread /\ ThreadInv'
  <2>1. reg' \in Thread
    BY <1>2, <1>4, GotoType DEF WaitReturn, ThreadInv
  <2>2. ThreadInv'
    BY <1>1, <1>2, <1>4, AccessType
       DEF WaitReturn, Goto, ThreadInv, DomainTypeOK, Thread, doVars, Registers, a, mode, Relaxed, Target
  <2> QED
    BY <2>1, <2>2
<1>5. ASSUME FinalizeReturn PROVE reg' \in Thread /\ ThreadInv'
  <2>1. reg' \in Thread
    BY <1>2, <1>5, GotoType DEF FinalizeReturn, ThreadInv
  <2>2. ThreadInv'
    BY <1>1, <1>2, <1>5, AccessType
       DEF FinalizeReturn, Goto, ThreadInv, DomainTypeOK, Thread, doVars, Registers, a, mode, Relaxed, Target
  <2> QED
    BY <2>1, <2>2
<1>6. ASSUME Finalized PROVE reg' \in Thread /\ ThreadInv'
  <2>1. reg' \in Thread
    BY Zenon, <1>2, <1>6, GotoType DEF Finalized, ThreadInv
  <2>2. ThreadInv'
    BY Zenon, <1>1, <1>2, <1>6, AccessType
       DEF Finalized, Goto, ThreadInv, DomainTypeOK, Thread, doVars, Registers, a, mode, Relaxed, Target
  <2> QED
    BY <2>1, <2>2
<1>7. ASSUME ReleaseReturn PROVE reg' \in Thread /\ ThreadInv'
  <2>1. reg' \in Thread
    BY Zenon, <1>2, <1>7, GotoType DEF ReleaseReturn, ThreadInv
  <2>2. ThreadInv'
    BY <1>1, <1>2, <1>7, ThreadNext DEF ReleaseReturn, ThreadInv, doVars, Registers
  <2> QED
    BY <2>1, <2>2
<1>8. ASSUME TaskWait PROVE reg' \in Thread /\ ThreadInv'
  <2>1. reg' \in Thread
    BY <1>2, <1>8, GotoType DEF TaskWait, ThreadInv
  <2>2. ThreadInv'
    BY <1>1, <1>2, <1>8, AccessType
       DEF TaskWait, Goto, ThreadInv, DomainTypeOK, Thread, doVars, Registers, a, mode, Relaxed, Target
  <2> QED
    BY <2>1, <2>2
<1>9. ASSUME ReadLastWriter PROVE reg' \in Thread /\ ThreadInv'
  <2>1. status[a].lastWriter \in Known \cup {NoDO}
    BY <1>2, <1>9, AccessType DEF ReadLastWriter, ThreadInv, DomainTypeOK, Targets
  <2>2. reg' \in Thread
    <3>1. PICK step \in Steps :
            reg' = [reg EXCEPT !.writer = status[a].lastWriter, !.pc = step]
      BY Zenon, <1>9 DEF ReadLastWriter, AfterWriter
    <3> QED
      BY Zenon, <1>2, <2>1, <3>1 DEF DomainTypeOK, Thread
  <2>3. ThreadInv'
    BY Zenon, <1>1, <1>2, <1>9, AccessType
       DEF ReadLastWriter, AfterWriter, ThreadInv, DomainTypeOK, Thread, doVars, Registers, a, mode, Relaxed, Target
  <2> QED
    BY <2>2, <2>3
<1>10. ASSUME LockReaders PROVE reg' \in Thread /\ ThreadInv'
  <2>1. reg' \in Thread
    BY Zenon, <1>2, <1>10, AccessType DEF LockReaders, ThreadInv, DomainTypeOK, Targets, Thread
  <2>2. ThreadInv'
    BY <1>1, <1>2, <1>10, AccessType
       DEF LockReaders, ThreadInv, DomainTypeOK, Thread, doVars, Registers, a, mode, Relaxed, Target
  <2> QED
    BY <2>1, <2>2
<1>11. ASSUME UnlockReaders PROVE reg' \in Thread /\ ThreadInv'
  <2>1. reg' \in Thread
    BY Zenon, <1>2, <1>11, AccessType DEF UnlockReaders, ThreadInv, DomainTypeOK, Thread
  <2>2. ThreadInv'
    BY <1>1, <1>2, <1>11, AccessType
       DEF UnlockReaders, ThreadInv, DomainTypeOK, Thread, doVars, Registers, a, mode, Relaxed, Target
  <2> QED
    BY <2>1, <2>2
<1>12. reg' \in Thread /\ ThreadInv'
  BY <1>3, <1>4, <1>5, <1>6, <1>7, <1>8, <1>9, <1>10, <1>11 DEF LocalStep
<1>13. DomainTypeOK'
  BY <1>1, <1>2, <1>12 DEF DomainTypeOK, objVars
<1>14. \A x \in Addr : TargetInv(x)'
  BY <1>1 DEF DomainInv, doVars, objVars, TargetInv
<1>15. \A p \in Known : PurgeInv(p)'
  BY <1>1 DEF DomainInv, doVars, objVars, PurgeInv
<1> QED
  BY <1>1, <1>12, <1>13, <1>14, <1>15 DEF DomainInv

\* What the target of an access that writes is: the object itself or, for a relaxed
\* access, its initial CommutationDO, which is not an open one.
LEMMA TargetType ==
  ASSUME DomainInv, reg.pc \in WriterSteps
  PROVE  /\ Target \in DO /\ phase[Target] = "reg"
         /\ Target \in Wait => Target = reg.obj
         /\ \A x \in Addr : status[x].commDO # Target
<1>1. DomainTypeOK /\ ThreadInv /\ reg.todo # <<>> /\ reg.pc # "releaseCall"
  BY DEF DomainInv, ThreadInv, AccessSteps, WriterSteps
<1>2. reg.obj \in Task \cup Wait /\ phase[reg.obj] = "reg"
  BY <1>1 DEF DomainTypeOK, Thread, ThreadInv, Registers
<1>3. CASE Relaxed
  BY <1>1, <1>3, DOAssumption DEF DomainTypeOK, Thread, ThreadInv, Target, DO
<1>4. CASE ~Relaxed
  BY <1>1, <1>2, <1>4, DOAssumption DEF DomainTypeOK, Targets, Target, DO
<1> QED
  BY <1>3, <1>4

\* setAsWriter() makes an object the last writer that is still being registered, and a
\* wait only flushes the readers.
LEMMA DomainSetAsWriter ==
  ASSUME DomainInv, SetAsWriter, UNCHANGED program
  PROVE  DomainInv'
<1>1. DomainTypeOK /\ ThreadInv /\ reg.pc = "setWriter" /\ reg.todo # <<>>
  BY DEF DomainInv, SetAsWriter, ThreadInv, AccessSteps, WriterSteps
<1>2. a \in Addr /\ Target \in DO /\ phase[Target] = "reg"
      /\ \A x \in Addr : status[x].commDO # Target
  BY <1>1, AccessType, TargetType DEF WriterSteps
<1>3. /\ UNCHANGED doVars /\ unpurged' = unpurged /\ commutative' = commutative
      /\ accesses' = accesses
      /\ Goto(IF Relaxed THEN "target" ELSE "next")
  BY DEF SetAsWriter, histVars
<1>4. reg' \in Thread
  BY <1>1, <1>3, GotoType DEF Steps, AccessSteps, RelaxedSteps
<1>5. /\ status \in Targets /\ writes \in [DO -> SUBSET Addr] /\ reads \in [DO -> SUBSET Addr]
      /\ Target \notin Wait => Target \in Known
  BY <1>1, <1>2 DEF DomainTypeOK, Known, DO
<1>6. /\ status' \in Targets
      /\ \A x \in Addr :
           /\ status'[x].commDO = status[x].commDO
           /\ status'[x].readers = IF x = a THEN {} ELSE status[x].readers
           /\ status'[x].lastWriter = IF x = a /\ Target \notin Wait THEN Target
                                      ELSE status[x].lastWriter
  <2>1. CASE Target \in Wait
    <3>1. status' = [status EXCEPT ![a].readers = {}]
      BY <2>1 DEF SetAsWriter
    <3> QED
      BY <1>2, <1>5, <2>1, <3>1 DEF Targets
  <2>2. CASE Target \notin Wait
    <3>1. status' = [status EXCEPT ![a].readers = {}, ![a].lastWriter = Target]
      BY Zenon, <2>2 DEF SetAsWriter
    <3> QED
      BY ZenonT(60), <1>2, <1>5, <2>2, <3>1 DEF Targets
  <2> QED
    BY <2>1, <2>2
<1>7. /\ writes' \in [DO -> SUBSET Addr] /\ reads' \in [DO -> SUBSET Addr]
      /\ \A o \in DO : writes[o] \subseteq writes'[o] /\ reads[o] \subseteq reads'[o]
      /\ \A o \in DO : o # Target => writes'[o] = writes[o] /\ reads'[o] = reads[o]
      /\ Target \notin Wait => a \in writes'[Target]
  <2>1. CASE Target \in Wait
    BY <1>5, <2>1 DEF SetAsWriter
  <2>2. CASE Target \notin Wait
    <3>1. /\ writes' = [writes EXCEPT ![Target] = @ \cup {a}]
          /\ reads' = [reads EXCEPT ![Target] = IF mode = "inout" THEN @ \cup {a} ELSE @]
      BY <2>2 DEF SetAsWriter
    <3> QED
      BY <1>2, <1>5, <3>1
  <2> QED
    BY <2>1, <2>2
<1>8. DomainTypeOK'
  BY <1>1, <1>3, <1>4, <1>6, <1>7 DEF DomainTypeOK
<1>9. ThreadInv'
  <2>1. CASE Relaxed
    <3>1. reg' = [reg EXCEPT !.pc = "target"]
      BY Zenon, <1>3, <2>1 DEF Goto
    <3> QED
      BY <1>1, <1>3, <1>6, <2>1, <3>1 DEF ThreadInv, DomainTypeOK, Thread, Registers, doVars,
         a, mode, Relaxed, Target, AccessSteps, RelaxedSteps, WriterSteps
  <2>2. CASE ~Relaxed
    BY Zenon, <1>1, <1>3, <2>2, ThreadNext DEF ThreadInv, Registers, doVars
  <2> QED
    BY <2>1, <2>2
<1>10. \A x \in Addr : TargetInv(x)'
  <2> SUFFICES ASSUME NEW x \in Addr PROVE TargetInv(x)'
    OBVIOUS
  <2>1. TargetInv(x) /\ phase' = phase
    BY <1>3 DEF DomainInv, doVars
  <2>2. Target \notin Wait => Target \in unpurged
    BY <1>2 DEF DomainInv, PurgeInv, Known, DO
  <2>3. status[x].lastWriter \in Known \cup {NoDO} /\ status[x].readers \subseteq DO
        /\ status[x].commDO \in Comm \cup {NoDO} /\ Known \subseteq DO /\ Comm \subseteq DO
    BY <1>5 DEF Targets, Known, DO
  <2> QED
    BY <1>2, <1>3, <1>6, <1>7, <2>1, <2>2, <2>3 DEF TargetInv
<1>11. \A p \in Known : PurgeInv(p)'
  <2>1. \A p \in Known : p \in DO
    BY DEF Known, DO
  <2> QED
    BY <1>2, <1>3, <1>7, <2>1 DEF DomainInv, PurgeInv, doVars, Released
<1> QED
  BY <1>8, <1>9, <1>10, <1>11 DEF DomainInv

\* addAsReader() adds an object that is still being registered.
LEMMA DomainAddAsReader ==
  ASSUME DomainInv, AddAsReader, UNCHANGED program
  PROVE  DomainInv'
<1>1. /\ DomainTypeOK /\ ThreadInv /\ reg.pc = "addReader" /\ reg.todo # <<>>
      /\ reg.obj \in Task \cup Wait /\ phase[reg.obj] = "reg" /\ reg.obj \in DO
  BY DEF DomainInv, AddAsReader, DomainTypeOK, Thread, ThreadInv, AccessSteps, Registers, DO
<1>2. a \in Addr
  BY <1>1, AccessType
<1>3. /\ UNCHANGED doVars /\ UNCHANGED <<unpurged, commutative, accesses, writes>>
      /\ Goto("next")
  BY DEF AddAsReader, histVars
<1>4. reg' \in Thread /\ ThreadInv'
  BY <1>1, <1>3, ThreadNext DEF doVars
<1>5. status \in Targets /\ reads \in [DO -> SUBSET Addr]
  BY <1>1 DEF DomainTypeOK
<1>6. /\ status' \in Targets
      /\ \A x \in Addr :
           /\ status'[x].commDO = status[x].commDO
           /\ status'[x].lastWriter = status[x].lastWriter
           /\ status'[x].readers = IF x = a /\ reg.obj \notin Wait
                                     THEN status[x].readers \cup {reg.obj}
                                     ELSE status[x].readers
  <2>1. CASE reg.obj \in Wait
    BY <1>5, <2>1 DEF AddAsReader
  <2>2. CASE reg.obj \notin Wait
    <3>1. status' = [status EXCEPT ![a].readers = @ \cup {reg.obj}] /\ reg.obj \in Task
      BY <1>1, <2>2 DEF AddAsReader
    <3> QED
      BY Zenon, <1>2, <1>5, <2>2, <3>1 DEF Targets
  <2> QED
    BY <2>1, <2>2
<1>7. /\ reads' \in [DO -> SUBSET Addr]
      /\ \A o \in DO : reads[o] \subseteq reads'[o]
      /\ \A o \in DO : o # reg.obj => reads'[o] = reads[o]
      /\ reg.obj \notin Wait => a \in reads'[reg.obj]
  <2>1. CASE reg.obj \in Wait
    BY <1>5, <2>1 DEF AddAsReader
  <2>2. CASE reg.obj \notin Wait
    <3>1. reads' = [reads EXCEPT ![reg.obj] = @ \cup {a}]
      BY <2>2 DEF AddAsReader
    <3> QED
      BY <1>1, <1>2, <1>5, <3>1
  <2> QED
    BY <2>1, <2>2
<1>8. DomainTypeOK'
  BY <1>1, <1>3, <1>4, <1>6, <1>7 DEF DomainTypeOK
<1>9. \A x \in Addr : TargetInv(x)'
  <2> SUFFICES ASSUME NEW x \in Addr PROVE TargetInv(x)'
    OBVIOUS
  <2>1. TargetInv(x) /\ phase' = phase
    BY <1>3 DEF DomainInv, doVars
  <2>2. /\ status[x].lastWriter \in Known \cup {NoDO} /\ status[x].readers \subseteq DO
        /\ status[x].commDO \in Comm \cup {NoDO}
    BY <1>5 DEF Targets, DO
  <2>3. CASE x = a /\ reg.obj \notin Wait
    <3>1. /\ status'[x].commDO = status[x].commDO
          /\ status'[x].lastWriter = status[x].lastWriter
          /\ status'[x].readers = status[x].readers \cup {reg.obj}
          /\ writes' = writes /\ unpurged' = unpurged
      BY Zenon, <1>3, <1>6, <2>3
    <3>2. \A r \in status'[x].readers : x \in reads'[r] /\ phase[r] # "none"
      BY <1>1, <1>7, <2>1, <2>2, <2>3, <3>1 DEF TargetInv
    <3> QED
      BY <2>1, <3>1, <3>2 DEF TargetInv
  <2>4. CASE x # a \/ reg.obj \in Wait
    BY Zenon, <1>1, <1>3, <1>6, <1>7, <2>1, <2>2, <2>4 DEF TargetInv
  <2> QED
    BY Zenon, <1>1, <1>3, <1>6, <1>7, <2>1, <2>2, <2>3 DEF TargetInv
<1>10. \A p \in Known : PurgeInv(p)'
  <2>1. \A p \in Known : p \in DO
    BY DEF Known, DO
  <2> QED
    BY <1>1, <1>3, <1>7, <2>1 DEF DomainInv, PurgeInv, doVars, Released
<1> QED
  BY <1>4, <1>8, <1>9, <1>10 DEF DomainInv

\* clearDependenciesDomain() leaves the domain empty.
LEMMA DomainClear ==
  ASSUME DomainInv, ClearDomain, UNCHANGED program
  PROVE  DomainInv'
<1>1. /\ DomainTypeOK /\ ThreadInv /\ reg.pc = "taskwait" /\ reg.todo = <<>>
      /\ reg' = [reg EXCEPT !.pc = "idle"] /\ UNCHANGED <<doVars, objVars, accesses>>
  BY DEF DomainInv, ClearDomain, ThreadInv, Goto, histVars
<1>2. /\ status' \in Targets
      /\ \A x \in Addr : /\ status'[x].lastWriter = NoDO /\ status'[x].readers = {}
                         /\ status'[x].commDO = NoDO
  BY DEF ClearDomain, Targets
<1>3. DomainTypeOK'
  BY Zenon, <1>1, <1>2 DEF DomainTypeOK, Thread, Steps, objVars
<1>4. ThreadInv'
  BY <1>1 DEF DomainTypeOK, Thread, ThreadInv, Registers, AccessSteps, RelaxedSteps, WriterSteps
<1>5. \A x \in Addr : TargetInv(x)'
  BY <1>2 DEF TargetInv
<1>6. \A p \in Known : PurgeInv(p)'
  BY <1>1 DEF DomainInv, PurgeInv, doVars, objVars
<1> QED
  BY <1>3, <1>4, <1>5, <1>6 DEF DomainInv

\* deleteLastWriter(): a purging object leaves all the targets it writes.
LEMMA DomainDeleteLastWriter ==
  ASSUME DomainInv, NEW p \in DO, DeleteLastWriter(p), UNCHANGED program
  PROVE  DomainInv'
<1>1. /\ DomainTypeOK /\ ThreadInv /\ phase[p] = "purge"
      /\ UNCHANGED <<doVars, writes, reads, commutative, reg, accesses>>
      /\ unpurged' = unpurged \ {p}
      /\ \A x \in Addr : TargetInv(x)
  BY Zenon DEF DomainInv, DeleteLastWriter, histVars
<1>2. status \in Targets
  BY <1>1 DEF DomainTypeOK
<1>3. \A x \in Addr :
        status'[x] = [status[x] EXCEPT
          !.lastWriter = IF x \in writes[p] /\ @ = p THEN NoDO ELSE @,
          !.commDO = IF x \in writes[p] /\ @ = p THEN NoDO ELSE @]
  BY Zenon DEF DeleteLastWriter
<1>4. \A x \in Addr :
        /\ status'[x].readers = status[x].readers
        /\ status'[x].commDO = status[x].commDO
        /\ status'[x].lastWriter = IF status[x].lastWriter = p THEN NoDO ELSE status[x].lastWriter
  <2> SUFFICES ASSUME NEW x \in Addr
               PROVE  /\ status'[x].readers = status[x].readers
                      /\ status'[x].commDO = status[x].commDO
                      /\ status'[x].lastWriter =
                           IF status[x].lastWriter = p THEN NoDO ELSE status[x].lastWriter
    OBVIOUS
  <2>1. status[x].commDO # p /\ (status[x].lastWriter = p => x \in writes[p])
    BY <1>1, DOAssumption DEF TargetInv
  <2>2. status[x] \in [lastWriter : Known \cup {NoDO}, readers : SUBSET Task,
                       commDO : Comm \cup {NoDO}]
    BY <1>2 DEF Targets
  <2> QED
    BY Zenon, <1>3, <2>1, <2>2
<1>5. status' \in Targets
  BY Zenon, <1>2 DEF DeleteLastWriter, Targets
<1>6. DomainTypeOK'
  BY <1>1, <1>5 DEF DomainTypeOK
<1>7. ThreadInv'
  <2>1. reg.todo # <<>> => a \in Addr
    BY Zenon, <1>1, AccessType
  <2> QED
    BY Zenon, <1>1, <1>4, <2>1 DEF ThreadInv, Registers, doVars, a, mode, Relaxed, Target, AccessSteps,
       RelaxedSteps, WriterSteps
<1>8. \A x \in Addr : TargetInv(x)'
  <2> SUFFICES ASSUME NEW x \in Addr PROVE TargetInv(x)'
    OBVIOUS
  <2>1. TargetInv(x) /\ phase' = phase /\ writes' = writes /\ reads' = reads
    BY <1>1 DEF doVars
  <2> QED
    BY <1>1, <1>4, <2>1 DEF TargetInv
<1>9. \A q \in Known : PurgeInv(q)'
  BY <1>1 DEF DomainInv, PurgeInv, doVars
<1> QED
  BY <1>6, <1>7, <1>8, <1>9 DEF DomainInv

\* deleteReader(): a purging object leaves one target it reads, and not while the
\* registering thread holds the lock of the readers.
LEMMA DomainDeleteReader ==
  ASSUME DomainInv, NEW p \in DO, DeleteReader(p), UNCHANGED program
  PROVE  DomainInv'
<1>1. /\ DomainTypeOK /\ ThreadInv /\ phase[p] = "purge"
      /\ UNCHANGED <<doVars, writes, unpurged, commutative, reg, accesses>>
      /\ \A x \in Addr : TargetInv(x)
  BY DEF DomainInv, DeleteReader, histVars
<1>2. PICK y \in reads[p] : /\ reg.locked # y
                            /\ status' = [status EXCEPT ![y].readers = @ \ {p}]
                            /\ reads' = [reads EXCEPT ![p] = @ \ {y}]
  BY Zenon DEF DeleteReader
<1>3. status \in Targets /\ reads \in [DO -> SUBSET Addr] /\ y \in Addr
  BY <1>1 DEF DomainTypeOK
<1>4. /\ status' \in Targets
      /\ \A x \in Addr :
           /\ status'[x].lastWriter = status[x].lastWriter
           /\ status'[x].commDO = status[x].commDO
           /\ status'[x].readers = IF x = y THEN status[x].readers \ {p} ELSE status[x].readers
  BY Zenon, <1>2, <1>3 DEF Targets
<1>5. /\ reads' \in [DO -> SUBSET Addr]
      /\ \A o \in DO : reads'[o] = IF o = p THEN reads[p] \ {y} ELSE reads[o]
  BY <1>2, <1>3
<1>6. DomainTypeOK'
  BY <1>1, <1>4, <1>5 DEF DomainTypeOK
<1>7. ThreadInv'
  <2>1. reg.todo # <<>> => a \in Addr
    BY <1>1, AccessType
  <2>2. reg.pc = "linkReaders" => status'[a].readers = status[a].readers
    BY <1>1, <1>2, <1>4, <2>1 DEF ThreadInv, AccessSteps, WriterSteps
  <2> QED
    BY Zenon, <1>1, <1>4, <2>1, <2>2 DEF ThreadInv, Registers, doVars, a, mode, Relaxed, Target,
       AccessSteps, RelaxedSteps, WriterSteps
<1>8. \A x \in Addr : TargetInv(x)'
  <2> SUFFICES ASSUME NEW x \in Addr PROVE TargetInv(x)'
    OBVIOUS
  <2>1. TargetInv(x) /\ phase' = phase /\ writes' = writes /\ unpurged' = unpurged
    BY <1>1 DEF doVars
  <2>2. status[x].readers \subseteq DO
    BY <1>3 DEF Targets, DO
  <2>3. \A r \in status'[x].readers : x \in reads'[r] /\ phase[r] # "none"
    BY Zenon, <1>4, <1>5, <2>1, <2>2 DEF TargetInv
  <2> QED
    BY Zenon, <1>4, <2>1, <2>3 DEF TargetInv
<1>9. \A q \in Known : PurgeInv(q)'
  BY <1>1, <1>5 DEF DomainInv, PurgeInv, doVars, Known, DO, Released
<1> QED
  BY <1>6, <1>7, <1>8, <1>9 DEF DomainInv

-----------------------------------------------------------------------------
\* Steps of the objects

Unfinished == {"none", "reg", "wait", "ready", "run"}
Early == Unfinished \cup {"exit"}

\* What a step of the objects that leaves the TrackableObjects alone must respect: an
\* object of the domain stays in it, an open CommutationDO stays open, and only a
\* purged object goes on to its loop.
LEMMA DomainPhases ==
  ASSUME DomainInv, UNCHANGED <<status, objVars>>,
         \A o \in Known : phase[o] # "none" => phase'[o] # "none",
         \A x \in Addr : status[x].commDO # NoDO => phase'[status[x].commDO] = "reg",
         \A p \in Known : phase'[p] \in Early => phase[p] \in Early,
         \A p \in Known : phase'[p] \in Released =>
           phase[p] \in Released \/ (p \notin unpurged /\ reads[p] = {})
  PROVE  /\ \A x \in Addr : TargetInv(x)'
         /\ \A p \in Known : PurgeInv(p)'
<1>1. /\ status' = status /\ writes' = writes /\ reads' = reads /\ unpurged' = unpurged
      /\ \A x \in Addr : TargetInv(x)
      /\ \A p \in Known : PurgeInv(p)
      /\ status \in Targets
  BY Zenon DEF objVars, DomainInv, DomainTypeOK
<1>2. ASSUME NEW x \in Addr PROVE TargetInv(x)'
  <2>1. /\ status[x].lastWriter \in Known \cup {NoDO} /\ status[x].readers \subseteq Known
        /\ TargetInv(x)
    BY <1>1, <1>2 DEF Targets, Known
  <2> QED
    BY Zenon, <1>1, <1>2, <2>1 DEF TargetInv
<1>3. ASSUME NEW p \in Known PROVE PurgeInv(p)'
  BY Zenon, <1>1, <1>3 DEF PurgeInv, Early, Unfinished
<1> QED
  BY <1>2, <1>3

\* What the threads that run tasks do to the phases of the objects: none is created,
\* none ends its registration, and an object is released only after it is purged.
LEMMA RunningPhases ==
  ASSUME DOInv, SoleBlocker, NEW p \in DO,
         \/ Start(p) \/ BodyEnd(p) \/ Finish(p) \/ DecreaseSingle(p) \/ Return(p)
         \/ DecreaseBatch(p) \/ SubmitBatch(p)
         \/ \E s \in DO : Visit(p, s)
         \/ \E s \in Task, keepDeps \in BOOLEAN : ImmediateSuccessor(p, s, keepDeps)
  PROVE  \A o \in DO : /\ phase'[o] = "none" <=> phase[o] = "none"
                       /\ phase'[o] = "reg" <=> phase[o] = "reg"
                       /\ phase'[o] \in Early => phase[o] \in Early
                       /\ phase'[o] \in Unfinished => phase[o] \in Unfinished
                       /\ o \notin Wait /\ phase'[o] \in Released => phase[o] \in Released
<1>1. phase \in [DO -> Phase] /\ Task \subseteq DO /\ DOTypeOK /\ Task \cap Wait = {}
  BY Zenon, DOAssumption DEF DOInv, DOTypeOK, DO
<1>2. CASE Start(p) \/ BodyEnd(p) \/ Finish(p) \/ Return(p) \/ SubmitBatch(p)
  BY <1>1, <1>2 DEF Start, BodyEnd, Finish, Return, SubmitBatch, Early, Unfinished, Released
<1>3. CASE \E s \in DO : Visit(p, s)
  <2>1. \E f \in {"batch", "single"} : phase' = [phase EXCEPT ![p] = f]
    BY Zenon, <1>3 DEF Visit
  <2>2. phase[p] = "loop"
    BY Zenon, <1>3 DEF Visit
  <2> QED
    BY <1>1, <2>1, <2>2 DEF Early, Unfinished, Released
<1>4. CASE DecreaseSingle(p)
  <2> DEFINE s == cur[p]
  <2>1. phase[p] = "single" /\ s \in succ[p] \ visited[p]
    BY Zenon, <1>4 DEF DecreaseSingle, DOInv, VisitInv
  <2>2. s \in DO /\ s # p
    BY Zenon, <1>1, <2>1 DEF DOTypeOK, DOInv, EdgesInv
  <2>3. numPred[s] = 1 => phase[s] = "wait"
    BY Zenon, <2>1, <2>2 DEF SoleBlocker
  <2>4. PICK f \in {"call", "loop"} :
          phase' = [phase EXCEPT ![p] = f, ![s] = DecreasedPhase(s)]
    BY Zenon, <1>4 DEF DecreaseSingle
  <2>5. /\ \A o \in DO \ {p, s} : phase'[o] = phase[o]
        /\ phase'[p] \in {"call", "loop"}
        /\ phase'[s] = DecreasedPhase(s)
    BY Zenon, <1>1, <2>2, <2>4
  <2>6. \/ phase'[s] = phase[s]
        \/ /\ phase[s] = "wait" /\ phase'[s] \in {"ready", "purge", "done"}
           /\ phase'[s] = "done" => s \in Wait
    BY Zenon, <2>2, <2>3, <2>5 DEF DecreasedPhase, SatisfiedPhase, DO
  <2>7. \A o \in DO : o = p \/ o = s \/ o \in DO \ {p, s}
    BY Zenon
  <2> QED
    BY Zenon, <2>1, <2>5, <2>6, <2>7 DEF Early, Unfinished, Released
<1>5. CASE DecreaseBatch(p)
  <2> DEFINE s == cur[p]
  <2>1. phase[p] = "batch" /\ phase' = [phase EXCEPT ![p] = "loop", ![s] = "ready"]
    BY Zenon, <1>5 DEF DecreaseBatch
  <2>2. s \in DO /\ phase[s] = "wait"
    BY Zenon, <1>1, <2>1 DEF SoleBlocker, DOInv, VisitInv, DOTypeOK
  <2> QED
    BY Zenon, <1>1, <2>1, <2>2 DEF Early, Unfinished, Released
<1>6. CASE \E s \in Task, keepDeps \in BOOLEAN : ImmediateSuccessor(p, s, keepDeps)
  <2>1. PICK s \in Task, keepDeps \in BOOLEAN : ImmediateSuccessor(p, s, keepDeps)
    BY Zenon, <1>6
  <2>2. phase' = phase \/ phase' = [phase EXCEPT ![s] = "ready"]
    BY Zenon, <2>1 DEF ImmediateSuccessor
  <2>3. s \in DO /\ s \in succ[p] /\ numPred[s] = 1 /\ phase[p] \in BeforeLoop
    BY <1>1, <2>1 DEF ImmediateSuccessor, Held, BeforeLoop
  <2>4. phase[s] = "wait"
    BY Zenon, <2>3 DEF SoleBlocker, DOInv, EdgesInv
  <2> QED
    BY Zenon, <1>1, <2>2, <2>3, <2>4 DEF Early, Unfinished, Released
<1> QED
  BY Zenon, <1>2, <1>3, <1>4, <1>5, <1>6

\* The steps of the threads that run tasks, but for the purge.
WorkStep(p) == StartTask(p) \/ Running(p) \/ TakeSuccessor(p)

\* Such a step is one of the protocol of the objects.
LEMMA WorkIsDONext ==
  ASSUME DomainInv, NEW p \in DO, WorkStep(p)
  PROVE  DONext
<1>1. program.keepDeps \subseteq BOOLEAN /\ Task \subseteq DO
  BY PlainDepsAssumption DEF DomainInv, DomainTypeOK, DO
<1> QED
  BY Zenon, <1>1 DEF WorkStep, StartTask, Running, TakeSuccessor, DONext

\* Such a step leaves the domain in order.
LEMMA DomainWork ==
  ASSUME DOInv, SoleBlocker, DomainInv, NEW p \in DO, WorkStep(p), UNCHANGED program
  PROVE  DomainInv'
<1>1. /\ DomainTypeOK /\ ThreadInv
      /\ UNCHANGED <<status, objVars, reg, accesses>>
  BY Zenon DEF DomainInv, WorkStep, StartTask, Running, TakeSuccessor, histVars
<1>2. \A o \in DO : /\ phase'[o] = "none" <=> phase[o] = "none"
                    /\ phase'[o] = "reg" <=> phase[o] = "reg"
                    /\ phase'[o] \in Early => phase[o] \in Early
                    /\ o \notin Wait /\ phase'[o] \in Released => phase[o] \in Released
  <2>1. program.keepDeps \subseteq BOOLEAN
    BY Zenon, PlainDepsAssumption DEF DomainInv, DomainTypeOK
  <2>2. \/ Start(p) \/ BodyEnd(p) \/ Finish(p) \/ DecreaseSingle(p) \/ Return(p)
        \/ DecreaseBatch(p) \/ SubmitBatch(p)
        \/ \E s \in DO : Visit(p, s)
        \/ \E s \in Task, keepDeps \in BOOLEAN : ImmediateSuccessor(p, s, keepDeps)
    BY Zenon, <2>1 DEF WorkStep, StartTask, Running, TakeSuccessor
  <2> QED
    BY Zenon, <2>2, RunningPhases
<1>3. /\ Known \subseteq DO /\ Known \cap Wait = {}
      /\ \A x \in Addr : status[x].commDO # NoDO =>
           status[x].commDO \in DO /\ phase[status[x].commDO] = "reg"
  BY Zenon, DOAssumption DEF Known, DO, DomainInv, DomainTypeOK, Targets, TargetInv
<1>4. /\ \A x \in Addr : TargetInv(x)'
      /\ \A q \in Known : PurgeInv(q)'
  BY Zenon, <1>1, <1>2, <1>3, DomainPhases
<1>5. DomainTypeOK'
  BY Zenon, <1>1 DEF DomainTypeOK, objVars
<1>6. ThreadInv'
  <2>1. reg.obj \in DO \cup {NoDO} /\ reg.initial \in DO \cup {NoDO}
    BY <1>1 DEF DomainTypeOK, Thread, DO
  <2> QED
    BY Zenon, <1>1, <1>2, <2>1 DEF ThreadInv, Registers, a, mode, Relaxed, Target
<1> QED
  BY Zenon, <1>4, <1>5, <1>6 DEF DomainInv

\* The purge of an object ends when it is in no TrackableObject.
LEMMA DomainEndPurge ==
  ASSUME DOInv, DomainInv, NEW p \in DO, EndPurge(p), UNCHANGED program
  PROVE  DomainInv' /\ DONext
<1>1. /\ DomainTypeOK /\ ThreadInv /\ phase[p] = "purge" /\ phase \in [DO -> Phase]
      /\ UNCHANGED <<status, objVars, reg, accesses>>
      /\ phase' = [phase EXCEPT ![p] = "loop"]
      /\ p \notin unpurged /\ reads[p] = {}
  BY Zenon DEF DomainInv, EndPurge, Purged, histVars, DOInv, DOTypeOK
<1>2. \A o \in DO : phase'[o] = IF o = p THEN "loop" ELSE phase[o]
  BY <1>1
<1>3. /\ Known \subseteq DO
      /\ \A x \in Addr : status[x].commDO # NoDO =>
           status[x].commDO \in DO /\ phase[status[x].commDO] = "reg"
  BY Zenon DEF Known, DO, DomainInv, DomainTypeOK, Targets, TargetInv
<1>4. /\ \A x \in Addr : TargetInv(x)'
      /\ \A q \in Known : PurgeInv(q)'
  <2>1. /\ \A o \in Known : phase[o] # "none" => phase'[o] # "none"
        /\ \A x \in Addr : status[x].commDO # NoDO => phase'[status[x].commDO] = "reg"
        /\ \A q \in Known : phase'[q] \in Early => phase[q] \in Early
        /\ \A q \in Known : phase'[q] \in Released =>
             phase[q] \in Released \/ (q \notin unpurged /\ reads[q] = {})
    BY <1>1, <1>2, <1>3 DEF Early, Unfinished
  <2> QED
    BY Zenon, <1>1, <2>1, DomainPhases
<1>5. DomainTypeOK'
  BY <1>1 DEF DomainTypeOK, objVars
<1>6. ThreadInv'
  <2>1. reg.obj \in DO \cup {NoDO} /\ reg.initial \in DO \cup {NoDO}
    BY Zenon, <1>1 DEF DomainTypeOK, Thread, DO
  <2> QED
    BY Zenon, <1>1, <1>2, <2>1 DEF ThreadInv, Registers, a, mode, Relaxed, Target
<1>7. DONext
  BY Zenon DEF EndPurge, DONext
<1> QED
  BY Zenon, <1>4, <1>5, <1>6, <1>7 DEF DomainInv

\* What the release of the fake predecessor does to the phases of the objects.
LEMMA DropFakePhase ==
  ASSUME DOInv, NEW o \in DO, phase[o] = "reg", DropFake(o)
  PROVE  /\ \A x \in DO \ {o} : phase'[x] = phase[x]
         /\ phase'[o] \in {"wait", SatisfiedPhase(o)}
         /\ phase'[o] \in {"wait", "ready", "purge", "done"}
         /\ phase'[o] = "done" => o \in Wait
         /\ numPred[o] = 1 => phase'[o] = SatisfiedPhase(o)
         /\ DONext
<1>1. phase \in [DO -> Phase]
  BY DEF DOInv, DOTypeOK
<1>2. DONext
  BY DEF DONext, ReleaseFake
<1> QED
  BY <1>1, <1>2 DEF DropFake, SatisfiedPhase, DO

\* What the creation of an object does to the phases of the objects.
LEMMA CreatePhase ==
  ASSUME DOInv, NEW o \in DO, Create(o)
  PROVE  /\ \A x \in DO \ {o} : phase'[x] = phase[x]
         /\ phase'[o] = "reg" /\ phase[o] \in {"none", "done"}
         /\ o \notin Wait => phase[o] = "none"
         /\ DONext
<1>1. phase \in [DO -> Phase]
  BY DEF DOInv, DOTypeOK
<1> QED
  BY Zenon, <1>1 DEF Create, DONext

\* The registration of an object begins: it is new, or the wait of an earlier call.
LEMMA DomainRegister ==
  ASSUME DOInv, DomainInv, NEW o \in Task \cup Wait, NEW xs \in Seq(Access),
         o \in Wait => \A i \in 1..Len(xs) : xs[i].mode \notin RelaxedMode,
         Register(o, xs), UNCHANGED program
  PROVE  DomainInv' /\ DONext
<1>1. /\ DomainTypeOK /\ ThreadInv /\ o \in DO /\ Create(o)
      /\ UNCHANGED <<status, objVars>>
      /\ reg.pc = "idle" /\ reg' = [reg EXCEPT !.pc = "access", !.obj = o, !.todo = xs]
      /\ accesses' = [accesses EXCEPT ![o] = xs]
  BY DEF DomainInv, Register, DO
<1>2. /\ DONext /\ phase'[o] = "reg" /\ phase[o] \in {"none", "done"}
      /\ o \notin Wait => phase[o] = "none"
      /\ \A x \in DO \ {o} : phase'[x] = phase[x]
  BY <1>1, CreatePhase
<1>3. /\ Known \subseteq DO /\ Known \cap Wait = {} /\ Known \cup Wait = DO
      /\ \A x \in Addr : status[x].commDO # NoDO =>
           status[x].commDO \in DO \ {o} /\ phase[status[x].commDO] = "reg"
  BY <1>1, DOAssumption DEF Known, DO, DomainInv, DomainTypeOK, Targets, TargetInv
<1>4. /\ \A x \in Addr : TargetInv(x)'
      /\ \A q \in Known : PurgeInv(q)'
  <2>1. /\ \A q \in Known : phase[q] # "none" => phase'[q] # "none"
        /\ \A x \in Addr : status[x].commDO # NoDO => phase'[status[x].commDO] = "reg"
        /\ \A q \in Known : phase'[q] \in Early => phase[q] \in Early
        /\ \A q \in Known : phase'[q] \in Released =>
             phase[q] \in Released \/ (q \notin unpurged /\ reads[q] = {})
    BY <1>2, <1>3 DEF Early, Unfinished, Released
  <2> QED
    BY Zenon, <1>1, <2>1, DomainPhases
<1>5. DomainTypeOK'
  <2>1. reg' \in Thread
    BY Zenon, <1>1 DEF DomainTypeOK, Thread, Steps
  <2> QED
    BY <1>1, <2>1 DEF DomainTypeOK, objVars
<1>6. ThreadInv'
  <2>1. /\ reg.initial = NoDO /\ reg.locked = NoAddr /\ reg.toLink = {}
    BY <1>1 DEF ThreadInv, AccessSteps
  <2>2. /\ reg'.pc = "access" /\ reg'.obj = o /\ reg'.todo = xs /\ reg'.initial = NoDO
        /\ reg'.locked = NoAddr /\ reg'.toLink = {} /\ o # NoDO
    BY <1>1, <2>1, DOAssumption DEF DomainTypeOK, Thread
  <2> QED
    BY Zenon, <1>2, <2>2 DEF ThreadInv, Registers, AccessSteps, RelaxedSteps, WriterSteps
<1> QED
  BY <1>2, <1>4, <1>5, <1>6 DEF DomainInv

\* submit() of a task and wait_on() begin a registration.
LEMMA DomainSubmit ==
  ASSUME DOInv, DomainInv, SubmitTask \/ WaitOn, UNCHANGED program
  PROVE  DomainInv' /\ DONext
<1>1. CASE SubmitTask
  <2>1. PICK t \in 1..program.tasks, xs \in program.lists : Register(t, xs)
    BY <1>1 DEF SubmitTask
  <2>2. program.tasks \in Task /\ program.lists \subseteq Seq(Access)
    BY PlainDepsAssumption DEF DomainInv, DomainTypeOK
  <2>3. t \in Task /\ t \notin Wait
    BY <2>2, DOAssumption, PlainDepsAssumption
  <2> QED
    BY <2>1, <2>2, <2>3, DomainRegister
<1>2. CASE WaitOn
  <2>1. PICK w \in Wait, xs \in WaitAccesses : Register(w, xs)
    BY <1>2 DEF WaitOn
  <2>2. xs \in Seq(AccessOf({"in", "out", "inout"}))
    BY PlainDepsAssumption
  <2>3. /\ \A i \in 1..Len(xs) : xs[i] \in AccessOf({"in", "out", "inout"})
        /\ Len(xs) \in Nat /\ DOMAIN xs = 1..Len(xs)
    BY <2>2
  <2>4. xs \in Seq(Access)
    <3>1. AccessOf({"in", "out", "inout"}) \subseteq Access
      BY DEF Access, AccessOf
    <3> QED
      BY <2>2, <3>1
  <2>5. \A i \in 1..Len(xs) : xs[i].mode \notin RelaxedMode
    BY <2>3 DEF AccessOf, RelaxedMode
  <2> QED
    BY <2>1, <2>4, <2>5, DomainRegister
<1> QED
  BY <1>1, <1>2

\* The registration ends: the object loses its fake predecessor.
LEMMA DomainEndSubmit ==
  ASSUME DOInv, DomainInv, EndSubmit, UNCHANGED program
  PROVE  DomainInv' /\ DONext
<1> DEFINE o == reg.obj
<1>1. /\ DomainTypeOK /\ ThreadInv /\ reg.pc = "submit" /\ reg.todo = <<>>
      /\ UNCHANGED <<status, objVars, accesses>>
      /\ DropFake(o)
      /\ reg' = [reg EXCEPT !.pc = IF reg.obj \in Wait THEN "blocked" ELSE "idle"]
  BY DEF DomainInv, EndSubmit, histVars, ThreadInv, Goto
<1>2. o \in Task \cup Wait /\ o \in DO /\ phase[o] = "reg"
  BY <1>1 DEF DomainTypeOK, Thread, ThreadInv, Registers, DO
<1>3. /\ DONext /\ phase'[o] \in {"wait", "ready", "purge", "done"}
      /\ phase'[o] = "done" => o \in Wait
      /\ \A x \in DO \ {o} : phase'[x] = phase[x]
  BY Zenon, <1>1, <1>2, DropFakePhase
<1>4. /\ Known \subseteq DO /\ Known \cap Wait = {}
      /\ \A x \in Addr : status[x].commDO # NoDO =>
           status[x].commDO \in DO \ {o} /\ phase[status[x].commDO] = "reg"
  BY <1>2, DOAssumption DEF Known, DO, DomainInv, DomainTypeOK, Targets, TargetInv
<1>5. /\ \A x \in Addr : TargetInv(x)'
      /\ \A q \in Known : PurgeInv(q)'
  <2>1. /\ \A q \in Known : phase[q] # "none" => phase'[q] # "none"
        /\ \A x \in Addr : status[x].commDO # NoDO => phase'[status[x].commDO] = "reg"
        /\ \A q \in Known : phase'[q] \in Early => phase[q] \in Early
        /\ \A q \in Known : phase'[q] \in Released =>
             phase[q] \in Released \/ (q \notin unpurged /\ reads[q] = {})
    BY Zenon, <1>2, <1>3, <1>4 DEF Early, Unfinished, Released
  <2> QED
    BY Zenon, <1>1, <2>1, DomainPhases
<1>6. DomainTypeOK'
  <2>1. reg' \in Thread
    BY Zenon, <1>1 DEF DomainTypeOK, Thread, Steps
  <2> QED
    BY <1>1, <2>1 DEF DomainTypeOK, objVars
<1>7. ThreadInv'
  BY Zenon, <1>1 DEF DomainTypeOK, Thread, ThreadInv, Registers, AccessSteps, RelaxedSteps, WriterSteps
<1> QED
  BY <1>3, <1>5, <1>6, <1>7 DEF DomainInv

\* finalizeReduction() of an open CommutationDO: it becomes the last writer of the
\* address, and the thread goes on, or waits for its finished().
LEMMA DomainCloseComm ==
  ASSUME DOInv, DomainInv, NEW x \in Addr, NEW next \in {"finalized", "taskwait"},
         reg.pc = IF next = "finalized" THEN "finalize" ELSE "taskwait",
         status[x].commDO # NoDO,
         CloseComm(x, next), UNCHANGED <<objVars, accesses, program>>
  PROVE  DomainInv' /\ DONext
<1> DEFINE c == status[x].commDO
<1>1. /\ DomainTypeOK /\ ThreadInv /\ DropFake(c)
      /\ status' = [status EXCEPT ![x].commDO = NoDO, ![x].lastWriter = c]
      /\ reg' = [reg EXCEPT !.writer = c,
                            !.pc = IF numPred[c] = 1 THEN "finalizeCall" ELSE next]
  BY DEF DomainInv, CloseComm
<1>2. /\ status \in Targets /\ c \in Comm /\ c \in Known /\ c \in DO /\ phase[c] = "reg"
      /\ writes[c] = {x} /\ c \notin Task \cup Wait /\ c \in unpurged
  BY <1>1, DOAssumption DEF DomainInv, DomainTypeOK, Targets, TargetInv, PurgeInv, Known, DO
<1>3. /\ DONext /\ phase'[c] \in {"wait", "purge"}
      /\ \A o \in DO \ {c} : phase'[o] = phase[o]
  BY <1>1, <1>2, DropFakePhase DEF SatisfiedPhase
<1>4. /\ status' \in Targets
      /\ \A y \in Addr : /\ status'[y].readers = status[y].readers
                         /\ status'[y].commDO = IF y = x THEN NoDO ELSE status[y].commDO
                         /\ status'[y].lastWriter = IF y = x THEN c ELSE status[y].lastWriter
  <2>1. /\ status' = [status EXCEPT ![x].commDO = NoDO, ![x].lastWriter = c]
        /\ status \in Targets /\ c \in Known
    BY <1>1, <1>2
  <2> HIDE DEF c
  <2> QED
    BY Zenon, <2>1 DEF Targets
<1>5. reg' \in Thread
  <2>1. PICK step \in Steps : reg' = [reg EXCEPT !.writer = c, !.pc = step]
    BY Zenon, <1>1 DEF Steps, AccessSteps
  <2> QED
    BY Zenon, <1>1, <1>2, <2>1 DEF DomainTypeOK, Thread
<1>6. DomainTypeOK'
  BY Zenon, <1>1, <1>4, <1>5 DEF DomainTypeOK, objVars
<1>7. ThreadInv'
  <2>1. /\ reg'.pc \in {"finalizeCall", next} /\ reg'.writer = c
        /\ reg'.obj = reg.obj /\ reg'.todo = reg.todo /\ reg'.initial = reg.initial
        /\ reg'.toLink = reg.toLink /\ reg'.locked = reg.locked
    BY Zenon, <1>1 DEF DomainTypeOK, Thread
  <2>2. /\ reg.obj \in Task \cup Wait \cup {NoDO} /\ reg.initial \in Comm \cup {NoDO}
        /\ reg.toLink = {} /\ reg.locked = NoAddr
        /\ reg.initial # c
    BY <1>1, <1>2, DOAssumption DEF DomainTypeOK, Thread, ThreadInv, DO
  <2>3. /\ Registers' => reg.obj # NoDO /\ phase'[reg.obj] = "reg"
        /\ reg.initial # NoDO => phase'[reg.initial] = "reg"
    BY <1>1, <1>2, <1>3, <2>1, <2>2 DEF ThreadInv, Registers, DO
  <2>4. /\ reg.initial # NoDO => \A y \in Addr : status'[y].commDO # reg.initial
    BY Zenon, <1>1, <1>4 DEF ThreadInv
  <2>5. /\ reg.pc = "finalize" => reg.todo # <<>>
        /\ reg.pc = "taskwait" => reg.todo = <<>>
    BY <1>1 DEF ThreadInv, AccessSteps
  <2> QED
    BY Zenon, <1>1, <2>1, <2>2, <2>3, <2>4, <2>5 DEF ThreadInv, Registers, AccessSteps, RelaxedSteps,
       WriterSteps, a, mode, Relaxed
<1>8. \A y \in Addr : TargetInv(y)'
  <2> SUFFICES ASSUME NEW y \in Addr PROVE TargetInv(y)'
    OBVIOUS
  <2>1. TargetInv(y) /\ writes' = writes /\ reads' = reads /\ unpurged' = unpurged
    BY Zenon DEF DomainInv, objVars
  <2>2. /\ status[y].lastWriter \in Known \cup {NoDO} /\ status[y].readers \subseteq Known
        /\ status[y].commDO \in Comm \cup {NoDO}
        /\ Known \subseteq DO /\ Comm \subseteq DO
    BY <1>2 DEF Targets, Known, DO
  <2>3. \A o \in Known : phase[o] # "none" => phase'[o] # "none"
    BY Zenon, <1>3, <2>2
  <2>4. CASE y = x
    <3>1. /\ status'[y].readers = status[y].readers /\ status'[y].commDO = NoDO
          /\ status'[y].lastWriter = c
      BY Zenon, <1>4, <2>4
    <3> QED
      BY Zenon, <1>2, <2>1, <2>2, <2>3, <2>4, <3>1 DEF TargetInv
  <2>5. CASE y # x
    <3>1. /\ status'[y].readers = status[y].readers /\ status'[y].commDO = status[y].commDO
          /\ status'[y].lastWriter = status[y].lastWriter
      BY Zenon, <1>4, <2>5
    <3>2. status[y].commDO # c
      BY Zenon, <1>2, <2>1, <2>5, DOAssumption DEF TargetInv
    <3>3. status[y].commDO # NoDO => phase'[status[y].commDO] = phase[status[y].commDO]
      BY Zenon, <1>3, <2>2, <3>2
    <3> QED
      BY Zenon, <2>1, <2>2, <2>3, <3>1, <3>3 DEF TargetInv
  <2> QED
    BY <2>4, <2>5
<1>9. \A p \in Known : PurgeInv(p)'
  <2>1. /\ reads' = reads /\ unpurged' = unpurged /\ Known \subseteq DO
        /\ \A p \in Known : PurgeInv(p)
    BY DEF DomainInv, objVars, Known, DO
  <2> QED
    BY Zenon, <1>2, <1>3, <2>1 DEF PurgeInv, Released
<1> QED
  BY <1>3, <1>6, <1>7, <1>8, <1>9 DEF DomainInv

\* finalizeReduction() before an access that is not relaxed or is of another kind.
LEMMA DomainFinalizeReduction ==
  ASSUME DOInv, DomainInv, FinalizeReduction, UNCHANGED program
  PROVE  DomainInv' /\ [DONext]_doVars
<1>1. /\ DomainTypeOK /\ ThreadInv /\ reg.pc = "finalize" /\ reg.todo # <<>>
      /\ UNCHANGED <<objVars, accesses>>
      /\ CloseComm(a, "finalized")
  BY Zenon DEF DomainInv, FinalizeReduction, histVars, ThreadInv, AccessSteps
<1>2. a \in Addr
  BY <1>1, AccessType
<1>3. CASE status[a].commDO # NoDO
  BY <1>1, <1>2, <1>3, DomainCloseComm
<1>4. CASE status[a].commDO = NoDO
  <2>1. UNCHANGED <<doVars, status>> /\ Goto("finalized")
    BY <1>1, <1>4 DEF CloseComm
  <2>2. reg' \in Thread /\ reg' = [reg EXCEPT !.pc = "finalized"]
    BY <1>1, <2>1, GotoType DEF Steps, AccessSteps
  <2>3. DomainTypeOK'
    BY <1>1, <2>1, <2>2 DEF DomainTypeOK, objVars
  <2>4. ThreadInv'
    BY Zenon, <1>1, <2>1, <2>2 DEF ThreadInv, DomainTypeOK, Thread, doVars, Registers, a, mode, Relaxed,
       Target, AccessSteps, RelaxedSteps, WriterSteps
  <2>5. \A x \in Addr : TargetInv(x)'
    BY Zenon, <1>1, <2>1 DEF DomainInv, doVars, objVars, TargetInv
  <2>6. \A p \in Known : PurgeInv(p)'
    BY <1>1, <2>1 DEF DomainInv, doVars, objVars, PurgeInv
  <2> QED
    BY <2>1, <2>3, <2>4, <2>5, <2>6 DEF DomainInv
<1> QED
  BY Zenon, <1>3, <1>4

\* finalizeAllReductions() at a taskwait.
LEMMA DomainFinalizeAll ==
  ASSUME DOInv, DomainInv, FinalizeAll, UNCHANGED program
  PROVE  DomainInv' /\ DONext
BY DomainCloseComm DEF FinalizeAll, histVars

\* The fake predecessor of the initial CommutationDO is released.
LEMMA DomainReleaseInitial ==
  ASSUME DOInv, DomainInv, ReleaseInitial, UNCHANGED program
  PROVE  DomainInv' /\ [DONext]_doVars
<1> DEFINE c == reg.initial
<1>1. /\ DomainTypeOK /\ ThreadInv /\ reg.pc = "releaseInitial" /\ reg.todo # <<>>
      /\ UNCHANGED <<status, objVars, accesses>>
      /\ reg.obj \in Task \cup Wait /\ reg.obj \in DO /\ phase[reg.obj] = "reg"
  BY Zenon DEF DomainInv, ReleaseInitial, histVars, ThreadInv, AccessSteps, RelaxedSteps, Registers,
     DomainTypeOK, Thread, DO
<1>2. CASE c = NoDO
  <2>1. UNCHANGED doVars /\ Goto("next")
    BY <1>2 DEF ReleaseInitial
  <2>2. reg' \in Thread /\ ThreadInv'
    BY Zenon, <1>1, <2>1, ThreadNext DEF doVars
  <2>3. DomainTypeOK'
    BY Zenon, <1>1, <2>2 DEF DomainTypeOK, objVars
  <2>4. \A x \in Addr : TargetInv(x)'
    BY Zenon, <1>1, <2>1 DEF DomainInv, doVars, objVars, TargetInv
  <2>5. \A p \in Known : PurgeInv(p)'
    BY Zenon, <1>1, <2>1 DEF DomainInv, doVars, objVars, PurgeInv
  <2> QED
    BY <2>1, <2>2, <2>3, <2>4, <2>5 DEF DomainInv
<1>3. CASE c # NoDO
  <2>1. /\ DropFake(c) /\ Goto(IF numPred[c] = 1 THEN "releaseCall" ELSE "next")
        /\ c \in Comm /\ c \in DO /\ c \notin Task \cup Wait /\ phase[c] = "reg"
        /\ \A x \in Addr : status[x].commDO # c
    BY Zenon, <1>1, <1>3, DOAssumption DEF ReleaseInitial, ThreadInv, DomainTypeOK, Thread, DO
  <2>2. /\ DONext /\ phase'[c] \in {"wait", "purge"}
        /\ \A x \in DO \ {c} : phase'[x] = phase[x]
    BY Zenon, <2>1, DropFakePhase DEF SatisfiedPhase
  <2>3. /\ Known \subseteq DO
        /\ \A x \in Addr : status[x].commDO # NoDO =>
             status[x].commDO \in DO \ {c} /\ phase[status[x].commDO] = "reg"
    BY <2>1 DEF Known, DO, DomainInv, DomainTypeOK, Targets, TargetInv
  <2>4. /\ \A x \in Addr : TargetInv(x)'
        /\ \A q \in Known : PurgeInv(q)'
    <3>1. /\ \A q \in Known : phase[q] # "none" => phase'[q] # "none"
          /\ \A x \in Addr : status[x].commDO # NoDO => phase'[status[x].commDO] = "reg"
          /\ \A q \in Known : phase'[q] \in Early => phase[q] \in Early
          /\ \A q \in Known : phase'[q] \in Released =>
               phase[q] \in Released \/ (q \notin unpurged /\ reads[q] = {})
      BY Zenon, <2>1, <2>2, <2>3 DEF Early, Unfinished, Released
    <3> QED
      BY Zenon, <1>1, <3>1, DomainPhases
  <2>5. reg' \in Thread /\ ThreadInv'
    <3>1. CASE numPred[c] = 1
      <4>1. reg' \in Thread /\ reg' = [reg EXCEPT !.pc = "releaseCall"]
        BY <1>1, <2>1, <3>1, GotoType DEF Steps, AccessSteps, RelaxedSteps
      <4>2. phase'[reg.obj] = "reg"
        BY Zenon, <1>1, <2>1, <2>2
      <4> QED
        BY Zenon, <1>1, <4>1, <4>2 DEF ThreadInv, DomainTypeOK, Thread, Registers, a, mode, Relaxed,
           Target, AccessSteps, RelaxedSteps, WriterSteps
    <3>2. CASE numPred[c] # 1
      BY Zenon, <1>1, <2>1, <2>2, <3>2, ThreadNext
    <3> QED
      BY Zenon, <3>1, <3>2
  <2>6. DomainTypeOK'
    BY Zenon, <1>1, <2>5 DEF DomainTypeOK, objVars
  <2> QED
    BY <2>2, <2>4, <2>5, <2>6 DEF DomainInv
<1> QED
  BY <1>2, <1>3

\* An object that a TrackableObject refers to can still be given successors.
LEMMA CanLink ==
  ASSUME DOInv, DomainInv, NEW x \in Addr, NEW p \in Known,
         p = status[x].lastWriter \/ p \in status[x].readers
  PROVE  p \in DO /\ p \notin Wait
         /\ phase[p] \in {"reg", "wait", "ready", "run", "exit", "purge"}
<1>1. p \in DO /\ p \notin Wait /\ p # NoDO
  BY Zenon, DOAssumption DEF Known, DO
<1>2. phase[p] \in Phase
  BY Zenon, <1>1 DEF DOInv, DOTypeOK
<1>3. phase[p] \notin Released /\ phase[p] # "none"
  BY <1>1 DEF DomainInv, TargetInv, PurgeInv
<1> QED
  BY <1>1, <1>2, <1>3 DEF Phase, Released

\* A step that adds an edge leaves the domain in order if it leaves the thread in order.
LEMMA DomainLink ==
  ASSUME DomainInv, UNCHANGED <<phase, status, objVars, accesses, program>>,
         reg' \in Thread, ThreadInv'
  PROVE  DomainInv'
<1>1. DomainTypeOK'
  BY Zenon DEF DomainInv, DomainTypeOK, objVars
<1>2. \A x \in Addr : TargetInv(x)'
  BY DEF DomainInv, objVars, TargetInv
<1>3. \A p \in Known : PurgeInv(p)'
  BY DEF DomainInv, objVars, PurgeInv
<1> QED
  BY <1>1, <1>2, <1>3 DEF DomainInv

\* dependOnLastWriter(): the edge is added only from an object that, checked under its
\* lock, is still the last writer.
LEMMA DomainLinkLastWriter ==
  ASSUME DOInv, DomainInv, LinkLastWriter, UNCHANGED program
  PROVE  DomainInv' /\ [DONext]_doVars
<1>1. /\ DomainTypeOK /\ ThreadInv /\ reg.pc = "linkWriter" /\ reg.todo # <<>>
      /\ UNCHANGED <<phase, status, objVars, accesses>>
      /\ reg.obj \in Task \cup Wait /\ reg.obj \in DO /\ phase[reg.obj] = "reg"
      /\ reg.writer \notin {NoDO, reg.obj} /\ reg.writer \in Known
  BY Zenon DEF DomainInv, LinkLastWriter, AddEdge, histVars, ThreadInv, AccessSteps, Registers,
     DomainTypeOK, Thread, DO, doVars
<1>2. a \in Addr /\ Goto(AfterWriter)
  BY <1>1, AccessType DEF LinkLastWriter
<1>3. [DONext]_doVars
  <2>1. CASE status[a].lastWriter = reg.writer
    <3>1. AddSuccessor(reg.writer, reg.obj) /\ reg.writer \in DO
      BY Zenon, <1>1, <1>2, <2>1, CanLink DEF LinkLastWriter, AddSuccessor
    <3> QED
      BY Zenon, <1>1, <3>1 DEF DONext
  <2>2. CASE status[a].lastWriter # reg.writer
    BY <2>2 DEF LinkLastWriter
  <2> QED
    BY <2>1, <2>2
<1>4. reg' \in Thread
  BY <1>1, <1>2, GotoType DEF AfterWriter, Steps, AccessSteps, RelaxedSteps, WriterSteps
<1>5. /\ reg' = [reg EXCEPT !.pc = AfterWriter]
      /\ AfterWriter \in {"releaseInitial", "addReader", "lockReaders"}
      /\ AfterWriter = "releaseInitial" <=> Relaxed
      /\ AfterWriter = "addReader" => mode = "in"
  BY Zenon, <1>2 DEF Goto, AfterWriter
<1>6. ThreadInv'
  BY Zenon, <1>1, <1>5 DEF ThreadInv, DomainTypeOK, Thread, Registers, a, mode, Relaxed,
     Target, AccessSteps, RelaxedSteps, WriterSteps
<1> QED
  BY Zenon, <1>1, <1>3, <1>4, <1>6, DomainLink

\* dependOnReaders(): while the lock is held no reader purges itself, so every edge is
\* added from an object that has not begun its loop.
LEMMA DomainLinkReader ==
  ASSUME DOInv, DomainInv, LinkReader, UNCHANGED program
  PROVE  DomainInv' /\ DONext
<1>1. /\ DomainTypeOK /\ ThreadInv /\ reg.pc = "linkReaders" /\ reg.todo # <<>>
      /\ UNCHANGED <<phase, status, objVars, accesses>>
      /\ reg.toLink \subseteq Task /\ reg.toLink \subseteq status[a].readers \ {Target}
  BY Zenon DEF DomainInv, LinkReader, AddEdge, histVars, ThreadInv, AccessSteps, WriterSteps,
     DomainTypeOK, Thread
<1>2. a \in Addr /\ Target \in DO /\ phase[Target] = "reg"
  BY <1>1, AccessType, TargetType DEF WriterSteps
<1>3. PICK r \in reg.toLink : AddEdge(r, Target) /\ reg' = [reg EXCEPT !.toLink = @ \ {r}]
  BY DEF LinkReader
<1>4. AddSuccessor(r, Target) /\ r \in DO
  <2>1. r \in Known /\ r \in status[a].readers /\ r # Target
    BY <1>1, <1>3 DEF Known
  <2>2. r \in DO /\ r \notin Wait /\ phase[r] \in {"reg", "wait", "ready", "run", "exit", "purge"}
    BY <1>2, <2>1, CanLink
  <2> QED
    BY <1>2, <1>3, <2>1, <2>2 DEF AddSuccessor
<1>5. reg' \in Thread
  BY Zenon, <1>1, <1>3 DEF DomainTypeOK, Thread
<1>6. ThreadInv'
  BY Zenon, <1>1, <1>3 DEF ThreadInv, DomainTypeOK, Thread, Registers, a, mode, Relaxed,
     Target, AccessSteps, RelaxedSteps, WriterSteps
<1>7. DONext
  BY <1>2, <1>4 DEF DONext
<1> QED
  BY Zenon, <1>1, <1>5, <1>6, <1>7, DomainLink

\* A task joins the open CommutationDO of its address; both are being registered, and
\* the edge is new, so the increase made for it counts it.
LEMMA DomainLinkComm ==
  ASSUME DOInv, DomainInv, JoinInv, LinkComm, UNCHANGED program
  PROVE  DomainInv' /\ AddSuccessor(reg.obj, status[a].commDO) /\ DONext
<1>1. /\ DomainTypeOK /\ ThreadInv /\ reg.pc = "linkComm" /\ reg.todo # <<>> /\ Relaxed
      /\ UNCHANGED <<phase, status, objVars, accesses>> /\ Goto("readWriter")
      /\ reg.obj \in Task \cup Wait /\ reg.obj \in DO /\ phase[reg.obj] = "reg"
      /\ status[a].commDO # NoDO
  BY Zenon DEF DomainInv, LinkComm, CountedEdge, histVars, ThreadInv, AccessSteps, RelaxedSteps,
     Registers, DomainTypeOK, Thread, DO
<1>2. a \in Addr /\ reg.obj \notin Wait
  BY <1>1, AccessType DEF ThreadInv, Relaxed, mode
<1>3. /\ status[a].commDO \in Comm /\ status[a].commDO \in DO
      /\ phase[status[a].commDO] = "reg" /\ status[a].commDO # reg.obj
  BY Zenon, <1>1, <1>2, DOAssumption DEF DomainTypeOK, Targets, DomainInv, TargetInv, DO
<1>4. AddSuccessor(reg.obj, status[a].commDO)
  <2>1. status[a].commDO \notin succ[reg.obj]
    <3>1. 1 \in 1..Len(reg.todo)
      BY <1>1, AccessType
    <3>2. ToJoin(1)
      BY <1>1 DEF ToJoin, JoinedSteps, Relaxed, mode
    <3> QED
      BY Zenon, <3>1, <3>2 DEF JoinInv, a
  <2>2. AddEdge(reg.obj, status[a].commDO)
    BY <2>1 DEF LinkComm, CountedEdge, AddEdge
  <2> QED
    BY Zenon, <1>1, <1>2, <1>3, <2>2 DEF AddSuccessor
<1>5. reg' \in Thread /\ reg' = [reg EXCEPT !.pc = "readWriter"]
  BY <1>1, GotoType DEF Steps, AccessSteps
<1>6. ThreadInv'
  BY <1>1, <1>5 DEF ThreadInv, DomainTypeOK, Thread, Registers, a, mode, Relaxed,
     Target, AccessSteps, RelaxedSteps, WriterSteps
<1>7. DONext
  BY Zenon, <1>1, <1>3, <1>4 DEF DONext
<1> QED
  BY Zenon, <1>1, <1>4, <1>5, <1>6, <1>7, DomainLink

\* setUpInitialCommutationDependableObject(): the new CommutationDO is in no
\* TrackableObject.
LEMMA DomainSetUpInitial ==
  ASSUME DOInv, DomainInv, SetUpInitial, UNCHANGED program
  PROVE  DomainInv' /\ [DONext]_doVars
<1>1. /\ DomainTypeOK /\ ThreadInv /\ reg.pc = "initial" /\ reg.todo # <<>> /\ Relaxed
      /\ UNCHANGED <<status, writes, reads, unpurged, accesses>>
      /\ reg.obj \in Task \cup Wait /\ reg.obj \in DO /\ phase[reg.obj] = "reg"
  BY Zenon DEF DomainInv, SetUpInitial, histVars, ThreadInv, AccessSteps, RelaxedSteps, Registers,
     DomainTypeOK, Thread, DO
<1>2. CASE status[a].readers = {}
  <2>1. UNCHANGED <<doVars, commutative>> /\ Goto("target")
    BY <1>2 DEF SetUpInitial
  <2>2. reg' \in Thread /\ reg' = [reg EXCEPT !.pc = "target"]
    BY <1>1, <2>1, GotoType DEF Steps, AccessSteps, RelaxedSteps
  <2>3. ThreadInv'
    BY Zenon, <1>1, <2>1, <2>2 DEF ThreadInv, DomainTypeOK, Thread, Registers, doVars, a, mode, Relaxed,
       Target, AccessSteps, RelaxedSteps, WriterSteps
  <2> QED
    BY <1>1, <2>1, <2>2, <2>3, DomainLink DEF doVars, objVars
<1>3. CASE status[a].readers # {}
  <2>1. PICK c \in Comm :
          /\ Create(c)
          /\ commutative' = [commutative EXCEPT ![c] = mode = "comm"]
          /\ reg' = [reg EXCEPT !.pc = "lockReaders", !.initial = c]
    BY Zenon, <1>3 DEF SetUpInitial
  <2>2. c \in DO /\ c \notin Task \cup Wait /\ c # NoDO
    BY DOAssumption DEF DO
  <2>3. /\ DONext /\ phase'[c] = "reg" /\ phase[c] = "none"
        /\ \A x \in DO \ {c} : phase'[x] = phase[x]
    BY <2>1, <2>2, CreatePhase
  <2>4. /\ status \in Targets /\ Known \subseteq DO
        /\ \A x \in Addr : /\ status[x].commDO # c
                           /\ status[x].commDO # NoDO =>
                                status[x].commDO \in DO /\ phase[status[x].commDO] = "reg"
    BY Zenon, <1>1, <2>2, <2>3 DEF DomainTypeOK, DomainInv, Targets, TargetInv, DO, Known
  <2>5. \A x \in Addr : TargetInv(x)'
    <3> SUFFICES ASSUME NEW x \in Addr PROVE TargetInv(x)'
      OBVIOUS
    <3>1. TargetInv(x) /\ status[x].lastWriter \in DO \cup {NoDO} /\ status[x].readers \subseteq DO
      BY <2>4 DEF DomainInv, Targets, Known, DO
    <3> QED
      BY Zenon, <1>1, <2>3, <2>4, <3>1 DEF TargetInv
  <2>6. \A p \in Known : PurgeInv(p)'
    BY Zenon, <1>1, <2>3, <2>4 DEF DomainInv, PurgeInv, Released
  <2>7. commutative' \in [Comm -> BOOLEAN] /\ reg' \in Thread
    BY Zenon, <1>1, <2>1 DEF DomainTypeOK, Thread, Steps, AccessSteps, WriterSteps
  <2>8. DomainTypeOK'
    BY Zenon, <1>1, <2>7 DEF DomainTypeOK
  <2>9. ThreadInv'
    <3>1. /\ reg'.pc = "lockReaders" /\ reg'.initial = c /\ reg'.obj = reg.obj
          /\ reg'.todo = reg.todo /\ reg'.locked = reg.locked /\ reg'.toLink = reg.toLink
      BY Zenon, <1>1, <2>1 DEF DomainTypeOK, Thread
    <3>2. phase'[reg.obj] = "reg"
      BY <1>1, <2>2, <2>3
    <3> QED
      BY Zenon, <1>1, <2>2, <2>3, <2>4, <3>1, <3>2 DEF ThreadInv, Registers, a, mode, Relaxed,
         AccessSteps, RelaxedSteps, WriterSteps
  <2> QED
    BY Zenon, <2>3, <2>5, <2>6, <2>8, <2>9 DEF DomainInv
<1> QED
  BY <1>2, <1>3

\* setUpTargetCommutationDependableObject(): a new CommutationDO becomes the open one of
\* the address when there is none.
LEMMA DomainSetUpTarget ==
  ASSUME DOInv, DomainInv, SetUpTarget, UNCHANGED program
  PROVE  DomainInv' /\ [DONext]_doVars
<1>1. /\ DomainTypeOK /\ ThreadInv /\ reg.pc = "target" /\ reg.todo # <<>> /\ Relaxed
      /\ UNCHANGED <<reads, unpurged, accesses>>
      /\ reg.obj \in Task \cup Wait /\ reg.obj \in DO /\ phase[reg.obj] = "reg"
  BY DEF DomainInv, SetUpTarget, histVars, ThreadInv, AccessSteps, RelaxedSteps, Registers,
     DomainTypeOK, Thread, DO
<1>2. a \in Addr
  BY <1>1, AccessType
<1>3. CASE status[a].commDO # NoDO
  <2>1. /\ UNCHANGED <<doVars, status, commutative, writes>>
        /\ \E step \in {"linkComm", "finalize"} : Goto(step)
    BY <1>3 DEF SetUpTarget
  <2>2. PICK step \in {"linkComm", "finalize"} : Goto(step)
    BY <2>1
  <2>3. reg' \in Thread /\ reg' = [reg EXCEPT !.pc = step]
    BY Zenon, <1>1, <2>2, GotoType DEF Steps, AccessSteps, RelaxedSteps
  <2>4. ThreadInv'
    BY <1>1, <1>3, <2>1, <2>3 DEF ThreadInv, DomainTypeOK, Thread, Registers, doVars, a, mode,
       Relaxed, Target, AccessSteps, RelaxedSteps, WriterSteps
  <2> QED
    BY <1>1, <2>1, <2>3, <2>4, DomainLink DEF doVars, objVars
<1>4. CASE status[a].commDO = NoDO
  <2>1. PICK d \in Comm :
          /\ Create(d)
          /\ status' = [status EXCEPT ![a].commDO = d]
          /\ commutative' = [commutative EXCEPT ![d] = mode = "comm"]
          /\ writes' = [writes EXCEPT ![d] = {a}]
    BY <1>4 DEF SetUpTarget
  <2>2. d \in DO /\ d \notin Task \cup Wait /\ d # NoDO /\ Goto("linkComm")
    BY <1>4, DOAssumption DEF DO, SetUpTarget
  <2>3. /\ DONext /\ phase'[d] = "reg" /\ phase[d] = "none"
        /\ \A x \in DO \ {d} : phase'[x] = phase[x]
    BY <2>1, <2>2, CreatePhase
  <2>4. /\ status \in Targets /\ Known \subseteq DO /\ writes \in [DO -> SUBSET Addr]
        /\ \A x \in Addr : /\ status[x].commDO # d /\ status[x].lastWriter # d
                           /\ status[x].commDO # NoDO =>
                                status[x].commDO \in DO /\ phase[status[x].commDO] = "reg"
    <3>1. status \in Targets /\ Known \subseteq DO /\ writes \in [DO -> SUBSET Addr]
      BY Zenon, <1>1 DEF DomainTypeOK, DomainInv, DO, Known
    <3>2. ASSUME NEW x \in Addr
          PROVE  /\ status[x].commDO # d /\ status[x].lastWriter # d
                 /\ status[x].commDO # NoDO =>
                      status[x].commDO \in DO /\ phase[status[x].commDO] = "reg"
      <4>1. TargetInv(x) /\ status[x].commDO \in Comm \cup {NoDO}
        BY Zenon, <1>1, <3>1 DEF DomainInv, Targets
      <4>2. status[x].commDO # NoDO => status[x].commDO \in DO /\ phase[status[x].commDO] = "reg"
        BY Zenon, <4>1 DEF TargetInv, DO
      <4>3. status[x].lastWriter # NoDO => phase[status[x].lastWriter] # "none"
        BY Zenon, <4>1 DEF TargetInv
      <4> QED
        BY <2>2, <2>3, <4>2, <4>3
    <3> QED
      BY Zenon, <3>1, <3>2
  <2>5. /\ status' \in Targets
        /\ \A x \in Addr : /\ status'[x].commDO = IF x = a THEN d ELSE status[x].commDO
                           /\ status'[x].lastWriter = status[x].lastWriter
                           /\ status'[x].readers = status[x].readers
    BY <1>2, <2>1, <2>4 DEF Targets
  <2>6. /\ writes' \in [DO -> SUBSET Addr] /\ writes'[d] = {a}
        /\ \A o \in DO \ {d} : writes'[o] = writes[o]
    BY <1>2, <2>1, <2>2, <2>4
  <2>7. \A x \in Addr : TargetInv(x)'
    <3> SUFFICES ASSUME NEW x \in Addr PROVE TargetInv(x)'
      OBVIOUS
    <3>1. /\ TargetInv(x) /\ status[x].lastWriter \in DO \cup {NoDO}
          /\ status[x].readers \subseteq DO
          /\ status[x].commDO # d /\ status[x].lastWriter # d
          /\ reads' = reads /\ unpurged' = unpurged
      BY Zenon, <1>1, <2>4 DEF DomainInv, Targets, Known, DO
    <3>2. /\ status[x].lastWriter # NoDO =>
                /\ status[x].lastWriter \in unpurged' /\ x \in writes'[status[x].lastWriter]
                /\ phase'[status[x].lastWriter] # "none"
          /\ \A r \in status[x].readers : x \in reads'[r] /\ phase'[r] # "none"
      BY Zenon, <2>3, <2>6, <3>1 DEF TargetInv
    <3>3. /\ status'[x].lastWriter = status[x].lastWriter
          /\ status'[x].readers = status[x].readers
      BY Zenon, <2>5
    <3>4. CASE x = a
      <4>1. status'[x].commDO = d /\ phase'[d] = "reg" /\ writes'[d] = {x}
        BY Zenon, <2>3, <2>5, <2>6, <3>4
      <4> QED
        BY Zenon, <3>2, <3>3, <4>1 DEF TargetInv
    <3>5. CASE x # a
      <4>1. status'[x].commDO = status[x].commDO
        BY Zenon, <2>5, <3>5
      <4>2. status[x].commDO # NoDO =>
              phase'[status[x].commDO] = "reg" /\ writes'[status[x].commDO] = {x}
        BY Zenon, <2>3, <2>4, <2>6, <3>1 DEF TargetInv
      <4> QED
        BY Zenon, <3>2, <3>3, <4>1, <4>2 DEF TargetInv
    <3> QED
      BY Zenon, <3>4, <3>5
  <2>8. \A p \in Known : PurgeInv(p)'
    BY Zenon, <1>1, <2>3, <2>4 DEF DomainInv, PurgeInv, Released
  <2>9. commutative' \in [Comm -> BOOLEAN] /\ reg' \in Thread /\ reg' = [reg EXCEPT !.pc = "linkComm"]
    BY <1>1, <2>1, <2>2, GotoType DEF DomainTypeOK, Steps, AccessSteps, RelaxedSteps
  <2>10. DomainTypeOK'
    BY <1>1, <2>5, <2>6, <2>9 DEF DomainTypeOK
  <2>11. ThreadInv'
    <3>1. /\ reg'.pc = "linkComm" /\ reg'.initial = reg.initial /\ reg'.obj = reg.obj
          /\ reg'.todo = reg.todo /\ reg'.locked = reg.locked /\ reg'.toLink = reg.toLink
          /\ reg.initial \in DO \cup {NoDO}
      BY <1>1, <2>9 DEF DomainTypeOK, Thread, DO
    <3>2. phase'[reg.obj] = "reg"
      BY Zenon, <1>1, <2>2, <2>3
    <3>3. reg.initial # NoDO => /\ phase[reg.initial] = "reg" /\ phase'[reg.initial] = "reg"
                                /\ reg.initial # d
      BY Zenon, <1>1, <2>3, <3>1 DEF ThreadInv
    <3>4. status'[a].commDO # NoDO
      BY <1>2, <2>2, <2>5
    <3> QED
      BY Zenon, <1>1, <2>2, <2>5, <3>1, <3>2, <3>3, <3>4 DEF ThreadInv, Registers, a, mode, Relaxed,
         AccessSteps, RelaxedSteps, WriterSteps
  <2> QED
    BY <2>3, <2>7, <2>8, <2>10, <2>11 DEF DomainInv
<1> QED
  BY <1>3, <1>4

\* Every step keeps the domain in order and is a step of the protocol of the objects.
LEMMA DomainNext ==
  ASSUME DOInv, SoleBlocker, DomainInv, JoinInv, [PlainNext]_vars
  PROVE  DomainInv' /\ [DONext]_doVars
<1>1. CASE UNCHANGED vars
  <2>1. UNCHANGED doVars /\ UNCHANGED <<status, objVars, reg, accesses, program>>
    BY <1>1 DEF vars, histVars
  <2>2. DomainTypeOK' /\ ThreadInv'
    BY Zenon, <2>1 DEF DomainInv, DomainTypeOK, ThreadInv, Registers, objVars, doVars, a, mode, Relaxed,
       Target
  <2> QED
    BY <2>1, <2>2, DomainLink DEF doVars, DomainTypeOK
<1>2. CASE PlainNext
  <2>1. UNCHANGED program
    BY Zenon, <1>2 DEF PlainNext, Registering, Executing
  <2>2. \/ SubmitTask \/ WaitOn \/ LocalStep
        \/ EndSubmit \/ FinalizeReduction \/ LinkLastWriter \/ LinkReader
        \/ SetAsWriter \/ AddAsReader \/ SetUpInitial \/ SetUpTarget \/ LinkComm
        \/ ReleaseInitial \/ FinalizeAll \/ ClearDomain
        \/ \E p \in DO : \/ WorkStep(p) \/ DeleteLastWriter(p) \/ DeleteReader(p) \/ EndPurge(p)
    BY <1>2 DEF PlainNext, Registering, Registration, Executing, Execution, LocalStep, WorkStep
  <2>3. CASE SubmitTask \/ WaitOn
    BY <2>1, <2>3, DomainSubmit
  <2>4. CASE LocalStep
    BY <2>1, <2>4, DomainLocal
  <2>5. CASE EndSubmit \/ FinalizeReduction \/ FinalizeAll \/ ReleaseInitial
    BY Zenon, <2>1, <2>5, DomainEndSubmit, DomainFinalizeReduction, DomainFinalizeAll,
       DomainReleaseInitial
  <2>6. CASE LinkLastWriter \/ LinkReader \/ LinkComm
    BY <2>1, <2>6, DomainLinkLastWriter, DomainLinkReader, DomainLinkComm
  <2>7. CASE SetAsWriter \/ AddAsReader \/ ClearDomain
    <3>1. UNCHANGED doVars
      BY <2>7 DEF SetAsWriter, AddAsReader, ClearDomain
    <3> QED
      BY <2>1, <2>7, <3>1, DomainSetAsWriter, DomainAddAsReader, DomainClear
  <2>8. CASE SetUpInitial \/ SetUpTarget
    BY <2>1, <2>8, DomainSetUpInitial, DomainSetUpTarget
  <2>9. ASSUME NEW p \in DO, WorkStep(p) \/ DeleteLastWriter(p) \/ DeleteReader(p) \/ EndPurge(p)
        PROVE  DomainInv' /\ [DONext]_doVars
    <3>1. CASE WorkStep(p)
      BY <2>1, <3>1, WorkIsDONext, DomainWork
    <3>2. CASE DeleteLastWriter(p) \/ DeleteReader(p)
      <4>1. UNCHANGED doVars
        BY Zenon, <3>2 DEF DeleteLastWriter, DeleteReader
      <4> QED
        BY <2>1, <3>2, <4>1, DomainDeleteLastWriter, DomainDeleteReader
    <3>3. CASE EndPurge(p)
      BY <2>1, <3>3, DomainEndPurge
    <3> QED
      BY <2>9, <3>1, <3>2, <3>3
  <2> QED
    BY <2>2, <2>3, <2>4, <2>5, <2>6, <2>7, <2>8, <2>9
<1> QED
  BY <1>1, <1>2

-----------------------------------------------------------------------------
\* A task joins a CommutationDO once

\* The registering thread stays at its access or goes on to the next one, and once the
\* access is linked it stays so.
Advances ==
  /\ reg'.obj = reg.obj
  /\ \/ reg'.todo = reg.todo /\ (reg.pc \in JoinedSteps /\ Relaxed => reg'.pc \in JoinedSteps)
     \/ reg.todo # <<>> /\ reg'.todo = Tail(reg.todo)

\* Nothing is joined before the registration begins.
LEMMA JoinInit ==
  ASSUME PlainInit
  PROVE  JoinInv
<1>1. reg.todo = <<>> /\ Len(<<>>) = 0
  BY DEF PlainInit
<1>2. 1..Len(reg.todo) = {}
  BY <1>1
<1> QED
  BY <1>2 DEF JoinInv, RelaxedOnce, PlainInit, DOInit

\* No object is unmade.
LEMMA StaysCreated ==
  ASSUME DOInv, SoleBlocker, [DONext]_doVars
  PROVE  \A o \in DO : phase'[o] = "none" => phase[o] = "none"
<1>1. phase \in [DO -> Phase]
  BY DEF DOInv, DOTypeOK
<1>2. CASE UNCHANGED doVars
  BY <1>2 DEF doVars
<1>3. ASSUME NEW p \in DO,
             \/ Start(p) \/ BodyEnd(p) \/ Finish(p) \/ DecreaseSingle(p) \/ Return(p)
             \/ DecreaseBatch(p) \/ SubmitBatch(p)
             \/ \E s \in DO : Visit(p, s)
             \/ \E s \in Task, keepDeps \in BOOLEAN : ImmediateSuccessor(p, s, keepDeps)
      PROVE  \A o \in DO : phase'[o] = "none" => phase[o] = "none"
  BY Zenon, <1>3, RunningPhases
<1>4. ASSUME NEW p \in DO, Create(p) \/ ReleaseFake(p) \/ Purged(p)
      PROVE  \A o \in DO : phase'[o] = "none" => phase[o] = "none"
  <2>1. PICK f \in Phase \ {"none"} : phase' = [phase EXCEPT ![p] = f]
    BY Zenon, <1>4 DEF Create, ReleaseFake, DropFake, Purged, SatisfiedPhase, Phase
  <2> QED
    BY <1>1, <2>1
<1>5. ASSUME NEW p \in DO, NEW s \in DO, AddSuccessor(p, s)
      PROVE  \A o \in DO : phase'[o] = "none" => phase[o] = "none"
  BY <1>5 DEF AddSuccessor, AddEdge
<1>6. \A p, s \in DO, keepDeps \in BOOLEAN : ImmediateSuccessor(p, s, keepDeps) => s \in Task
  BY DEF ImmediateSuccessor
<1> QED
  BY Zenon, <1>2, <1>3, <1>4, <1>5, <1>6 DEF DONext

\* A step that advances keeps the rest of the list to be joined, if it joins no address
\* that is still to be joined after it.
LEMMA JoinStep ==
  ASSUME DomainTypeOK, JoinInv, Advances,
         \A i \in 1..Len(reg.todo) : ToJoin(i) /\ (i = 1 => reg'.pc \notin JoinedSteps) =>
           status'[reg.todo[i].addr].commDO \notin succ'[reg.obj],
         \A o \in DO : phase'[o] = "none" => succ'[o] = {}
  PROVE  JoinInv'
<1>1. reg'.obj = reg.obj
  BY DEF Advances
<1>2. CASE /\ reg'.todo = reg.todo
           /\ reg.pc \in JoinedSteps /\ Relaxed => reg'.pc \in JoinedSteps
  <2>1. \A i \in 1..Len(reg.todo) :
          ToJoin(i)' => ToJoin(i) /\ (i = 1 => reg'.pc \notin JoinedSteps)
    BY Zenon, <1>2 DEF ToJoin, Relaxed, mode
  <2> QED
    BY Zenon, <1>1, <1>2, <2>1 DEF JoinInv, RelaxedOnce
<1>3. CASE reg.todo # <<>> /\ reg'.todo = Tail(reg.todo)
  <2>1. /\ Len(reg'.todo) = Len(reg.todo) - 1 /\ Len(reg.todo) \in Nat \ {0}
        /\ \A i \in 1..Len(reg'.todo) : reg'.todo[i] = reg.todo[i + 1]
    BY Zenon, <1>3, AccessType
  <2>2. \A i \in 1..Len(reg'.todo) : i + 1 \in 1..Len(reg.todo) /\ i + 1 # 1
    BY <2>1
  <2>3. RelaxedOnce(reg'.todo)
    <3> SUFFICES ASSUME NEW i \in 1..Len(reg'.todo), NEW j \in 1..Len(reg'.todo),
                        reg.todo[i + 1].mode \in RelaxedMode, reg.todo[j + 1].mode \in RelaxedMode,
                        reg.todo[i + 1].addr = reg.todo[j + 1].addr
                 PROVE  i = j
      BY Zenon, <2>1 DEF RelaxedOnce
    <3>1. i + 1 = j + 1
      BY Zenon, <2>2 DEF JoinInv, RelaxedOnce
    <3> QED
      BY ONLY <3>1, i \in 1..Len(reg'.todo), j \in 1..Len(reg'.todo)
  <2>4. \A i \in 1..Len(reg'.todo) : ToJoin(i)' => ToJoin(i + 1)
    BY Zenon, <2>1, <2>2 DEF ToJoin
  <2>5. \A i \in 1..Len(reg'.todo) :
          ToJoin(i)' => status'[reg'.todo[i].addr].commDO \notin succ'[reg'.obj]
    BY ZenonT(60), <1>1, <2>1, <2>2, <2>4
  <2> QED
    BY Zenon, <2>3, <2>5 DEF JoinInv
<1> QED
  BY <1>2, <1>3 DEF Advances

\* What the object under registration still has to join.
LEMMA JoinFacts ==
  ASSUME DOInv, DomainInv, JoinInv, NEW i \in 1..Len(reg.todo)
  PROVE  /\ reg.todo[i].addr \in Addr /\ reg.todo # <<>>
         /\ reg.obj \in DO /\ succ[reg.obj] \subseteq DO
         /\ ToJoin(i) => status[reg.todo[i].addr].commDO \notin succ[reg.obj]
<1>1. reg.todo \in Seq(Access)
  BY DEF DomainInv, DomainTypeOK, Thread
<1>2. reg.todo[i] \in Access /\ reg.todo # <<>>
  BY <1>1
<1>3. reg.obj \in DO
  BY Zenon, <1>2 DEF DomainInv, ThreadInv, Registers, DomainTypeOK, Thread, DO
<1>4. succ[reg.obj] \subseteq DO
  BY <1>3 DEF DOInv, DOTypeOK
<1> QED
  BY <1>2, <1>3, <1>4 DEF Access, AccessOf, JoinInv

\* So does a step that opens no CommutationDO and gives the object under registration no
\* successor.
LEMMA JoinKept ==
  ASSUME DOInv, DomainInv, JoinInv, Advances,
         \A x \in Addr : status'[x].commDO \in {status[x].commDO, NoDO},
         reg.todo # <<>> => succ'[reg.obj] \subseteq succ[reg.obj],
         \A o \in DO : phase'[o] = "none" => phase[o] = "none" /\ succ'[o] \subseteq succ[o]
  PROVE  JoinInv'
<1>1. ASSUME NEW i \in 1..Len(reg.todo), ToJoin(i)
      PROVE  status'[reg.todo[i].addr].commDO \notin succ'[reg.obj]
  <2>1. /\ reg.todo[i].addr \in Addr /\ succ'[reg.obj] \subseteq succ[reg.obj]
        /\ succ[reg.obj] \subseteq DO
        /\ status[reg.todo[i].addr].commDO \notin succ[reg.obj]
    BY Zenon, <1>1, JoinFacts
  <2> QED
    BY Zenon, <2>1, DOAssumption
<1>2. \A o \in DO : phase'[o] = "none" => succ'[o] = {}
  BY DEF JoinInv
<1>3. DomainTypeOK
  BY DEF DomainInv
<1> QED
  BY Zenon, <1>1, <1>2, <1>3, JoinStep

\* Where a step that goes on leaves the access.
LEMMA JoinGoto ==
  ASSUME DomainTypeOK, NEW step, Goto(step),
         step \in Steps \/ (step = "next" /\ reg.todo # <<>>),
         reg.pc \in JoinedSteps /\ Relaxed => step \in JoinedSteps \cup {"next"}
  PROVE  Advances
<1>1. CASE step = "next"
  <2>1. reg.todo # <<>>
    BY <1>1 DEF Steps, AccessSteps, RelaxedSteps, WriterSteps
  <2> QED
    BY Zenon, <1>1, <2>1, GotoType DEF Advances
<1>2. CASE step # "next"
  <2>1. reg' = [reg EXCEPT !.pc = step] /\ reg \in Thread
    BY Zenon, <1>2, GotoType DEF DomainTypeOK
  <2>2. reg'.obj = reg.obj /\ reg'.todo = reg.todo /\ reg'.pc = step
    BY <2>1 DEF Thread
  <2> QED
    BY Zenon, <1>2, <2>2 DEF Advances
<1> QED
  BY <1>1, <1>2

\* The steps of the registering thread advance, but for a new registration.
LEMMA RegistrationAdvances ==
  ASSUME DomainInv, LocalStep \/ Registration
  PROVE  Advances
<1>1. DomainTypeOK /\ ThreadInv /\ reg \in Thread
  BY DEF DomainInv, DomainTypeOK
<1> USE DEF Steps, AccessSteps, RelaxedSteps, WriterSteps, JoinedSteps
<1>2. CASE DataAccess \/ SetAsWriter \/ AddAsReader \/ ReleaseReturn
  BY Zenon, <1>1, <1>2, JoinGoto DEF DataAccess, SetAsWriter, AddAsReader, ReleaseReturn, ThreadInv
<1>3. CASE EndSubmit \/ WaitReturn \/ FinalizeReturn \/ Finalized \/ TaskWait \/ ClearDomain \/ LinkComm
  BY Zenon, <1>1, <1>3, JoinGoto DEF EndSubmit, WaitReturn, FinalizeReturn, Finalized, TaskWait,
     ClearDomain, LinkComm
<1>4. CASE LinkLastWriter
  BY Zenon, <1>1, <1>4, JoinGoto DEF LinkLastWriter, AfterWriter
<1>5. CASE LockReaders \/ UnlockReaders \/ LinkReader
  <2>1. reg.pc \in {"lockReaders", "linkReaders"}
    BY <1>5 DEF LockReaders, UnlockReaders, LinkReader
  <2>2. reg'.obj = reg.obj /\ reg'.todo = reg.todo
    BY Zenon, <1>1, <1>5 DEF LockReaders, UnlockReaders, LinkReader, Thread
  <2> QED
    BY <2>1, <2>2 DEF Advances
<1>6. CASE ReadLastWriter
  <2>1. /\ reg'.obj = reg.obj /\ reg'.todo = reg.todo
        /\ reg'.pc = AfterWriter \/ reg'.pc = "linkWriter"
    BY Zenon, <1>1, <1>6 DEF ReadLastWriter, Thread
  <2> QED
    BY Zenon, <2>1 DEF Advances, AfterWriter
<1>7. ASSUME NEW x, NEW next \in {"finalized", "taskwait"}, CloseComm(x, next),
             reg.pc \in {"finalize", "taskwait"}
      PROVE  Advances
  <2>1. CASE status[x].commDO = NoDO
    BY Zenon, <1>1, <1>7, <2>1, JoinGoto DEF CloseComm
  <2>2. CASE status[x].commDO # NoDO
    <3>1. reg'.obj = reg.obj /\ reg'.todo = reg.todo
      BY Zenon, <1>1, <1>7, <2>2 DEF CloseComm, Thread
    <3> QED
      BY <1>7, <3>1 DEF Advances
  <2> QED
    BY <2>1, <2>2
<1>8. CASE FinalizeReduction \/ FinalizeAll
  BY Zenon, <1>7, <1>8 DEF FinalizeReduction, FinalizeAll
<1>9. CASE SetUpInitial
  <2>1. CASE status[a].readers = {}
    BY Zenon, <1>1, <1>9, <2>1, JoinGoto DEF SetUpInitial
  <2>2. CASE status[a].readers # {}
    <3>1. reg'.obj = reg.obj /\ reg'.todo = reg.todo /\ reg.pc = "initial"
      BY Zenon, <1>1, <1>9, <2>2 DEF SetUpInitial, Thread
    <3> QED
      BY <3>1 DEF Advances
  <2> QED
    BY <2>1, <2>2
<1>10. CASE SetUpTarget
  <2>1. reg.pc = "target" /\ (Goto("linkComm") \/ Goto("finalize"))
    BY Zenon, <1>10 DEF SetUpTarget
  <2> QED
    BY Zenon, <1>1, <2>1, JoinGoto
<1>11. CASE ReleaseInitial
  <2>1. reg.todo # <<>> /\ (Goto("next") \/ Goto("releaseCall"))
    BY Zenon, <1>1, <1>11 DEF ReleaseInitial, ThreadInv
  <2> QED
    BY Zenon, <1>1, <2>1, JoinGoto
<1> QED
  BY Zenon, <1>2, <1>3, <1>4, <1>5, <1>6, <1>8, <1>9, <1>10, <1>11 DEF Registration, LocalStep

\* The threads that run tasks take edges away and add none.
LEMMA WorkEdges ==
  ASSUME DOInv, NEW p \in DO,
         WorkStep(p) \/ EndPurge(p) \/ DeleteLastWriter(p) \/ DeleteReader(p)
  PROVE  \A o \in DO : succ'[o] \subseteq succ[o]
<1>1. succ \in [DO -> SUBSET DO]
  BY DEF DOInv, DOTypeOK
<1>2. \/ succ' = succ
      \/ \E s : succ' = [succ EXCEPT ![p] = @ \ {s}]
      \/ succ' = [succ EXCEPT ![p] = {}]
  BY Zenon DEF WorkStep, StartTask, Running, TakeSuccessor, EndPurge, DeleteLastWriter, DeleteReader,
     Start, BodyEnd, Finish, DecreaseSingle, Return, DecreaseBatch, SubmitBatch, Visit, Purged,
     ImmediateSuccessor, doVars
<1> QED
  BY <1>1, <1>2

\* The edges the registering thread adds before it joins are to the object under
\* registration, or to an initial CommutationDO, which is not an open one.
LEMMA JoinLinks ==
  ASSUME DOInv, DomainInv, JoinInv, LinkLastWriter \/ LinkReader
  PROVE  JoinInv'
<1>1. /\ DomainTypeOK /\ ThreadInv /\ reg.todo # <<>> /\ status' = status /\ phase' = phase
      /\ Known \subseteq DO /\ succ \in [DO -> SUBSET DO] /\ Advances
  <2>1. Advances
    BY Zenon, RegistrationAdvances DEF Registration
  <2>2. status' = status /\ phase' = phase
    BY Zenon DEF LinkLastWriter, LinkReader, AddEdge, doVars
  <2> QED
    BY Zenon, <2>1, <2>2 DEF DomainInv, LinkLastWriter, LinkReader, ThreadInv, AccessSteps, WriterSteps,
       DOInv, DOTypeOK, Known, DO
<1>2. a \in Addr /\ \A x \in Addr : status'[x].commDO \in {status[x].commDO, NoDO}
  BY Zenon, <1>1, AccessType
<1>3. CASE LinkLastWriter /\ status[a].lastWriter # reg.writer
  <2>1. succ' = succ
    BY <1>3 DEF LinkLastWriter, doVars
  <2> QED
    BY Zenon, <1>1, <1>2, <2>1, JoinKept
<1>4. CASE LinkLastWriter /\ status[a].lastWriter = reg.writer
  <2>1. /\ reg.writer \in Known /\ reg.writer # reg.obj
        /\ succ' = [succ EXCEPT ![reg.writer] = @ \cup {reg.obj}]
    BY Zenon, <1>1, <1>4 DEF LinkLastWriter, AddEdge, ThreadInv, DomainTypeOK, Thread
  <2>2. phase[reg.writer] # "none" /\ reg.writer \in DO
    BY <1>2, <1>4, <2>1, CanLink
  <2>3. \A o \in DO : o # reg.writer => succ'[o] = succ[o]
    BY Zenon, <1>1, <2>1
  <2>4. reg.todo # <<>> => reg.obj \in DO
    BY Zenon, <1>1 DEF ThreadInv, Registers, DomainTypeOK, Thread, DO
  <2> QED
    BY Zenon, <1>1, <1>2, <2>1, <2>2, <2>3, <2>4, JoinKept
<1>5. CASE LinkReader
  <2>1. /\ reg.toLink \subseteq Task /\ reg.toLink \subseteq status[a].readers
        /\ reg.pc = "linkReaders"
    BY Zenon, <1>1, <1>5 DEF LinkReader, ThreadInv, DomainTypeOK, Thread
  <2>2. PICK r \in reg.toLink : AddEdge(r, Target)
    BY Zenon, <1>5 DEF LinkReader
  <2>3. r \in Known /\ r \in status[a].readers /\ r \in DO /\ r # Target
    BY Zenon, <1>1, <1>5, <2>1 DEF Known, ThreadInv, LinkReader
  <2>4. phase[r] # "none"
    BY <1>2, <2>3, CanLink
  <2>5. \A o \in DO : succ'[o] = IF o = r THEN succ[o] \cup {Target} ELSE succ[o]
    BY Zenon, <1>1, <2>2, <2>3 DEF AddEdge
  <2>6. ASSUME NEW i \in 1..Len(reg.todo), ToJoin(i)
        PROVE  status'[reg.todo[i].addr].commDO \notin succ'[reg.obj]
    <3>1. /\ reg.todo[i].addr \in Addr /\ reg.obj \in DO
          /\ status[reg.todo[i].addr].commDO \notin succ[reg.obj]
      BY Zenon, <2>6, JoinFacts
    <3>2. r = reg.obj => Relaxed /\ Target = reg.initial /\ reg.initial # NoDO
      BY Zenon, <1>1, <2>1, <2>3 DEF Target, ThreadInv, WriterSteps
    <3>3. r = reg.obj => status[reg.todo[i].addr].commDO # Target
      BY Zenon, <1>1, <3>1, <3>2 DEF ThreadInv
    <3> QED
      BY Zenon, <1>1, <2>5, <3>1, <3>3
  <2>7. \A o \in DO : phase'[o] = "none" => succ'[o] = {}
    BY Zenon, <1>1, <2>4, <2>5 DEF JoinInv
  <2> QED
    BY Zenon, <1>1, <2>6, <2>7, JoinStep
<1> QED
  BY <1>3, <1>4, <1>5

\* The step that joins: the other relaxed accesses are to other addresses, whose open
\* CommutationDOs are other objects.
LEMMA JoinLinkComm ==
  ASSUME DOInv, DomainInv, JoinInv, LinkComm
  PROVE  JoinInv'
<1> DEFINE c == status[a].commDO
<1>1. /\ DomainTypeOK /\ ThreadInv /\ reg.pc = "linkComm" /\ reg.todo # <<>> /\ Relaxed
      /\ status' = status /\ phase' = phase /\ Goto("readWriter")
      /\ succ' = [succ EXCEPT ![reg.obj] = @ \cup {c}] /\ succ \in [DO -> SUBSET DO]
      /\ reg.obj \in DO /\ phase[reg.obj] = "reg" /\ c # NoDO
  BY Zenon DEF DomainInv, LinkComm, CountedEdge, ThreadInv, AccessSteps, RelaxedSteps, Registers,
     DomainTypeOK, Thread, DO, DOInv, DOTypeOK
<1>2. a \in Addr /\ 1 \in 1..Len(reg.todo)
  BY <1>1, AccessType
<1>3. writes[c] = {a}
  BY Zenon, <1>1, <1>2 DEF DomainInv, TargetInv
<1>4. reg'.pc \in JoinedSteps /\ Advances
  <2>1. reg'.pc = "readWriter"
    <3>1. reg' = [reg EXCEPT !.pc = "readWriter"] /\ reg \in Thread
      BY <1>1, GotoType DEF Steps, AccessSteps, DomainTypeOK
    <3> QED
      BY <3>1 DEF Thread
  <2>2. Advances
    BY Zenon, RegistrationAdvances DEF Registration
  <2> QED
    BY <2>1, <2>2 DEF JoinedSteps
<1>5. \A o \in DO : succ'[o] = IF o = reg.obj THEN succ[o] \cup {c} ELSE succ[o]
  BY Zenon, <1>1
<1>6. ASSUME NEW i \in 1..Len(reg.todo), ToJoin(i), i # 1
      PROVE  status'[reg.todo[i].addr].commDO \notin succ'[reg.obj]
  <2>1. /\ reg.todo[i].addr \in Addr
        /\ status[reg.todo[i].addr].commDO \notin succ[reg.obj]
    BY Zenon, <1>6, JoinFacts
  <2>2. reg.todo[i].addr # a
    BY Zenon, <1>1, <1>2, <1>6 DEF JoinInv, RelaxedOnce, ToJoin, Relaxed, mode, a
  <2>3. status[reg.todo[i].addr].commDO # c
    BY Zenon, <1>1, <1>3, <2>1, <2>2 DEF DomainInv, TargetInv
  <2> QED
    BY Zenon, <1>1, <1>5, <2>1, <2>3
<1>7. \A o \in DO : phase'[o] = "none" => succ'[o] = {}
  BY Zenon, <1>1, <1>5 DEF JoinInv
<1> QED
  BY Zenon, <1>1, <1>4, <1>6, <1>7, JoinStep

\* A new CommutationDO has no predecessors.
LEMMA JoinSetUp ==
  ASSUME DOInv, DomainInv, JoinInv, SetUpInitial \/ SetUpTarget
  PROVE  JoinInv'
<1>1. /\ DomainTypeOK /\ ThreadInv /\ reg.todo # <<>> /\ Advances
      /\ reg.obj \in DO /\ phase[reg.obj] = "reg" /\ a \in Addr
      /\ phase \in [DO -> Phase] /\ status \in Targets
  <2>1. DomainTypeOK /\ ThreadInv /\ reg.todo # <<>>
    BY Zenon DEF DomainInv, SetUpInitial, SetUpTarget, ThreadInv, AccessSteps, RelaxedSteps
  <2>2. Advances
    BY Zenon, RegistrationAdvances DEF Registration
  <2>3. a \in Addr
    BY Zenon, <2>1, AccessType
  <2> QED
    BY Zenon, <2>1, <2>2, <2>3 DEF ThreadInv, Registers, DomainTypeOK, Thread, DO, DOInv, DOTypeOK
<1>2. succ' = succ
  BY Zenon DEF SetUpInitial, SetUpTarget, Create, doVars
<1>3. \A o \in DO : phase'[o] = "none" => phase[o] = "none"
  <2>1. phase' = phase \/ \E c \in Comm : phase' = [phase EXCEPT ![c] = "reg"]
    BY Zenon DEF SetUpInitial, SetUpTarget, Create, doVars
  <2> QED
    BY <1>1, <2>1
<1>4. CASE status' = status
  BY Zenon, <1>1, <1>2, <1>3, <1>4, JoinKept
<1>5. CASE status' # status
  <2>1. PICK d \in Comm : phase[d] = "none" /\ status' = [status EXCEPT ![a].commDO = d]
    BY Zenon, <1>5, DOAssumption DEF SetUpInitial, SetUpTarget, FreeComm
  <2>2. d \in DO /\ d \notin succ[reg.obj]
    <3>1. d \in DO /\ Preds(d) = {}
      BY Zenon, <2>1 DEF DOInv, BlockedInv, DO
    <3>2. visited[reg.obj] = {}
      BY Zenon, <1>1 DEF DOInv, EdgesInv, BeforeLoop
    <3> QED
      BY Zenon, <1>1, <3>1, <3>2 DEF Preds
  <2>3. \A x \in Addr : status'[x].commDO \in {status[x].commDO, d}
    BY <1>1, <2>1 DEF Targets
  <2>4. ASSUME NEW i \in 1..Len(reg.todo), ToJoin(i)
        PROVE  status'[reg.todo[i].addr].commDO \notin succ'[reg.obj]
    BY Zenon, <1>2, <2>2, <2>3, <2>4, JoinFacts
  <2>5. \A o \in DO : phase'[o] = "none" => succ'[o] = {}
    BY Zenon, <1>2, <1>3 DEF JoinInv
  <2> QED
    BY Zenon, <1>1, <2>4, <2>5, JoinStep
<1> QED
  BY <1>4, <1>5

\* A registration begins with nothing joined.
LEMMA JoinSubmit ==
  ASSUME DOInv, DomainInv, JoinInv, SubmitTask \/ WaitOn
  PROVE  JoinInv'
<1>1. ASSUME NEW o \in Task \cup Wait, NEW xs, Register(o, xs), RelaxedOnce(xs) PROVE JoinInv'
  <2>1. /\ o \in DO /\ succ' = succ /\ phase' = [phase EXCEPT ![o] = "reg"]
        /\ phase[o] = "none" \/ o \in Wait
        /\ phase \in [DO -> Phase] /\ reg \in Thread
    BY Zenon, <1>1 DEF Register, Create, DO, DOInv, DOTypeOK, DomainInv, DomainTypeOK
  <2>2. reg'.obj = o /\ reg'.todo = xs
    BY Zenon, <1>1, <2>1 DEF Register, Thread
  <2>3. succ'[o] = {}
    BY Zenon, <2>1 DEF JoinInv, DOInv, EdgesInv
  <2>4. \A p \in DO : phase'[p] = "none" => succ'[p] = {}
    <3>1. \A p \in DO : phase'[p] = "none" => phase[p] = "none"
      BY <2>1
    <3> QED
      BY Zenon, <2>1, <3>1 DEF JoinInv
  <2> QED
    BY Zenon, <1>1, <2>2, <2>3, <2>4 DEF JoinInv
<1>2. CASE SubmitTask
  <2>1. PICK t \in 1..program.tasks, xs \in program.lists : Register(t, xs)
    BY Zenon, <1>2 DEF SubmitTask
  <2>2. program.tasks \in Task /\ RelaxedOnce(xs)
    BY Zenon, PlainDepsAssumption DEF DomainInv, DomainTypeOK
  <2>3. t \in Task
    BY <2>2, PlainDepsAssumption
  <2> QED
    BY Zenon, <1>1, <2>1, <2>2, <2>3
<1>3. CASE WaitOn
  <2>1. PICK w \in Wait, xs \in WaitAccesses : Register(w, xs)
    BY Zenon, <1>3 DEF WaitOn
  <2>2. xs \in Seq(AccessOf({"in", "out", "inout"}))
    BY Zenon, PlainDepsAssumption
  <2>3. \A i \in 1..Len(xs) : xs[i] \in AccessOf({"in", "out", "inout"})
    BY <2>2
  <2>4. RelaxedOnce(xs)
    BY <2>3 DEF RelaxedOnce, AccessOf, RelaxedMode
  <2> QED
    BY Zenon, <1>1, <2>1, <2>4
<1> QED
  BY <1>2, <1>3

\* Every step keeps it.
LEMMA JoinNext ==
  ASSUME DOInv, SoleBlocker, DomainInv, JoinInv, [PlainNext]_vars
  PROVE  JoinInv'
<1>1. \A o \in DO : phase'[o] = "none" => phase[o] = "none"
  BY Zenon, DomainNext, StaysCreated
<1>2. reg.todo # <<>> => reg.obj \in DO
  BY DEF DomainInv, ThreadInv, Registers, DomainTypeOK, Thread, DO
<1>3. status \in Targets
  BY DEF DomainInv, DomainTypeOK
<1>4. ASSUME Advances, \A x \in Addr : status'[x].commDO \in {status[x].commDO, NoDO},
             \A o \in DO : succ'[o] \subseteq succ[o]
      PROVE  JoinInv'
  BY Zenon, <1>1, <1>2, <1>4, JoinKept
<1>5. CASE UNCHANGED vars
  <2>1. reg' = reg /\ status' = status /\ succ' = succ
    BY Zenon, <1>5 DEF vars, doVars
  <2> QED
    BY Zenon, <1>4, <2>1 DEF Advances
<1>6. CASE SubmitTask \/ WaitOn
  BY Zenon, <1>6, JoinSubmit
<1>7. CASE LocalStep \/ EndSubmit \/ ReleaseInitial
  <2>1. status' = status /\ succ' = succ
    BY Zenon, <1>7 DEF LocalStep, DataAccess, WaitReturn, FinalizeReturn, Finalized, ReleaseReturn,
       TaskWait, ReadLastWriter, LockReaders, UnlockReaders, EndSubmit, ReleaseInitial, DropFake, doVars
  <2> QED
    BY Zenon, <1>4, <1>7, <2>1, RegistrationAdvances DEF Registration
<1>8. CASE FinalizeReduction \/ FinalizeAll \/ SetAsWriter \/ AddAsReader \/ ClearDomain
  <2>1. succ' = succ
    BY Zenon, <1>8 DEF FinalizeReduction, FinalizeAll, CloseComm, DropFake, SetAsWriter, AddAsReader,
       ClearDomain, doVars
  <2>2. \A x \in Addr : status'[x].commDO \in {status[x].commDO, NoDO}
    <3>1. CASE SetAsWriter \/ AddAsReader
      BY <1>3, <3>1 DEF SetAsWriter, AddAsReader, Targets
    <3>2. CASE FinalizeReduction \/ FinalizeAll
      <4>1. PICK y : \/ status' = status
                     \/ status' = [status EXCEPT ![y].commDO = NoDO, ![y].lastWriter = status[y].commDO]
        BY Zenon, <3>2 DEF FinalizeReduction, FinalizeAll, CloseComm
      <4> QED
        BY <1>3, <4>1 DEF Targets
    <3>3. CASE ClearDomain
      BY <3>3 DEF ClearDomain
    <3> QED
      BY <1>8, <3>1, <3>2, <3>3
  <2> QED
    BY Zenon, <1>4, <1>8, <2>1, <2>2, RegistrationAdvances DEF Registration
<1>9. CASE LinkLastWriter \/ LinkReader \/ LinkComm \/ SetUpInitial \/ SetUpTarget
  BY Zenon, <1>9, JoinLinks, JoinLinkComm, JoinSetUp
<1>10. ASSUME NEW p \in DO, WorkStep(p) \/ DeleteLastWriter(p) \/ DeleteReader(p) \/ EndPurge(p)
       PROVE  JoinInv'
  <2>1. \A o \in DO : succ'[o] \subseteq succ[o]
    BY Zenon, <1>10, WorkEdges
  <2>2. reg' = reg
    BY Zenon, <1>10 DEF WorkStep, StartTask, Running, TakeSuccessor, DeleteLastWriter, DeleteReader,
       EndPurge
  <2>3. \A x \in Addr : status'[x].commDO \in {status[x].commDO, NoDO}
    <3>1. CASE DeleteLastWriter(p)
      BY <1>3, <3>1 DEF DeleteLastWriter, Targets
    <3>2. CASE DeleteReader(p)
      BY <1>3, <3>2 DEF DeleteReader, Targets
    <3>3. CASE WorkStep(p) \/ EndPurge(p)
      BY Zenon, <3>3 DEF WorkStep, StartTask, Running, TakeSuccessor, EndPurge
    <3> QED
      BY <1>10, <3>1, <3>2, <3>3
  <2> QED
    BY Zenon, <1>4, <2>1, <2>2, <2>3 DEF Advances
<1> QED
  BY Zenon, <1>5, <1>6, <1>7, <1>8, <1>9, <1>10 DEF PlainNext, Registering, Registration, Executing,
     Execution, LocalStep, WorkStep

-----------------------------------------------------------------------------
\* What the graph guarantees

\* The objects that have done their work: tasks that ended, CommutationDOs that
\* were satisfied
Overs == {u \in Known : phase[u] \notin Unfinished}

\* u is o or reaches o through edges not yet released: it is in every set that
\* contains o and the predecessors of its members
Reaches(u, o) ==
  \A S \in SUBSET DO : (o \in S /\ \A s \in S : Preds(s) \subseteq S) => u \in S

\* The objects that are over when o is satisfied, but for o itself
Ahead == [o \in DO |-> {u \in Known : u \in Overs \/ Reaches(u, o)}]

-----------------------------------------------------------------------------
\* What the domain knows

Owner == Task \cup Wait  \* the objects that have access lists

\* The accesses of each task or wait, and those whose registration is complete
Listed == [o \in Owner |-> {accesses[o][i] : i \in 1..Len(accesses[o])}]
Registered ==
  [o \in Owner |-> {accesses[o][i] : i \in
     1..(Len(accesses[o]) - (IF o = reg.obj THEN Len(reg.todo) ELSE 0))}]

\* The accesses still to do are the last ones of the list
ListInv ==
  /\ \A t \in Task : phase[t] = "none" => accesses[t] = <<>>
  /\ reg.todo # <<>> => Len(reg.todo) <= Len(accesses[reg.obj])
  /\ \A i \in 1..Len(reg.todo) :
       reg.todo[i] = accesses[reg.obj][Len(accesses[reg.obj]) - Len(reg.todo) + i]

Waiting == reg.obj \in Wait /\ (Registers \/ reg.pc = "blocked")

\* How the domain keeps track of a task u that accesses x with mode m.  A wait
\* forgets readers; they come before the wait, and it ends before the next
\* registration.
Tracked(u, x, m) ==
  LET w == status[x].lastWriter
      c == status[x].commDO
  IN  \/ u \in Overs
      \/ w # NoDO /\ u \in Ahead[w]
      \/ m = "in" /\ u \in status[x].readers
      \/ /\ m \in RelaxedMode /\ c # NoDO
         /\ commutative[c] = (m = "comm") /\ u \in Ahead[c]
      \/ Waiting /\ u \in Ahead[reg.obj]

TrackedInv == \A u \in Task : \A e \in Registered[u] : Tracked(u, e.addr, e.mode)

\* The last writer comes before the readers, and before the open CommutationDO
\* unless the first task of its group is still being linked; there are no
\* readers next to a CommutationDO.
ChainInv(x) ==
  LET w == status[x].lastWriter
      c == status[x].commDO
  IN  /\ w # NoDO => \A r \in status[x].readers : w \in Ahead[r]
      /\ c # NoDO => status[x].readers = {}
      /\ w # NoDO /\ c # NoDO =>
           \/ w \in Ahead[c]
           \/ x = a /\ Relaxed /\ reg.pc \in {"linkComm", "readWriter", "linkWriter"}
      /\ Registers /\ w = reg.obj => c = NoDO /\ status[x].readers = {}

\* The access being registered: what its object is linked to so far
LinkedInv ==
  LET w == status[a].lastWriter
      c == status[a].commDO
      rs == status[a].readers
  IN  reg.todo # <<>> /\ reg.pc # "access" =>
        /\ w # reg.obj
        /\ Relaxed /\ reg.pc \notin {"initial"} \cup WriterSteps => rs = {}
        /\ ~Relaxed /\ reg.pc # "finalize" => c = NoDO
        /\ reg.pc \in WriterSteps => c = NoDO
        /\ reg.pc = "linkWriter" => w \in {NoDO, reg.writer}
        /\ reg.pc = "addReader" /\ w # NoDO => w \in Ahead[reg.obj]
        /\ reg.pc \in {"lockReaders", "linkReaders"} /\ w # NoDO /\ rs = {}
             => w \in Ahead[Target]
        /\ reg.pc = "linkReaders" => rs \ reg.toLink \subseteq Ahead[Target]
        /\ reg.pc = "setWriter" => /\ w # NoDO => w \in Ahead[Target]
                                   /\ rs \subseteq Ahead[Target]
        /\ Relaxed /\ reg.pc \in {"linkComm", "readWriter", "linkWriter",
                                  "releaseInitial", "releaseCall"}
             => c # NoDO /\ commutative[c] = (mode = "comm")
        /\ Relaxed /\ reg.pc \in {"readWriter", "linkWriter",
                                  "releaseInitial", "releaseCall"}
             => reg.obj \in Ahead[c]
        /\ reg.pc \in {"releaseInitial", "releaseCall"} /\ w # NoDO
             => w \in Ahead[reg.obj]

\* Every earlier task comes before an object that has registered an access that
\* conflicts with it
Earlier(u, o) == IF o \in Task THEN u < o ELSE Waiting /\ o = reg.obj
ConflictInv ==
  \A u \in Task, o \in Owner : Earlier(u, o) =>
    \A e \in Listed[u], f \in Registered[o] :
      e.addr = f.addr /\ Order!ModesConflict(e.mode, f.mode) => u \in Ahead[o]

OrderInv ==
  /\ ListInv
  /\ TrackedInv
  /\ \A x \in Addr : ChainInv(x)
  /\ LinkedInv
  /\ ConflictInv

-----------------------------------------------------------------------------
\* The graph

\* Over objects are ahead of everything, an object is ahead of itself and of its
\* successors, and the relation is transitive; nothing else is ahead of an object
\* without predecessors
AheadOK ==
  /\ Overs \subseteq Known /\ Known \subseteq DO
  /\ Ahead \in [DO -> SUBSET Known]
  /\ \A o \in DO : Overs \subseteq Ahead[o]
  /\ \A o \in Known : o \in Ahead[o]
  /\ \A o \in DO : \A p \in Known : p \in Preds(o) => p \in Ahead[o]
  /\ \A o \in DO, v \in Known : v \in Ahead[o] => Ahead[v] \subseteq Ahead[o]
  /\ \A o \in DO : Preds(o) = {} => Ahead[o] \subseteq Overs \cup {o}
  /\ \A o \in Overs : Ahead[o] \subseteq Overs

\* So it is whenever the invariant of the objects holds.
LEMMA AheadFacts == DOInv => AheadOK
<1> SUFFICES ASSUME DOInv PROVE AheadOK
  OBVIOUS
<1>1. Overs \subseteq Known /\ Known \subseteq DO
  BY DEF Overs, Known, DO
<1>2. /\ Ahead \in [DO -> SUBSET Known]
      /\ \A o \in DO, u \in Known : u \in Ahead[o] <=> u \in Overs \/ Reaches(u, o)
      /\ \A o \in DO : Ahead[o] \subseteq Known
  BY DEF Ahead
<1>3. \A o \in DO : Reaches(o, o)
  BY DEF Reaches
<1>4. \A o \in DO : \A p \in Preds(o) : Reaches(p, o)
  BY DEF Reaches
<1>5. ASSUME NEW o \in DO, Preds(o) = {}, NEW u \in Known, Reaches(u, o)
      PROVE  u = o
  <2>1. {o} \in SUBSET DO /\ o \in {o} /\ \A s \in {o} : Preds(s) \subseteq {o}
    BY <1>5
  <2>2. u \in {o}
    BY Zenon, <1>5, <2>1 DEF Reaches
  <2> QED
    BY <2>2
<1>6. \A o \in DO : Preds(o) = {} => Ahead[o] \subseteq Overs \cup {o}
  BY <1>2, <1>5
<1>7. \A o \in Overs : Ahead[o] \subseteq Overs
  <2>1. \A o \in Overs : Preds(o) = {}
    BY <1>1 DEF DOInv, BlockedInv, Overs, Unfinished
  <2> QED
    BY <1>1, <1>6, <2>1
<1>8. ASSUME NEW o \in DO, NEW v \in Known, v \in Ahead[o], NEW u \in Ahead[v]
      PROVE  u \in Ahead[o]
  <2>1. u \in Known /\ v \in DO
    BY <1>1, <1>2, <1>8
  <2>2. CASE u \in Overs
    BY <1>2, <2>1, <2>2
  <2>3. CASE v \in Overs
    BY <1>2, <1>7, <1>8, <2>1, <2>3
  <2>4. CASE u \notin Overs /\ v \notin Overs
    <3>1. Reaches(u, v) /\ Reaches(v, o)
      BY <1>2, <1>8, <2>1, <2>4
    <3>2. Reaches(u, o)
      BY <3>1 DEF Reaches
    <3> QED
      BY <1>2, <2>1, <3>2
  <2> QED
    BY <2>2, <2>3, <2>4
<1>9. \A o \in DO, v \in Known : v \in Ahead[o] => Ahead[v] \subseteq Ahead[o]
  BY <1>8
<1> QED
  BY <1>1, <1>2, <1>3, <1>4, <1>6, <1>7, <1>9 DEF AheadOK

\* The same in the next state.
LEMMA AheadFactsNext == DOInv' => AheadOK'
BY AheadFacts, PTL

\* A step of the objects releases edges only from objects that are over, and no object
\* but a wait is ever over and then not.
LEMMA GraphStep ==
  ASSUME DOInv, SoleBlocker, [DONext]_doVars
  PROVE  /\ Overs \subseteq Overs'
         /\ \A s \in DO : \A q \in Preds(s) : q \in Preds(s)' \/ q \in Overs
<1>1. /\ DOTypeOK /\ phase \in [DO -> Phase] /\ Known \subseteq DO /\ Task \subseteq DO
      /\ succ \in [DO -> SUBSET DO] /\ visited \in [DO -> SUBSET DO]
  BY DEF DOInv, DOTypeOK, Known, DO
<1> DEFINE Mono == \A o \in Known : phase'[o] \in Unfinished => phase[o] \in Unfinished
           Kept == \A s \in DO : \A q \in Preds(s) : q \in Preds(s)' \/ q \in Overs
<1>2. Mono => Overs \subseteq Overs'
  BY DEF Overs
<1>3. (succ' = succ /\ visited' = visited) => Kept
  BY DEF Preds
<1> HIDE DEF Kept
<1>4. ASSUME NEW o \in DO, Create(o) \/ ReleaseFake(o) \/ Purged(o) PROVE Mono /\ Kept
  <2>1. \A x \in DO \ {o} : phase'[x] = phase[x]
    BY Zenon, <1>1, <1>4 DEF Create, ReleaseFake, DropFake, Purged
  <2>2. o \notin Wait /\ phase'[o] \in Unfinished => phase[o] \in Unfinished
    BY <1>1, <1>4 DEF Create, ReleaseFake, Purged, Unfinished
  <2>3. Known \cap Wait = {}
    BY DOAssumption DEF Known
  <2>4. Kept
    BY Zenon, <1>3, <1>4 DEF Create, ReleaseFake, DropFake, Purged
  <2> QED
    BY <1>1, <2>1, <2>2, <2>3, <2>4
<1>5. ASSUME NEW p \in DO, NEW s \in DO, AddSuccessor(p, s) PROVE Mono /\ Kept
  <2>1. phase' = phase /\ visited' = visited /\ succ' = [succ EXCEPT ![p] = @ \cup {s}]
    BY <1>5 DEF AddSuccessor, AddEdge
  <2>2. \A q \in DO : succ[q] \subseteq succ'[q]
    BY <1>1, <2>1
  <2> QED
    BY <2>1, <2>2 DEF Preds, Kept
<1>6. ASSUME NEW p \in DO,
             \/ Start(p) \/ BodyEnd(p) \/ Finish(p) \/ DecreaseSingle(p) \/ Return(p)
             \/ DecreaseBatch(p) \/ SubmitBatch(p)
             \/ \E s \in DO : Visit(p, s)
             \/ \E s \in Task, keepDeps \in BOOLEAN : ImmediateSuccessor(p, s, keepDeps)
      PROVE  Mono /\ Kept
  <2>1. Mono
    BY <1>1, <1>6, RunningPhases
  <2>2. ASSUME \/ Start(p) \/ BodyEnd(p) \/ Finish(p) \/ Return(p)
               \/ \E s \in DO : Visit(p, s)
        PROVE  Kept
    BY Zenon, <1>3, <2>2 DEF Start, BodyEnd, Finish, Return, Visit
  <2>3. ASSUME \A q \in DO \ {p} : succ'[q] = succ[q] /\ visited'[q] = visited[q],
               p \in Overs \/ (succ'[p] = succ[p] /\ visited'[p] = visited[p])
        PROVE  Kept
    BY <2>3 DEF Preds, Kept
  <2>4. phase[p] \in {"exit", "single", "batch", "loop"} /\ p \notin Wait => p \in Overs
    BY DEF Overs, Unfinished, Known, DO
  <2>5. ASSUME DecreaseSingle(p) \/ DecreaseBatch(p) PROVE Kept
    <3>1. /\ succ' = succ /\ visited' = [visited EXCEPT ![p] = @ \cup {cur[p]}]
          /\ phase[p] \in {"single", "batch"}
      BY Zenon, <2>5 DEF DecreaseSingle, DecreaseBatch
    <3>2. p \notin Wait
      BY Zenon, <3>1 DEF DOInv, EdgesInv, VisitInv
    <3> QED
      BY <1>1, <2>3, <2>4, <3>1, <3>2
  <2>6. ASSUME SubmitBatch(p) PROVE Kept
    <3>1. /\ succ' = [succ EXCEPT ![p] = {}] /\ visited' = [visited EXCEPT ![p] = {}]
          /\ phase[p] = "loop" /\ visited[p] = succ[p]
      BY <2>6 DEF SubmitBatch
    <3>2. \A q \in DO : succ'[q] \ visited'[q] = succ[q] \ visited[q]
      BY <1>1, <3>1
    <3> QED
      BY Zenon, <3>2 DEF Preds, Kept
  <2>7. ASSUME NEW s \in Task, NEW keepDeps \in BOOLEAN, ImmediateSuccessor(p, s, keepDeps)
        PROVE  Kept
    <3>1. CASE keepDeps
      BY <1>3, <2>7, <3>1 DEF ImmediateSuccessor
    <3>2. CASE ~keepDeps
      <4>1. /\ succ' = [succ EXCEPT ![p] = @ \ {s}] /\ visited' = visited
            /\ phase[p] = "exit" /\ s \in succ[p]
        BY Zenon, <2>7, <3>2 DEF ImmediateSuccessor
      <4>2. p \notin Wait
        BY Zenon, <4>1 DEF DOInv, EdgesInv
      <4> QED
        BY <1>1, <2>3, <2>4, <4>1, <4>2
    <3> QED
      BY <3>1, <3>2
  <2> QED
    BY <1>6, <2>1, <2>2, <2>5, <2>6, <2>7
<1>7. CASE UNCHANGED doVars
  BY <1>2, <1>3, <1>7 DEF doVars, Kept
<1>8. CASE DONext
  <2>1. Mono /\ Kept
    <3>1. \A p, s \in DO, keepDeps \in BOOLEAN : ImmediateSuccessor(p, s, keepDeps) => s \in Task
      BY DEF ImmediateSuccessor
    <3> QED
      BY Zenon, <1>4, <1>5, <1>6, <1>8, <3>1 DEF DONext
  <2> QED
    BY <1>2, <2>1 DEF Kept
<1> QED
  BY <1>7, <1>8

\* What is ahead of an object stays ahead of it: this is what lets the domain leave out an
\* edge, and add another while threads release theirs.
LEMMA AheadGrows ==
  ASSUME DOInv, SoleBlocker, [DONext]_doVars
  PROVE  /\ Overs \subseteq Overs'
         /\ \A o \in DO : Ahead[o] \subseteq Ahead'[o]
<1>1. /\ Overs \subseteq Overs'
      /\ \A s \in DO : \A q \in Preds(s) : q \in Preds(s)' \/ q \in Overs
  BY GraphStep
<1>2. ASSUME NEW o \in DO, NEW u \in Ahead[o] PROVE u \in Ahead'[o]
  <2>1. u \in Known /\ (u \in Overs \/ Reaches(u, o))
    BY <1>2 DEF Ahead
  <2>2. CASE u \in Overs
    BY <1>1, <2>1, <2>2 DEF Ahead
  <2>3. CASE u \notin Overs
    <3>1. ASSUME NEW S \in SUBSET DO, o \in S, \A s \in S : Preds(s)' \subseteq S PROVE u \in S
      <4>1. S \cup Overs \in SUBSET DO
        BY DEF Overs, Known, DO
      <4>2. \A s \in S : Preds(s) \subseteq S \cup Overs
        BY <1>1, <3>1
      <4>3. \A s \in Overs : Preds(s) = {}
        BY Zenon, <4>1 DEF DOInv, BlockedInv, Overs, Unfinished
      <4>4. u \in S \cup Overs
        <5>1. \A s \in S \cup Overs : Preds(s) \subseteq S \cup Overs
          BY <4>2, <4>3
        <5> QED
          BY Zenon, <2>1, <2>3, <3>1, <4>1, <5>1 DEF Reaches
      <4> QED
        BY <2>3, <4>4
    <3>2. Reaches(u, o)'
      BY <3>1 DEF Reaches
    <3> QED
      BY <2>1, <3>2 DEF Ahead
  <2> QED
    BY <2>2, <2>3
<1> QED
  BY Zenon, <1>1, <1>2

\* A new edge puts the predecessor ahead.
LEMMA LinkedAhead ==
  ASSUME DOInv, DOInv', NEW p \in Known, NEW s \in DO, AddSuccessor(p, s)
  PROVE  p \in Ahead'[s]
<1>1. p \in DO /\ visited[p] = {} /\ succ \in [DO -> SUBSET DO]
  BY Zenon DEF AddSuccessor, DOInv, DOTypeOK, EdgesInv, BeforeLoop, Known, DO
<1>2. p \in Preds(s)'
  BY <1>1 DEF AddSuccessor, AddEdge, Preds
<1> QED
  BY Zenon, <1>2, AheadFactsNext DEF AheadOK

-----------------------------------------------------------------------------
\* The frame of a step

\* What is known of every step: the layer below, in both states
Good == DOInv /\ SoleBlocker /\ DomainInv /\ JoinInv /\ OrderInv
Step == Good /\ DOInv' /\ DomainInv' /\ [DONext]_doVars

\* The accesses of an object are accesses of the program.
LEMMA ListedType ==
  ASSUME DomainTypeOK, NEW o \in Owner
  PROVE  Registered[o] \subseteq Listed[o] /\ Listed[o] \subseteq Access
<1>1. accesses[o] \in Seq(Access) /\ Len(reg.todo) \in Nat
  BY DEF DomainTypeOK, Thread, Owner
<1> QED
  BY <1>1 DEF Registered, Listed

\* A list with an access is not empty.
LEMMA ListedSome ==
  ASSUME NEW p \in Owner, NEW f \in Listed[p]
  PROVE  accesses[p] # <<>>
BY DEF Listed

\* Nothing is registered at first.
LEMMA OrderInitial ==
  ASSUME PlainInit
  PROVE  OrderInv
<1>1. DomainInv /\ DomainTypeOK
  BY DomainInit DEF DomainInv
<1>2. /\ reg.todo = <<>> /\ reg.pc = "idle"
      /\ \A o \in Owner : accesses[o] = <<>>
      /\ \A x \in Addr : status[x] = [lastWriter |-> NoDO, readers |-> {}, commDO |-> NoDO]
  BY Zenon DEF PlainInit, Owner
<1>3. \A o \in Owner : Listed[o] = {} /\ Registered[o] = {}
  <2>1. \A o \in Owner : Listed[o] = {}
    BY <1>2 DEF Listed
  <2> QED
    BY Zenon, <1>1, <2>1, ListedType
<1>4. ListInv
  BY <1>2 DEF ListInv, Owner
<1>5. TrackedInv /\ ConflictInv
  BY Zenon, <1>3 DEF TrackedInv, ConflictInv, Owner
<1>6. \A x \in Addr : ChainInv(x)
  BY <1>2 DEF ChainInv
<1>7. LinkedInv
  BY Zenon, <1>2 DEF LinkedInv
<1> QED
  BY <1>1, <1>4, <1>5, <1>6, <1>7 DEF Good, OrderInv

\* A new list begins: nothing of it is registered, and the other lists stay.
LEMMA ListRegister ==
  ASSUME DomainTypeOK, NEW o \in Owner, NEW xs \in Seq(Access),
         reg.todo = <<>>, reg'.obj = o, reg'.todo = xs,
         accesses' = [accesses EXCEPT ![o] = xs],
         \A t \in Task : phase'[t] = "none" => accesses'[t] = <<>>
  PROVE  /\ ListInv' /\ Registered'[o] = {}
         /\ \A p \in Owner \ {o} : Listed'[p] = Listed[p] /\ Registered'[p] = Registered[p]
<1>1. /\ accesses \in [Owner -> Seq(Access)] /\ accesses'[o] = xs
      /\ \A p \in Owner \ {o} : accesses'[p] = accesses[p]
  BY DEF DomainTypeOK, Owner
<1>2. ListInv'
  <2>1. Len(xs) \in Nat /\ \A i \in 1..Len(xs) : Len(xs) - Len(xs) + i = i
    OBVIOUS
  <2> QED
    BY <1>1, <2>1 DEF ListInv
<1>3. Registered'[o] = {}
  <2>1. Len(xs) \in Nat /\ 1..(Len(xs) - Len(xs)) = {}
    OBVIOUS
  <2> QED
    BY <1>1, <2>1 DEF Registered
<1>4. \A p \in Owner \ {o} : Registered'[p] = Registered[p]
  <2>1. \A p \in Owner \ {o} : /\ Len(accesses[p]) \in Nat
                               /\ Len(accesses[p]) - Len(reg.todo) = Len(accesses[p])
                               /\ Len(accesses[p]) - 0 = Len(accesses[p])
    BY <1>1
  <2> QED
    BY <1>1, <2>1 DEF Registered
<1>5. \A p \in Owner \ {o} : Listed'[p] = Listed[p]
  BY <1>1 DEF Listed
<1> QED
  BY <1>2, <1>3, <1>4, <1>5

\* The tasks are the numbers up to the last one, and the submitted ones come first.
LEMMA Submitted ==
  ASSUME NEW n \in Nat, NEW last \in 1..n, NEW t \in 1..last
  PROVE  t \in 1..n /\ \A u \in 1..n : t < u => ~(u < t)
OBVIOUS

\* A step inside an access, or outside any registration.
LEMMA ListSame ==
  ASSUME Step, UNCHANGED accesses, reg'.obj = reg.obj, reg'.todo = reg.todo
  PROVE  ListInv' /\ Listed' = Listed /\ Registered' = Registered
<1>1. \A t \in Task : phase'[t] = "none" => phase[t] = "none"
  BY StaysCreated DEF Step, Good, DO
<1>2. ListInv'
  BY Zenon, <1>1 DEF Step, Good, OrderInv, ListInv
<1> QED
  BY <1>2 DEF Listed, Registered

\* The end of an access: it joins the registered ones of its object.
LEMMA ListNext ==
  ASSUME Step, UNCHANGED accesses, reg.todo # <<>>, reg'.obj = reg.obj,
         reg'.todo = Tail(reg.todo)
  PROVE  /\ ListInv' /\ Listed' = Listed
         /\ \A o \in Owner :
              Registered'[o] = IF o = reg.obj THEN Registered[o] \cup {reg.todo[1]}
                                              ELSE Registered[o]
<1>1. /\ DomainTypeOK /\ ListInv /\ reg.obj \in Owner
  BY Zenon DEF Step, Good, OrderInv, DomainInv, DomainTypeOK, ThreadInv, Registers, Thread, Owner
<1>2. /\ Len(reg.todo) \in Nat \ {0} /\ Len(Tail(reg.todo)) = Len(reg.todo) - 1
      /\ \A i \in 1..Len(Tail(reg.todo)) : Tail(reg.todo)[i] = reg.todo[i + 1]
      /\ accesses[reg.obj] \in Seq(Access) /\ Len(accesses[reg.obj]) \in Nat
      /\ Len(reg.todo) <= Len(accesses[reg.obj])
  <2>1. accesses[reg.obj] \in Seq(Access)
    BY Zenon, <1>1 DEF DomainTypeOK, Owner
  <2>2. Len(accesses[reg.obj]) \in Nat
    BY <2>1
  <2> QED
    BY Zenon, <1>1, <2>1, <2>2, AccessType DEF ListInv
<1> DEFINE L == Len(accesses[reg.obj])
           K == Len(reg.todo)
<1>3. L \in Nat /\ K \in Nat \ {0} /\ K <= L
  BY Zenon, <1>2
<1>4. \A i \in 1..K : reg.todo[i] = accesses[reg.obj][L - K + i]
  BY Zenon, <1>1 DEF ListInv
<1>5. ListInv'
  <2>1. \A t \in Task : phase'[t] = "none" => accesses'[t] = <<>>
    BY Zenon, <1>1, StaysCreated DEF Step, Good, DO, ListInv
  <2>2. \A i \in 1..(K - 1) : Tail(reg.todo)[i] = accesses[reg.obj][L - (K - 1) + i]
    <3> SUFFICES ASSUME NEW i \in 1..(K - 1)
                 PROVE  Tail(reg.todo)[i] = accesses[reg.obj][L - (K - 1) + i]
      BY Zenon
    <3>1. i + 1 \in 1..K /\ L - (K - 1) + i = L - K + (i + 1)
      <4> HIDE DEF L, K
      <4> QED
        BY <1>3
    <3>2. reg.todo[i + 1] = accesses[reg.obj][L - (K - 1) + i]
      BY Zenon, <1>4, <3>1
    <3> QED
      BY Zenon, <1>2, <3>2
  <2>3. K - 1 <= L
    <3> HIDE DEF L, K
    <3> QED
      BY <1>3
  <2>4. reg'.todo = Tail(reg.todo) /\ Len(reg'.todo) = K - 1 /\ Len(accesses'[reg'.obj]) = L
    BY <1>2
  <2> QED
    BY Zenon, <2>1, <2>2, <2>3, <2>4 DEF ListInv
<1>6. \A o \in Owner : o # reg.obj => Registered'[o] = Registered[o]
  BY DEF Registered
<1>7. Registered'[reg.obj] = Registered[reg.obj] \cup {reg.todo[1]}
  <2>1. /\ Registered[reg.obj] = {accesses[reg.obj][i] : i \in 1..(L - K)}
        /\ Registered'[reg.obj] = {accesses[reg.obj][i] : i \in 1..(L - (K - 1))}
    <3>1. Len(reg'.todo) = K - 1
      BY Zenon, <1>2
    <3> QED
      BY Zenon, <1>1, <3>1 DEF Registered
  <2>2. 1..(L - (K - 1)) = 1..(L - K) \cup {L - K + 1} /\ 1 \in 1..K
    <3> HIDE DEF L, K
    <3> QED
      BY <1>3
  <2>3. reg.todo[1] = accesses[reg.obj][L - K + 1]
    BY Zenon, <1>4, <2>2
  <2> QED
    BY Zenon, <2>1, <2>2, <2>3
<1> QED
  BY Zenon, <1>1, <1>5, <1>6, <1>7 DEF Listed

\* What a task is tracked by stays, if the step does not touch the TrackableObject and
\* does not end a wait.
LEMMA TrackedGrows ==
  ASSUME Step, NEW u \in Task, NEW x \in Addr, NEW m, Tracked(u, x, m),
         status'[x] = status[x],
         status[x].commDO # NoDO => commutative'[status[x].commDO] = commutative[status[x].commDO],
         Waiting => Waiting' /\ reg'.obj = reg.obj
  PROVE  Tracked(u, x, m)'
<1>1. /\ Overs \subseteq Overs' /\ \A o \in DO : Ahead[o] \subseteq Ahead'[o]
  BY Zenon, AheadGrows DEF Step, Good
<1>2. /\ status[x].lastWriter \in DO \cup {NoDO} /\ status[x].commDO \in DO \cup {NoDO}
      /\ Wait \subseteq DO
  BY Zenon DEF Step, Good, DomainInv, DomainTypeOK, Targets, Known, DO
<1>3. Waiting => reg.obj \in DO
  BY Zenon, <1>2 DEF Waiting
<1> QED
  BY Zenon, <1>1, <1>2, <1>3 DEF Tracked

\* An earlier task is tracked at every address it accesses.
LEMMA EarlierTracked ==
  ASSUME Good, reg.todo # <<>>, NEW u \in Task, Earlier(u, reg.obj), NEW e \in Listed[u]
  PROVE  Tracked(u, e.addr, e.mode) /\ e \in Access
<1>1. reg.obj # u /\ u \in Owner
  <2>1. \A t \in Task : t \in Int /\ t \notin Wait
    BY PlainDepsAssumption, DOAssumption
  <2> QED
    BY <2>1 DEF Earlier, Waiting, Owner
<1>2. Registered[u] = Listed[u]
  <2>1. accesses[u] \in Seq(Access)
    BY <1>1 DEF Good, DomainInv, DomainTypeOK, Owner
  <2> QED
    BY <1>1, <2>1 DEF Registered, Listed
<1>3. Listed[u] \subseteq Access
  BY <1>1, ListedType DEF Good, DomainInv
<1> QED
  BY <1>2, <1>3 DEF Good, OrderInv, TrackedInv

\* The order established so far stays, if the step ends no access and begins no wait.
LEMMA ConflictKept ==
  ASSUME Step, Listed' = Listed, Registered' = Registered,
         Waiting' => Waiting /\ reg'.obj = reg.obj
  PROVE  ConflictInv'
<1>1. \A o \in DO : Ahead[o] \subseteq Ahead'[o]
  BY AheadGrows DEF Step, Good
<1>2. \A u \in Task, o \in Owner : Earlier(u, o)' => Earlier(u, o)
  BY DEF Earlier
<1>3. Owner \subseteq DO /\ ConflictInv
  BY DEF Owner, DO, Step, Good, OrderInv
<1> QED
  BY <1>1, <1>2, <1>3 DEF ConflictInv

\* The end of an access extends the order if every earlier task that conflicts with the
\* access is ahead of its object.
LEMMA ConflictNext ==
  ASSUME Step, Listed' = Listed, reg.obj \in Owner,
         \A o \in Owner :
           Registered'[o] = IF o = reg.obj THEN Registered[o] \cup {reg.todo[1]}
                                           ELSE Registered[o],
         Waiting' => Waiting /\ reg'.obj = reg.obj,
         \A u \in Task : Earlier(u, reg.obj) => \A e \in Listed[u] :
           e.addr = a /\ Order!ModesConflict(e.mode, mode) => u \in Ahead'[reg.obj]
  PROVE  ConflictInv'
<1>1. \A o \in DO : Ahead[o] \subseteq Ahead'[o]
  BY Zenon, AheadGrows DEF Step, Good
<1>2. \A u \in Task, o \in Owner : Earlier(u, o)' => Earlier(u, o)
  BY Zenon DEF Earlier
<1>3. Owner \subseteq DO /\ ConflictInv
  BY DEF Owner, DO, Step, Good, OrderInv
<1> SUFFICES ASSUME NEW u \in Task, NEW o \in Owner, Earlier(u, o),
                    NEW e \in Listed[u], NEW f \in Registered'[o],
                    e.addr = f.addr, Order!ModesConflict(e.mode, f.mode)
             PROVE  u \in Ahead'[o]
  BY Zenon, <1>2 DEF ConflictInv
<1>4. CASE f \in Registered[o]
  BY Zenon, <1>1, <1>3, <1>4 DEF ConflictInv
<1>5. CASE f \notin Registered[o]
  <2>1. o = reg.obj /\ f = reg.todo[1]
    BY Zenon, <1>5
  <2> QED
    BY Zenon, <2>1 DEF a, mode
<1> QED
  BY Zenon, <1>4, <1>5

\* The chain of an address stays, if the step does not touch its TrackableObject, begins
\* no registration, and leaves the linking of a CommutationDO only with the link made.
LEMMA ChainGrows ==
  ASSUME Step, NEW x \in Addr, status'[x] = status[x],
         Registers' => Registers /\ reg'.obj = reg.obj,
         x = a /\ Relaxed /\ reg.pc \in {"linkComm", "readWriter", "linkWriter"} =>
           \/ a' = a /\ Relaxed' /\ reg'.pc \in {"linkComm", "readWriter", "linkWriter"}
           \/ status[x].lastWriter # NoDO => status[x].lastWriter \in Ahead'[status[x].commDO]
  PROVE  ChainInv(x)'
<1>1. \A o \in DO : Ahead[o] \subseteq Ahead'[o]
  BY Zenon, AheadGrows DEF Step, Good
<1>2. /\ status[x].readers \subseteq DO /\ status[x].commDO \in DO \cup {NoDO}
      /\ ChainInv(x)
  BY Zenon DEF Step, Good, OrderInv, DomainInv, DomainTypeOK, Targets, DO
<1> QED
  BY Zenon, <1>1, <1>2 DEF ChainInv

-----------------------------------------------------------------------------
\* The threads that run tasks

\* What the registering thread works on, in a step inside an access.
LEMMA AccessFacts ==
  ASSUME Good, reg.todo # <<>>
  PROVE  /\ a \in Addr /\ reg.obj \in Owner /\ reg.obj \in DO /\ reg.obj # NoDO
         /\ Relaxed => reg.obj \in Task /\ reg.obj \in Known
         /\ reg.obj \notin Comm
         /\ reg.pc \in WriterSteps => Target \in DO
         /\ status[a].lastWriter \in Known \cup {NoDO}
         /\ status[a].commDO \in Comm \cup {NoDO}
         /\ status[a].readers \subseteq Task
         /\ Known \subseteq DO /\ Comm \subseteq Known /\ Task \subseteq Known /\ NoDO \notin DO
<1>1. /\ DomainTypeOK /\ ThreadInv /\ status \in Targets
      /\ reg.obj \in Task \cup Wait \cup {NoDO}
      /\ reg.obj # NoDO
  BY Zenon DEF Good, DomainInv, DomainTypeOK, Thread, ThreadInv, Registers
<1>2. a \in Addr /\ Len(reg.todo) \in Nat \ {0}
  BY Zenon, <1>1, AccessType
<1>3. Relaxed => reg.obj \notin Wait
  <2>1. 1 \in 1..Len(reg.todo)
    BY <1>2
  <2> QED
    BY Zenon, <1>1, <2>1 DEF ThreadInv, Relaxed, mode
<1>4. reg.pc \in WriterSteps => Target \in DO
  BY Zenon, TargetType DEF Good
<1> QED
  BY Zenon, <1>1, <1>2, <1>3, <1>4, DOAssumption DEF Owner, DO, Known, Targets

\* A step of the objects that touches neither the domain nor the registering thread.
LEMMA OrderQuiet ==
  ASSUME Step, UNCHANGED <<status, commutative, reg, accesses>>
  PROVE  OrderInv'
<1>1. ListInv' /\ Listed' = Listed /\ Registered' = Registered
  BY ListSame
<1>2. Good /\ DomainTypeOK /\ UNCHANGED Waiting /\ (Registers' => Registers)
  BY DEF Step, Good, DomainInv, Waiting, Registers
<1>3. TrackedInv'
  <2> SUFFICES ASSUME NEW u \in Task, NEW e \in Registered[u] PROVE Tracked(u, e.addr, e.mode)'
    BY <1>1 DEF TrackedInv
  <2>1. e.addr \in Addr
    BY <1>2, ListedType DEF Owner, Access, AccessOf
  <2>2. Tracked(u, e.addr, e.mode)
    BY <1>2 DEF Good, OrderInv, TrackedInv
  <2> QED
    BY <1>2, <2>1, <2>2, TrackedGrows
<1>4. \A x \in Addr : ChainInv(x)'
  BY Zenon, <1>2, ChainGrows DEF a, Relaxed, mode
<1>5. LinkedInv'
  <2> SUFFICES ASSUME reg.todo # <<>>, reg.pc # "access" PROVE LinkedInv'
    BY Zenon DEF LinkedInv
  <2>1. \A o \in DO : Ahead[o] \subseteq Ahead'[o]
    BY Zenon, AheadGrows DEF Step, Good
  <2>2. /\ a' = a /\ mode' = mode /\ Relaxed' = Relaxed /\ Target' = Target
    BY Zenon DEF a, mode, Relaxed, Target
  <2>3. /\ LinkedInv /\ a \in Addr /\ reg.obj \in DO
        /\ reg.pc \in WriterSteps => Target \in DO
        /\ status[a].commDO \in DO \cup {NoDO}
    BY Zenon, <1>2, AccessFacts DEF Good, OrderInv
  <2>4. status' = status /\ commutative' = commutative /\ reg' = reg
    OBVIOUS
  <2> QED
    BY Zenon, <2>1, <2>2, <2>3, <2>4 DEF LinkedInv, WriterSteps
<1>6. ConflictInv'
  BY <1>1, <1>2, ConflictKept
<1> QED
  BY <1>1, <1>3, <1>4, <1>5, <1>6 DEF OrderInv

\* deleteLastWriter(): whatever was tracked through the purging object is over.
LEMMA OrderDeleteLastWriter ==
  ASSUME Step, NEW p \in DO, DeleteLastWriter(p)
  PROVE  OrderInv'
<1>1. /\ phase[p] = "purge" /\ UNCHANGED <<doVars, commutative, reg, accesses>>
      /\ Good /\ status \in Targets /\ DomainTypeOK
  BY Zenon DEF DeleteLastWriter, histVars, Step, Good, DomainInv, DomainTypeOK
<1>2. \A x \in Addr :
        /\ status'[x].readers = status[x].readers
        /\ status'[x].commDO = status[x].commDO
        /\ \/ status'[x].lastWriter = status[x].lastWriter
           \/ status[x].lastWriter = p /\ status'[x].lastWriter = NoDO
  <2> SUFFICES ASSUME NEW x \in Addr
               PROVE  /\ status'[x].readers = status[x].readers
                      /\ status'[x].commDO = status[x].commDO
                      /\ \/ status'[x].lastWriter = status[x].lastWriter
                         \/ status[x].lastWriter = p /\ status'[x].lastWriter = NoDO
    BY Zenon
  <2>1. status[x].commDO # p
    BY Zenon, <1>1, DOAssumption DEF Good, DomainInv, TargetInv
  <2>2. status[x] \in [lastWriter : Known \cup {NoDO}, readers : SUBSET Task,
                       commDO : Comm \cup {NoDO}]
    BY <1>1 DEF Targets
  <2>3. status'[x] = [status[x] EXCEPT
          !.lastWriter = IF x \in writes[p] /\ @ = p THEN NoDO ELSE @,
          !.commDO = IF x \in writes[p] /\ @ = p THEN NoDO ELSE @]
    BY Zenon DEF DeleteLastWriter
  <2> QED
    BY <2>1, <2>2, <2>3
<1>3. /\ Overs' = Overs /\ Ahead' = Ahead
  BY Zenon, <1>1 DEF doVars, Overs, Ahead, Reaches, Preds
<1>4. p \in Known => Ahead[p] \subseteq Overs
  <2>1. p \in Known => p \in Overs
    BY <1>1 DEF Overs, Unfinished
  <2> QED
    BY <1>1, <2>1, AheadFacts DEF Good, AheadOK
<1>5. ListInv' /\ Listed' = Listed /\ Registered' = Registered
  BY <1>1, ListSame
<1>6. /\ UNCHANGED Waiting /\ UNCHANGED Registers
      /\ a' = a /\ mode' = mode /\ Relaxed' = Relaxed /\ Target' = Target
  BY Zenon, <1>1 DEF Waiting, Registers, a, mode, Relaxed, Target
<1>7. TrackedInv'
  <2> SUFFICES ASSUME NEW u \in Task, NEW e \in Registered[u] PROVE Tracked(u, e.addr, e.mode)'
    BY <1>5 DEF TrackedInv
  <2>1. e.addr \in Addr
    BY Zenon, <1>1, ListedType DEF Owner, Access, AccessOf
  <2>2. Tracked(u, e.addr, e.mode) /\ status[e.addr].lastWriter \in Known \cup {NoDO}
    BY Zenon, <1>1, <2>1 DEF Good, OrderInv, TrackedInv, Targets
  <2> QED
    BY Zenon, <1>1, <1>2, <1>3, <1>4, <1>6, <2>1, <2>2 DEF Tracked
<1>8. ASSUME NEW x \in Addr PROVE ChainInv(x)'
  <2>1. ChainInv(x) /\ (Registers => reg.obj # NoDO)
    BY Zenon, <1>1, <1>8 DEF Good, OrderInv, DomainInv, ThreadInv
  <2> QED
    BY Zenon, <1>1, <1>2, <1>3, <1>6, <1>8, <2>1 DEF ChainInv
<1>9. LinkedInv'
  <2> SUFFICES ASSUME reg.todo # <<>>, reg.pc # "access" PROVE LinkedInv'
    BY Zenon, <1>1 DEF LinkedInv
  <2>1. LinkedInv /\ a \in Addr /\ reg.obj # NoDO
    BY Zenon, <1>1, AccessFacts DEF Good, OrderInv
  <2> QED
    BY Zenon, <1>1, <1>2, <1>3, <1>6, <2>1 DEF LinkedInv
<1>10. ConflictInv'
  BY <1>1, <1>5, <1>6, ConflictKept
<1> QED
  BY <1>5, <1>7, <1>8, <1>9, <1>10 DEF OrderInv

\* deleteReader(): the reader is over, and so is the last writer it came after.
LEMMA OrderDeleteReader ==
  ASSUME Step, NEW p \in DO, DeleteReader(p)
  PROVE  OrderInv'
<1>1. /\ phase[p] = "purge" /\ UNCHANGED <<doVars, commutative, reg, accesses>>
      /\ Good /\ status \in Targets /\ DomainTypeOK /\ reads \in [DO -> SUBSET Addr]
  BY DEF DeleteReader, histVars, Step, Good, DomainInv, DomainTypeOK
<1>2. PICK y \in Addr : reg.locked # y /\ status' = [status EXCEPT ![y].readers = @ \ {p}]
  BY Zenon, <1>1 DEF DeleteReader
<1>3. \A x \in Addr :
        /\ status'[x].lastWriter = status[x].lastWriter
        /\ status'[x].commDO = status[x].commDO
        /\ status'[x].readers = IF x = y THEN status[x].readers \ {p} ELSE status[x].readers
  BY Zenon, <1>1, <1>2 DEF Targets
<1>4. /\ Overs' = Overs /\ Ahead' = Ahead
  BY Zenon, <1>1 DEF doVars, Overs, Ahead, Reaches, Preds
<1>5. p \in Task => p \in Overs /\ Ahead[p] \subseteq Overs
  <2>1. p \in Task => p \in Overs
    BY <1>1 DEF Overs, Unfinished, Known
  <2> QED
    BY <1>1, <2>1, AheadFacts DEF Good, AheadOK
<1>6. ListInv' /\ Listed' = Listed /\ Registered' = Registered
  BY <1>1, ListSame
<1>7. /\ UNCHANGED Waiting /\ UNCHANGED Registers
      /\ a' = a /\ mode' = mode /\ Relaxed' = Relaxed /\ Target' = Target
  BY Zenon, <1>1 DEF Waiting, Registers, a, mode, Relaxed, Target
<1>8. TrackedInv'
  <2> SUFFICES ASSUME NEW u \in Task, NEW e \in Registered[u] PROVE Tracked(u, e.addr, e.mode)'
    BY Zenon, <1>6 DEF TrackedInv
  <2>1. e.addr \in Addr
    BY <1>1, ListedType DEF Owner, Access, AccessOf
  <2>2. Tracked(u, e.addr, e.mode)
    BY <1>1 DEF Good, OrderInv, TrackedInv
  <2> QED
    BY Zenon, <1>1, <1>3, <1>4, <1>5, <1>7, <2>1, <2>2 DEF Tracked
<1>9. ASSUME NEW x \in Addr PROVE ChainInv(x)'
  <2>1. ChainInv(x)
    BY <1>1, <1>9 DEF Good, OrderInv
  <2> QED
    BY Zenon, <1>1, <1>3, <1>4, <1>7, <1>9, <2>1 DEF ChainInv
<1>10. LinkedInv'
  <2> SUFFICES ASSUME reg.todo # <<>>, reg.pc # "access" PROVE LinkedInv'
    BY Zenon, <1>1 DEF LinkedInv
  <2>1. /\ LinkedInv /\ ChainInv(a) /\ a \in Addr
        /\ status[a].lastWriter \in Known \cup {NoDO} /\ status[a].readers \subseteq Task
    BY Zenon, <1>1, AccessFacts DEF Good, OrderInv
  <2>2. status'[a].readers \subseteq status[a].readers
    BY Zenon, <1>3, <2>1
  <2>3. ASSUME reg.pc \in {"lockReaders", "linkReaders"}, status[a].lastWriter # NoDO,
               status'[a].readers = {}
        PROVE  status[a].lastWriter \in Ahead[Target]
    <3>1. CASE status[a].readers = {}
      BY Zenon, <2>1, <2>3, <3>1 DEF LinkedInv
    <3>2. CASE status[a].readers # {}
      <4>1. p \in status[a].readers
        BY Zenon, <1>3, <2>1, <2>3, <3>2
      <4>2. status[a].lastWriter \in Overs
        BY Zenon, <1>5, <2>1, <2>3, <4>1 DEF ChainInv
      <4> QED
        BY Zenon, <1>1, <2>3, <4>2, AccessFacts, AheadFacts DEF Good, AheadOK, WriterSteps
    <3> QED
      BY <3>1, <3>2
  <2> QED
    BY Zenon, <1>1, <1>3, <1>4, <1>7, <2>1, <2>2, <2>3 DEF LinkedInv
<1>11. ConflictInv'
  BY <1>1, <1>6, <1>7, ConflictKept
<1> QED
  BY <1>6, <1>8, <1>9, <1>10, <1>11 DEF OrderInv

-----------------------------------------------------------------------------
\* The registering thread

\* While the first task of a group is being linked its CommutationDO need not come after
\* the last writer
Linking == Relaxed /\ reg.pc \in {"linkComm", "readWriter", "linkWriter"}

\* A step inside an access, or outside any registration, that leaves the TrackableObjects
\* alone.
LEMMA OrderSameDomain ==
  ASSUME Step, UNCHANGED <<status, accesses>>, reg'.obj = reg.obj, reg'.todo = reg.todo,
         \A x \in Addr : status[x].commDO # NoDO =>
           commutative'[status[x].commDO] = commutative[status[x].commDO],
         Waiting' <=> Waiting, Registers' => Registers,
         \/ Linking => Linking'
         \/ status[a].lastWriter # NoDO => status[a].lastWriter \in Ahead'[status[a].commDO],
         LinkedInv'
  PROVE  OrderInv'
<1>1. ListInv' /\ Listed' = Listed /\ Registered' = Registered
  BY Zenon, ListSame
<1>2. Good /\ DomainTypeOK /\ a' = a
  BY Zenon DEF Step, Good, DomainInv, a
<1>3. TrackedInv'
  <2> SUFFICES ASSUME NEW u \in Task, NEW e \in Registered[u] PROVE Tracked(u, e.addr, e.mode)'
    BY Zenon, <1>1 DEF TrackedInv
  <2>1. e.addr \in Addr
    BY <1>2, ListedType DEF Owner, Access, AccessOf
  <2>2. Tracked(u, e.addr, e.mode)
    BY Zenon, <1>2 DEF Good, OrderInv, TrackedInv
  <2> QED
    BY Zenon, <2>1, <2>2, TrackedGrows
<1>4. \A x \in Addr : ChainInv(x)'
  BY Zenon, <1>2, ChainGrows DEF Linking
<1>5. ConflictInv'
  BY Zenon, <1>1, ConflictKept
<1> QED
  BY Zenon, <1>1, <1>3, <1>4, <1>5 DEF OrderInv

\* The end of an access of o, to y with mode m: it is tracked, what was tracked still is,
\* and the earlier accesses that conflict with it come before it
AccessEnds(o, y, m) ==
  /\ o = reg.obj /\ y = a /\ m = mode
  /\ accesses' = accesses /\ reg.todo # <<>>
  /\ reg'.pc = "access" /\ reg'.obj = reg.obj /\ reg'.todo = Tail(reg.todo)
  /\ \A u \in Task, e \in Access : Tracked(u, e.addr, e.mode) => Tracked(u, e.addr, e.mode)'
  /\ o \in Task => Tracked(o, y, m)'
  /\ \A x \in Addr : ChainInv(x)'
  /\ \A u \in Task : Earlier(u, o) => \A e \in Listed[u] :
       e.addr = y /\ Order!ModesConflict(e.mode, m) => u \in Ahead'[o]

\* The end of an access keeps the order.
LEMMA OrderNextAccess ==
  ASSUME Step, NEW o, NEW y, NEW m, AccessEnds(o, y, m)
  PROVE  OrderInv'
<1> USE DEF AccessEnds
<1>1. /\ ListInv' /\ Listed' = Listed
      /\ \A p \in Owner :
           Registered'[p] = IF p = reg.obj THEN Registered[p] \cup {reg.todo[1]}
                                           ELSE Registered[p]
  BY Zenon, ListNext
<1>2. Good /\ DomainTypeOK /\ o \in Owner
  BY Zenon, AccessFacts DEF Step, Good, DomainInv
<1>3. TrackedInv'
  <2> SUFFICES ASSUME NEW u \in Task, NEW e \in Registered'[u] PROVE Tracked(u, e.addr, e.mode)'
    BY Zenon DEF TrackedInv
  <2>1. CASE e \in Registered[u]
    <3>1. Tracked(u, e.addr, e.mode) /\ e \in Access
      BY ZenonT(30), <1>2, <2>1, ListedType DEF Good, OrderInv, TrackedInv, Owner
    <3> QED
      BY Zenon, <3>1
  <2>2. CASE e \notin Registered[u]
    <3>1. u = o /\ e = reg.todo[1]
      BY Zenon, <1>1, <2>2 DEF Owner
    <3>2. e.addr = y /\ e.mode = m
      BY Zenon, <3>1 DEF a, mode
    <3> QED
      BY Zenon, <3>1, <3>2
  <2> QED
    BY Zenon, <2>1, <2>2
<1>4. LinkedInv'
  BY Zenon DEF LinkedInv
<1>5. ConflictInv'
  <2>1. Waiting' => Waiting
    BY Zenon DEF Waiting, Registers
  <2> QED
    BY Zenon, <1>1, <1>2, <2>1, ConflictNext
<1> QED
  BY Zenon, <1>1, <1>3, <1>4, <1>5 DEF OrderInv

\* A step that leaves the objects alone leaves what is ahead of them alone.
LEMMA AheadSame ==
  ASSUME UNCHANGED doVars
  PROVE  Overs' = Overs /\ Ahead' = Ahead
BY Zenon DEF doVars, Overs, Ahead, Reaches, Preds

\* The thread stays at the same access.
LEMMA SameAccess ==
  ASSUME DomainTypeOK, NEW step, step # "next", Goto(step)
  PROVE  /\ reg'.pc = step /\ reg'.obj = reg.obj /\ reg'.todo = reg.todo
         /\ reg'.writer = reg.writer /\ reg'.initial = reg.initial /\ reg'.toLink = reg.toLink
         /\ a' = a /\ mode' = mode /\ Relaxed' = Relaxed /\ Target' = Target
<1>1. reg \in Thread /\ reg' = [reg EXCEPT !.pc = step]
  BY DEF DomainTypeOK, Goto
<1>2. /\ reg'.pc = step /\ reg'.obj = reg.obj /\ reg'.todo = reg.todo
      /\ reg'.writer = reg.writer /\ reg'.initial = reg.initial /\ reg'.toLink = reg.toLink
  BY <1>1 DEF Thread
<1> QED
  BY Zenon, <1>2 DEF a, mode, Relaxed, Target

\* submitDependableObjectDataAccess(): an access to an address the object already writes
\* is over at once, since all tasks tracked there come before the object.
LEMMA OrderDataAccess ==
  ASSUME Step, DataAccess
  PROVE  OrderInv'
<1>1. /\ Good /\ DomainTypeOK /\ ThreadInv /\ reg.pc = "access" /\ Registers
      /\ UNCHANGED <<doVars, status, commutative, accesses>>
      /\ Overs' = Overs /\ Ahead' = Ahead
  BY Zenon, AheadSame DEF Step, Good, DomainInv, DataAccess, objVars, histVars, Registers
<1>2. CASE reg.todo = <<>> \/ status[a].lastWriter # reg.obj
  <2>1. PICK step \in {"submit", "initial", "finalize"} :
          /\ Goto(step)
          /\ step = "submit" <=> reg.todo = <<>>
          /\ step = "initial" => Relaxed
          /\ step = "finalize" => ~Relaxed
    BY <1>2 DEF DataAccess
  <2>2. /\ reg'.pc = step /\ reg'.obj = reg.obj /\ reg'.todo = reg.todo
        /\ a' = a /\ mode' = mode /\ Relaxed' = Relaxed /\ Target' = Target
    BY Zenon, <1>1, <2>1, SameAccess
  <2>3. LinkedInv'
    BY Zenon, <1>1, <1>2, <2>1, <2>2 DEF LinkedInv, WriterSteps
  <2>4. (Waiting' <=> Waiting) /\ ~Linking
    BY Zenon, <1>1, <2>1, <2>2 DEF Waiting, Registers, Linking
  <2> QED
    BY Zenon, <1>1, <2>2, <2>3, <2>4, OrderSameDomain
<1>3. CASE reg.todo # <<>> /\ status[a].lastWriter = reg.obj
  <2>1. /\ reg'.pc = "access" /\ reg'.obj = reg.obj /\ reg'.todo = Tail(reg.todo)
    BY <1>1, <1>3, GotoType DEF DataAccess
  <2>2. /\ a \in Addr /\ reg.obj \in Known /\ reg.obj # NoDO /\ ChainInv(a)
        /\ status[a].commDO = NoDO /\ status[a].readers = {}
        /\ reg.obj \in Ahead[reg.obj] /\ reg.obj \notin Wait
    BY Zenon, <1>1, <1>3, AccessFacts, AheadFacts, DOAssumption DEF Good, OrderInv, ChainInv, AheadOK,
       Known
  <2>3. ~Waiting /\ ~Waiting'
    BY <2>1, <2>2 DEF Waiting
  <2>4. \A u \in Task, e \in Access : Tracked(u, e.addr, e.mode) => Tracked(u, e.addr, e.mode)'
    BY Zenon, <1>1, <2>3 DEF Tracked
  <2>5. ASSUME NEW u \in Task, Earlier(u, reg.obj), NEW e \in Listed[u], e.addr = a
        PROVE  u \in Ahead[reg.obj]
    <3>1. Tracked(u, a, e.mode)
      BY Zenon, <1>1, <1>3, <2>5, EarlierTracked
    <3>2. Overs \subseteq Ahead[reg.obj]
      BY Zenon, <1>1, <2>2, AheadFacts DEF Good, AheadOK
    <3> QED
      BY Zenon, <1>3, <2>2, <2>3, <3>1, <3>2 DEF Tracked
  <2>6. ASSUME NEW o, o = reg.obj, NEW y, y = a, NEW m, m = mode
        PROVE  OrderInv'
    <3>1. Tracked(o, y, m)'
      BY Zenon, <1>1, <1>3, <2>2, <2>6 DEF Tracked
    <3>2. \A x \in Addr : ChainInv(x)'
      BY Zenon, <1>1, <2>1, ChainGrows
    <3>3. \A u \in Task : Earlier(u, o) => \A e \in Listed[u] :
            e.addr = y /\ Order!ModesConflict(e.mode, m) => u \in Ahead'[o]
      BY Zenon, <1>1, <2>5, <2>6
    <3>4. AccessEnds(o, y, m)
      BY Zenon, <1>1, <1>3, <2>1, <2>4, <2>6, <3>1, <3>2, <3>3 DEF AccessEnds
    <3> QED
      BY Zenon, <3>4, OrderNextAccess
  <2> QED
    BY <2>6
<1> QED
  BY <1>2, <1>3

\* wait_on returns: the wait is satisfied, so every task that came before it is over.
LEMMA OrderWaitReturn ==
  ASSUME Step, WaitReturn
  PROVE  OrderInv'
<1>1. /\ Good /\ DomainTypeOK /\ ThreadInv /\ reg.pc = "blocked" /\ reg.todo = <<>>
      /\ phase[reg.obj] = "done" /\ Goto("idle")
      /\ UNCHANGED <<doVars, status, commutative, accesses>>
      /\ Overs' = Overs /\ Ahead' = Ahead
  BY Zenon, AheadSame DEF Step, Good, DomainInv, WaitReturn, objVars, histVars, ThreadInv
<1>2. /\ reg'.pc = "idle" /\ reg'.obj = reg.obj /\ reg'.todo = reg.todo
      /\ a' = a /\ Relaxed' = Relaxed
  BY <1>1, SameAccess
<1>3. ~Registers' /\ ~Registers /\ ~Waiting' /\ (Waiting <=> reg.obj \in Wait)
  BY <1>1, <1>2 DEF Registers, Waiting
<1>4. ListInv' /\ Listed' = Listed /\ Registered' = Registered
  BY Zenon, <1>1, <1>2, ListSame
<1>5. \A u \in Task : Waiting /\ u \in Ahead[reg.obj] => u \in Overs
  <2> SUFFICES ASSUME NEW u \in Task, Waiting, u \in Ahead[reg.obj] PROVE u \in Overs
    OBVIOUS
  <2>1. reg.obj \in DO /\ u # reg.obj
    BY <1>3, DOAssumption DEF DO
  <2>2. Preds(reg.obj) = {}
    BY Zenon, <1>1, <2>1 DEF Good, DOInv, BlockedInv
  <2> QED
    BY <1>1, <2>1, <2>2, AheadFacts DEF Good, AheadOK
<1>6. TrackedInv'
  <2> SUFFICES ASSUME NEW u \in Task, NEW e \in Registered[u] PROVE Tracked(u, e.addr, e.mode)'
    BY Zenon, <1>4 DEF TrackedInv
  <2>1. Tracked(u, e.addr, e.mode)
    BY Zenon, <1>1 DEF Good, OrderInv, TrackedInv
  <2> QED
    BY Zenon, <1>1, <1>5, <2>1 DEF Tracked
<1>7. \A x \in Addr : ChainInv(x)'
  BY Zenon, <1>1, <1>3, ChainGrows
<1>8. LinkedInv'
  BY Zenon, <1>1, <1>2 DEF LinkedInv
<1>9. ConflictInv'
  BY SMTT(30), <1>3, <1>4, ConflictKept
<1> QED
  BY <1>4, <1>6, <1>7, <1>8, <1>9 DEF OrderInv

\* The end of a registration and the beginning of a taskwait.
LEMMA OrderIdle ==
  ASSUME Step, EndSubmit \/ TaskWait
  PROVE  OrderInv'
<1>1. /\ Good /\ DomainTypeOK /\ ThreadInv /\ reg.pc \in {"submit", "idle"} /\ reg.todo = <<>>
      /\ UNCHANGED <<status, commutative, accesses>>
  BY Zenon DEF Step, Good, DomainInv, EndSubmit, TaskWait, objVars, histVars, ThreadInv
<1>2. PICK step \in {"blocked", "idle", "taskwait"} :
        /\ Goto(step)
        /\ step = "blocked" <=> reg.pc = "submit" /\ reg.obj \in Wait
  BY DEF EndSubmit, TaskWait
<1>3. /\ reg'.pc = step /\ reg'.obj = reg.obj /\ reg'.todo = reg.todo
  BY Zenon, <1>1, <1>2, SameAccess
<1>4. (Waiting' <=> Waiting) /\ ~Registers' /\ ~Linking /\ LinkedInv'
  BY Zenon, <1>1, <1>2, <1>3 DEF Waiting, Registers, Linking, LinkedInv
<1> QED
  BY Zenon, <1>1, <1>3, <1>4, OrderSameDomain

\* The steps inside an access between the locks.
LEMMA OrderBetweenLocks ==
  ASSUME Step, FinalizeReturn \/ Finalized \/ ReadLastWriter \/ LockReaders \/ UnlockReaders
  PROVE  OrderInv'
<1>1. /\ Good /\ DomainTypeOK /\ ThreadInv
      /\ UNCHANGED <<doVars, status, commutative, accesses>>
      /\ Overs' = Overs /\ Ahead' = Ahead /\ LinkedInv /\ reg \in Thread
  BY AheadSame DEF Step, Good, OrderInv, DomainInv, DomainTypeOK, FinalizeReturn, Finalized,
     ReadLastWriter, LockReaders, UnlockReaders, objVars, histVars
<1>2. CASE FinalizeReturn /\ reg.todo = <<>>
  <2>1. /\ reg'.pc = "taskwait" /\ reg'.obj = reg.obj /\ reg'.todo = reg.todo
    BY Zenon, <1>1, <1>2, SameAccess DEF FinalizeReturn
  <2>2. (Waiting' <=> Waiting) /\ ~Registers' /\ ~Linking /\ LinkedInv'
    BY Zenon, <1>2, <2>1 DEF FinalizeReturn, Waiting, Registers, Linking, LinkedInv
  <2> QED
    BY Zenon, <1>1, <2>1, <2>2, OrderSameDomain
<1>3. CASE reg.todo # <<>>
  <2>1. /\ a \in Addr /\ reg.obj \in DO /\ reg.obj # NoDO
        /\ status[a].lastWriter \in Known \cup {NoDO}
        /\ status[a].readers \subseteq Task /\ Task \subseteq Known /\ Known \subseteq DO
        /\ reg.pc \in WriterSteps => Target \in DO
    BY Zenon, <1>1, <1>3, AccessFacts
  <2>2. CASE FinalizeReturn
    <3>1. /\ reg'.pc = "finalized" /\ reg'.obj = reg.obj /\ reg'.todo = reg.todo
          /\ a' = a /\ mode' = mode /\ Relaxed' = Relaxed /\ Target' = Target
          /\ reg.pc = "finalizeCall"
      BY Zenon, <1>1, <1>3, <2>2, SameAccess DEF FinalizeReturn
    <3>2. LinkedInv'
      BY Zenon, <1>1, <1>3, <3>1 DEF LinkedInv, WriterSteps
    <3>3. (Waiting' <=> Waiting) /\ Registers /\ ~Linking
      BY <1>3, <3>1 DEF Waiting, Registers, Linking
    <3> QED
      BY Zenon, <1>1, <3>1, <3>2, <3>3, OrderSameDomain
  <2>3. CASE Finalized
    <3>1. PICK step \in {"target", "lockReaders", "readWriter"} :
            /\ Goto(step) /\ reg.pc = "finalized"
            /\ step = "target" <=> Relaxed
            /\ step = "lockReaders" => status[a].readers # {}
      BY Zenon, <2>3 DEF Finalized
    <3>2. /\ reg'.pc = step /\ reg'.obj = reg.obj /\ reg'.todo = reg.todo
          /\ a' = a /\ mode' = mode /\ Relaxed' = Relaxed /\ Target' = Target
      BY <1>1, <3>1, SameAccess
    <3>3. LinkedInv'
      BY Zenon, <1>1, <1>3, <3>1, <3>2 DEF LinkedInv, WriterSteps
    <3>4. (Waiting' <=> Waiting) /\ Registers /\ ~Linking
      BY Zenon, <1>3, <3>1, <3>2 DEF Waiting, Registers, Linking
    <3> QED
      BY Zenon, <1>1, <3>2, <3>3, <3>4, OrderSameDomain
  <2>4. CASE ReadLastWriter
    <3>1. PICK step \in {"releaseInitial", "addReader", "lockReaders", "linkWriter"} :
            /\ reg' = [reg EXCEPT !.writer = status[a].lastWriter, !.pc = step]
            /\ step # "linkWriter" => status[a].lastWriter \in {NoDO, reg.obj}
            /\ step = "releaseInitial" => Relaxed
            /\ step \in {"addReader", "lockReaders"} => ~Relaxed
      BY Zenon, <2>4 DEF ReadLastWriter, AfterWriter
    <3>2. /\ reg'.pc = step /\ reg'.obj = reg.obj /\ reg'.todo = reg.todo
          /\ reg'.writer = status[a].lastWriter /\ reg'.initial = reg.initial
      BY Zenon, <1>1, <3>1 DEF Thread
    <3>3. /\ a' = a /\ mode' = mode /\ Relaxed' = Relaxed /\ Target' = Target
      BY Zenon, <3>2 DEF a, mode, Relaxed, Target
    <3>4. reg.pc = "readWriter" /\ status[a].lastWriter # reg.obj
      BY <1>1, <1>3, <2>4 DEF ReadLastWriter, LinkedInv
    <3>5. LinkedInv'
      BY <1>1, <1>3, <2>1, <3>1, <3>2, <3>3, <3>4 DEF LinkedInv, WriterSteps
    <3>6. (Waiting' <=> Waiting) /\ Registers
      BY <1>3, <3>2, <3>4 DEF Waiting, Registers
    <3>7. (Linking => Linking') \/ status[a].lastWriter = NoDO
      BY Zenon, <3>1, <3>2, <3>3, <3>4 DEF Linking
    <3> QED
      BY Zenon, <1>1, <3>2, <3>5, <3>6, <3>7, OrderSameDomain
  <2>5. CASE LockReaders
    <3>1. /\ reg' = [reg EXCEPT !.pc = "linkReaders", !.locked = a,
                                !.toLink = status[a].readers \ {Target}]
          /\ reg.pc = "lockReaders"
      BY <2>5 DEF LockReaders
    <3>2. /\ reg'.pc = "linkReaders" /\ reg'.obj = reg.obj /\ reg'.todo = reg.todo
          /\ reg'.toLink = status[a].readers \ {Target} /\ reg'.initial = reg.initial
      BY Zenon, <1>1, <3>1 DEF Thread
    <3>3. /\ a' = a /\ mode' = mode /\ Relaxed' = Relaxed /\ Target' = Target
      BY Zenon, <3>2 DEF a, mode, Relaxed, Target
    <3>4. status[a].readers \ reg'.toLink \subseteq Ahead[Target]
      BY Zenon, <1>1, <2>1, <3>2, AheadFacts DEF Good, AheadOK
    <3>5. LinkedInv'
      BY <1>1, <1>3, <3>1, <3>2, <3>3, <3>4 DEF LinkedInv, WriterSteps
    <3>6. (Waiting' <=> Waiting) /\ Registers /\ ~Linking
      BY Zenon, <1>3, <3>1, <3>2 DEF Waiting, Registers, Linking
    <3> QED
      BY Zenon, <1>1, <3>2, <3>5, <3>6, OrderSameDomain
  <2>6. CASE UnlockReaders
    <3>1. /\ reg' = [reg EXCEPT !.pc = "setWriter", !.locked = NoAddr]
          /\ reg.pc = "linkReaders" /\ reg.toLink = {}
      BY <2>6 DEF UnlockReaders
    <3>2. /\ reg'.pc = "setWriter" /\ reg'.obj = reg.obj /\ reg'.todo = reg.todo
          /\ reg'.initial = reg.initial
      BY Zenon, <1>1, <3>1 DEF Thread
    <3>3. /\ a' = a /\ mode' = mode /\ Relaxed' = Relaxed /\ Target' = Target
      BY <3>2 DEF a, mode, Relaxed, Target
    <3>4. Target \in DO /\ status[a].readers \subseteq Ahead[Target]
      BY <1>1, <1>3, <2>1, <3>1 DEF LinkedInv, WriterSteps
    <3>5. status[a].lastWriter # NoDO => status[a].lastWriter \in Ahead[Target]
      <4>1. CASE status[a].readers = {}
        BY <1>1, <1>3, <3>1, <4>1 DEF LinkedInv
      <4>2. CASE status[a].readers # {}
        <5>1. PICK r \in status[a].readers : r \in Known /\ r \in Ahead[Target]
          BY Zenon, <2>1, <3>4, <4>2
        <5>2. status[a].lastWriter # NoDO => status[a].lastWriter \in Ahead[r]
          BY Zenon, <1>1, <2>1 DEF Good, OrderInv, ChainInv
        <5> QED
          BY Zenon, <1>1, <3>4, <5>1, <5>2, AheadFacts DEF Good, AheadOK
      <4> QED
        BY <4>1, <4>2
    <3>6. LinkedInv'
      BY <1>1, <1>3, <3>1, <3>2, <3>3, <3>4, <3>5 DEF LinkedInv, WriterSteps
    <3>7. (Waiting' <=> Waiting) /\ Registers /\ ~Linking
      BY <1>3, <3>1, <3>2 DEF Waiting, Registers, Linking
    <3> QED
      BY Zenon, <1>1, <3>2, <3>6, <3>7, OrderSameDomain
  <2> QED
    BY <2>2, <2>3, <2>4, <2>5, <2>6
<1>4. reg.todo = <<>> => FinalizeReturn
  BY Zenon, <1>1 DEF ThreadInv, AccessSteps, WriterSteps, Finalized, ReadLastWriter, LockReaders,
     UnlockReaders
<1> QED
  BY <1>2, <1>3, <1>4

\* dependOnLastWriter(): the writer, if it is still the last one, comes before the object;
\* else there is none any more.
LEMMA OrderLinkLastWriter ==
  ASSUME Step, LinkLastWriter
  PROVE  OrderInv'
<1>1. /\ Good /\ DomainTypeOK /\ ThreadInv /\ LinkedInv /\ reg.pc = "linkWriter"
      /\ reg.todo # <<>> /\ phase[reg.obj] = "reg" /\ reg.writer \notin {NoDO, reg.obj}
      /\ UNCHANGED <<status, commutative, accesses>> /\ Goto(AfterWriter)
  BY Zenon DEF Step, Good, OrderInv, DomainInv, LinkLastWriter, ThreadInv, AccessSteps, objVars,
     histVars, Registers
<1>2. /\ a \in Addr /\ reg.obj \in DO /\ reg.obj # NoDO
      /\ Relaxed => reg.obj \in Known
      /\ status[a].lastWriter \in Known \cup {NoDO} /\ status[a].commDO \in Comm \cup {NoDO}
      /\ Known \subseteq DO /\ Comm \subseteq DO
  BY Zenon, <1>1, AccessFacts DEF DO
<1>3. \A o \in DO : Ahead[o] \subseteq Ahead'[o]
  BY AheadGrows DEF Step, Good
<1>4. status[a].lastWriter # NoDO => status[a].lastWriter \in Ahead'[reg.obj]
  <2> SUFFICES ASSUME status[a].lastWriter # NoDO PROVE status[a].lastWriter \in Ahead'[reg.obj]
    OBVIOUS
  <2>1. status[a].lastWriter = reg.writer /\ reg.writer \in Known
    BY Zenon, <1>1, <1>2 DEF LinkedInv
  <2>2. AddEdge(reg.writer, reg.obj)
    BY Zenon, <2>1 DEF LinkLastWriter
  <2>3. AddSuccessor(reg.writer, reg.obj)
    BY Zenon, <1>1, <1>2, <2>1, <2>2, CanLink DEF AddSuccessor, Good
  <2> QED
    BY Zenon, <1>2, <2>1, <2>3, LinkedAhead DEF Step, Good
<1>5. PICK step \in {"releaseInitial", "addReader", "lockReaders"} :
        /\ Goto(step)
        /\ step = "releaseInitial" <=> Relaxed
  BY <1>1 DEF AfterWriter
<1>6. /\ reg'.pc = step /\ reg'.obj = reg.obj /\ reg'.todo = reg.todo
      /\ a' = a /\ mode' = mode /\ Relaxed' = Relaxed /\ Target' = Target
  BY <1>1, <1>5, SameAccess
<1>7. LinkedInv'
  <2>1. ~Relaxed => Target = reg.obj
    BY Zenon DEF Target
  <2> QED
    BY Zenon, <1>1, <1>2, <1>3, <1>4, <1>5, <1>6, <2>1 DEF LinkedInv, WriterSteps
<1>8. Relaxed /\ status[a].lastWriter # NoDO =>
        status[a].lastWriter \in Ahead'[status[a].commDO]
  <2> SUFFICES ASSUME Relaxed, status[a].lastWriter # NoDO
               PROVE  status[a].lastWriter \in Ahead'[status[a].commDO]
    BY SMTT(30)
  <2>1. status[a].commDO \in DO /\ reg.obj \in Ahead'[status[a].commDO] /\ reg.obj \in Known
    <3>1. status[a].commDO # NoDO /\ reg.obj \in Ahead[status[a].commDO]
      BY Zenon, <1>1 DEF LinkedInv
    <3>2. status[a].commDO \in DO /\ reg.obj \in Known
      BY Zenon, <1>2, <3>1
    <3> QED
      BY Zenon, <1>3, <3>1, <3>2
  <2> QED
    BY Zenon, <1>2, <1>4, <2>1, AheadFactsNext DEF Step, AheadOK
<1>9. (Waiting' <=> Waiting) /\ Registers
  BY Zenon, <1>1, <1>5, <1>6 DEF Waiting, Registers
<1> QED
  BY Zenon, <1>1, <1>6, <1>7, <1>8, <1>9, OrderSameDomain DEF Linking

\* dependOnReaders(): one more reader comes before the target.
LEMMA OrderLinkReader ==
  ASSUME Step, LinkReader
  PROVE  OrderInv'
<1>1. /\ Good /\ DomainTypeOK /\ ThreadInv /\ LinkedInv /\ reg.pc = "linkReaders"
      /\ reg.todo # <<>> /\ reg.toLink \subseteq Task /\ reg \in Thread
      /\ reg.toLink \subseteq status[a].readers \ {Target}
      /\ UNCHANGED <<status, commutative, accesses>>
  BY DEF Step, Good, OrderInv, DomainInv, DomainTypeOK, Thread, LinkReader, ThreadInv,
     AccessSteps, WriterSteps, objVars, histVars
<1>2. PICK r \in reg.toLink : AddEdge(r, Target) /\ reg' = [reg EXCEPT !.toLink = @ \ {r}]
  BY DEF LinkReader
<1>3. /\ reg'.pc = "linkReaders" /\ reg'.obj = reg.obj /\ reg'.todo = reg.todo
      /\ reg'.toLink = reg.toLink \ {r} /\ reg'.initial = reg.initial
  BY <1>1, <1>2 DEF Thread
<1>4. /\ a' = a /\ mode' = mode /\ Relaxed' = Relaxed /\ Target' = Target
  BY Zenon, <1>3 DEF a, mode, Relaxed, Target
<1>5. /\ \A o \in DO : Ahead[o] \subseteq Ahead'[o]
      /\ a \in Addr /\ Target \in DO /\ phase[Target] = "reg"
  BY Zenon, <1>1, AheadGrows, AccessFacts, TargetType DEF Step, Good, WriterSteps
<1>6. r \in Ahead'[Target]
  <2>1. AddSuccessor(r, Target) /\ r \in Known
    BY <1>1, <1>2, <1>5, CanLink DEF AddSuccessor, Good, Known
  <2> QED
    BY <1>5, <2>1, LinkedAhead DEF Step, Good
<1>7. LinkedInv'
  <2>1. /\ status[a].lastWriter # NoDO /\ status[a].readers = {} =>
             status[a].lastWriter \in Ahead'[Target]
        /\ status[a].readers \ reg'.toLink \subseteq Ahead'[Target]
        /\ status[a].lastWriter # reg.obj /\ status[a].commDO = NoDO
    BY Zenon, <1>1, <1>3, <1>5, <1>6 DEF LinkedInv, WriterSteps
  <2> QED
    BY Zenon, <1>1, <1>3, <1>4, <2>1 DEF LinkedInv, WriterSteps
<1>8. (Waiting' <=> Waiting) /\ Registers /\ ~Linking
  BY Zenon, <1>1, <1>3 DEF Waiting, Registers, Linking
<1> QED
  BY Zenon, <1>1, <1>3, <1>7, <1>8, OrderSameDomain

\* A task joins the open CommutationDO of its address.
LEMMA OrderLinkComm ==
  ASSUME Step, LinkComm, UNCHANGED program
  PROVE  OrderInv'
<1>1. /\ Good /\ DomainTypeOK /\ ThreadInv /\ LinkedInv /\ reg.pc = "linkComm"
      /\ reg.todo # <<>> /\ Relaxed /\ Goto("readWriter")
      /\ UNCHANGED <<status, commutative, accesses>>
  BY Zenon DEF Step, Good, OrderInv, DomainInv, LinkComm, ThreadInv, AccessSteps, RelaxedSteps,
     objVars, histVars
<1>2. /\ reg'.pc = "readWriter" /\ reg'.obj = reg.obj /\ reg'.todo = reg.todo
      /\ a' = a /\ mode' = mode /\ Relaxed' = Relaxed /\ Target' = Target
  BY Zenon, <1>1, SameAccess
<1>3. reg.obj \in Ahead'[status[a].commDO]
  <2>1. AddSuccessor(reg.obj, status[a].commDO)
    BY DomainLinkComm DEF Step, Good
  <2>2. reg.obj \in Known /\ status[a].commDO \in DO
    BY Zenon, <1>1, AccessFacts DEF LinkedInv, DO
  <2> QED
    BY <2>1, <2>2, LinkedAhead DEF Step, Good
<1>4. LinkedInv'
  BY Zenon, <1>1, <1>2, <1>3 DEF LinkedInv, WriterSteps
<1>5. (Waiting' <=> Waiting) /\ Registers /\ (Linking => Linking')
  BY Zenon, <1>1, <1>2 DEF Waiting, Registers, Linking
<1> QED
  BY Zenon, <1>1, <1>2, <1>4, <1>5, OrderSameDomain

\* A relaxed access ends: its task is before the open CommutationDO, behind the last
\* writer, and unordered with the other tasks of its group.
LEMMA OrderRelease ==
  ASSUME Step, ReleaseInitial \/ ReleaseReturn
  PROVE  OrderInv'
<1>1. /\ Good /\ DomainTypeOK /\ ThreadInv /\ LinkedInv /\ Relaxed /\ reg.todo # <<>>
      /\ reg.pc \in {"releaseInitial", "releaseCall"}
      /\ UNCHANGED <<status, commutative, accesses>>
  BY Zenon DEF Step, Good, OrderInv, DomainInv, ReleaseInitial, ReleaseReturn, ThreadInv, AccessSteps,
     RelaxedSteps, objVars, histVars
<1>2. /\ a \in Addr /\ reg.obj \in DO /\ reg.obj \in Task /\ reg.obj \notin Wait
      /\ status[a].lastWriter \in Known \cup {NoDO} /\ status[a].commDO \in DO
      /\ status[a].commDO # NoDO
      /\ commutative[status[a].commDO] = (mode = "comm") /\ reg.obj \in Ahead[status[a].commDO]
      /\ status[a].readers = {}
      /\ status[a].lastWriter # NoDO => status[a].lastWriter \in Ahead[reg.obj]
  BY Zenon, <1>1, AccessFacts, DOAssumption DEF LinkedInv, DO, WriterSteps
<1>3. ~Waiting
  BY Zenon, <1>2 DEF Waiting
<1>4. \A o \in DO : Ahead[o] \subseteq Ahead'[o]
  BY AheadGrows DEF Step, Good
<1>5. CASE Goto("next")
  <2>1. /\ reg'.pc = "access" /\ reg'.obj = reg.obj /\ reg'.todo = Tail(reg.todo)
    BY <1>1, <1>5, GotoType
  <2>2. ~Waiting' /\ Registers
    BY SMTT(30), <1>1, <1>2, <2>1 DEF Waiting, Registers
  <2>3. ASSUME NEW u \in Task, NEW e \in Access, Tracked(u, e.addr, e.mode)
        PROVE  Tracked(u, e.addr, e.mode)'
    <3>1. e.addr \in Addr
      BY DEF Access, AccessOf
    <3> QED
      BY Zenon, <1>1, <1>3, <2>3, <3>1, TrackedGrows
  <2>4. \A x \in Addr : ChainInv(x)'
    BY Zenon, <1>1, <2>1, <2>2, ChainGrows
  <2>5. ASSUME NEW u \in Task, Earlier(u, reg.obj), NEW e \in Listed[u], e.addr = a,
               Order!ModesConflict(e.mode, mode)
        PROVE  u \in Ahead[reg.obj]
    <3>1. Tracked(u, a, e.mode)
      BY Zenon, <1>1, <2>5, EarlierTracked
    <3>2. ~(e.mode \in RelaxedMode /\ commutative[status[a].commDO] = (e.mode = "comm"))
      BY Zenon, <1>1, <1>2, <2>5 DEF Order!ModesConflict, Relaxed, RelaxedMode
    <3>3. \/ u \in Overs
          \/ status[a].lastWriter # NoDO /\ u \in Ahead[status[a].lastWriter]
      BY Zenon, <1>2, <1>3, <3>1, <3>2 DEF Tracked
    <3> QED
      BY ZenonT(60), <1>1, <1>2, <3>3, AheadFacts DEF Good, AheadOK
  <2>6. ASSUME NEW o, o = reg.obj, NEW y, y = a, NEW m, m = mode
        PROVE  OrderInv'
    <3>1. Tracked(o, y, m)'
      BY Zenon, <1>1, <1>2, <1>4, <2>6 DEF Tracked, Relaxed
    <3>2. \A u \in Task : Earlier(u, o) => \A e \in Listed[u] :
            e.addr = y /\ Order!ModesConflict(e.mode, m) => u \in Ahead'[o]
      BY Zenon, <1>2, <1>4, <2>5, <2>6
    <3>3. AccessEnds(o, y, m)
      BY Zenon, <1>1, <2>1, <2>3, <2>4, <2>6, <3>1, <3>2 DEF AccessEnds
    <3> QED
      BY Zenon, <3>3, OrderNextAccess
  <2> QED
    BY <2>6
<1>6. CASE Goto("releaseCall")
  <2>1. /\ reg'.pc = "releaseCall" /\ reg'.obj = reg.obj /\ reg'.todo = reg.todo
        /\ a' = a /\ mode' = mode /\ Relaxed' = Relaxed /\ Target' = Target
    BY Zenon, <1>1, <1>6, SameAccess
  <2>2. LinkedInv'
    BY Zenon, <1>1, <1>2, <1>4, <2>1 DEF LinkedInv, WriterSteps
  <2>3. (Waiting' <=> Waiting) /\ Registers /\ ~Linking
    BY Zenon, <1>1, <1>2, <2>1 DEF Waiting, Registers, Linking
  <2> QED
    BY Zenon, <1>1, <2>1, <2>2, <2>3, OrderSameDomain
<1> QED
  BY Zenon, <1>5, <1>6 DEF ReleaseInitial, ReleaseReturn

\* setUpInitialCommutationDependableObject(): readers come without an open CommutationDO.
LEMMA OrderSetUpInitial ==
  ASSUME Step, SetUpInitial
  PROVE  OrderInv'
<1>1. /\ Good /\ DomainTypeOK /\ ThreadInv /\ LinkedInv /\ Relaxed /\ reg.todo # <<>>
      /\ reg.pc = "initial" /\ UNCHANGED <<status, accesses>> /\ reg \in Thread
  BY Zenon DEF Step, Good, OrderInv, DomainInv, DomainTypeOK, SetUpInitial, ThreadInv, AccessSteps,
     RelaxedSteps, histVars
<1>2. a \in Addr /\ ChainInv(a)
  BY Zenon, <1>1, AccessFacts DEF Good, OrderInv
<1>3. CASE status[a].readers = {}
  <2>1. UNCHANGED commutative /\ Goto("target")
    BY <1>3 DEF SetUpInitial
  <2>2. /\ reg'.pc = "target" /\ reg'.obj = reg.obj /\ reg'.todo = reg.todo
        /\ a' = a /\ mode' = mode /\ Relaxed' = Relaxed /\ Target' = Target
    BY Zenon, <1>1, <2>1, SameAccess
  <2>3. LinkedInv'
    BY Zenon, <1>1, <1>3, <2>1, <2>2 DEF LinkedInv, WriterSteps
  <2>4. (Waiting' <=> Waiting) /\ Registers /\ ~Linking
    BY Zenon, <1>1, <2>2 DEF Waiting, Registers, Linking
  <2> QED
    BY Zenon, <1>1, <2>1, <2>2, <2>3, <2>4, OrderSameDomain
<1>4. CASE status[a].readers # {}
  <2>1. PICK c \in Comm :
          /\ Create(c)
          /\ commutative' = [commutative EXCEPT ![c] = mode = "comm"]
          /\ reg' = [reg EXCEPT !.pc = "lockReaders", !.initial = c]
    BY Zenon, <1>4 DEF SetUpInitial
  <2>2. phase[c] = "none" /\ c # NoDO
    BY <2>1, CreatePhase, DOAssumption DEF Step, Good, DO
  <2>3. \A x \in Addr : status[x].commDO # NoDO =>
          commutative'[status[x].commDO] = commutative[status[x].commDO]
    BY <1>1, <2>1, <2>2 DEF Good, DomainInv, DomainTypeOK, Targets, TargetInv
  <2>4. /\ reg'.pc = "lockReaders" /\ reg'.obj = reg.obj /\ reg'.todo = reg.todo
    BY <1>1, <2>1 DEF Thread
  <2>5. a' = a /\ mode' = mode /\ Relaxed' = Relaxed
    BY <2>4 DEF a, mode, Relaxed
  <2>6. status[a].commDO = NoDO
    BY <1>2, <1>4 DEF ChainInv
  <2>7. LinkedInv'
    BY Zenon, <1>1, <1>4, <2>4, <2>5, <2>6 DEF LinkedInv, WriterSteps
  <2>8. (Waiting' <=> Waiting) /\ Registers /\ ~Linking
    BY <1>1, <2>4 DEF Waiting, Registers, Linking
  <2> QED
    BY Zenon, <1>1, <2>3, <2>4, <2>7, <2>8, OrderSameDomain
<1> QED
  BY <1>3, <1>4

\* setUpTargetCommutationDependableObject(): the new CommutationDO is not linked to the
\* last writer until its first task is.
LEMMA OrderSetUpTarget ==
  ASSUME Step, SetUpTarget
  PROVE  OrderInv'
<1>1. /\ Good /\ DomainTypeOK /\ ThreadInv /\ LinkedInv /\ Relaxed /\ reg.todo # <<>>
      /\ reg.pc = "target" /\ UNCHANGED accesses /\ status \in Targets
  BY DEF Step, Good, OrderInv, DomainInv, DomainTypeOK, SetUpTarget, ThreadInv, AccessSteps,
     RelaxedSteps, histVars
<1>2. /\ a \in Addr /\ status[a].readers = {} /\ status[a].lastWriter # reg.obj
      /\ status[a].lastWriter \in DO \cup {NoDO}
  BY Zenon, <1>1, AccessFacts DEF LinkedInv, WriterSteps
<1>3. CASE status[a].commDO # NoDO
  <2>1. PICK step \in {"linkComm", "finalize"} :
          /\ Goto(step) /\ UNCHANGED <<doVars, status, commutative>>
          /\ step = "linkComm" => commutative[status[a].commDO] = (mode = "comm")
    BY <1>3 DEF SetUpTarget
  <2>2. /\ reg'.pc = step /\ reg'.obj = reg.obj /\ reg'.todo = reg.todo
        /\ a' = a /\ mode' = mode /\ Relaxed' = Relaxed /\ Target' = Target
    BY Zenon, <1>1, <2>1, SameAccess
  <2>3. LinkedInv'
    BY Zenon, <1>1, <1>2, <1>3, <2>1, <2>2 DEF LinkedInv, WriterSteps
  <2>4. (Waiting' <=> Waiting) /\ Registers /\ ~Linking
    BY Zenon, <1>1, <2>1, <2>2 DEF Waiting, Registers, Linking
  <2> QED
    BY Zenon, <1>1, <2>1, <2>2, <2>3, <2>4, OrderSameDomain
<1>4. CASE status[a].commDO = NoDO
  <2>1. PICK d \in Comm :
          /\ Create(d)
          /\ status' = [status EXCEPT ![a].commDO = d]
          /\ commutative' = [commutative EXCEPT ![d] = mode = "comm"]
    BY <1>4 DEF SetUpTarget
  <2>2. /\ phase[d] = "none" /\ d # NoDO /\ Goto("linkComm")
    BY <1>4, <2>1, CreatePhase, DOAssumption DEF Step, Good, DO, SetUpTarget
  <2>3. /\ reg'.pc = "linkComm" /\ reg'.obj = reg.obj /\ reg'.todo = reg.todo
        /\ a' = a /\ mode' = mode /\ Relaxed' = Relaxed
    BY Zenon, <1>1, <2>2, SameAccess
  <2>4. /\ \A x \in Addr \ {a} : status'[x] = status[x]
        /\ status'[a].lastWriter = status[a].lastWriter
        /\ status'[a].readers = {} /\ status'[a].commDO = d
    BY <1>1, <1>2, <2>1 DEF Targets
  <2>5. /\ \A x \in Addr \ {a} : status[x].commDO # NoDO =>
             commutative'[status[x].commDO] = commutative[status[x].commDO]
        /\ commutative'[d] = (mode = "comm")
    BY Zenon, <1>1, <2>1, <2>2 DEF Good, DomainInv, DomainTypeOK, Targets, TargetInv
  <2>6. (Waiting' <=> Waiting) /\ Registers /\ ~Linking
    BY <1>1, <2>3 DEF Waiting, Registers, Linking
  <2>7. /\ Overs \subseteq Overs' /\ \A o \in DO : Ahead[o] \subseteq Ahead'[o]
    BY Zenon, AheadGrows DEF Step, Good
  <2>8. ListInv' /\ Listed' = Listed /\ Registered' = Registered
    BY Zenon, <1>1, <2>3, ListSame
  <2>9. TrackedInv'
    <3> SUFFICES ASSUME NEW u \in Task, NEW e \in Registered[u] PROVE Tracked(u, e.addr, e.mode)'
      BY Zenon, <2>8 DEF TrackedInv
    <3>1. e.addr \in Addr /\ Tracked(u, e.addr, e.mode)
      BY ZenonT(60), <1>1, ListedType DEF Owner, Access, AccessOf, Good, OrderInv, TrackedInv
    <3>2. CASE e.addr # a
      BY Zenon, <2>3, <2>4, <2>5, <2>6, <3>1, <3>2, TrackedGrows
    <3>3. CASE e.addr = a
      <4>1. \/ u \in Overs
            \/ status[a].lastWriter # NoDO /\ u \in Ahead[status[a].lastWriter]
            \/ Waiting /\ u \in Ahead[reg.obj]
        BY Zenon, <1>2, <1>4, <3>1, <3>3 DEF Tracked
      <4>2. Waiting => reg.obj \in DO
        BY DEF Waiting, DO
      <4> QED
        BY ZenonT(30), <1>2, <2>3, <2>4, <2>6, <2>7, <3>3, <4>1, <4>2 DEF Tracked
    <3> QED
      BY <3>2, <3>3
  <2>10. ASSUME NEW x \in Addr PROVE ChainInv(x)'
    <3>1. CASE x # a
      BY Zenon, <2>3, <2>4, <2>6, <2>10, <3>1, ChainGrows
    <3>2. CASE x = a
      BY Zenon, <1>1, <1>2, <2>3, <2>4, <3>2 DEF ChainInv
    <3> QED
      BY SMTT(30), <3>1, <3>2
  <2>11. LinkedInv'
    BY Zenon, <1>1, <1>2, <2>2, <2>3, <2>4, <2>5 DEF LinkedInv, WriterSteps
  <2>12. ConflictInv'
    BY <2>3, <2>6, <2>8, ConflictKept
  <2> QED
    BY <2>8, <2>9, <2>10, <2>11, <2>12 DEF OrderInv
<1> QED
  BY Zenon, <1>3, <1>4

=============================================================================
