------------------------- MODULE PlainPromiseProofs -------------------------
(***************************************************************************)
(* Why the plain dependency domain keeps its promise, for any tasks,       *)
(* addresses, access lists and programs, one step at a time: OrderInv is   *)
(* inductive, so tasks start in the order their accesses demand (the       *)
(* refinement of TaskOrder), and wait_on and taskwait return only when     *)
(* they may. The second also needs ClearInv, which says who works for an   *)
(* object that is not over. The theorems are in module DependencyProofs.   *)
(***************************************************************************)
EXTENDS PlainOrderProofs

-----------------------------------------------------------------------------
\* The steps that end an access, a registration or a group keep OrderInv

\* setAsWriter(): every task tracked at the address comes before the new last writer, or
\* before the wait that forgets the readers.
LEMMA OrderSetAsWriter ==
  ASSUME Step, SetAsWriter
  PROVE  OrderInv'
<1>1. /\ Good /\ DomainTypeOK /\ ThreadInv /\ LinkedInv /\ reg.todo # <<>> /\ Registers
      /\ reg.pc = "setWriter" /\ UNCHANGED <<doVars, commutative, accesses>>
      /\ status \in Targets /\ Overs' = Overs /\ Ahead' = Ahead
  BY AheadSame DEF Step, Good, OrderInv, DomainInv, DomainTypeOK, SetAsWriter, ThreadInv,
     AccessSteps, WriterSteps, histVars, Registers
<1>2. /\ a \in Addr /\ reg.obj \in Owner /\ reg.obj # NoDO /\ Target \in DO
      /\ Relaxed => reg.obj \in Task
      /\ status[a].lastWriter \in Known \cup {NoDO} /\ status[a].commDO = NoDO
      /\ status[a].lastWriter # NoDO => status[a].lastWriter \in Ahead[Target]
      /\ status[a].readers \subseteq Ahead[Target]
  BY Zenon, <1>1, AccessFacts DEF LinkedInv, WriterSteps
<1>3. Relaxed => Target = reg.initial /\ reg.initial \in Comm /\ Target \in Comm
  BY Zenon, <1>1 DEF ThreadInv, DomainTypeOK, Thread, Target, WriterSteps
<1>4. Target \notin Wait => Target \in Known /\ Target \in Ahead[Target] /\ Target # NoDO
  BY Zenon, <1>1, <1>2, AheadFacts, DOAssumption DEF Good, AheadOK, Known, DO
<1>5. ASSUME NEW u \in Task, NEW m, Tracked(u, a, m) PROVE u \in Ahead[Target]
  <2>1. Waiting => Target = reg.obj
    BY Zenon, <1>2, DOAssumption DEF Waiting, Target
  <2>2. \/ u \in Overs
        \/ status[a].lastWriter # NoDO /\ u \in Ahead[status[a].lastWriter]
        \/ u \in status[a].readers
        \/ u \in Ahead[Target]
    BY Zenon, <1>2, <1>5, <2>1 DEF Tracked
  <2> QED
    BY Zenon, <1>1, <1>2, <2>2, AheadFacts DEF Good, AheadOK
<1>6. /\ \A x \in Addr \ {a} : status'[x] = status[x]
      /\ status'[a].readers = {} /\ status'[a].commDO = NoDO
      /\ status'[a].lastWriter = IF Target \in Wait THEN status[a].lastWriter ELSE Target
  <2>1. CASE Target \in Wait
    <3>1. status' = [status EXCEPT ![a].readers = {}]
      BY Zenon, <2>1 DEF SetAsWriter
    <3> QED
      BY Zenon, <1>1, <1>2, <2>1, <3>1 DEF Targets
  <2>2. CASE Target \notin Wait
    <3>1. status' = [status EXCEPT ![a].readers = {}, ![a].lastWriter = Target]
      BY Zenon, <2>2 DEF SetAsWriter
    <3> QED
      BY <1>1, <1>2, <2>2, <3>1 DEF Targets
  <2> QED
    BY Zenon, <2>1, <2>2
<1>7. reg'.obj = reg.obj /\ (Waiting' <=> Waiting)
  <2>1. PICK step \in {"target", "next"} : Goto(step)
    BY DEF SetAsWriter
  <2>2. reg'.obj = reg.obj /\ (reg'.todo = reg.todo \/ reg'.pc = "access")
    BY <1>1, <2>1, SameAccess, GotoType
  <2> QED
    BY <1>1, <2>2 DEF Waiting, Registers
<1>8. ASSUME NEW u \in Task, NEW x \in Addr, NEW m, Tracked(u, x, m)
      PROVE  Tracked(u, x, m)'
  <2>1. CASE x # a
    BY <1>1, <1>6, <1>7, <1>8, <2>1, TrackedGrows
  <2>2. CASE x = a
    <3>1. u \in Ahead[Target]
      BY SMTT(30), <1>5, <1>8, <2>2
    <3>2. CASE Target \in Wait
      <4>1. reg.obj = Target /\ Waiting
        BY Zenon, <1>1, <1>3, <3>2, DOAssumption DEF Target, Waiting
      <4> QED
        BY <1>1, <1>7, <3>1, <4>1 DEF Tracked
    <3>3. CASE Target \notin Wait
      BY <1>1, <1>4, <1>6, <2>2, <3>1, <3>3 DEF Tracked
    <3> QED
      BY <3>2, <3>3
  <2> QED
    BY SMTT(30), <2>1, <2>2
<1>9. ASSUME NEW x \in Addr PROVE ChainInv(x)'
  <2>1. CASE x # a
    BY <1>1, <1>6, <1>7, <1>9, <2>1, ChainGrows
  <2>2. CASE x = a
    BY <1>6, <2>2 DEF ChainInv
  <2> QED
    BY Zenon, <2>1, <2>2
<1>10. CASE Relaxed
  <2>1. /\ reg'.pc = "target" /\ reg'.obj = reg.obj /\ reg'.todo = reg.todo
        /\ a' = a /\ mode' = mode /\ Relaxed' = Relaxed
    BY Zenon, <1>1, <1>10, SameAccess DEF SetAsWriter
  <2>2. ListInv' /\ Listed' = Listed /\ Registered' = Registered
    BY <1>1, <2>1, ListSame
  <2>3. TrackedInv'
    <3> SUFFICES ASSUME NEW u \in Task, NEW e \in Registered[u] PROVE Tracked(u, e.addr, e.mode)'
      BY Zenon, <2>2 DEF TrackedInv
    <3>1. e.addr \in Addr /\ Tracked(u, e.addr, e.mode)
      BY <1>1, ListedType DEF Owner, Access, AccessOf, Good, OrderInv, TrackedInv
    <3> QED
      BY Zenon, <1>8, <3>1
  <2>4. LinkedInv'
    <3>1. Target # reg.obj /\ Target \notin Wait
      BY Zenon, <1>2, <1>3, <1>10, DOAssumption
    <3> QED
      BY Zenon, <1>2, <1>6, <1>10, <2>1, <3>1 DEF LinkedInv, WriterSteps
  <2>5. ConflictInv'
    BY <1>7, <2>2, ConflictKept
  <2> QED
    BY <1>9, <2>2, <2>3, <2>4, <2>5 DEF OrderInv
<1>11. CASE ~Relaxed
  <2>1. Target = reg.obj /\ Goto("next")
    BY <1>11 DEF Target, SetAsWriter
  <2>2. /\ reg'.pc = "access" /\ reg'.obj = reg.obj /\ reg'.todo = Tail(reg.todo)
    BY <1>1, <2>1, GotoType
  <2>3. ASSUME NEW o, o = reg.obj, NEW y, y = a, NEW m, m = mode
        PROVE  OrderInv'
    <3>1. o \in Task => Tracked(o, y, m)'
      <4>1. o \in Task => Target \notin Wait
        BY <2>1, <2>3, DOAssumption
      <4> QED
        BY Zenon, <1>1, <1>4, <1>6, <2>1, <2>3, <4>1 DEF Tracked
    <3>2. \A u \in Task : Earlier(u, o) => \A e \in Listed[u] :
            e.addr = y /\ Order!ModesConflict(e.mode, m) => u \in Ahead'[o]
      BY Zenon, <1>1, <1>5, <2>1, <2>3, EarlierTracked
    <3>3. \A u \in Task, e \in Access : Tracked(u, e.addr, e.mode) => Tracked(u, e.addr, e.mode)'
      BY Zenon, <1>8 DEF Access, AccessOf
    <3>4. AccessEnds(o, y, m)
      BY Zenon, <1>1, <1>9, <2>2, <2>3, <3>1, <3>2, <3>3 DEF AccessEnds
    <3> QED
      BY Zenon, <3>4, OrderNextAccess
  <2> QED
    BY <2>3
<1> QED
  BY Zenon, <1>10, <1>11

\* addAsReader(): a reader comes after the last writer; a wait is not recorded.
LEMMA OrderAddAsReader ==
  ASSUME Step, AddAsReader
  PROVE  OrderInv'
<1>1. /\ Good /\ DomainTypeOK /\ ThreadInv /\ LinkedInv /\ reg.todo # <<>> /\ Registers
      /\ reg.pc = "addReader" /\ mode = "in" /\ ~Relaxed
      /\ UNCHANGED <<doVars, commutative, accesses>> /\ Goto("next")
      /\ status \in Targets /\ Overs' = Overs /\ Ahead' = Ahead
  BY AheadSame DEF Step, Good, OrderInv, DomainInv, DomainTypeOK, AddAsReader, ThreadInv,
     AccessSteps, histVars, Registers, Relaxed, RelaxedMode
<1>2. /\ a \in Addr /\ reg.obj \in Owner /\ reg.obj \in DO
      /\ status[a].lastWriter \in Known \cup {NoDO} /\ status[a].commDO = NoDO
      /\ status[a].lastWriter # NoDO => status[a].lastWriter \in Ahead[reg.obj]
      /\ status[a].lastWriter # reg.obj
  BY Zenon, <1>1, AccessFacts DEF LinkedInv
<1>3. /\ \A x \in Addr \ {a} : status'[x] = status[x]
      /\ status'[a].lastWriter = status[a].lastWriter /\ status'[a].commDO = NoDO
      /\ status'[a].readers = IF reg.obj \in Wait THEN status[a].readers
                                                 ELSE status[a].readers \cup {reg.obj}
  BY Zenon, <1>1, <1>2 DEF AddAsReader, Targets
<1>4. /\ reg'.pc = "access" /\ reg'.obj = reg.obj /\ reg'.todo = Tail(reg.todo)
  BY <1>1, GotoType
<1>5. (Waiting' <=> Waiting) /\ Registers'
  BY Zenon, <1>1, <1>4 DEF Waiting, Registers
<1>6. ASSUME NEW u \in Task, NEW x \in Addr, NEW m, Tracked(u, x, m)
      PROVE  Tracked(u, x, m)'
  <2>1. CASE x # a
    BY Zenon, <1>1, <1>3, <1>4, <1>5, <1>6, <2>1, TrackedGrows
  <2>2. CASE x = a
    BY Zenon, <1>1, <1>2, <1>3, <1>4, <1>5, <1>6, <2>2 DEF Tracked
  <2> QED
    BY <2>1, <2>2
<1>7. ASSUME NEW x \in Addr PROVE ChainInv(x)'
  <2>1. CASE x # a
    BY Zenon, <1>1, <1>3, <1>4, <1>7, <2>1, ChainGrows
  <2>2. CASE x = a
    <3>1. ChainInv(a)
      BY Zenon, <1>1, <1>2 DEF Good, OrderInv
    <3> QED
      BY Zenon, <1>1, <1>2, <1>3, <1>4, <2>2, <3>1 DEF ChainInv
  <2> QED
    BY <2>1, <2>2
<1>8. ASSUME NEW u \in Task, Earlier(u, reg.obj), NEW e \in Listed[u], e.addr = a,
             Order!ModesConflict(e.mode, mode)
      PROVE  u \in Ahead[reg.obj]
  <2>1. Tracked(u, a, e.mode) /\ e.mode # "in"
    BY Zenon, <1>1, <1>8, EarlierTracked DEF Order!ModesConflict
  <2>2. \/ u \in Overs
        \/ status[a].lastWriter # NoDO /\ u \in Ahead[status[a].lastWriter]
        \/ u \in Ahead[reg.obj]
    BY Zenon, <1>2, <2>1 DEF Tracked
  <2> QED
    BY Zenon, <1>1, <1>2, <2>2, AheadFacts DEF Good, AheadOK
<1>9. ASSUME NEW o, o = reg.obj, NEW y, y = a, NEW m, m = mode
      PROVE  OrderInv'
  <2>1. o \in Task => Tracked(o, y, m)'
    BY Zenon, <1>1, <1>3, <1>9, DOAssumption DEF Tracked
  <2>2. \A u \in Task : Earlier(u, o) => \A e \in Listed[u] :
          e.addr = y /\ Order!ModesConflict(e.mode, m) => u \in Ahead'[o]
    BY <1>1, <1>8, <1>9
  <2>3. \A u \in Task, e \in Access : Tracked(u, e.addr, e.mode) => Tracked(u, e.addr, e.mode)'
    BY <1>6 DEF Access, AccessOf
  <2>4. AccessEnds(o, y, m)
    BY Zenon, <1>1, <1>4, <1>7, <1>9, <2>1, <2>2, <2>3 DEF AccessEnds
  <2> QED
    BY Zenon, <2>4, OrderNextAccess
<1> QED
  BY <1>9

\* clearDependenciesDomain(): every task that registered something is over.
LEMMA OrderClear ==
  ASSUME Step, ClearDomain
  PROVE  OrderInv'
<1>1. /\ Good /\ DomainTypeOK /\ ThreadInv /\ reg.pc = "taskwait" /\ reg.todo = <<>>
      /\ UNCHANGED <<doVars, commutative, accesses>> /\ Goto("idle")
      /\ Overs' = Overs
  BY Zenon, AheadSame DEF Step, Good, DomainInv, ClearDomain, ThreadInv, histVars, objVars
<1>2. /\ reg'.pc = "idle" /\ reg'.obj = reg.obj /\ reg'.todo = <<>>
  BY Zenon, <1>1, SameAccess
<1>3. ListInv' /\ Listed' = Listed /\ Registered' = Registered
  BY <1>1, <1>2, ListSame
<1>4. ~Registers' /\ ~Waiting'
  BY Zenon, <1>2 DEF Registers, Waiting
<1>5. TrackedInv'
  <2> SUFFICES ASSUME NEW u \in Task, NEW e \in Registered[u] PROVE Tracked(u, e.addr, e.mode)'
    BY <1>3 DEF TrackedInv
  <2>1. accesses[u] # <<>>
    <3>1. e \in Listed[u] /\ u \in Owner
      BY <1>1, ListedType DEF Owner
    <3>2. Listed[u] = {accesses[u][i] : i \in 1..Len(accesses[u])}
      BY Zenon, <3>1 DEF Listed
    <3> QED
      BY <3>1, <3>2
  <2>2. phase[u] = "done"
    BY <1>1, <2>1 DEF Good, OrderInv, ListInv, ClearDomain
  <2>3. u \in Overs
    BY Zenon, <2>2 DEF Overs, Known, Unfinished
  <2> QED
    BY Zenon, <1>1, <2>3 DEF Tracked
<1>6. \A x \in Addr : ChainInv(x)'
  BY Zenon, <1>4 DEF ChainInv, ClearDomain
<1>7. LinkedInv'
  BY <1>2 DEF LinkedInv
<1>8. ConflictInv'
  BY <1>3, <1>4, ConflictKept
<1> QED
  BY <1>3, <1>5, <1>6, <1>7, <1>8 DEF OrderInv

\* finalizeReduction() of an open CommutationDO: whatever was tracked at the address
\* through it, or through the last writer before it, now is through the new last writer.
LEMMA OrderCloseComm ==
  ASSUME Step, NEW x \in Addr, NEW next \in {"finalized", "taskwait"},
         IF next = "finalized" THEN reg.pc = "finalize" /\ x = a ELSE reg.pc = "taskwait",
         status[x].commDO # NoDO,
         CloseComm(x, next), UNCHANGED <<objVars, accesses>>
  PROVE  OrderInv'
<1>1. PICK c \in Comm :
        /\ c = status[x].commDO /\ c \in DO /\ c # NoDO /\ c \notin Owner
        /\ status' = [status EXCEPT ![x].commDO = NoDO, ![x].lastWriter = c]
        /\ reg' = [reg EXCEPT !.writer = c,
                              !.pc = IF numPred[c] = 1 THEN "finalizeCall" ELSE next]
  BY Zenon, DOAssumption DEF CloseComm, Step, Good, DomainInv, DomainTypeOK, Targets, DO, Owner
<1>2. /\ Good /\ DomainTypeOK /\ ThreadInv /\ ChainInv(x) /\ UNCHANGED commutative
      /\ status \in Targets /\ reg \in Thread
  BY DEF Step, Good, OrderInv, DomainInv, DomainTypeOK, objVars
<1>3. /\ reg'.pc \in {"finalizeCall", "finalized", "taskwait"}
      /\ reg'.obj = reg.obj /\ reg'.todo = reg.todo
      /\ reg.pc = "finalize" => reg'.pc # "taskwait"
  BY <1>1, <1>2 DEF Thread
<1>4. /\ \A y \in Addr \ {x} : status'[y] = status[y]
      /\ status'[x].commDO = NoDO /\ status'[x].lastWriter = c
      /\ status'[x].readers = status[x].readers
  BY <1>1, <1>2 DEF Targets
<1>5. /\ status[x].readers = {}
      /\ status[x].lastWriter # NoDO => status[x].lastWriter \in Ahead[c]
      /\ status[x].lastWriter \in Known \cup {NoDO}
  BY SMTT(30), <1>1, <1>2 DEF ChainInv, Targets
<1>6. /\ a' = a /\ mode' = mode /\ Relaxed' = Relaxed
  BY <1>3 DEF a, mode, Relaxed
<1>7. /\ reg.todo # <<>> <=> reg.pc = "finalize"
      /\ (Waiting' <=> Waiting) /\ (Registers' <=> Registers)
  <2>1. reg.todo # <<>> <=> reg.pc = "finalize"
    BY Zenon, <1>2 DEF ThreadInv, AccessSteps
  <2> QED
    BY <1>3, <2>1 DEF Waiting, Registers
<1>8. /\ Overs \subseteq Overs' /\ \A o \in DO : Ahead[o] \subseteq Ahead'[o]
  BY Zenon, AheadGrows DEF Step, Good
<1>9. ListInv' /\ Listed' = Listed /\ Registered' = Registered
  BY Zenon, <1>3, ListSame
<1>10. TrackedInv'
  <2> SUFFICES ASSUME NEW u \in Task, NEW e \in Registered[u] PROVE Tracked(u, e.addr, e.mode)'
    BY Zenon, <1>9 DEF TrackedInv
  <2>1. e.addr \in Addr /\ Tracked(u, e.addr, e.mode)
    BY <1>2, ListedType DEF Owner, Access, AccessOf, Good, OrderInv, TrackedInv
  <2>2. CASE e.addr # x
    BY Zenon, <1>2, <1>3, <1>4, <1>7, <2>1, <2>2, TrackedGrows
  <2>3. CASE e.addr = x
    <3>1. \/ u \in Overs
          \/ status[x].lastWriter # NoDO /\ u \in Ahead[status[x].lastWriter]
          \/ u \in Ahead[c]
          \/ Waiting /\ u \in Ahead[reg.obj]
      BY Zenon, <1>1, <1>5, <2>1, <2>3 DEF Tracked
    <3>2. Waiting => reg.obj \in DO
      BY DEF Waiting, DO
    <3>3. u \in Overs' \/ u \in Ahead'[c] \/ (Waiting' /\ u \in Ahead'[reg'.obj])
      BY <1>1, <1>2, <1>3, <1>5, <1>7, <1>8, <3>1, <3>2, AheadFacts DEF Good, AheadOK
    <3> QED
      BY <1>1, <1>4, <2>3, <3>3 DEF Tracked
  <2> QED
    BY Zenon, <2>2, <2>3
<1>11. ASSUME NEW y \in Addr PROVE ChainInv(y)'
  <2>1. CASE y # x
    BY Zenon, <1>2, <1>3, <1>4, <1>7, <1>11, <2>1, ChainGrows
  <2>2. CASE y = x
    BY Zenon, <1>4, <1>5, <2>2 DEF ChainInv
  <2> QED
    BY <2>1, <2>2
<1>12. LinkedInv'
  <2> SUFFICES ASSUME reg.todo # <<>> PROVE LinkedInv'
    BY Zenon, <1>3 DEF LinkedInv
  <2>1. x = a /\ reg'.pc \in {"finalizeCall", "finalized"} /\ reg.obj \in Owner
    BY Zenon, <1>2, <1>3, <1>7, AccessFacts
  <2>2. /\ status'[a].lastWriter # reg.obj /\ status'[a].commDO = NoDO
        /\ status'[a].readers = {}
    BY ZenonT(60), <1>1, <1>4, <1>5, <2>1
  <2> QED
    BY Zenon, <1>3, <1>6, <2>1, <2>2 DEF LinkedInv, WriterSteps
<1>13. ConflictInv'
  BY Zenon, <1>3, <1>7, <1>9, ConflictKept
<1> QED
  BY <1>9, <1>10, <1>11, <1>12, <1>13 DEF OrderInv

\* finalizeReduction() before an access, and of all addresses in a taskwait.
LEMMA OrderFinalize ==
  ASSUME Step, FinalizeReduction \/ FinalizeAll
  PROVE  OrderInv'
<1>1. /\ Good /\ DomainTypeOK /\ ThreadInv /\ LinkedInv /\ UNCHANGED <<objVars, accesses>>
  BY Zenon DEF Step, Good, OrderInv, DomainInv, FinalizeReduction, FinalizeAll, histVars
<1>2. CASE FinalizeAll
  BY <1>1, <1>2, OrderCloseComm DEF FinalizeAll
<1>3. CASE FinalizeReduction /\ status[a].commDO # NoDO
  <2>1. reg.pc = "finalize" /\ CloseComm(a, "finalized")
    BY Zenon, <1>3 DEF FinalizeReduction
  <2>2. a \in Addr
    BY Zenon, <1>1, <2>1, AccessType DEF ThreadInv, AccessSteps
  <2> QED
    BY <1>1, <1>3, <2>1, <2>2, OrderCloseComm
<1>4. CASE FinalizeReduction /\ status[a].commDO = NoDO
  <2>1. reg.pc = "finalize" /\ Goto("finalized") /\ UNCHANGED <<doVars, status>>
    BY Zenon, <1>4 DEF FinalizeReduction, CloseComm
  <2>2. /\ reg'.pc = "finalized" /\ reg'.obj = reg.obj /\ reg'.todo = reg.todo
        /\ a' = a /\ mode' = mode /\ Relaxed' = Relaxed /\ Target' = Target
    BY <1>1, <2>1, SameAccess
  <2>3. reg.todo # <<>>
    BY Zenon, <1>1, <2>1 DEF ThreadInv, AccessSteps
  <2>4. LinkedInv'
    BY Zenon, <1>1, <1>4, <2>1, <2>2, <2>3 DEF LinkedInv, WriterSteps
  <2>5. (Waiting' <=> Waiting) /\ Registers /\ ~Linking
    BY <2>1, <2>2, <2>3 DEF Waiting, Registers, Linking
  <2> QED
    BY <1>1, <2>1, <2>2, <2>4, <2>5, OrderSameDomain DEF objVars
<1> QED
  BY <1>2, <1>3, <1>4

\* A registration begins: the object is new, so no TrackableObject refers to it, and no
\* later task has accesses.
LEMMA OrderRegister ==
  ASSUME Step, NEW o \in Owner, NEW xs \in Seq(Access), Register(o, xs),
         o \in Task => \A t \in Task : o < t => phase[t] = "none"
  PROVE  OrderInv'
<1>1. /\ Good /\ DomainTypeOK /\ ThreadInv /\ reg.pc = "idle" /\ reg.todo = <<>>
      /\ Create(o) /\ UNCHANGED <<status, commutative>> /\ o \in DO
      /\ accesses' = [accesses EXCEPT ![o] = xs] /\ ListInv
  BY Zenon DEF Step, Good, OrderInv, DomainInv, Register, ThreadInv, objVars, Owner, DO
<1>2. /\ reg'.pc = "access" /\ reg'.obj = o /\ reg'.todo = xs
  BY Zenon, <1>1 DEF Register, DomainTypeOK, Thread
<1>3. /\ accesses \in [Owner -> Seq(Access)] /\ accesses'[o] = xs
      /\ \A p \in Owner \ {o} : accesses'[p] = accesses[p]
  BY Zenon, <1>1 DEF DomainTypeOK, Owner
<1>4. /\ phase'[o] = "reg" /\ (o \notin Wait => phase[o] = "none")
  BY Zenon, <1>1, CreatePhase DEF Good
<1>5. ~Waiting /\ ~Registers
  BY Zenon, <1>1 DEF Waiting, Registers
<1>6. \A t \in Task : phase'[t] = "none" => accesses'[t] = <<>>
  BY <1>1, <1>3, <1>4, StaysCreated DEF Step, Good, DO, Owner, ListInv
<1>7. /\ ListInv' /\ Registered'[o] = {}
      /\ \A p \in Owner \ {o} : Listed'[p] = Listed[p] /\ Registered'[p] = Registered[p]
  BY Zenon, <1>1, <1>2, <1>6, ListRegister
<1>8. \A q \in DO : Ahead[q] \subseteq Ahead'[q]
  BY Zenon, AheadGrows DEF Step, Good
<1>9. TrackedInv'
  <2> SUFFICES ASSUME NEW u \in Task, NEW e \in Registered'[u] PROVE Tracked(u, e.addr, e.mode)'
    BY Zenon DEF TrackedInv
  <2>1. u \in Owner /\ e \in Registered[u]
    BY <1>7 DEF Owner
  <2>2. e.addr \in Addr /\ Tracked(u, e.addr, e.mode)
    BY <1>1, <2>1, ListedType DEF Access, AccessOf, Good, OrderInv, TrackedInv
  <2> QED
    BY Zenon, <1>1, <1>5, <2>2, TrackedGrows
<1>10. ASSUME NEW x \in Addr PROVE ChainInv(x)'
  <2>1. /\ ChainInv(x) /\ status[x].readers \subseteq DO /\ status[x].commDO \in DO \cup {NoDO}
    BY Zenon, <1>1, <1>10 DEF Good, OrderInv, DomainTypeOK, Targets, DO
  <2>2. status[x].lastWriter # o
    <3>1. status[x].lastWriter \in Known \cup {NoDO} /\ TargetInv(x) /\ o # NoDO
      BY <1>1, <1>10, DOAssumption DEF Good, DomainInv, DomainTypeOK, Targets
    <3> QED
      BY ZenonT(30), <1>4, <3>1, DOAssumption DEF TargetInv, Known
  <2> QED
    BY ZenonT(30), <1>1, <1>2, <1>8, <2>1, <2>2 DEF ChainInv
<1>11. LinkedInv'
  BY Zenon, <1>2 DEF LinkedInv
<1>12. ConflictInv'
  <2> SUFFICES ASSUME NEW u \in Task, NEW p \in Owner, Earlier(u, p)',
                      NEW e \in Listed'[u], NEW f \in Registered'[p],
                      e.addr = f.addr, Order!ModesConflict(e.mode, f.mode)
               PROVE  u \in Ahead'[p]
    BY Zenon DEF ConflictInv
  <2>1. p # o /\ p \in Task /\ u < p /\ p \in DO /\ f \in Registered[p]
    BY Zenon, <1>2, <1>7 DEF Earlier, Owner, DO
  <2>2. u # o
    <3>1. accesses[p] # <<>>
      BY Zenon, <1>1, <2>1, ListedType, ListedSome
    <3> QED
      BY Zenon, <1>1, <2>1, <3>1 DEF ListInv
  <2>3. e \in Listed[u] /\ Earlier(u, p)
    BY Zenon, <1>7, <2>1, <2>2 DEF Owner, Earlier
  <2> QED
    BY Zenon, <1>1, <1>8, <2>1, <2>3 DEF Good, OrderInv, ConflictInv
<1> QED
  BY <1>7, <1>9, <1>10, <1>11, <1>12 DEF OrderInv

\* submit() of a task and wait_on() begin a registration; tasks are submitted in order.
LEMMA OrderSubmit ==
  ASSUME Step, SubmitTask \/ WaitOn
  PROVE  OrderInv'
<1>1. DomainTypeOK
  BY Zenon DEF Step, Good, DomainInv
<1>2. CASE SubmitTask
  <2>1. PICK t \in 1..program.tasks, xs \in program.lists :
          Register(t, xs) /\ \A u \in Task : u < t <=> phase[u] # "none"
    BY <1>2 DEF SubmitTask
  <2>2. program.tasks \in Task /\ Task = 1..Cardinality(Task) /\ program.lists \subseteq Seq(Access)
    BY ZenonT(30), <1>1, PlainDepsAssumption DEF DomainTypeOK
  <2>3. t \in Task /\ \A u \in Task : t < u => ~(u < t)
    BY Zenon, <2>2, PlainDepsAssumption, Submitted
  <2> QED
    BY Zenon, <2>1, <2>2, <2>3, OrderRegister DEF Owner
<1>3. CASE WaitOn
  <2>1. PICK w \in Wait, xs \in WaitAccesses : Register(w, xs)
    BY <1>3 DEF WaitOn
  <2>2. xs \in Seq(Access) /\ w \notin Task
    <3>1. /\ xs \in Seq(AccessOf({"in", "out", "inout"}))
          /\ AccessOf({"in", "out", "inout"}) \subseteq Access
      BY Zenon, PlainDepsAssumption DEF Access, AccessOf
    <3> QED
      BY <3>1, DOAssumption
  <2> QED
    BY <2>1, <2>2, OrderRegister DEF Owner
<1> QED
  BY <1>2, <1>3

-----------------------------------------------------------------------------
\* The order holds

\* Every step keeps the order.
LEMMA OrderInductive ==
  ASSUME Step, [PlainNext]_vars
  PROVE  OrderInv'
<1>1. CASE UNCHANGED vars
  BY Zenon, <1>1, OrderQuiet DEF vars, objVars, histVars
<1>2. CASE PlainNext
  <2>1. UNCHANGED program
    BY Zenon, <1>2 DEF PlainNext, Registering, Executing
  <2>2. \/ SubmitTask \/ WaitOn \/ TaskWait \/ DataAccess \/ EndSubmit \/ WaitReturn
        \/ FinalizeReduction \/ FinalizeAll \/ LinkLastWriter \/ LinkReader
        \/ FinalizeReturn \/ Finalized \/ ReadLastWriter \/ LockReaders \/ UnlockReaders
        \/ SetAsWriter \/ AddAsReader \/ SetUpInitial \/ SetUpTarget \/ LinkComm
        \/ ReleaseInitial \/ ReleaseReturn \/ ClearDomain
        \/ \E p \in DO : \/ WorkStep(p) \/ DeleteLastWriter(p) \/ DeleteReader(p) \/ EndPurge(p)
    BY <1>2 DEF PlainNext, Registering, Registration, Executing, Execution, WorkStep
  <2>3. CASE SubmitTask \/ WaitOn
    BY <2>3, OrderSubmit
  <2>4. CASE DataAccess \/ WaitReturn \/ EndSubmit \/ TaskWait
    BY <2>4, OrderDataAccess, OrderWaitReturn, OrderIdle
  <2>5. CASE FinalizeReduction \/ FinalizeAll \/ ClearDomain
    BY <2>5, OrderFinalize, OrderClear
  <2>6. CASE FinalizeReturn \/ Finalized \/ ReadLastWriter \/ LockReaders \/ UnlockReaders
    BY <2>6, OrderBetweenLocks
  <2>7. CASE LinkLastWriter \/ LinkReader \/ LinkComm
    BY <2>1, <2>7, OrderLinkLastWriter, OrderLinkReader, OrderLinkComm
  <2>8. CASE SetAsWriter \/ AddAsReader
    BY <2>8, OrderSetAsWriter, OrderAddAsReader
  <2>9. CASE SetUpInitial \/ SetUpTarget \/ ReleaseInitial \/ ReleaseReturn
    BY <2>9, OrderSetUpInitial, OrderSetUpTarget, OrderRelease
  <2>10. ASSUME NEW p \in DO, WorkStep(p) \/ EndPurge(p) PROVE OrderInv'
    <3>1. UNCHANGED <<status, commutative, reg, accesses>>
      BY Zenon, <2>10 DEF WorkStep, StartTask, Running, TakeSuccessor, EndPurge, objVars, histVars
    <3> QED
      BY <3>1, OrderQuiet
  <2>11. ASSUME NEW p \in DO, DeleteLastWriter(p) \/ DeleteReader(p) PROVE OrderInv'
    BY <2>11, OrderDeleteLastWriter, OrderDeleteReader
  <2> QED
    BY <2>2, <2>3, <2>4, <2>5, <2>6, <2>7, <2>8, <2>9, <2>10, <2>11
<1> QED
  BY <1>1, <1>2

-----------------------------------------------------------------------------
\* The tasks run in that order

\* The accesses of an object whose registration is over are all registered.
LEMMA AllRegistered ==
  ASSUME Good, NEW o \in Owner, o # reg.obj \/ reg.todo = <<>>
  PROVE  Registered[o] = Listed[o]
<1>1. accesses[o] \in Seq(Access) /\ (o # reg.obj \/ Len(reg.todo) = 0)
  BY DEF Good, DomainInv, DomainTypeOK, Owner
<1>2. Len(accesses[o]) \in Nat
  BY <1>1
<1> QED
  BY <1>1, <1>2 DEF Registered, Listed

\* Conflicting access lists have conflicting accesses.
LEMMA ConflictListed ==
  ASSUME Good, NEW u \in Owner, NEW o \in Owner, Order!Conflict(accesses[u], accesses[o])
  PROVE  \E e \in Listed[u], f \in Listed[o] :
           e.addr = f.addr /\ Order!ModesConflict(e.mode, f.mode)
<1>1. PICK i \in 1..Len(accesses[u]), j \in 1..Len(accesses[o]) :
        /\ accesses[u][i].addr = accesses[o][j].addr
        /\ Order!ModesConflict(accesses[u][i].mode, accesses[o][j].mode)
  BY DEF Order!Conflict
<1>2. accesses[u][i] \in Listed[u] /\ accesses[o][j] \in Listed[o]
  BY DEF Listed
<1> QED
  BY <1>1, <1>2

\* When an object with all its accesses registered has no predecessor left, the earlier
\* tasks it conflicts with have ended.
LEMMA ConflictsEnded ==
  ASSUME Good, NEW o \in Owner, Preds(o) = {}, o # reg.obj \/ reg.todo = <<>>,
         NEW u \in Task, u # o, Earlier(u, o), Order!Conflict(accesses[u], accesses[o])
  PROVE  TaskState(u) = "ended"
<1>1. u \in Owner /\ o \in DO
  BY DEF Owner, DO
<1>2. PICK e \in Listed[u], f \in Listed[o] :
        e.addr = f.addr /\ Order!ModesConflict(e.mode, f.mode)
  BY <1>1, ConflictListed
<1>3. f \in Registered[o]
  BY AllRegistered
<1>4. u \in Ahead[o]
  BY <1>2, <1>3 DEF Good, OrderInv, ConflictInv
<1>5. u \in Overs
  BY <1>1, <1>4, AheadFacts DEF Good, AheadOK
<1> QED
  BY <1>5 DEF Overs, Unfinished, TaskState

\* Apart from submission, start and end of the body no step of an object changes what
\* the abstract order sees of a task.
LEMMA TaskStateKept ==
  ASSUME DOInv, NEW p \in DO,
         \/ Finish(p) \/ Purged(p) \/ DecreaseSingle(p) \/ Return(p) \/ DecreaseBatch(p)
         \/ SubmitBatch(p) \/ ReleaseFake(p) \/ (Create(p) /\ p \notin Task)
         \/ \E s \in DO : Visit(p, s)
         \/ \E s \in Task, keepDeps \in BOOLEAN : ImmediateSuccessor(p, s, keepDeps)
  PROVE  \A t \in Task : TaskState(t)' = TaskState(t)
<1> DEFINE Pending == {"reg", "wait", "ready"}
           Ended == {"exit", "purge", "loop", "single", "batch", "call", "done"}
           Same(t) == \/ phase'[t] = phase[t]
                      \/ phase[t] \in Pending /\ phase'[t] \in Pending
                      \/ phase[t] \in Ended /\ phase'[t] \in Ended
<1> SUFFICES \A t \in Task : Same(t)
  BY DEF TaskState
<1>1. /\ phase \in [DO -> Phase] /\ succ \in [DO -> SUBSET DO] /\ Task \subseteq DO
      /\ \A s \in DO : p \in Preds(s) => phase[s] \in {"reg", "wait"}
  BY DEF DOInv, DOTypeOK, BlockedInv, DO
<1>2. CASE \/ Finish(p) \/ Purged(p) \/ Return(p) \/ SubmitBatch(p)
           \/ \E s \in DO : Visit(p, s)
  <2>1. PICK f \in Ended : phase' = [phase EXCEPT ![p] = f] /\ phase[p] \in Ended
    BY Zenon, <1>2 DEF Finish, Purged, Return, SubmitBatch, Visit
  <2> QED
    BY <1>1, <2>1
<1>3. CASE DecreaseSingle(p) \/ DecreaseBatch(p)
  <2>1. cur[p] \in DO /\ p \in Preds(cur[p]) /\ phase[p] \in {"single", "batch"}
    BY Zenon, <1>1, <1>3 DEF DecreaseSingle, DecreaseBatch, DOInv, VisitInv, Preds
  <2>2. PICK f \in Ended, g \in Phase :
          /\ phase' = [phase EXCEPT ![p] = f, ![cur[p]] = g]
          /\ g = phase[cur[p]] \/ g = "ready" \/ cur[p] \notin Task
    BY Zenon, <1>1, <1>3, <2>1 DEF DecreaseSingle, DecreaseBatch, DecreasedPhase, SatisfiedPhase, Phase
  <2>3. phase[cur[p]] \in {"reg", "wait"}
    BY Zenon, <1>1, <2>1
  <2> QED
    BY Zenon, <1>1, <2>1, <2>2, <2>3
<1>4. CASE ReleaseFake(p) \/ (Create(p) /\ p \notin Task)
  <2>1. PICK f \in Phase : phase' = [phase EXCEPT ![p] = f]
    BY Zenon, <1>1, <1>4 DEF ReleaseFake, DropFake, Create, SatisfiedPhase, Phase
  <2>2. p \in Task => phase[p] = "reg" /\ phase'[p] \in {"wait", "ready"}
    BY Zenon, <1>1, <1>4 DEF ReleaseFake, DropFake, SatisfiedPhase
  <2> QED
    BY <1>1, <2>1, <2>2
<1>5. ASSUME NEW s \in Task, NEW keepDeps \in BOOLEAN, ImmediateSuccessor(p, s, keepDeps)
      PROVE  \A t \in Task : Same(t)
  <2>1. CASE keepDeps
    BY <1>5, <2>1 DEF ImmediateSuccessor
  <2>2. CASE ~keepDeps
    <3>1. phase' = [phase EXCEPT ![s] = "ready"] /\ phase[p] = "exit" /\ s \in succ[p]
      BY <1>5, <2>2 DEF ImmediateSuccessor
    <3>2. p \in Preds(s)
      BY Zenon, <3>1 DEF DOInv, EdgesInv, BeforeLoop, Preds
    <3> QED
      BY <1>1, <3>1, <3>2
  <2> QED
    BY Zenon, <2>1, <2>2
<1> QED
  BY Zenon, <1>2, <1>3, <1>4, <1>5

\* A step that leaves that alone, and the access lists of the tasks, is no step of the
\* abstract order.
LEMMA OrderStutters ==
  ASSUME \A t \in Task : TaskState(t)' = TaskState(t) /\ accesses'[t] = accesses[t]
  PROVE  UNCHANGED Order!orderVars
BY DEF Order!orderVars

\* submit() of a task.
LEMMA RefinesSubmit ==
  ASSUME Good, SubmitTask
  PROVE  Order!OrderNext
<1>1. PICK t \in 1..program.tasks, xs \in program.lists :
        Register(t, xs) /\ \A u \in Task : u < t <=> phase[u] # "none"
  BY DEF SubmitTask
<1>2. /\ program.tasks \in Task /\ Task = 1..Cardinality(Task)
      /\ program.lists \subseteq Seq(Access) /\ phase \in [DO -> Phase]
      /\ accesses \in [Task \cup Wait -> Seq(Access)]
  BY Zenon, PlainDepsAssumption DEF Good, DomainInv, DomainTypeOK, DOInv, DOTypeOK
<1>3. Task \subseteq DO
  BY DEF DO
<1>4. t \in Task /\ ~(t < t)
  BY <1>2, PlainDepsAssumption
<1>5. /\ phase[t] = "none" /\ phase' = [phase EXCEPT ![t] = "reg"]
      /\ accesses' = [accesses EXCEPT ![t] = xs]
  BY <1>1, <1>4 DEF Register, Create
<1>6. /\ TaskState(t) = "new" /\ TaskState(t)' = "pending"
      /\ \A u \in Task : u < t => TaskState(u) # "new"
      /\ \A u \in Task \ {t} : TaskState(u)' = TaskState(u)
  BY <1>1, <1>2, <1>3, <1>4, <1>5 DEF TaskState
<1>7. /\ accesses'[t] = xs /\ \A u \in Task \ {t} : accesses'[u] = accesses[u]
      /\ xs \in Seq(Order!Access)
  <2>1. Order!Access = Access
    BY Zenon DEF Order!Access, Order!Mode, Access, AccessOf, RelaxedMode
  <2> QED
    BY <1>2, <1>4, <1>5, <2>1
<1>8. Order!Submit(t)
  BY Zenon, <1>4, <1>6, <1>7 DEF Order!Submit
<1> QED
  BY <1>4, <1>8 DEF Order!OrderNext

\* A thread starts a task: it is satisfied, so what it conflicts with has ended.
LEMMA RefinesBegin ==
  ASSUME Good, NEW t \in DO, StartTask(t)
  PROVE  Order!OrderNext
<1>1. /\ t \in Task /\ phase[t] = "ready" /\ phase' = [phase EXCEPT ![t] = "run"]
      /\ UNCHANGED accesses /\ phase \in [DO -> Phase] /\ Task \subseteq DO
  BY DEF StartTask, Start, histVars, Good, DOInv, DOTypeOK, DO
<1>2. t # reg.obj \/ reg.todo = <<>>
  BY Zenon, <1>1 DEF Good, DomainInv, ThreadInv, Registers
<1>3. Preds(t) = {}
  BY <1>1 DEF Good, DOInv, BlockedInv
<1>4. ASSUME NEW u \in Task, u < t, Order!Conflict(accesses[u], accesses[t])
      PROVE  TaskState(u) = "ended"
  <2>1. Earlier(u, t) /\ t \in Owner
    BY <1>1, <1>4 DEF Earlier, Owner
  <2>2. u # t
    BY <1>4, PlainDepsAssumption
  <2> QED
    BY <1>2, <1>3, <1>4, <2>1, <2>2, ConflictsEnded
<1>5. /\ TaskState(t) = "pending" /\ TaskState(t)' = "running"
      /\ \A u \in Task \ {t} : TaskState(u)' = TaskState(u)
  BY <1>1 DEF TaskState
<1>6. Order!Begin(t)
  BY Zenon, <1>1, <1>4, <1>5 DEF Order!Begin
<1> QED
  BY <1>1, <1>6 DEF Order!OrderNext

\* A body ends.
LEMMA RefinesEnd ==
  ASSUME Good, NEW t \in Task, BodyEnd(t), UNCHANGED accesses
  PROVE  Order!OrderNext
<1>1. /\ phase[t] = "run" /\ phase' = [phase EXCEPT ![t] = "exit"]
      /\ phase \in [DO -> Phase] /\ Task \subseteq DO
  BY DEF BodyEnd, Good, DOInv, DOTypeOK, DO
<1>2. /\ TaskState(t) = "running" /\ TaskState(t)' = "ended"
      /\ \A u \in Task \ {t} : TaskState(u)' = TaskState(u)
  BY <1>1 DEF TaskState
<1>3. Order!End(t)
  BY Zenon, <1>1, <1>2 DEF Order!End
<1> QED
  BY <1>3 DEF Order!OrderNext

\* The other steps of the registering thread.
LEMMA RefinesRegistration ==
  ASSUME Good, Registration \/ WaitOn \/ TaskWait
  PROVE  UNCHANGED Order!orderVars
<1>1. /\ DOInv /\ DomainTypeOK /\ ThreadInv /\ Task \cap Wait = {} /\ Task \cap Comm = {}
      /\ Comm \subseteq DO /\ Wait \subseteq DO
  BY DOAssumption DEF Good, DomainInv, DO
<1>2. \/ phase' = phase
      \/ \E p \in DO : ReleaseFake(p) \/ (Create(p) /\ p \notin Task)
  <2>1. CASE \/ DataAccess \/ WaitReturn \/ FinalizeReturn \/ Finalized \/ ReleaseReturn
             \/ TaskWait \/ ReadLastWriter \/ LockReaders \/ UnlockReaders \/ SetAsWriter
             \/ AddAsReader \/ ClearDomain \/ LinkLastWriter \/ LinkReader \/ LinkComm
    <3>1. UNCHANGED doVars \/ UNCHANGED phase
      BY <2>1 DEF DataAccess, WaitReturn, FinalizeReturn, Finalized, ReleaseReturn, TaskWait,
         ReadLastWriter, LockReaders, UnlockReaders, SetAsWriter, AddAsReader, ClearDomain,
         LinkLastWriter, LinkReader, LinkComm, AddEdge, CountedEdge
    <3> QED
      BY <3>1 DEF doVars
  <2>2. CASE WaitOn
    BY Zenon, <1>1, <2>2 DEF WaitOn, Register
  <2>3. CASE EndSubmit
    <3>1. reg.pc = "submit" /\ phase[reg.obj] = "reg" /\ reg.obj \in DO /\ DropFake(reg.obj)
      BY Zenon, <1>1, <2>3 DEF EndSubmit, ThreadInv, Registers, DomainTypeOK, Thread, DO
    <3> QED
      BY <3>1 DEF ReleaseFake
  <2>4. ASSUME NEW x \in Addr, NEW next, CloseComm(x, next)
        PROVE  phase' = phase \/ \E p \in DO : ReleaseFake(p)
    <3>1. CASE status[x].commDO = NoDO
      BY <2>4, <3>1 DEF CloseComm, doVars
    <3>2. CASE status[x].commDO # NoDO
      <4>1. status[x].commDO \in DO /\ phase[status[x].commDO] = "reg"
        BY <1>1, <3>2 DEF Good, DomainInv, DomainTypeOK, Targets, TargetInv
      <4> QED
        BY <2>4, <3>2, <4>1 DEF CloseComm, ReleaseFake
    <3> QED
      BY <3>1, <3>2
  <2>5. CASE FinalizeReduction \/ FinalizeAll
    <3>1. reg.pc = "finalize" => a \in Addr
      BY <1>1, AccessType DEF ThreadInv, AccessSteps
    <3> QED
      BY <2>4, <2>5, <3>1 DEF FinalizeReduction, FinalizeAll
  <2>6. CASE SetUpInitial \/ SetUpTarget
    <3>1. UNCHANGED doVars \/ \E c \in Comm : Create(c)
      BY Zenon, <2>6 DEF SetUpInitial, SetUpTarget
    <3> QED
      BY <1>1, <3>1 DEF doVars
  <2>7. CASE ReleaseInitial
    <3>1. CASE reg.initial = NoDO
      BY <2>7, <3>1 DEF ReleaseInitial, doVars
    <3>2. CASE reg.initial # NoDO
      <4>1. phase[reg.initial] = "reg" /\ reg.initial \in DO /\ DropFake(reg.initial)
        BY Zenon, <1>1, <2>7, <3>2 DEF ReleaseInitial, ThreadInv, DomainTypeOK, Thread
      <4> QED
        BY <4>1 DEF ReleaseFake
    <3> QED
      BY <3>1, <3>2
  <2> QED
    BY <2>1, <2>2, <2>3, <2>5, <2>6, <2>7 DEF Registration
<1>3. \A t \in Task : TaskState(t)' = TaskState(t)
  BY <1>1, <1>2, TaskStateKept DEF TaskState
<1>4. \A t \in Task : accesses'[t] = accesses[t]
  <2>1. CASE WaitOn
    <3>1. PICK w \in Wait, xs \in WaitAccesses : accesses' = [accesses EXCEPT ![w] = xs]
      BY Zenon, <2>1 DEF WaitOn, Register
    <3> QED
      BY <1>1, <3>1 DEF DomainTypeOK
  <2>2. CASE Registration \/ TaskWait
    <3>1. UNCHANGED accesses
      BY Zenon, <2>2 DEF Registration, DataAccess, WaitReturn, FinalizeReturn, Finalized, ReleaseReturn,
         TaskWait, ReadLastWriter, LockReaders, UnlockReaders, SetAsWriter, AddAsReader,
         ClearDomain, LinkLastWriter, LinkReader, LinkComm, EndSubmit, FinalizeReduction,
         FinalizeAll, SetUpInitial, SetUpTarget, ReleaseInitial, histVars
    <3> QED
      BY <3>1
  <2> QED
    BY <2>1, <2>2
<1> QED
  BY <1>3, <1>4, OrderStutters

\* The threads that run tasks.
LEMMA RefinesExecution ==
  ASSUME Good, NEW p \in DO, Execution(p) \/ TakeSuccessor(p)
  PROVE  [Order!OrderNext]_(Order!orderVars)
<1>1. CASE StartTask(p)
  BY <1>1, RefinesBegin
<1>2. CASE ~StartTask(p)
  <2>1. UNCHANGED accesses
    BY Zenon, <1>2 DEF Execution, Running, DeleteLastWriter, DeleteReader, EndPurge, TakeSuccessor,
       histVars
  <2>2. CASE BodyEnd(p) /\ p \in Task
    BY <2>1, <2>2, RefinesEnd
  <2>3. CASE BodyEnd(p) /\ p \notin Task
    <3>1. \A t \in Task : phase'[t] = phase[t]
      BY <2>3 DEF BodyEnd, Good, DOInv, DOTypeOK, DO
    <3> QED
      BY <2>1, <3>1, OrderStutters DEF TaskState
  <2>4. CASE DeleteLastWriter(p) \/ DeleteReader(p)
    <3>1. phase' = phase
      BY Zenon, <2>4 DEF DeleteLastWriter, DeleteReader, doVars
    <3> QED
      BY <2>1, <3>1, OrderStutters DEF TaskState
  <2>5. ASSUME \/ Finish(p) \/ Purged(p) \/ DecreaseSingle(p) \/ Return(p) \/ DecreaseBatch(p)
               \/ SubmitBatch(p) \/ \E s \in DO : Visit(p, s)
               \/ \E s \in Task, keepDeps \in BOOLEAN : ImmediateSuccessor(p, s, keepDeps)
        PROVE  UNCHANGED Order!orderVars
    <3>1. \A t \in Task : TaskState(t)' = TaskState(t)
      BY <2>5, TaskStateKept DEF Good
    <3> QED
      BY <2>1, <3>1, OrderStutters
  <2>6. TakeSuccessor(p) =>
          \E s \in Task, keepDeps \in BOOLEAN : ImmediateSuccessor(p, s, keepDeps)
    <3>1. program.keepDeps \subseteq BOOLEAN
      BY PlainDepsAssumption DEF Good, DomainInv, DomainTypeOK
    <3> QED
      BY <3>1 DEF TakeSuccessor
  <2> QED
    BY Zenon, <1>2, <2>2, <2>3, <2>4, <2>5, <2>6 DEF Execution, Running, EndPurge
<1> QED
  BY <1>1, <1>2

\* Every step is one of the abstract order, or leaves it alone.
LEMMA RefinesNext ==
  ASSUME Good, [PlainNext]_vars
  PROVE  [Order!OrderNext]_(Order!orderVars)
<1>1. CASE UNCHANGED vars
  <2>1. phase' = phase /\ accesses' = accesses
    BY <1>1 DEF vars, doVars, histVars
  <2> QED
    BY <2>1, OrderStutters DEF TaskState
<1>2. CASE PlainNext
  BY SMTT(30), <1>2, RefinesSubmit, RefinesRegistration, RefinesExecution DEF PlainNext,
     Registering, Executing
<1> QED
  BY <1>1, <1>2

-----------------------------------------------------------------------------
\* Who works for an object that is not over

\* What the classes of objects do.  A waiting object is decremented again, a dead one
\* has no successors, and only tasks come before a CommutationDO, so that the finished()
\* of one never runs inside that of another.
ClassInv ==
  /\ \A o \in DO : /\ phase[o] = "wait" => numPred[o] # 0
                   /\ phase[o] \in {"none", "done"} => succ[o] = {}
                   /\ phase[o] = "call" => o \in Task
  /\ \A w \in Wait : phase[w] \in {"none", "reg", "wait", "done"}
  /\ \A c \in Comm : /\ phase[c] \notin {"ready", "run", "exit"}
                     /\ \A p \in DO : c \in succ[p] => p \in Task

\* A CommutationDO that still has its fake predecessor is known to the thread that is to
\* remove it
OpenInv ==
  \A c \in Comm : phase[c] = "reg" =>
    reg.initial = c \/ \E x \in Addr : status[x].commDO = c

\* A finishing CommutationDO runs inside a call of a task or of the registering thread
Finishing == {"purge", "loop", "single", "batch", "call"}
InCall(c) ==
  \/ \E t \in Task : phase[t] = "call" /\ cur[t] = c
  \/ reg.pc = "finalizeCall" /\ reg.writer = c
  \/ reg.pc = "releaseCall" /\ reg.initial = c
CallInv == \A c \in Comm : phase[c] \in Finishing => InCall(c)

\* A wait is registered only while its wait_on lasts
WaitInv == \A w \in Wait : phase[w] \in {"reg", "wait"} => Waiting /\ reg.obj = w

\* Only a wait blocks the thread, and an access begins without an initial CommutationDO
StepInv ==
  /\ reg.pc = "blocked" => reg.obj \in Wait
  /\ reg.initial # NoDO => reg.pc \notin {"access", "initial"}

CarriedInv == OpenInv /\ CallInv /\ WaitInv /\ StepInv
ClearInv == ClassInv /\ CarriedInv

-----------------------------------------------------------------------------
\* The objects are carried to their end

\* Every step of the objects keeps their classes apart, if new edges to a CommutationDO
\* come from tasks.
LEMMA ClassStep ==
  ASSUME DOInv, DOInv', ClassInv, [DONext]_doVars,
         \A c \in Comm, p \in DO : c \in succ'[p] => c \in succ[p] \/ p \in Task
  PROVE  ClassInv'
<1>1. /\ DOTypeOK /\ phase \in [DO -> Phase] /\ succ \in [DO -> SUBSET DO]
      /\ numPred \in [DO -> Int]
      /\ Task \subseteq DO /\ Comm \subseteq DO /\ Wait \subseteq DO
      /\ Task \cap Comm = {} /\ Task \cap Wait = {} /\ Comm \cap Wait = {}
      /\ \A p, s \in DO : p \in Preds(s) => phase[s] \in {"reg", "wait"}
      /\ \A w \in Wait : succ[w] = {} /\ succ'[w] = {}
      /\ DO = Task \cup Comm \cup Wait
  BY Zenon, DOAssumption DEF DOInv, DOTypeOK, EdgesInv, BlockedInv, DO
<1>2. \A c \in Comm, p \in DO : c \in succ'[p] => p \in Task
  BY Zenon DEF ClassInv
<1> DEFINE Fine(o) == /\ phase'[o] = "wait" => numPred'[o] # 0
                      /\ phase'[o] \in {"none", "done"} => succ'[o] = {}
                      /\ phase'[o] = "call" => o \in Task
                      /\ o \in Wait => phase'[o] \in {"none", "reg", "wait", "done"}
                      /\ o \in Comm => phase'[o] \notin {"ready", "run", "exit"}
           Same(o) == phase'[o] = phase[o] /\ numPred'[o] = numPred[o] /\ succ'[o] = succ[o]
<1> SUFFICES \A o \in DO : Fine(o)
  BY <1>1, <1>2 DEF ClassInv
<1>3. \A o \in DO : Same(o) => Fine(o)
  BY Zenon DEF ClassInv
<1> HIDE DEF Same
<1>4. ASSUME NEW o \in DO, Create(o) \/ ReleaseFake(o) \/ Purged(o) \/ Finish(o) \/ Start(o)
                           \/ BodyEnd(o) \/ Return(o) \/ \E s \in DO : Visit(o, s)
      PROVE  \A x \in DO : Fine(x)
  <2>1. \A x \in DO \ {o} : Same(x)
    BY ZenonT(60), <1>1, <1>4 DEF Create, ReleaseFake, DropFake, Purged, Finish, Start, BodyEnd, Return,
       Visit, Same
  <2>2. Fine(o)
    <3>1. CASE ReleaseFake(o)
      <4>1. /\ phase'[o] = IF numPred[o] = 1 THEN SatisfiedPhase(o) ELSE "wait"
            /\ numPred'[o] = numPred[o] - 1 /\ succ' = succ
        BY <1>1, <3>1 DEF ReleaseFake, DropFake
      <4>2. phase'[o] = "wait" => numPred'[o] # 0
        BY <1>1, <4>1 DEF SatisfiedPhase
      <4> QED
        BY <1>1, <4>1, <4>2 DEF SatisfiedPhase
    <3>2. CASE Create(o)
      BY <1>1, <3>2 DEF Create
    <3>3. CASE \/ Purged(o) \/ Finish(o) \/ Start(o) \/ BodyEnd(o) \/ Return(o)
               \/ \E s \in DO : Visit(o, s)
      <4>1. /\ phase'[o] \in {"loop", "purge", "run", "exit", "batch", "single"}
            /\ phase'[o] \in {"run", "exit"} => o \in Task
            /\ o \notin Wait
        BY ZenonT(60), <1>1, <3>3 DEF Purged, Finish, Start, BodyEnd, Return, Visit, ClassInv
      <4> QED
        BY Zenon, <1>1, <4>1
    <3> QED
      BY Zenon, <1>4, <3>1, <3>2, <3>3
  <2> QED
    BY <1>3, <2>1, <2>2
<1>5. ASSUME NEW p \in DO, NEW s \in DO, AddSuccessor(p, s)
      PROVE  \A x \in DO : Fine(x)
  <2>1. /\ phase' = phase /\ phase[s] = "reg" /\ phase[p] \notin {"none", "done"}
        /\ \A x \in DO \ {p} : succ'[x] = succ[x]
        /\ \A x \in DO \ {s} : numPred'[x] = numPred[x]
    BY <1>1, <1>5 DEF AddSuccessor, AddEdge
  <2> QED
    BY ZenonT(60), <1>1, <2>1 DEF ClassInv
<1>6. ASSUME NEW p \in DO, DecreaseSingle(p) \/ DecreaseBatch(p)
      PROVE  \A x \in DO : Fine(x)
  <2>1. /\ cur[p] \in DO /\ cur[p] \in succ[p] /\ p \in Preds(cur[p])
        /\ phase[p] \in {"single", "batch"}
        /\ phase[p] = "batch" => cur[p] \in Task
    BY Zenon, <1>1, <1>6 DEF DecreaseSingle, DecreaseBatch, DOInv, VisitInv, Preds
  <2>2. phase[cur[p]] \in {"reg", "wait"} /\ p # cur[p] /\ p \notin Wait
    BY Zenon, <1>1, <2>1
  <2>3. /\ succ' = succ /\ numPred' = [numPred EXCEPT ![cur[p]] = @ - 1]
    BY Zenon, <1>6 DEF DecreaseSingle, DecreaseBatch
  <2>4. PICK f, g : /\ phase' = [phase EXCEPT ![p] = f, ![cur[p]] = g]
                    /\ f \in {"call", "loop"} /\ (f = "call" => cur[p] \in Comm)
                    /\ \/ g = SatisfiedPhase(cur[p])
                       \/ g = phase[cur[p]] /\ numPred[cur[p]] # 1
    BY Zenon, <1>6, <2>1 DEF DecreaseSingle, DecreaseBatch, DecreasedPhase, SatisfiedPhase
  <2>5. /\ phase'[p] = f /\ phase'[cur[p]] = g /\ numPred'[cur[p]] = numPred[cur[p]] - 1
        /\ \A x \in DO \ {p, cur[p]} : Same(x)
    BY Zenon, <1>1, <2>1, <2>2, <2>3, <2>4 DEF Same
  <2>6. Fine(p)
    BY Zenon, <1>1, <2>1, <2>2, <2>4, <2>5 DEF ClassInv
  <2>7. Fine(cur[p])
    <3>1. g \in {"ready", "purge", "done", "reg", "wait"}
      BY Zenon, <2>2, <2>4 DEF SatisfiedPhase
    <3>2. g = "wait" => numPred'[cur[p]] # 0
      <4>1. g = "wait" => numPred[cur[p]] # 1
        BY Zenon, <2>4 DEF SatisfiedPhase
      <4>2. numPred[cur[p]] \in Int
        BY Zenon, <1>1, <2>1
      <4> QED
        BY <2>5, <4>1, <4>2
    <3>3. g = "done" => cur[p] \in Wait
      BY Zenon, <1>1, <2>1, <2>2, <2>4 DEF SatisfiedPhase
    <3>4. /\ cur[p] \in Wait => g \in {"reg", "wait", "done"}
          /\ cur[p] \in Comm => g \in {"reg", "wait", "purge"}
      BY <1>1, <2>2, <2>4 DEF SatisfiedPhase
    <3> QED
      BY Zenon, <1>1, <2>3, <2>5, <3>1, <3>2, <3>3, <3>4
  <2> QED
    BY Zenon, <1>3, <2>5, <2>6, <2>7
<1>7. ASSUME NEW p \in DO, SubmitBatch(p) PROVE \A x \in DO : Fine(x)
  <2>1. /\ phase[p] = "loop" /\ phase' = [phase EXCEPT ![p] = "done"]
        /\ succ' = [succ EXCEPT ![p] = {}] /\ numPred' = numPred
    BY <1>7 DEF SubmitBatch
  <2>2. Fine(p) /\ \A x \in DO \ {p} : Same(x)
    BY <1>1, <2>1 DEF Same, ClassInv
  <2> QED
    BY <1>3, <2>2
<1>8. ASSUME NEW p \in DO, NEW s \in DO, NEW keepDeps \in BOOLEAN, ImmediateSuccessor(p, s, keepDeps)
      PROVE  \A x \in DO : Fine(x)
  <2>1. CASE keepDeps
    BY Zenon, <1>3, <1>8, <2>1 DEF ImmediateSuccessor, Same
  <2>2. CASE ~keepDeps
    <3>1. /\ phase' = [phase EXCEPT ![s] = "ready"] /\ phase[p] = "exit" /\ s \in Task
          /\ succ' = [succ EXCEPT ![p] = @ \ {s}] /\ numPred' = [numPred EXCEPT ![s] = @ - 1]
          /\ s \in succ[p]
      BY <1>8, <2>2 DEF ImmediateSuccessor
    <3>2. s # p
      BY Zenon, <1>1, <3>1 DEF DOInv, EdgesInv
    <3>3. Fine(p) /\ Fine(s) /\ \A x \in DO \ {p, s} : Same(x)
      BY Zenon, <1>1, <3>1, <3>2 DEF Same, ClassInv
    <3> QED
      BY Zenon, <1>3, <3>3
  <2> QED
    BY Zenon, <2>1, <2>2
<1>9. CASE UNCHANGED doVars
  BY Zenon, <1>3, <1>9 DEF doVars, Same
<1> QED
  BY Zenon, <1>4, <1>5, <1>6, <1>7, <1>8, <1>9 DEF DONext

\* Only tasks are put before a CommutationDO.
LEMMA NewEdges ==
  ASSUME Good, PlainNext, NEW c \in Comm, NEW p \in DO, c \in succ'[p]
  PROVE  c \in succ[p] \/ p \in Task
<1>1. /\ DOTypeOK /\ succ \in [DO -> SUBSET DO] /\ DomainTypeOK /\ ThreadInv
  BY Zenon DEF Good, DomainInv, DOInv, DOTypeOK
<1>2. CASE LinkLastWriter \/ LinkReader \/ LinkComm
  <2>1. reg.todo # <<>>
    BY <1>1, <1>2 DEF LinkLastWriter, LinkReader, LinkComm, ThreadInv, AccessSteps, RelaxedSteps,
       WriterSteps
  <2>2. reg.obj \notin Comm /\ (Relaxed => reg.obj \in Task)
    BY <2>1, AccessFacts
  <2>3. CASE LinkLastWriter
    BY <1>1, <2>2, <2>3 DEF LinkLastWriter, AddEdge, doVars
  <2>4. CASE LinkReader
    BY <1>1, <2>4 DEF LinkReader, AddEdge, DomainTypeOK, Thread
  <2>5. CASE LinkComm
    <3>1. reg.obj \in Task
      BY Zenon, <1>1, <2>2, <2>5 DEF LinkComm, ThreadInv, RelaxedSteps
    <3> QED
      BY <1>1, <2>5, <3>1 DEF LinkComm, CountedEdge
  <2> QED
    BY Zenon, <1>2, <2>3, <2>4, <2>5
<1>3. CASE \/ SubmitTask \/ WaitOn \/ TaskWait
           \/ Registration /\ ~(LinkLastWriter \/ LinkReader \/ LinkComm)
  <2>1. UNCHANGED doVars \/ UNCHANGED succ
    BY Zenon, <1>3 DEF SubmitTask, WaitOn, TaskWait, Register, Create, Registration, DataAccess, EndSubmit,
       DropFake, WaitReturn, FinalizeReduction, CloseComm, FinalizeReturn, Finalized,
       ReadLastWriter, LockReaders, UnlockReaders, SetAsWriter, AddAsReader, SetUpInitial,
       SetUpTarget, ReleaseInitial, ReleaseReturn, FinalizeAll, ClearDomain
  <2> QED
    BY <2>1 DEF doVars
<1>4. ASSUME NEW q \in DO, Execution(q) \/ TakeSuccessor(q) PROVE c \in succ[p]
  <2>1. UNCHANGED doVars \/ UNCHANGED succ \/ succ' = [succ EXCEPT ![q] = {}]
        \/ \E s \in Task : succ' = [succ EXCEPT ![q] = @ \ {s}]
    BY Zenon, <1>4 DEF Execution, StartTask, Start, Running, BodyEnd, Finish, DecreaseSingle, Return,
       DecreaseBatch, SubmitBatch, Visit, DeleteLastWriter, DeleteReader, EndPurge, Purged,
       TakeSuccessor, ImmediateSuccessor
  <2> QED
    BY <1>1, <2>1 DEF doVars
<1> QED
  BY SMTT(30), <1>2, <1>3, <1>4 DEF PlainNext, Registering, Executing

\* The classes stay apart in every step.
LEMMA ClassNext ==
  ASSUME Step, ClassInv, [PlainNext]_vars
  PROVE  ClassInv'
<1>1. CASE UNCHANGED vars
  BY Zenon, <1>1 DEF vars, doVars, ClassInv
<1>2. CASE PlainNext
  BY <1>2, NewEdges, ClassStep DEF Step, Good
<1> QED
  BY <1>1, <1>2

\* A step that leaves every object but o in its phase, and every other CommutationDO and
\* wait where it is carried; o is carried after it
Framed(o) ==
  /\ \A x \in DO \ {o} : phase'[x] = phase[x]
  /\ o \in Task => phase[o] # "call"
  /\ \A c \in Comm \ {o} : phase[c] = "reg" =>
       /\ reg.initial = c => reg'.initial = c
       /\ \A x \in Addr : status[x].commDO = c => status'[x].commDO = c
  /\ \A c \in Comm \ {o} : phase[c] \in Finishing =>
       /\ reg.pc = "finalizeCall" /\ reg.writer = c =>
            reg'.pc = "finalizeCall" /\ reg'.writer = c
       /\ reg.pc = "releaseCall" /\ reg.initial = c =>
            reg'.pc = "releaseCall" /\ reg'.initial = c
  /\ \A w \in Wait \ {o} : phase[w] \in {"reg", "wait"} /\ Waiting /\ reg.obj = w =>
       Waiting' /\ reg'.obj = w
  /\ o \in Comm /\ phase'[o] = "reg" =>
       reg'.initial = o \/ \E x \in Addr : status'[x].commDO = o
  /\ o \in Comm /\ phase'[o] \in Finishing =>
       \/ reg'.pc = "finalizeCall" /\ reg'.writer = o
       \/ reg'.pc = "releaseCall" /\ reg'.initial = o
  /\ o \in Wait /\ phase'[o] \in {"reg", "wait"} => Waiting' /\ reg'.obj = o

\* A step of the registering thread or of a purge, but for the object o whose phase it
\* may change: whoever carried an object still does.
LEMMA CarriedFrame ==
  ASSUME CarriedInv, StepInv', UNCHANGED cur, NEW o, Framed(o)
  PROVE  CarriedInv'
<1> USE DEF Framed
<1>1. Task \subseteq DO /\ Comm \subseteq DO /\ Wait \subseteq DO
  BY Zenon DEF DO
<1>2. OpenInv'
  BY Zenon, <1>1 DEF CarriedInv, OpenInv
<1>3. ASSUME NEW c \in Comm, phase'[c] \in Finishing PROVE InCall(c)'
  <2>1. CASE c = o
    BY <1>3, <2>1 DEF InCall
  <2>2. CASE c # o
    <3>1. InCall(c) /\ phase[c] \in Finishing
      BY Zenon, <1>1, <1>3, <2>2 DEF CarriedInv, CallInv
    <3>2. CASE \E t \in Task : phase[t] = "call" /\ cur[t] = c
      BY <1>1, <3>2 DEF InCall
    <3> QED
      BY <1>3, <2>2, <3>1, <3>2 DEF InCall
  <2> QED
    BY <2>1, <2>2
<1>4. WaitInv'
  BY Zenon, <1>1 DEF CarriedInv, WaitInv
<1> QED
  BY Zenon, <1>2, <1>3, <1>4 DEF CarriedInv, CallInv

\* A step of the registering thread that changes no phase.
LEMMA CarriedLocal ==
  ASSUME Good, CarriedInv, StepInv', UNCHANGED <<phase, cur>>, reg'.obj = reg.obj,
         reg.pc = "finalizeCall" => phase[reg.writer] = "done",
         reg.pc = "releaseCall" => phase[reg.initial] = "done",
         \A x \in Addr : status[x].commDO # NoDO => status'[x].commDO = status[x].commDO,
         \/ reg'.initial = reg.initial \/ reg.initial = NoDO \/ phase[reg.initial] # "reg",
         Waiting => Waiting' \/ phase[reg.obj] = "done"
  PROVE  CarriedInv'
<1>1. NoDO \notin DO /\ NoDO \notin Task /\ NoDO \notin Comm /\ NoDO \notin Wait
  BY DOAssumption DEF DO
<1>2. \A c \in Comm \ {NoDO} : phase[c] = "reg" =>
        /\ reg.initial = c => reg'.initial = c
        /\ \A x \in Addr : status[x].commDO = c => status'[x].commDO = c
  BY <1>1
<1>3. \A c \in Comm \ {NoDO} : phase[c] \in Finishing =>
        ~(reg.pc = "finalizeCall" /\ reg.writer = c) /\ ~(reg.pc = "releaseCall" /\ reg.initial = c)
  BY DEF Finishing
<1>4. \A w \in Wait \ {NoDO} : phase[w] \in {"reg", "wait"} /\ Waiting /\ reg.obj = w =>
        Waiting' /\ reg'.obj = w
  BY Zenon
<1>5. Framed(NoDO)
  BY Zenon, <1>1, <1>2, <1>3, <1>4 DEF Framed
<1> QED
  BY Zenon, <1>5, CarriedFrame

\* A step that leaves the phases and the thread alone.
LEMMA CarriedQuiet ==
  ASSUME CarriedInv, StepInv', UNCHANGED <<phase, cur>>, reg' = reg, Waiting' <=> Waiting,
         \A x \in Addr : status'[x].commDO = status[x].commDO
  PROVE  CarriedInv'
<1>1. NoDO \notin Task /\ NoDO \notin Comm /\ NoDO \notin Wait
  BY DOAssumption DEF DO
<1>2. Framed(NoDO)
  BY Zenon, <1>1 DEF Framed
<1> QED
  BY Zenon, <1>2, CarriedFrame

\* Where the thread may go without beginning to wait.
LEMMA StepGoto ==
  ASSUME DomainTypeOK, StepInv, NEW step, Goto(step), step \notin {"blocked", "access"},
         step = "initial" => reg.initial = NoDO
  PROVE  /\ StepInv' /\ reg'.obj = reg.obj
         /\ step = "next" => reg'.initial = NoDO /\ reg'.pc = "access"
         /\ step # "next" => reg'.initial = reg.initial /\ reg'.pc = step /\ reg'.todo = reg.todo
                             /\ reg'.writer = reg.writer
<1>1. CASE step = "next"
  <2>1. reg'.pc = "access" /\ reg'.obj = reg.obj /\ reg'.initial = NoDO
    BY <1>1 DEF Goto, DomainTypeOK, Thread
  <2> QED
    BY <1>1, <2>1 DEF StepInv
<1>2. CASE step # "next"
  <2>1. /\ reg'.pc = step /\ reg'.obj = reg.obj /\ reg'.initial = reg.initial
        /\ reg'.todo = reg.todo /\ reg'.writer = reg.writer
    BY <1>2, SameAccess
  <2> QED
    BY <1>2, <2>1 DEF StepInv
<1> QED
  BY <1>1, <1>2

\* Such a step that only moves the thread on.
LEMMA CarriedGoto ==
  ASSUME Good, CarriedInv, NEW step, Goto(step), UNCHANGED <<phase, cur>>,
         step \notin {"blocked", "access"}, step = "initial" => reg.initial = NoDO,
         reg.pc = "finalizeCall" => phase[reg.writer] = "done",
         reg.pc = "releaseCall" => phase[reg.initial] = "done",
         \A x \in Addr : status[x].commDO # NoDO => status'[x].commDO = status[x].commDO,
         step = "next" => reg.initial = NoDO \/ phase[reg.initial] # "reg",
         reg.todo # <<>> \/ step = "submit" \/ ~Waiting \/ phase[reg.obj] = "done"
  PROVE  CarriedInv'
<1>1. DomainTypeOK /\ StepInv
  BY Zenon DEF Good, DomainInv, CarriedInv
<1>2. /\ StepInv' /\ reg'.obj = reg.obj
      /\ step = "next" => reg'.initial = NoDO /\ reg'.pc = "access"
      /\ step # "next" => reg'.initial = reg.initial /\ reg'.pc = step /\ reg'.todo = reg.todo
  BY Zenon, <1>1, StepGoto
<1>3. Waiting => Waiting' \/ phase[reg.obj] = "done"
  BY Zenon, <1>2 DEF Waiting, Registers
<1> QED
  BY <1>2, <1>3, CarriedLocal

\* The steps of the registering thread that change no phase.
LEMMA CarriedReads ==
  ASSUME Good, CarriedInv,
         \/ DataAccess \/ WaitReturn \/ FinalizeReturn \/ Finalized \/ ReleaseReturn \/ TaskWait
         \/ LinkLastWriter \/ LinkComm \/ SetAsWriter \/ AddAsReader \/ ClearDomain
  PROVE  CarriedInv'
<1>1. /\ DomainTypeOK /\ ThreadInv /\ StepInv /\ status \in Targets /\ reg \in Thread
  BY DEF Good, DomainInv, DomainTypeOK, CarriedInv
<1>2. UNCHANGED <<phase, cur>>
  <2>1. UNCHANGED doVars \/ UNCHANGED <<phase, cur>>
    BY Zenon DEF DataAccess, WaitReturn, FinalizeReturn, Finalized, ReleaseReturn, TaskWait,
       LinkLastWriter, LinkComm, SetAsWriter, AddAsReader, ClearDomain, AddEdge, CountedEdge
  <2> QED
    BY <2>1 DEF doVars
<1>3. CASE DataAccess
  <2>1. PICK step \in {"submit", "next", "initial", "finalize"} :
          Goto(step) /\ (step # "submit" => reg.todo # <<>>)
    BY Zenon, <1>3 DEF DataAccess
  <2>2. reg.pc = "access" /\ status' = status /\ reg.initial = NoDO
    BY <1>1, <1>3 DEF DataAccess, StepInv
  <2> QED
    BY <1>2, <2>1, <2>2, CarriedGoto
<1>4. CASE WaitReturn
  BY Zenon, <1>2, <1>4, CarriedGoto DEF WaitReturn
<1>5. CASE FinalizeReturn
  <2>1. PICK step \in {"taskwait", "finalized"} : Goto(step)
    BY Zenon, <1>5 DEF FinalizeReturn
  <2>2. /\ reg.pc = "finalizeCall" /\ status' = status /\ phase[reg.writer] = "done"
        /\ reg.todo = <<>> => ~Waiting
    BY Zenon, <1>5 DEF FinalizeReturn, Waiting, Registers
  <2> QED
    BY Zenon, <1>2, <2>1, <2>2, CarriedGoto
<1>6. CASE Finalized \/ LinkLastWriter \/ LinkComm
  <2>1. /\ reg.pc \in {"finalized", "linkWriter", "linkComm"} /\ status' = status
        /\ reg.todo # <<>>
    BY Zenon, <1>1, <1>6 DEF Finalized, LinkLastWriter, LinkComm, ThreadInv, AccessSteps, RelaxedSteps
  <2>2. PICK step \in {"target", "lockReaders", "readWriter", "releaseInitial", "addReader"} :
          Goto(step)
    BY Zenon, <1>6 DEF Finalized, LinkLastWriter, LinkComm, AfterWriter
  <2> QED
    BY <1>2, <2>1, <2>2, CarriedGoto
<1>7. CASE ReleaseReturn
  <2>1. /\ reg.pc = "releaseCall" /\ status' = status /\ phase[reg.initial] = "done"
        /\ reg.todo # <<>> /\ Goto("next")
    BY <1>1, <1>7 DEF ReleaseReturn, ThreadInv, AccessSteps, RelaxedSteps
  <2> QED
    BY Zenon, <1>2, <2>1, CarriedGoto
<1>8. CASE TaskWait
  <2>1. reg.pc = "idle" /\ status' = status /\ ~Waiting /\ Goto("taskwait")
    BY Zenon, <1>1, <1>8 DEF TaskWait, Waiting, Registers, ThreadInv
  <2> QED
    BY Zenon, <1>2, <2>1, CarriedGoto
<1>9. CASE SetAsWriter \/ AddAsReader
  <2>1. /\ reg.pc \in {"setWriter", "addReader"} /\ reg.todo # <<>>
        /\ \A x \in Addr : status'[x].commDO = status[x].commDO
    BY <1>1, <1>9 DEF SetAsWriter, AddAsReader, ThreadInv, AccessSteps, WriterSteps, Targets
  <2>2. PICK step \in {"target", "next"} : Goto(step) /\ (step = "next" => ~Relaxed)
    BY <1>1, <1>9 DEF SetAsWriter, AddAsReader, ThreadInv, Relaxed, RelaxedMode
  <2>3. ~Relaxed => reg.initial = NoDO
    BY Zenon, <1>1 DEF ThreadInv
  <2> QED
    BY Zenon, <1>2, <2>1, <2>2, <2>3, CarriedGoto
<1>10. CASE ClearDomain
  <2>1. /\ reg.pc = "taskwait" /\ ~Waiting /\ Goto("idle")
        /\ \A x \in Addr : status[x].commDO = NoDO
    BY Zenon, <1>1, <1>10 DEF ClearDomain, Waiting, Registers, ThreadInv
  <2> QED
    BY Zenon, <1>2, <2>1, CarriedGoto
<1> QED
  BY <1>3, <1>4, <1>5, <1>6, <1>7, <1>8, <1>9, <1>10

\* The steps that change local variables of the thread besides its place.
LEMMA CarriedLocks ==
  ASSUME Good, CarriedInv, ReadLastWriter \/ LockReaders \/ LinkReader \/ UnlockReaders
  PROVE  CarriedInv'
<1>1. /\ DomainTypeOK /\ ThreadInv /\ StepInv /\ reg \in Thread /\ status' = status
  BY DEF Good, DomainInv, DomainTypeOK, CarriedInv, ReadLastWriter, LockReaders, LinkReader,
     UnlockReaders
<1>2. UNCHANGED <<phase, cur>>
  BY DEF ReadLastWriter, LockReaders, LinkReader, UnlockReaders, AddEdge, doVars
<1>3. /\ reg.todo # <<>> /\ reg.pc \notin {"finalizeCall", "releaseCall"}
  BY <1>1 DEF ReadLastWriter, LockReaders, LinkReader, UnlockReaders, ThreadInv, AccessSteps,
     WriterSteps
<1>4. /\ reg'.obj = reg.obj /\ reg'.todo = reg.todo /\ reg'.initial = reg.initial
      /\ reg'.pc \in {"releaseInitial", "addReader", "lockReaders", "linkWriter", "linkReaders",
                      "setWriter"}
  <2>1. CASE ReadLastWriter
    <3>1. PICK step \in {"releaseInitial", "addReader", "lockReaders", "linkWriter"} :
            reg' = [reg EXCEPT !.writer = status[a].lastWriter, !.pc = step]
      BY Zenon, <2>1 DEF ReadLastWriter, AfterWriter
    <3> QED
      BY <1>1, <3>1 DEF Thread
  <2>2. CASE LockReaders \/ LinkReader \/ UnlockReaders
    BY Zenon, <1>1, <2>2 DEF LockReaders, LinkReader, UnlockReaders, Thread
  <2> QED
    BY <2>1, <2>2
<1>5. StepInv' /\ (Waiting => Waiting')
  BY <1>3, <1>4 DEF StepInv, Waiting, Registers
<1> QED
  BY Zenon, <1>1, <1>2, <1>3, <1>4, <1>5, CarriedLocal

\* A registration begins.
LEMMA CarriedRegister ==
  ASSUME Good, CarriedInv, SubmitTask \/ WaitOn
  PROVE  CarriedInv'
<1>1. PICK o \in Owner, xs \in program.lists \cup WaitAccesses : Register(o, xs)
  <2>1. CASE SubmitTask
    <3>1. program.tasks \in Task
      BY PlainDepsAssumption DEF Good, DomainInv, DomainTypeOK
    <3>2. 1..program.tasks \subseteq Task
      BY <3>1, PlainDepsAssumption
    <3> QED
      BY <2>1, <3>2 DEF SubmitTask, Owner
  <2>2. CASE WaitOn
    BY <2>2 DEF WaitOn, Owner
  <2> QED
    BY Zenon, <2>1, <2>2
<1>2. /\ DomainTypeOK /\ ThreadInv /\ reg \in Thread /\ DOInv /\ o \in DO /\ o \notin Comm
      /\ reg.pc = "idle" /\ reg.todo = <<>> /\ reg.initial = NoDO /\ Create(o) /\ status' = status
      /\ reg' = [reg EXCEPT !.pc = "access", !.obj = o, !.todo = xs]
  BY <1>1, DOAssumption DEF Good, DomainInv, DomainTypeOK, Register, ThreadInv, Owner, DO
<1>3. /\ reg'.pc = "access" /\ reg'.obj = o /\ reg'.initial = NoDO
  BY <1>2 DEF Thread
<1>4. /\ UNCHANGED cur /\ phase[o] \in {"none", "done"} /\ \A x \in DO \ {o} : phase'[x] = phase[x]
  BY <1>2, CreatePhase DEF Create
<1>5. /\ StepInv' /\ ~Waiting /\ (o \in Wait => Waiting')
  BY <1>2, <1>3 DEF StepInv, Waiting, Registers
<1>6. NoDO \notin Comm
  BY DOAssumption DEF DO
<1>7. Framed(o)
  BY <1>2, <1>3, <1>4, <1>5, <1>6 DEF Framed, Finishing
<1> QED
  BY Zenon, <1>4, <1>5, <1>7, CarriedFrame

\* A CommutationDO is created.
LEMMA CarriedSetUp ==
  ASSUME Good, CarriedInv, SetUpInitial \/ SetUpTarget
  PROVE  CarriedInv'
<1>1. /\ DomainTypeOK /\ ThreadInv /\ StepInv /\ DOInv /\ reg \in Thread /\ status \in Targets
      /\ reg.todo # <<>> /\ reg.pc \in {"initial", "target"} /\ a \in Addr
  BY Zenon, AccessFacts DEF Good, DomainInv, DomainTypeOK, CarriedInv, SetUpInitial, SetUpTarget,
     ThreadInv, AccessSteps, RelaxedSteps
<1>2. NoDO \notin Comm /\ Comm \subseteq DO /\ Comm \cap Task = {} /\ Comm \cap Wait = {}
  BY DOAssumption DEF DO
<1>3. CASE UNCHANGED doVars
  <2>1. PICK step \in {"target", "linkComm", "finalize"} : Goto(step) /\ status' = status
    <3>1. \A c \in DO : ~(Create(c) /\ UNCHANGED doVars)
      BY Zenon, <1>1 DEF Create, doVars, DOInv, DOTypeOK
    <3> QED
      BY Zenon, <1>2, <1>3, <3>1 DEF SetUpInitial, SetUpTarget
  <2> QED
    BY <1>1, <1>3, <2>1, CarriedGoto DEF doVars
<1>4. CASE ~UNCHANGED doVars
  <2>1. PICK c \in Comm :
          /\ Create(c)
          /\ \/ /\ reg.pc = "initial" /\ status' = status
                /\ reg' = [reg EXCEPT !.pc = "lockReaders", !.initial = c]
             \/ /\ status[a].commDO = NoDO /\ status' = [status EXCEPT ![a].commDO = c]
                /\ Goto("linkComm")
    BY Zenon, <1>4 DEF SetUpInitial, SetUpTarget
  <2>2. /\ UNCHANGED cur /\ phase[c] = "none" /\ phase'[c] = "reg"
        /\ \A x \in DO \ {c} : phase'[x] = phase[x]
    BY Zenon, <1>1, <1>2, <2>1, CreatePhase DEF Create
  <2>3. /\ reg'.obj = reg.obj /\ reg'.todo = reg.todo /\ reg'.pc \in {"lockReaders", "linkComm"}
        /\ reg'.initial = reg.initial \/ (reg.initial = NoDO /\ reg'.initial = c)
    <3>1. CASE reg.pc = "initial" /\ reg' = [reg EXCEPT !.pc = "lockReaders", !.initial = c]
      BY <1>1, <3>1 DEF StepInv, Thread
    <3>2. CASE Goto("linkComm")
      BY <1>1, <3>2, SameAccess
    <3> QED
      BY <2>1, <3>1, <3>2
  <2>4. /\ \A x \in Addr : status[x].commDO # NoDO => status'[x].commDO = status[x].commDO
        /\ reg'.initial = c \/ status'[a].commDO = c
    <3>1. CASE reg.pc = "initial" /\ status' = status
               /\ reg' = [reg EXCEPT !.pc = "lockReaders", !.initial = c]
      BY <1>1, <3>1 DEF Thread
    <3>2. CASE status[a].commDO = NoDO /\ status' = [status EXCEPT ![a].commDO = c]
      BY <1>1, <3>2 DEF Targets
    <3> QED
      BY <2>1, <3>1, <3>2
  <2>5. StepInv' /\ (Waiting => Waiting')
    BY <1>1, <2>3 DEF StepInv, Waiting, Registers
  <2>6. \A d \in Comm \ {c} : phase[d] = "reg" =>
          /\ reg.initial = d => reg'.initial = d
          /\ \A x \in Addr : status[x].commDO = d => status'[x].commDO = d
    BY Zenon, <1>2, <2>3, <2>4
  <2>7. Framed(c)
    BY Zenon, <1>1, <1>2, <2>2, <2>3, <2>4, <2>5, <2>6 DEF Framed, Finishing
  <2> QED
    BY Zenon, <2>2, <2>5, <2>7, CarriedFrame
<1> QED
  BY <1>3, <1>4

\* An object loses its fake predecessor; a CommutationDO that had no other finishes in a
\* call of this thread.
LEMMA CarriedDrop ==
  ASSUME Good, CarriedInv, EndSubmit \/ FinalizeReduction \/ FinalizeAll \/ ReleaseInitial
  PROVE  CarriedInv'
<1>1. /\ DomainTypeOK /\ ThreadInv /\ StepInv /\ DOInv /\ reg \in Thread /\ status \in Targets
  BY DEF Good, DomainInv, DomainTypeOK, CarriedInv
<1>2. /\ NoDO \notin Comm /\ Comm \subseteq DO /\ Comm \cap Task = {} /\ Comm \cap Wait = {}
      /\ Task \subseteq DO /\ Wait \subseteq DO
  BY DOAssumption DEF DO
<1>3. CASE EndSubmit
  <2>1. /\ reg.pc = "submit" /\ phase[reg.obj] = "reg" /\ reg.obj \in Task \cup Wait
        /\ DropFake(reg.obj) /\ status' = status
        /\ Goto(IF reg.obj \in Wait THEN "blocked" ELSE "idle")
    BY Zenon, <1>1, <1>3 DEF EndSubmit, ThreadInv, Registers, Thread
  <2>2. PICK step \in {"blocked", "idle"} : Goto(step) /\ (step = "blocked" <=> reg.obj \in Wait)
    BY Zenon, <2>1
  <2>3. reg'.pc = step /\ reg'.obj = reg.obj /\ reg'.initial = reg.initial
    BY Zenon, <1>1, <2>2, SameAccess
  <2>4. UNCHANGED cur /\ \A x \in DO \ {reg.obj} : phase'[x] = phase[x]
    BY Zenon, <1>1, <1>2, <2>1, DropFakePhase DEF DropFake
  <2>5. StepInv' /\ (reg.obj \in Wait => Waiting')
    BY <2>2, <2>3 DEF StepInv, Waiting
  <2>6. Framed(reg.obj)
    BY Zenon, <1>2, <2>1, <2>3, <2>4, <2>5 DEF Framed
  <2> QED
    BY Zenon, <2>4, <2>5, <2>6, CarriedFrame
<1>4. ASSUME NEW x \in Addr, NEW next \in {"finalized", "taskwait"}, CloseComm(x, next),
             IF next = "finalized" THEN reg.pc = "finalize" ELSE reg.pc = "taskwait"
      PROVE  CarriedInv'
  <2>1. /\ reg.pc \in {"finalize", "taskwait"}
        /\ reg.todo # <<>> \/ ~Waiting
    BY Zenon, <1>1, <1>4 DEF ThreadInv, AccessSteps, Waiting, Registers
  <2>2. CASE status[x].commDO = NoDO
    <3>1. Goto(next) /\ UNCHANGED <<doVars, status>>
      BY <1>4, <2>2 DEF CloseComm
    <3> QED
      BY Zenon, <2>1, <3>1, CarriedGoto DEF doVars
  <2>3. CASE status[x].commDO # NoDO
    <3>1. PICK c \in Comm :
            /\ c = status[x].commDO /\ phase[c] = "reg" /\ DropFake(c)
            /\ status' = [status EXCEPT ![x].commDO = NoDO, ![x].lastWriter = c]
            /\ reg' = [reg EXCEPT !.writer = c,
                                  !.pc = IF numPred[c] = 1 THEN "finalizeCall" ELSE next]
      BY Zenon, <1>1, <1>4, <2>3 DEF CloseComm, Targets, Good, DomainInv, TargetInv
    <3>2. /\ reg'.obj = reg.obj /\ reg'.todo = reg.todo /\ reg'.initial = reg.initial
          /\ reg'.pc \in {"finalizeCall", "finalized", "taskwait"}
          /\ numPred[c] = 1 => reg'.pc = "finalizeCall" /\ reg'.writer = c
      BY <1>1, <3>1 DEF Thread
    <3>3. \A y \in Addr : \A d \in Comm \ {c} : status[y].commDO = d => status'[y].commDO = d
      BY SMTT(30), <1>1, <3>1 DEF Targets
    <3>4. /\ UNCHANGED cur /\ \A o \in DO \ {c} : phase'[o] = phase[o]
          /\ phase'[c] \in {"wait", "purge"} /\ (phase'[c] = "purge" => numPred[c] = 1)
      <4>1. phase'[c] = IF numPred[c] = 1 THEN "purge" ELSE "wait"
        BY <1>1, <1>2, <3>1 DEF DropFake, SatisfiedPhase, DOInv, DOTypeOK
      <4>2. UNCHANGED cur /\ \A o \in DO \ {c} : phase'[o] = phase[o]
        BY Zenon, <1>1, <1>2, <3>1, DropFakePhase DEF DropFake
      <4> QED
        BY Zenon, <4>1, <4>2
    <3>5. StepInv' /\ (Waiting => Waiting')
      BY <2>1, <3>2 DEF StepInv, Waiting, Registers
    <3>6. /\ c \notin Task /\ c \notin Wait
          /\ phase'[c] # "reg"
          /\ phase'[c] \in Finishing => reg'.pc = "finalizeCall" /\ reg'.writer = c
      BY <1>2, <3>2, <3>4 DEF Finishing
    <3>7. reg.pc # "finalizeCall" /\ reg.pc # "releaseCall"
      BY <2>1
    <3>8. Framed(c)
      BY Zenon, <3>2, <3>3, <3>4, <3>5, <3>6, <3>7 DEF Framed
    <3> QED
      BY Zenon, <3>4, <3>5, <3>8, CarriedFrame
  <2> QED
    BY <2>2, <2>3
<1>5. CASE FinalizeReduction \/ FinalizeAll
  <2>1. reg.pc = "finalize" => a \in Addr
    BY Zenon, <1>1, AccessType DEF ThreadInv, AccessSteps
  <2> QED
    BY <1>4, <1>5, <2>1 DEF FinalizeReduction, FinalizeAll
<1>6. CASE ReleaseInitial
  <2>1. reg.pc = "releaseInitial" /\ reg.todo # <<>> /\ status' = status
    BY Zenon, <1>1, <1>6 DEF ReleaseInitial, ThreadInv, AccessSteps, RelaxedSteps
  <2>2. CASE reg.initial = NoDO
    BY Zenon, <1>6, <2>1, <2>2, CarriedGoto DEF ReleaseInitial, doVars
  <2>3. CASE reg.initial # NoDO
    <3>1. PICK c \in Comm : c = reg.initial /\ phase[c] = "reg" /\ DropFake(c)
      BY Zenon, <1>1, <1>6, <2>1, <2>3 DEF ReleaseInitial, ThreadInv, Thread
    <3>2. PICK step \in {"releaseCall", "next"} :
            Goto(step) /\ (step = "releaseCall" <=> numPred[c] = 1)
      BY <1>6, <2>3, <3>1 DEF ReleaseInitial
    <3>3. /\ StepInv' /\ reg'.obj = reg.obj
          /\ step = "next" => reg'.initial = NoDO /\ reg'.pc = "access"
          /\ step # "next" => reg'.initial = c /\ reg'.pc = step /\ reg'.todo = reg.todo
      BY Zenon, <1>1, <3>1, <3>2, StepGoto
    <3>4. /\ UNCHANGED cur /\ \A o \in DO \ {c} : phase'[o] = phase[o]
          /\ phase'[c] \in {"wait", "purge"} /\ (phase'[c] = "purge" => numPred[c] = 1)
      <4>1. phase'[c] = IF numPred[c] = 1 THEN "purge" ELSE "wait"
        BY Zenon, <1>1, <1>2, <3>1 DEF DropFake, SatisfiedPhase, DOInv, DOTypeOK
      <4>2. UNCHANGED cur /\ \A o \in DO \ {c} : phase'[o] = phase[o]
        BY Zenon, <1>1, <1>2, <3>1, DropFakePhase DEF DropFake
      <4> QED
        BY Zenon, <4>1, <4>2
    <3>5. Waiting => Waiting'
      BY Zenon, <2>1, <3>2, <3>3 DEF Waiting, Registers
    <3>6. phase'[c] \in Finishing => reg'.pc = "releaseCall" /\ reg'.initial = c
      BY SMTT(30), <3>2, <3>3, <3>4 DEF Finishing
    <3>7. Framed(c)
      BY Zenon, <1>2, <2>1, <3>1, <3>3, <3>4, <3>5, <3>6 DEF Framed
    <3> QED
      BY ZenonT(30), <3>3, <3>4, <3>7, CarriedFrame
  <2> QED
    BY <2>2, <2>3
<1> QED
  BY <1>3, <1>5, <1>6

\* The purge of an object leaves the open CommutationDOs alone.
LEMMA CarriedDelete ==
  ASSUME Good, CarriedInv, NEW p \in DO, DeleteLastWriter(p) \/ DeleteReader(p)
  PROVE  CarriedInv'
<1>1. /\ UNCHANGED <<phase, cur>> /\ reg' = reg /\ phase[p] = "purge" /\ status \in Targets
  BY Zenon DEF DeleteLastWriter, DeleteReader, doVars, Good, DomainInv, DomainTypeOK
<1>2. \A x \in Addr : status'[x].commDO = status[x].commDO
  <2> SUFFICES ASSUME NEW x \in Addr PROVE status'[x].commDO = status[x].commDO
    OBVIOUS
  <2>1. status[x].commDO # p
    BY Zenon, <1>1, DOAssumption DEF Good, DomainInv, TargetInv
  <2>2. status[x] \in [lastWriter : Known \cup {NoDO}, readers : SUBSET Task,
                       commDO : Comm \cup {NoDO}]
    BY <1>1 DEF Targets
  <2>3. CASE DeleteLastWriter(p)
    <3>1. status'[x] = [status[x] EXCEPT
            !.lastWriter = IF x \in writes[p] /\ @ = p THEN NoDO ELSE @,
            !.commDO = IF x \in writes[p] /\ @ = p THEN NoDO ELSE @]
      BY Zenon, <2>3 DEF DeleteLastWriter
    <3> QED
      BY <2>1, <2>2, <3>1
  <2>4. CASE DeleteReader(p)
    <3>1. PICK y : status' = [status EXCEPT ![y].readers = @ \ {p}]
      BY Zenon, <2>4 DEF DeleteReader
    <3> QED
      BY <1>1, <3>1 DEF Targets
  <2> QED
    BY Zenon, <2>3, <2>4
<1>3. StepInv' /\ (Waiting' <=> Waiting)
  BY <1>1 DEF CarriedInv, StepInv, Waiting, Registers
<1> QED
  BY Zenon, <1>1, <1>2, <1>3, CarriedQuiet

\* A task waits in a call until the CommutationDO in it is done, and a CommutationDO that
\* is satisfied begins in such a call.
LEMMA CallsWork ==
  ASSUME DOInv, ClassInv, NEW p \in DO,
         \/ Start(p) \/ BodyEnd(p) \/ Finish(p) \/ DecreaseSingle(p) \/ Return(p)
         \/ DecreaseBatch(p) \/ SubmitBatch(p) \/ Purged(p)
         \/ \E s \in DO : Visit(p, s)
         \/ \E s \in Task, keepDeps \in BOOLEAN : ImmediateSuccessor(p, s, keepDeps)
  PROVE  /\ \A t \in Task : phase[t] = "call" =>
              \/ phase'[t] = "call" /\ cur'[t] = cur[t]
              \/ phase[cur[t]] = "done"
         /\ \A c \in Comm : phase'[c] \in Finishing =>
              \/ phase[c] \in Finishing
              \/ \E t \in Task : phase'[t] = "call" /\ cur'[t] = c
<1>1. /\ phase \in [DO -> Phase] /\ succ \in [DO -> SUBSET DO] /\ cur \in [DO -> DO \cup {NoDO}]
      /\ Task \subseteq DO /\ Comm \subseteq DO /\ Task \cap Comm = {}
      /\ \A s \in DO : p \in Preds(s) => phase[s] \in {"reg", "wait"}
  BY Zenon, DOAssumption DEF DOInv, DOTypeOK, BlockedInv, DO
<1>2. CASE \/ Start(p) \/ BodyEnd(p) \/ Finish(p) \/ SubmitBatch(p) \/ Purged(p)
           \/ \E s \in DO : Visit(p, s)
  <2>1. /\ phase[p] \in {"ready", "run", "exit", "purge", "loop"}
        /\ p \in Comm => phase[p] \in Finishing
        /\ \A x \in DO \ {p} : phase'[x] = phase[x] /\ cur'[x] = cur[x]
    BY Zenon, <1>1, <1>2 DEF Start, BodyEnd, Finish, SubmitBatch, Purged, Visit, Finishing, ClassInv
  <2> QED
    BY Zenon, <1>1, <2>1
<1>3. CASE Return(p)
  <2>1. /\ phase[p] = "call" /\ phase[cur[p]] = "done" /\ UNCHANGED cur
        /\ \A x \in DO \ {p} : phase'[x] = phase[x]
    BY <1>1, <1>3 DEF Return
  <2> QED
    BY <1>1, <2>1 DEF Finishing
<1>4. CASE DecreaseSingle(p) \/ DecreaseBatch(p)
  <2>1. /\ cur[p] \in DO /\ cur[p] \in succ[p] /\ p \in Preds(cur[p])
        /\ phase[p] \in {"single", "batch"} /\ UNCHANGED cur
        /\ phase[p] = "batch" => cur[p] \in Task
    BY Zenon, <1>1, <1>4 DEF DecreaseSingle, DecreaseBatch, DOInv, VisitInv, Preds
  <2>2. phase[cur[p]] \in {"reg", "wait"} /\ p # cur[p]
    BY SMTT(30), <1>1, <2>1
  <2>3. PICK f, g : /\ phase' = [phase EXCEPT ![p] = f, ![cur[p]] = g]
                    /\ cur[p] \in Comm => f = "call" \/ g = phase[cur[p]]
    BY Zenon, <1>1, <1>4, <2>1 DEF DecreaseSingle, DecreaseBatch, DecreasedPhase
  <2>4. /\ phase'[p] = f /\ phase'[cur[p]] = g
        /\ \A x \in DO \ {p, cur[p]} : phase'[x] = phase[x]
    BY <1>1, <2>1, <2>2, <2>3
  <2>5. cur[p] \in Comm => p \in Task
    BY Zenon, <2>1 DEF ClassInv
  <2>6. ASSUME NEW c \in Comm, phase'[c] \in Finishing, phase[c] \notin Finishing
        PROVE  \E t \in Task : phase'[t] = "call" /\ cur'[t] = c
    <3>1. c = cur[p]
      BY <1>1, <2>1, <2>4, <2>6 DEF Finishing
    <3>2. phase'[p] = "call" /\ p \in Task
      BY Zenon, <2>2, <2>3, <2>4, <2>5, <2>6, <3>1 DEF Finishing
    <3> QED
      BY Zenon, <2>1, <3>1, <3>2
  <2>7. \A t \in Task : phase[t] = "call" => phase'[t] = "call" /\ cur'[t] = cur[t]
    BY <1>1, <2>1, <2>2, <2>4
  <2> QED
    BY Zenon, <2>6, <2>7
<1>5. ASSUME NEW s \in Task, NEW keepDeps \in BOOLEAN, ImmediateSuccessor(p, s, keepDeps)
      PROVE  /\ \A t \in Task : phase[t] = "call" => phase'[t] = "call" /\ cur'[t] = cur[t]
             /\ \A c \in Comm : phase'[c] = phase[c]
  <2>1. CASE keepDeps
    BY Zenon, <1>5, <2>1 DEF ImmediateSuccessor
  <2>2. CASE ~keepDeps
    <3>1. phase' = [phase EXCEPT ![s] = "ready"] /\ phase[p] = "exit" /\ s \in succ[p]
          /\ UNCHANGED cur
      BY Zenon, <1>5, <2>2 DEF ImmediateSuccessor
    <3>2. p \in Preds(s)
      BY Zenon, <3>1 DEF DOInv, EdgesInv, BeforeLoop, Preds
    <3> QED
      BY <1>1, <3>1, <3>2
  <2> QED
    BY Zenon, <2>1, <2>2
<1> QED
  BY Zenon, <1>2, <1>3, <1>4, <1>5

\* The threads that run tasks carry the CommutationDOs they satisfy to the end.
LEMMA CarriedWork ==
  ASSUME Good, ClearInv, ClassInv', NEW p \in DO, WorkStep(p) \/ EndPurge(p)
  PROVE  CarriedInv'
<1>1. /\ DOInv /\ SoleBlocker /\ ClassInv /\ phase \in [DO -> Phase]
      /\ Task \subseteq DO /\ Comm \subseteq DO /\ Wait \subseteq DO
  BY Zenon DEF Good, ClearInv, DOInv, DOTypeOK, DO
<1>2. UNCHANGED <<status, reg>>
  BY Zenon DEF WorkStep, StartTask, Running, TakeSuccessor, EndPurge
<1>3. program.keepDeps \subseteq BOOLEAN
  BY Zenon, PlainDepsAssumption DEF Good, DomainInv, DomainTypeOK
<1>4. /\ \A t \in Task : phase[t] = "call" =>
           (phase'[t] = "call" /\ cur'[t] = cur[t]) \/ phase[cur[t]] = "done"
      /\ \A c \in Comm : phase'[c] \in Finishing =>
           phase[c] \in Finishing \/ \E t \in Task : phase'[t] = "call" /\ cur'[t] = c
  BY Zenon, <1>1, <1>3, CallsWork DEF WorkStep, StartTask, Running, TakeSuccessor, EndPurge
<1>5. \A o \in DO : /\ phase'[o] = "none" <=> phase[o] = "none"
                    /\ phase'[o] = "reg" <=> phase[o] = "reg"
                    /\ phase[o] = "done" => phase'[o] \notin {"reg", "wait"}
  <2>1. CASE EndPurge(p)
    BY Zenon, <1>1, <2>1 DEF EndPurge, Purged
  <2>2. CASE WorkStep(p)
    BY Zenon, <1>1, <1>3, <2>2, RunningPhases
       DEF WorkStep, StartTask, Running, TakeSuccessor, Unfinished
  <2> QED
    BY Zenon, <2>1, <2>2
<1>6. OpenInv'
  BY Zenon, <1>1, <1>2, <1>5 DEF ClearInv, CarriedInv, OpenInv
<1>7. CallInv'
  <2> SUFFICES ASSUME NEW c \in Comm, phase'[c] \in Finishing PROVE InCall(c)'
    BY DEF CallInv
  <2>1. CASE phase[c] \in Finishing
    <3>1. InCall(c) /\ phase[c] # "done"
      BY ZenonT(30), <2>1 DEF ClearInv, CarriedInv, CallInv, Finishing
    <3> QED
      BY Zenon, <1>2, <1>4, <3>1 DEF InCall
  <2>2. CASE phase[c] \notin Finishing
    BY Zenon, <1>4, <2>2 DEF InCall
  <2> QED
    BY Zenon, <2>1, <2>2
<1>8. WaitInv'
  <2>1. \A w \in Wait : phase'[w] \in {"reg", "wait"} => phase[w] \in {"reg", "wait"}
    BY Zenon, <1>1, <1>5 DEF ClassInv
  <2>2. WaitInv
    BY Zenon DEF ClearInv, CarriedInv
  <2>3. Waiting' = Waiting
    BY Zenon, <1>2 DEF Waiting, Registers
  <2> QED
    BY Zenon, <1>2, <2>1, <2>2, <2>3 DEF WaitInv
<1>9. StepInv'
  BY <1>2 DEF ClearInv, CarriedInv, StepInv
<1> QED
  BY <1>6, <1>7, <1>8, <1>9 DEF CarriedInv

\* In the beginning there is no object at all.
LEMMA ClearInitial == PlainInit => ClearInv
<1> SUFFICES ASSUME PlainInit PROVE ClearInv
  OBVIOUS
<1>1. /\ \A o \in DO : phase[o] = "none" /\ succ[o] = {}
      /\ reg.pc = "idle" /\ reg.initial = NoDO
      /\ Comm \subseteq DO /\ Wait \subseteq DO
  BY Zenon DEF PlainInit, DOInit, DO
<1>2. ClassInv
  BY <1>1 DEF ClassInv
<1>3. CarriedInv
  BY <1>1 DEF CarriedInv, OpenInv, CallInv, Finishing, WaitInv, StepInv
<1> QED
  BY <1>2, <1>3 DEF ClearInv

\* Every step leaves somebody in charge of every object.
LEMMA ClearInductive ==
  ASSUME Step, ClearInv, [PlainNext]_vars
  PROVE  ClearInv'
<1>1. ClassInv' /\ CarriedInv /\ Good
  BY ClassNext DEF ClearInv, Step
<1> SUFFICES CarriedInv'
  BY <1>1 DEF ClearInv
<1>2. CASE UNCHANGED vars
  BY Zenon, <1>1, <1>2 DEF vars, doVars, CarriedInv, OpenInv, CallInv, InCall, WaitInv, StepInv,
     Waiting, Registers
<1>3. CASE PlainNext
  <2>1. \/ SubmitTask \/ WaitOn \/ TaskWait \/ DataAccess \/ EndSubmit \/ WaitReturn
        \/ FinalizeReduction \/ FinalizeAll \/ LinkLastWriter \/ LinkReader
        \/ FinalizeReturn \/ Finalized \/ ReadLastWriter \/ LockReaders \/ UnlockReaders
        \/ SetAsWriter \/ AddAsReader \/ SetUpInitial \/ SetUpTarget \/ LinkComm
        \/ ReleaseInitial \/ ReleaseReturn \/ ClearDomain
        \/ \E p \in DO : \/ WorkStep(p) \/ DeleteLastWriter(p) \/ DeleteReader(p) \/ EndPurge(p)
    BY <1>3 DEF PlainNext, Registering, Registration, Executing, Execution, WorkStep
  <2>2. CASE \/ DataAccess \/ WaitReturn \/ FinalizeReturn \/ Finalized \/ ReleaseReturn
             \/ TaskWait \/ LinkLastWriter \/ LinkComm \/ SetAsWriter \/ AddAsReader
             \/ ClearDomain
    BY <1>1, <2>2, CarriedReads
  <2>3. CASE ReadLastWriter \/ LockReaders \/ LinkReader \/ UnlockReaders
    BY <1>1, <2>3, CarriedLocks
  <2>4. CASE SubmitTask \/ WaitOn
    BY <1>1, <2>4, CarriedRegister
  <2>5. CASE SetUpInitial \/ SetUpTarget
    BY <1>1, <2>5, CarriedSetUp
  <2>6. CASE EndSubmit \/ FinalizeReduction \/ FinalizeAll \/ ReleaseInitial
    BY <1>1, <2>6, CarriedDrop
  <2>7. ASSUME NEW p \in DO, DeleteLastWriter(p) \/ DeleteReader(p) PROVE CarriedInv'
    BY <1>1, <2>7, CarriedDelete
  <2>8. ASSUME NEW p \in DO, WorkStep(p) \/ EndPurge(p) PROVE CarriedInv'
    BY <1>1, <2>8, CarriedWork
  <2> QED
    BY <2>1, <2>2, <2>3, <2>4, <2>5, <2>6, <2>7, <2>8
<1> QED
  BY <1>2, <1>3

-----------------------------------------------------------------------------
\* wait_on and taskwait

\* A thread that stops waiting took the step that ends its call.
LEMMA WaitsEnd ==
  ASSUME Good, [PlainNext]_vars, reg.pc \in {"blocked", "taskwait"}, reg'.pc = "idle"
  PROVE  IF reg.pc = "blocked" THEN WaitReturn ELSE ClearDomain
<1>1. reg' # reg /\ reg \in Thread
  BY DEF Good, DomainInv, DomainTypeOK
<1>2. Registration
  <2>1. PlainNext
    BY <1>1 DEF vars
  <2>2. ~SubmitTask /\ ~WaitOn /\ ~TaskWait
    BY Zenon DEF SubmitTask, WaitOn, TaskWait, Register
  <2>3. \A p \in DO : ~Execution(p) /\ ~TakeSuccessor(p)
    BY Zenon, <1>1 DEF Execution, StartTask, Running, DeleteLastWriter, DeleteReader, EndPurge,
       TakeSuccessor
  <2> QED
    BY <2>1, <2>2, <2>3 DEF PlainNext, Registering, Executing
<1>3. ~FinalizeAll
  <2> SUFFICES ASSUME NEW x \in Addr, CloseComm(x, "taskwait") PROVE FALSE
    BY DEF FinalizeAll
  <2>1. \/ Goto("taskwait")
        \/ reg'.pc \in {"finalizeCall", "taskwait"}
    <3>1. \/ Goto("taskwait")
          \/ \E c : reg' = [reg EXCEPT !.writer = c,
                              !.pc = IF numPred[c] = 1 THEN "finalizeCall" ELSE "taskwait"]
      BY Zenon DEF CloseComm
    <3> QED
      BY Zenon, <1>1, <3>1 DEF Thread
  <2> QED
    BY <1>1, <2>1 DEF Goto, Thread
<1>4. \/ WaitReturn \/ ClearDomain
  BY Zenon, <1>2, <1>3 DEF Registration, DataAccess, EndSubmit, FinalizeReduction, FinalizeReturn,
     Finalized, ReadLastWriter, LinkLastWriter, LockReaders, LinkReader, UnlockReaders,
     SetAsWriter, AddAsReader, SetUpInitial, SetUpTarget, LinkComm, ReleaseInitial,
     ReleaseReturn
<1> QED
  BY <1>4 DEF WaitReturn, ClearDomain
=============================================================================
