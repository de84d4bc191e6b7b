-------------------------- MODULE TaskGroupProofs --------------------------
(***************************************************************************)
(* The inductive invariant of TaskGroup holds initially and in every step, *)
(* for any number of work descriptors, and implies what the waits promise; *)
(* and the claims of commutative accesses are exclusive for any tasks and  *)
(* any lists of targets that name no target twice.                         *)
(***************************************************************************)
EXTENDS TaskGroup, CommutativeOwners, FiniteSetTheorems, TLAPS

-----------------------------------------------------------------------------
\* The owners of commutative accesses

\* The owner pointers are null at first and no task is under way.
LEMMA OwnersInitial == OwnersInit => OwnersInv
  BY DEF OwnersInit, OwnersInv

\* A step of an attempt, a start or a release keeps every running task the
\* owner of its targets, and every attempt and every release the owner of what
\* it still has.
LEMMA OwnersInductive == OwnersInv /\ [OwnersNext]_ownerVars => OwnersInv'
<1> SUFFICES ASSUME OwnersInv, [OwnersNext]_ownerVars PROVE OwnersInv'
  OBVIOUS
<1> USE NoWDAssumption
<1>0. ASSUME NEW w \in WD
      PROVE  /\ comm[w] \in Seq(Target) /\ Len(comm[w]) \in Nat
             /\ got[w] \in Nat /\ got[w] <= Len(comm[w])
             /\ \A i \in 1..Len(comm[w]) : comm[w][i] \in Target
  BY DEF OwnersInv
<1>1. CASE UNCHANGED ownerVars
  BY <1>1 DEF OwnersInv, ownerVars
<1>2. ASSUME NEW w \in WD, TakeTarget(w) PROVE OwnersInv'
  <2>1. comm[w][got[w] + 1] \in Target
    BY <1>0, <1>2 DEF TakeTarget, Trying
  <2>2. /\ comm' = comm /\ active' = active /\ failed' = failed /\ leaving' = leaving
        /\ w \notin active \union failed \union leaving
        /\ got' = [got EXCEPT ![w] = got[w] + 1] /\ got[w] < Len(comm[w])
        /\ owner[comm[w][got[w] + 1]] \in {NoWD, w}
        /\ owner' = [owner EXCEPT ![comm[w][got[w] + 1]] = w]
    BY <1>2 DEF TakeTarget, Trying
  <2>3. ASSUME NEW v \in WD, NEW i \in 1..Len(comm[v]), owner[comm[v][i]] = v
        PROVE owner'[comm[v][i]] = v
    BY <1>0, <2>1, <2>2, <2>3 DEF OwnersInv
  <2>4. /\ got'[w] = got[w] + 1 /\ \A v \in WD \ {w} : got'[v] = got[v]
        /\ owner'[comm[w][got[w] + 1]] = w
    BY <2>1, <2>2 DEF OwnersInv
  <2>5. /\ owner' \in [Target -> WD \union {NoWD}]
        /\ got' \in [WD -> Nat] /\ \A v \in WD : got'[v] <= Len(comm[v])
    BY <1>0, <2>1, <2>2 DEF OwnersInv
  <2>6. \A v \in active \union leaving :
          \A i \in (got'[v] + 1)..Len(comm[v]) : owner'[comm[v][i]] = v
    BY <1>0, <2>2, <2>3, <2>4 DEF OwnersInv
  <2>7. \A v \in WD \ (active \union leaving) : \A i \in 1..got'[v] : owner'[comm[v][i]] = v
    BY <1>0, <2>2, <2>3, <2>4 DEF OwnersInv
  <2>8. /\ \A v \in failed \union leaving : got'[v] \in 1..(Len(comm[v]) - 1)
        /\ \A v \in active : got'[v] = 0
    BY <2>2, <2>4 DEF OwnersInv
  <2> QED BY <2>2, <2>5, <2>6, <2>7, <2>8 DEF OwnersInv
<1>3. ASSUME NEW w \in WD, Refused(w) PROVE OwnersInv'
  <2>1. /\ comm' = comm /\ active' = active /\ leaving' = leaving
        /\ owner' = owner /\ got' = got /\ got[w] < Len(comm[w])
        /\ w \notin active \union failed \union leaving
        /\ failed' = IF got[w] = 0 THEN failed ELSE failed \union {w}
    BY <1>3 DEF Refused, Trying
  <2>2. /\ failed' \subseteq WD /\ active \intersect failed' = {}
        /\ leaving \intersect (active \union failed') = {}
    BY <2>1 DEF OwnersInv
  <2>3. \A v \in failed' \union leaving : got[v] \in 1..(Len(comm[v]) - 1)
    BY <1>0, <2>1 DEF OwnersInv
  <2> QED BY <2>1, <2>2, <2>3 DEF OwnersInv
<1>4. ASSUME NEW w \in WD, NEW i \in 1..Len(comm[w]), owner[comm[w][i]] = w,
             owner' = [owner EXCEPT ![comm[w][i]] = NoWD]
      PROVE  /\ owner' \in [Target -> WD \union {NoWD}]
             /\ \A v \in WD \ {w} : \A j \in 1..Len(comm[v]) :
                  owner[comm[v][j]] = v => owner'[comm[v][j]] = v
             /\ \A j \in 1..Len(comm[w]) \ {i} :
                  owner[comm[w][j]] = w => owner'[comm[w][j]] = w
  <2>1. owner' \in [Target -> WD \union {NoWD}]
    BY <1>4 DEF OwnersInv
  <2>2. ASSUME NEW v \in WD \ {w}, NEW j \in 1..Len(comm[v]), owner[comm[v][j]] = v
        PROVE  owner'[comm[v][j]] = v
    BY <1>0, <1>4, <2>2 DEF OwnersInv
  <2>3. ASSUME NEW j \in 1..Len(comm[w]) \ {i}, owner[comm[w][j]] = w
        PROVE  owner'[comm[w][j]] = w
    <3>1. comm[w][j] # comm[w][i]
      BY DEF OwnersInv, NamedOnce
    <3> QED BY <1>0, <1>4, <2>3, <3>1 DEF OwnersInv
  <2> QED BY <2>1, <2>2, <2>3
<1>5. ASSUME NEW w \in WD, GiveBack(w) PROVE OwnersInv'
  <2>1. /\ comm' = comm /\ active' = active /\ leaving' = leaving /\ w \in failed
        /\ got' = [got EXCEPT ![w] = got[w] - 1]
        /\ owner' = [owner EXCEPT ![comm[w][got[w]]] = NoWD]
        /\ failed' = IF got[w] = 1 THEN failed \ {w} ELSE failed
    BY <1>5 DEF GiveBack
  <2>2. got[w] \in 1..(Len(comm[w]) - 1) /\ w \notin active \union leaving
    BY <2>1 DEF OwnersInv
  <2>3. got[w] \in 1..Len(comm[w]) /\ owner[comm[w][got[w]]] = w
    BY <1>0, <2>2 DEF OwnersInv
  <2>4. got'[w] = got[w] - 1 /\ \A v \in WD \ {w} : got'[v] = got[v]
    BY <2>1 DEF OwnersInv
  <2>5. got' \in [WD -> Nat] /\ \A v \in WD : got'[v] <= Len(comm[v])
    <3>1. got[w] - 1 \in Nat /\ got[w] - 1 <= Len(comm[w])
      BY <1>0, <2>2
    <3> QED BY <1>0, <2>1, <3>1 DEF OwnersInv
  <2>6. \A v \in active \union leaving :
          \A i \in (got'[v] + 1)..Len(comm[v]) : owner'[comm[v][i]] = v
    BY <1>0, <1>4, <2>1, <2>2, <2>3, <2>4 DEF OwnersInv
  <2>7. \A v \in WD \ (active \union leaving) : \A i \in 1..got'[v] : owner'[comm[v][i]] = v
    <3>1. ASSUME NEW v \in WD \ (active \union leaving), v # w, NEW i \in 1..got[v]
          PROVE  owner'[comm[v][i]] = v
      BY <1>0, <1>4, <2>1, <2>3, <3>1 DEF OwnersInv
    <3>2. ASSUME NEW i \in 1..(got[w] - 1) PROVE owner'[comm[w][i]] = w
      <4>1. i \in 1..Len(comm[w]) \ {got[w]} /\ i \in 1..got[w]
        BY <1>0
      <4>2. owner[comm[w][i]] = w
        BY <2>2, <4>1 DEF OwnersInv
      <4> QED BY <1>4, <2>1, <2>3, <4>1, <4>2
    <3> QED BY <2>4, <3>1, <3>2
  <2>8. /\ \A v \in failed' \union leaving : got'[v] \in 1..(Len(comm[v]) - 1)
        /\ \A v \in active : got'[v] = 0
    BY <1>0, <2>1, <2>2, <2>4 DEF OwnersInv
  <2>9. /\ failed' \subseteq WD /\ active \intersect failed' = {}
        /\ leaving \intersect (active \union failed') = {}
    BY <2>1 DEF OwnersInv
  <2> QED BY <1>4, <2>1, <2>3, <2>5, <2>6, <2>7, <2>8, <2>9 DEF OwnersInv
<1>6. ASSUME NEW w \in WD, KeepTargets(w) \/ StartOwning(w) PROVE OwnersInv'
  <2>1. /\ comm' = comm /\ owner' = owner /\ failed' = failed /\ leaving' = leaving
        /\ w \notin active /\ got[w] = Len(comm[w]) /\ got' = [got EXCEPT ![w] = 0]
        /\ active' \in {active, active \union {w}}
    BY <1>6 DEF KeepTargets, StartOwning
  <2>2. w \notin failed \union leaving
    BY <1>0, <2>1 DEF OwnersInv
  <2>3. got'[w] = 0 /\ \A v \in WD \ {w} : got'[v] = got[v]
    BY <2>1 DEF OwnersInv
  <2>4. got' \in [WD -> Nat] /\ \A v \in WD : got'[v] <= Len(comm[v])
    BY <1>0, <2>1 DEF OwnersInv
  <2>5. \A v \in active' \union leaving :
          \A i \in (got'[v] + 1)..Len(comm[v]) : owner[comm[v][i]] = v
    BY <1>0, <2>1, <2>2, <2>3 DEF OwnersInv
  <2>6. \A v \in WD \ (active' \union leaving) : \A i \in 1..got'[v] : owner[comm[v][i]] = v
    BY <1>0, <2>1, <2>3 DEF OwnersInv
  <2>7. /\ \A v \in failed \union leaving : got'[v] \in 1..(Len(comm[v]) - 1)
        /\ \A v \in active' : got'[v] = 0
    BY <2>1, <2>2, <2>3 DEF OwnersInv
  <2>8. /\ active' \subseteq WD /\ active' \intersect failed = {}
        /\ leaving \intersect (active' \union failed) = {}
    BY <2>1, <2>2 DEF OwnersInv
  <2> QED BY <2>1, <2>4, <2>5, <2>6, <2>7, <2>8 DEF OwnersInv
<1>7. ASSUME NEW w \in WD, CanOwn(w), owner' = Acquired(w)
      PROVE  /\ owner' \in [Target -> WD \union {NoWD}]
             /\ \A i \in 1..Len(comm[w]) : owner'[comm[w][i]] = w
             /\ \A v \in WD : \A i \in 1..Len(comm[v]) :
                  owner[comm[v][i]] = v => owner'[comm[v][i]] = v
  <2>1. owner' = [x \in Target |-> IF x \in Targets(w) THEN w ELSE owner[x]]
    BY <1>7 DEF Acquired
  <2>2. owner' \in [Target -> WD \union {NoWD}]
    BY <2>1 DEF OwnersInv
  <2>3. ASSUME NEW i \in 1..Len(comm[w]) PROVE owner'[comm[w][i]] = w
    <3>1. comm[w][i] \in Target /\ comm[w][i] \in Targets(w)
      BY <1>0 DEF Targets
    <3> QED BY <2>1, <3>1
  <2>4. ASSUME NEW v \in WD, NEW i \in 1..Len(comm[v]), owner[comm[v][i]] = v
        PROVE owner'[comm[v][i]] = v
    <3>1. comm[v][i] \in Target
      BY <1>0
    <3>2. comm[v][i] \in Targets(w) => v = w
      BY <1>7, <2>4 DEF CanOwn
    <3> QED BY <2>1, <2>4, <3>1, <3>2
  <2> QED BY <2>2, <2>3, <2>4
<1>8. ASSUME NEW w \in WD, AcquireAll(w) PROVE OwnersInv'
  <2>1. /\ comm' = comm /\ got' = got /\ active' = active
        /\ failed' = failed /\ leaving' = leaving
        /\ CanOwn(w) /\ owner' = Acquired(w)
    BY <1>8 DEF AcquireAll
  <2>2. \A v \in active \union leaving :
          \A i \in (got[v] + 1)..Len(comm[v]) : owner'[comm[v][i]] = v
    BY <1>0, <1>7, <2>1 DEF OwnersInv
  <2>3. \A v \in WD \ (active \union leaving) : \A i \in 1..got[v] : owner'[comm[v][i]] = v
    BY <1>0, <1>7, <2>1 DEF OwnersInv
  <2> QED BY <1>7, <2>1, <2>2, <2>3 DEF OwnersInv
<1>9. ASSUME NEW w \in WD, StartAll(w) PROVE OwnersInv'
  <2>1. /\ comm' = comm /\ got' = [got EXCEPT ![w] = 0] /\ active' = active \union {w}
        /\ failed' = failed /\ leaving' = leaving
        /\ CanOwn(w) /\ owner' = Acquired(w) /\ w \notin failed \union leaving
    BY <1>9 DEF StartAll, CanOwn
  <2>2. got'[w] = 0 /\ \A v \in WD \ {w} : got'[v] = got[v]
    BY <2>1 DEF OwnersInv
  <2>3. got' \in [WD -> Nat] /\ \A v \in WD : got'[v] <= Len(comm[v])
    BY <1>0, <2>1 DEF OwnersInv
  <2>4. \A v \in active' \union leaving :
          \A i \in (got'[v] + 1)..Len(comm[v]) : owner'[comm[v][i]] = v
    BY <1>0, <1>7, <2>1, <2>2 DEF OwnersInv
  <2>5. \A v \in WD \ (active' \union leaving) : \A i \in 1..got'[v] : owner'[comm[v][i]] = v
    BY <1>0, <1>7, <2>1, <2>2 DEF OwnersInv
  <2>6. /\ \A v \in failed \union leaving : got'[v] \in 1..(Len(comm[v]) - 1)
        /\ \A v \in active' : got'[v] = 0
    BY <2>1, <2>2 DEF OwnersInv
  <2>7. /\ active' \subseteq WD /\ active' \intersect failed = {}
        /\ leaving \intersect (active' \union failed) = {}
    BY <2>1 DEF OwnersInv
  <2> QED BY <1>7, <2>1, <2>3, <2>4, <2>5, <2>6, <2>7 DEF OwnersInv
<1>10. ASSUME NEW w \in WD, ReleaseTarget(w) PROVE OwnersInv'
  <2>1. /\ comm' = comm /\ failed' = failed /\ w \in active \union leaving
        /\ active' = active \ {w}
        /\ owner' = IF comm[w] = <<>> THEN owner
                    ELSE [owner EXCEPT ![comm[w][got[w] + 1]] = NoWD]
        /\ IF got[w] + 1 < Len(comm[w])
           THEN got' = [got EXCEPT ![w] = got[w] + 1] /\ leaving' = leaving \union {w}
           ELSE got' = [got EXCEPT ![w] = 0] /\ leaving' = leaving \ {w}
    BY <1>10 DEF ReleaseTarget
  <2>2. /\ w \notin failed
        /\ comm[w] # <<>> => got[w] + 1 \in 1..Len(comm[w])
        /\ comm[w] # <<>> => owner[comm[w][got[w] + 1]] = w
    BY <1>0, <2>1 DEF OwnersInv
  <2>3. /\ owner' \in [Target -> WD \union {NoWD}]
        /\ \A v \in WD \ {w} : \A j \in 1..Len(comm[v]) :
             owner[comm[v][j]] = v => owner'[comm[v][j]] = v
        /\ \A j \in 1..Len(comm[w]) \ {got[w] + 1} :
             owner[comm[w][j]] = w => owner'[comm[w][j]] = w
    <3>1. CASE comm[w] = <<>>
      BY <2>1, <3>1 DEF OwnersInv
    <3>2. CASE comm[w] # <<>>
      <4>1. PICK i \in 1..Len(comm[w]) : i = got[w] + 1
        BY <2>2, <3>2
      <4>2. owner[comm[w][i]] = w /\ owner' = [owner EXCEPT ![comm[w][i]] = NoWD]
        BY <2>1, <2>2, <3>2, <4>1
      <4> QED BY <1>4, <4>1, <4>2
    <3> QED BY <3>1, <3>2
  <2>4. /\ got'[w] = IF got[w] + 1 < Len(comm[w]) THEN got[w] + 1 ELSE 0
        /\ \A v \in WD \ {w} : got'[v] = got[v]
        /\ leaving' = IF got[w] + 1 < Len(comm[w]) THEN leaving \union {w} ELSE leaving \ {w}
    BY <2>1 DEF OwnersInv
  <2>5. got' \in [WD -> Nat] /\ \A v \in WD : got'[v] <= Len(comm[v])
    <3>1. got' = [got EXCEPT ![w] = got'[w]]
      BY <2>1 DEF OwnersInv
    <3>2. got'[w] \in Nat /\ got'[w] <= Len(comm[w])
      BY <1>0, <2>4
    <3> QED BY <1>0, <3>1, <3>2 DEF OwnersInv
  <2>6. \A v \in active' \union leaving' :
          \A i \in (got'[v] + 1)..Len(comm[v]) : owner'[comm[v][i]] = v
    <3>1. ASSUME NEW v \in (active' \union leaving') \ {w}, NEW i \in (got[v] + 1)..Len(comm[v])
          PROVE  owner'[comm[v][i]] = v
      BY <1>0, <2>1, <2>3, <2>4 DEF OwnersInv
    <3>2. ASSUME got[w] + 1 < Len(comm[w]), NEW i \in (got[w] + 2)..Len(comm[w])
          PROVE  owner'[comm[w][i]] = w
      BY <1>0, <2>1, <2>3, <3>2 DEF OwnersInv
    <3> QED BY <1>0, <2>1, <2>4, <3>1, <3>2 DEF OwnersInv
  <2>7. \A v \in WD \ (active' \union leaving') : \A i \in 1..got'[v] : owner'[comm[v][i]] = v
    <3>1. ASSUME NEW v \in WD \ (active' \union leaving'), v # w, NEW i \in 1..got[v]
          PROVE  owner'[comm[v][i]] = v
      BY <1>0, <2>1, <2>3, <2>4, <3>1 DEF OwnersInv
    <3>2. w \notin active' \union leaving' => got'[w] = 0
      BY <2>4
    <3> QED BY <2>4, <3>1, <3>2
  <2>8. /\ \A v \in failed \union leaving' : got'[v] \in 1..(Len(comm[v]) - 1)
        /\ \A v \in active' : got'[v] = 0
    <3>1. got[w] + 1 < Len(comm[w]) => got'[w] \in 1..(Len(comm[w]) - 1)
      BY <1>0, <2>4
    <3> QED BY <2>1, <2>2, <2>4, <3>1 DEF OwnersInv
  <2>9. /\ active' \subseteq WD /\ leaving' \subseteq WD
        /\ active' \intersect failed = {} /\ leaving' \intersect (active' \union failed) = {}
    BY <2>1, <2>2, <2>4 DEF OwnersInv
  <2> QED BY <2>1, <2>3, <2>5, <2>6, <2>7, <2>8, <2>9 DEF OwnersInv
<1> QED
  BY <1>1, <1>2, <1>3, <1>5, <1>6, <1>8, <1>9, <1>10 DEF OwnersNext

\* What the invariant says of two tasks under way that share a target: both own
\* it, so they are the same task.
LEMMA OwnersExclude == OwnersInv => CommutativeExclusive
<1> SUFFICES ASSUME OwnersInv, NEW v \in active, NEW w \in active,
                    NEW x \in Targets(v) \intersect Targets(w)
             PROVE  v = w
  BY DEF CommutativeExclusive
<1>1. PICK i \in 1..Len(comm[v]) : x = comm[v][i]
  BY DEF Targets
<1>2. PICK j \in 1..Len(comm[w]) : x = comm[w][j]
  BY DEF Targets
<1>3. owner[comm[v][i]] = v
  BY DEF OwnersInv
<1>4. owner[comm[w][j]] = w
  BY DEF OwnersInv
<1> QED BY <1>1, <1>2, <1>3, <1>4

\* tryAcquireCommutativeAccesses and releaseCommutativeAccesses give exclusive
\* access, although both change one owner pointer at a time, for any number of
\* tasks and any lists of commutative accesses that name no target twice,
\* provided that every task that starts has acquired its targets.
THEOREM CommutativeExclusion == OwnersSpec => []CommutativeExclusive
  BY OwnersInitial, OwnersInductive, OwnersExclude, PTL DEF OwnersSpec

\* The owner that the runtime records for a target is right at every step of every task: a
\* task under way owns all its targets, and one that is still acquiring them, giving them back
\* after a failed attempt, or releasing them, owns those it has at that moment.
THEOREM OwnersCorrect == OwnersSpec => []OwnersInv
  BY OwnersInitial, OwnersInductive, PTL DEF OwnersSpec

-----------------------------------------------------------------------------
\* Groups and waits

\* What every action must show
Preserved == GroupInv => GroupInv'

\* The conditions of different owners or kinds are different.
LEMMA CondFacts ==
  /\ \A w \in WD : /\ Comp(w) \in Cond /\ Deps(w) \in Cond
                   /\ Owner(Comp(w)) = w /\ Owner(Deps(w)) = w
  /\ \A w, x \in WD : Comp(w) # Deps(x)
  /\ \A k \in Cond : Owner(k) \in WD /\ (k = Comp(Owner(k)) \/ k = Deps(Owner(k)))
BY DEF Comp, Deps, Owner, Cond

\* Adding an element to a finite set of work descriptors, or taking one away,
\* changes its size by one.
LEMMA OneMore ==
  ASSUME NEW S \in SUBSET WD, NEW c \in WD
  PROVE  /\ Cardinality(S) \in Nat
         /\ c \notin S => Cardinality(S \cup {c}) = Cardinality(S) + 1
         /\ c \in S => Cardinality(S \ {c}) = Cardinality(S) - 1 /\ Cardinality(S) > 0
<1>1. IsFiniteSet(S)
  BY FS_Subset, TaskGroupAssumption
<1>2. Cardinality(S) \in Nat
  BY <1>1, FS_CardinalityType
<1>3. c \notin S => Cardinality(S \cup {c}) = Cardinality(S) + 1
  BY <1>1, FS_AddElement
<1>4. c \in S => Cardinality(S \ {c}) = Cardinality(S) - 1
  BY <1>1, <1>2, FS_RemoveElement, Zenon
<1>5. c \in S => Cardinality(S) # 0
  BY <1>1, FS_EmptySet
<1> QED
  BY <1>2, <1>3, <1>4, <1>5

\* The initial states satisfy the invariant.
LEMMA InvInit == GroupInit => GroupInv
<1> SUFFICES ASSUME GroupInit PROVE GroupInv
  OBVIOUS
<1> USE TaskGroupAssumption, CondFacts
<1>1. GroupTypeOK
  BY DEF GroupInit, GroupTypeOK, State, PC
<1>2. NoLostWakeUp /\ NoLostSwitch /\ \A k \in waiter : WaiterInv(k)
  BY DEF GroupInit, NoLostWakeUp, NoLostSwitch
<1>3. ASSUME NEW w \in WD PROVE StepInv(w) /\ LifeInv(w) /\ LockInv(w)
  BY DEF GroupInit, StepInv, LifeInv, LockInv
<1>4. ASSUME NEW w \in WD PROVE CountInv(w)
  <2>1. Counted(w) = {} /\ Signalers(w) = {}
    BY DEF GroupInit, Counted, Signalers
  <2> QED
    BY <2>1, FS_EmptySet DEF GroupInit, CountInv
<1> QED
  BY <1>1, <1>2, <1>3, <1>4 DEF GroupInv

\* The work descriptors other than w stay where they are
Others(w) == \A v \in WD \ {w} : pc'[v] = pc[v] /\ ret'[v] = ret[v] /\ cond'[v] = cond[v]

\* A step of a work descriptor that is not blocked, which changes no counter and does not
\* take it into or out of exitWork()
Moves(w) ==
  /\ state[w] # "blocked" /\ Others(w)
  /\ UNCHANGED <<parent, components, refcount>>
  /\ (Decreased(w)' <=> Decreased(w)) /\ (Signaling(w)' <=> Signaling(w))
  /\ GroupTypeOK' /\ StepInv(w)' /\ LifeInv(w)'

\* The places and the lives of the others are kept by a step that leaves their parents and
\* their places alone and adds no child to them, even if it wakes them up.
LEMMA OthersKeep ==
  ASSUME GroupInv, NEW w \in WD, Others(w), NEW v \in WD \ {w}, parent'[v] = parent[v],
         components[v] = 0 => components'[v] = 0,
         state'[v] = state[v] \/ (state[v] = "blocked" /\ state'[v] = "queued")
  PROVE  StepInv(v)' /\ LifeInv(v)'
<1>1. StepInv(v) /\ LifeInv(v)
  BY Zenon DEF GroupInv
<1>2. StepInv(v)'
  BY Zenon, <1>1 DEF Others, StepInv
<1>3. LifeInv(v)'
  BY Zenon, <1>1 DEF Others, LifeInv
<1> QED
  BY Zenon, <1>2, <1>3

\* Such a step, which may also wake up others, keeps the places, the lives and the counts.
LEMMA MovesKeep ==
  ASSUME GroupInv, NEW w \in WD, Moves(w),
         \A v \in WD \ {w} :
           state'[v] = state[v] \/ (state[v] = "blocked" /\ state'[v] = "queued")
  PROVE  \A v \in WD : StepInv(v)' /\ LifeInv(v)' /\ CountInv(v)'
<1> SUFFICES ASSUME NEW v \in WD PROVE StepInv(v)' /\ LifeInv(v)' /\ CountInv(v)'
  OBVIOUS
<1>1. CountInv(v)
  BY Zenon DEF GroupInv
<1>2. v = w => StepInv(v)' /\ LifeInv(v)'
  BY Zenon DEF Moves
<1>3. v # w => StepInv(v)' /\ LifeInv(v)'
  BY Zenon, OthersKeep DEF Moves
<1>4. \A u \in WD : /\ parent'[u] = parent[u] /\ (Decreased(u)' <=> Decreased(u))
                    /\ (Signaling(u)' <=> Signaling(u))
  BY Zenon DEF Moves, Others, Decreased, Signaling
<1>5. Counted(v)' = Counted(v)
  BY Zenon, <1>4 DEF Counted
<1>6. Signalers(v)' = Signalers(v)
  BY Zenon, <1>4 DEF Signalers
<1>7. CountInv(v)'
  BY Zenon, <1>1, <1>5, <1>6 DEF Moves, CountInv
<1> QED
  BY Zenon, <1>2, <1>3, <1>7

\* A step of a work descriptor that is not blocked, which adds no waiter and leaves the
\* states of the others alone, keeps the waiters blocked.
LEMMA WaitersKept ==
  ASSUME GroupInv, NEW w \in WD, state[w] # "blocked", Others(w), waiter' \subseteq waiter,
         \A v \in WD \ {w} : state'[v] = state[v]
  PROVE  \A k \in waiter' : WaiterInv(k)'
<1> SUFFICES ASSUME NEW k \in waiter' PROVE WaiterInv(k)'
  OBVIOUS
<1>1. WaiterInv(k) /\ k \in Cond
  BY Zenon DEF GroupInv, GroupTypeOK
<1>2. Owner(k) \in WD /\ Owner(k) # w
  BY Zenon, <1>1, CondFacts DEF WaiterInv
<1> QED
  BY Zenon, <1>1, <1>2 DEF WaiterInv, Others

\* A condition holds as long as the counters and the flags stay as they are.
LEMMA HoldsSame ==
  ASSUME UNCHANGED <<components, depsSatisfied>>
  PROVE  \A k \in Cond : Holds(k)' => Holds(k)
  BY Zenon DEF Holds

\* A step loses no wake-up if the conditions it makes true are signalled by it, the waiters
\* it adds were about to switch, a signal() it ends leaves nobody waiting, and it starts a
\* switch only on a condition that is false.
LEMMA SignalsKept ==
  ASSUME GroupInv, NEW w \in WD, Others(w),
         \A k \in waiter' : k \in waiter \/ (pc[w] = "switch" /\ k = cond[w]),
         \A k \in Cond : Holds(k)' => Holds(k) \/ SignalsOn(w, k)',
         \A k \in Cond : SignalsOn(w, k) =>
           \/ SignalsOn(w, k)'
           \/ k \notin waiter' /\ \A v \in WD \ {w} : pc[v] = "switch" => cond[v] # k,
         pc'[w] = "switch" => cond'[w] \in Cond /\ ~Holds(cond'[w])
  PROVE  NoLostSwitch' /\ NoLostWakeUp'
<1>1. GroupTypeOK /\ NoLostSwitch /\ NoLostWakeUp /\ cond[w] \in Cond
  BY Zenon DEF GroupInv, GroupTypeOK
<1>2. ASSUME NEW u \in WD, NEW k \in Cond, SignalsOn(u, k),
             k \in waiter' \/ \E v \in WD \ {w} : pc[v] = "switch" /\ cond[v] = k
      PROVE  SignalsOn(u, k)'
  <2>1. CASE u = w
    BY Zenon, <1>2, <2>1
  <2>2. CASE u # w
    BY Zenon, <1>2, <2>2 DEF SignalsOn, Others
  <2> QED
    BY Zenon, <2>1, <2>2
<1>3. NoLostWakeUp'
  <2> SUFFICES ASSUME NEW k \in waiter', Holds(k)' PROVE \E u \in WD : SignalsOn(u, k)'
    BY Zenon DEF NoLostWakeUp
  <2>1. k \in Cond /\ (Holds(k) \/ SignalsOn(w, k)')
    BY Zenon, <1>1 DEF GroupTypeOK
  <2>2. CASE SignalsOn(w, k)'
    BY Zenon, <2>2
  <2>3. CASE Holds(k)
    <3>1. PICK u \in WD : SignalsOn(u, k)
      BY Zenon, <1>1, <2>3 DEF NoLostWakeUp, NoLostSwitch
    <3> QED
      BY Zenon, <1>2, <2>1, <3>1
  <2> QED
    BY Zenon, <2>1, <2>2, <2>3
<1>4. NoLostSwitch'
  <2> SUFFICES ASSUME NEW v \in WD, (pc[v] = "switch" /\ Holds(cond[v]))'
               PROVE  \E u \in WD : SignalsOn(u, cond[v])'
    BY Zenon DEF NoLostSwitch
  <2>0. PICK k : k = cond'[v] /\ pc'[v] = "switch" /\ Holds(k)'
    BY Zenon DEF Holds
  <2> SUFFICES \E u \in WD : SignalsOn(u, k)'
    BY Zenon, <2>0 DEF SignalsOn
  <2>1. CASE v = w
    BY Zenon, <2>0, <2>1
  <2>2. CASE v # w
    <3>1. pc[v] = "switch" /\ k = cond[v] /\ k \in Cond
      BY Zenon, <1>1, <2>0, <2>2 DEF GroupTypeOK, Others
    <3>2. CASE SignalsOn(w, k)'
      BY Zenon, <3>2
    <3>3. CASE Holds(k)
      <4>1. PICK u \in WD : SignalsOn(u, k)
        BY Zenon, <1>1, <3>1, <3>3 DEF NoLostSwitch
      <4> QED
        BY Zenon, <1>2, <2>2, <3>1, <4>1
    <3> QED
      BY Zenon, <2>0, <3>1, <3>2, <3>3
  <2> QED
    BY Zenon, <2>1, <2>2
<1> QED
  BY Zenon, <1>3, <1>4

\* A step of a running work descriptor that touches neither a lock nor a
\* counter, makes no condition true and is not inside signal()
Quiet(w) ==
  /\ Moves(w) /\ UNCHANGED <<lock, waiter, state>>
  /\ \A v \in WD : depsSatisfied'[v] => depsSatisfied[v]
  /\ pc[w] \notin {"locked", "switch", "sigLock", "sigWake"}
  /\ pc'[w] \notin {"locked", "switch", "sigLock", "sigWake"}

\* Such a step preserves the invariant.
LEMMA QuietStep ==
  ASSUME NEW w \in WD, Quiet(w) PROVE Preserved
<1> SUFFICES ASSUME GroupInv PROVE GroupInv'
  BY DEF Preserved
<1>1. Moves(w) /\ Others(w) /\ state[w] # "blocked" /\ UNCHANGED <<state, waiter>>
  BY Zenon DEF Quiet, Moves
<1>2. \A v \in WD : StepInv(v)' /\ LifeInv(v)' /\ CountInv(v)'
  BY Zenon, <1>1, MovesKeep
<1>3. \A k \in waiter' : WaiterInv(k)'
  BY Zenon, <1>1, WaitersKept
<1>4. \A k \in Cond : Holds(k)' => Holds(k)
  BY Zenon, CondFacts DEF Holds, Quiet, Moves
<1>5. NoLostSwitch' /\ NoLostWakeUp'
  <2>1. \A k \in Cond : ~SignalsOn(w, k)
    BY Zenon DEF Quiet, SignalsOn
  <2> QED
    BY Zenon, <1>1, <1>4, <2>1, SignalsKept DEF Quiet
<1>6. ASSUME NEW v \in WD PROVE LockInv(v)'
  BY Zenon, <1>1 DEF GroupInv, Quiet, Others, LockInv
<1> QED
  BY Zenon, <1>1, <1>2, <1>3, <1>5, <1>6 DEF GroupInv, Moves

\* addWork() adds the new child to the counted ones.
LEMMA InvCreate ==
  ASSUME NEW w \in WD, NEW c \in WD, Create(w, c) PROVE Preserved
<1> SUFFICES ASSUME GroupInv PROVE GroupInv'
  BY DEF Preserved
<1> USE TaskGroupAssumption, CondFacts DEF GroupInv, Create, Running, Goto
<1>1. GroupTypeOK'
  BY DEF GroupTypeOK, State, PC, StepInv, LifeInv
<1>2. NoLostSwitch'
  BY DEF GroupTypeOK, LockInv, StepInv, LifeInv, SignalsOn, Holds, NoLostSwitch
<1>3. NoLostWakeUp'
  BY DEF GroupTypeOK, LockInv, WaiterInv, StepInv, SignalsOn, Holds, NoLostWakeUp, NoLostSwitch
<1>4. ASSUME NEW v \in WD PROVE StepInv(v)'
  BY DEF GroupTypeOK, StepInv, LifeInv, WaiterInv
<1>5. ASSUME NEW v \in WD PROVE LifeInv(v)'
  BY SMTT(30) DEF GroupTypeOK, StepInv, LifeInv, WaiterInv, Holds
<1>6. ASSUME NEW v \in WD PROVE CountInv(v)'
  <2>1. /\ v # w => Counted(v)' = Counted(v)
        /\ v = w => Counted(v)' = Counted(v) \cup {c} /\ c \notin Counted(v)
    BY DEF GroupTypeOK, Counted, Decreased, StepInv, LifeInv
  <2>2. Signalers(v)' = Signalers(v)
    BY DEF GroupTypeOK, Signalers, Signaling, StepInv, LifeInv
  <2>3. Counted(v) \in SUBSET WD
    BY ZenonT(30) DEF Counted
  <2>4. Cardinality(Counted(v)) \in Nat
    BY <2>3, OneMore, Zenon
  <2>5. Cardinality(Counted(v)') = components'[v]
    <3>1. CASE v # w
      BY <3>1, <2>1 DEF CountInv, GroupTypeOK
    <3>2. CASE v = w
      <4>1. Cardinality(Counted(v)') = Cardinality(Counted(v)) + 1
        BY <3>2, <2>1, <2>3, OneMore, Zenon
      <4>2. components'[v] = components[v] + 1
        BY <3>2 DEF GroupTypeOK
      <4> QED
        BY ZenonT(30), <4>1, <4>2 DEF CountInv
    <3> QED
      BY <3>1, <3>2, Zenon
  <2> QED
    BY Zenon, <2>1, <2>2, <2>5 DEF CountInv
<1>7. ASSUME NEW v \in WD PROVE LockInv(v)'
  BY DEF GroupTypeOK, LockInv, StepInv
<1>8. ASSUME NEW k \in waiter' PROVE WaiterInv(k)'
  BY DEF GroupTypeOK, WaiterInv, StepInv
<1> QED
  BY ZenonT(30), <1>1, <1>2, <1>3, <1>4, <1>5, <1>6, <1>7, <1>8 DEF GroupInv

\* A taskwait starts.
LEMMA InvTaskWait ==
  ASSUME NEW w \in WD, TaskWait(w) PROVE Preserved
<1> SUFFICES ASSUME GroupInv PROVE GroupInv'
  BY DEF Preserved
<1>0. GroupTypeOK /\ StepInv(w) /\ LifeInv(w)
  BY Zenon DEF GroupInv
<1>1. GroupTypeOK'
  BY SMT, <1>0, CondFacts DEF TaskWait, Goto, GroupTypeOK, PC
<1>2. Others(w) /\ UNCHANGED <<parent, components, refcount, lock, waiter, state>>
  BY Zenon, <1>0 DEF TaskWait, Goto, GroupTypeOK, Others
<1>3. /\ state[w] = "running" /\ pc[w] = "body" /\ ret[w] = "body"
      /\ pc'[w] = "check" /\ ret'[w] = "body" /\ cond'[w] = Comp(w)
  BY Zenon, <1>0, CondFacts DEF TaskWait, Running, Goto, GroupTypeOK, StepInv
<1>4. Moves(w)
  BY Zenon, <1>0, <1>1, <1>2, <1>3 DEF Moves, StepInv, LifeInv, Decreased, Signaling
<1>5. \A v \in WD : depsSatisfied'[v] => depsSatisfied[v]
  BY Zenon, <1>0 DEF TaskWait, GroupTypeOK
<1> QED
  BY Zenon, <1>2, <1>3, <1>4, <1>5, QuietStep DEF Quiet, Preserved

\* A wait_on starts; a late signal for the previous one may still be under way.
LEMMA InvWaitOn ==
  ASSUME NEW w \in WD, NEW cs \in SUBSET WD, WaitOn(w, cs) PROVE Preserved
<1> SUFFICES ASSUME GroupInv PROVE GroupInv'
  BY DEF Preserved
<1>0. GroupTypeOK /\ StepInv(w) /\ LifeInv(w)
  BY Zenon DEF GroupInv
<1>1. GroupTypeOK'
  BY SMT, <1>0, CondFacts DEF WaitOn, Goto, GroupTypeOK, PC
<1>2. Others(w) /\ UNCHANGED <<parent, components, refcount, lock, waiter, state>>
  BY Zenon, <1>0 DEF WaitOn, Goto, GroupTypeOK, Others
<1>3. /\ state[w] = "running" /\ pc[w] = "body" /\ ret[w] = "body"
      /\ pc'[w] = "release" /\ ret'[w] = "body" /\ cond'[w] = Deps(w)
  BY Zenon, <1>0, CondFacts DEF WaitOn, Running, Goto, GroupTypeOK, StepInv
<1>4. Moves(w)
  BY Zenon, <1>0, <1>1, <1>2, <1>3 DEF Moves, StepInv, LifeInv, Decreased, Signaling
<1>5. \A v \in WD : depsSatisfied'[v] => depsSatisfied[v]
  BY Zenon, <1>0 DEF WaitOn, GroupTypeOK
<1> QED
  BY Zenon, <1>2, <1>3, <1>4, <1>5, QuietStep DEF Quiet, Preserved

\* The fake predecessor of the DOWait goes.
LEMMA InvRelease ==
  ASSUME NEW w \in WD, Release(w) PROVE Preserved
<1> SUFFICES ASSUME GroupInv PROVE GroupInv'
  BY DEF Preserved
<1>0. GroupTypeOK /\ StepInv(w) /\ LifeInv(w)
  BY Zenon DEF GroupInv
<1>1. GroupTypeOK'
  BY SMT, <1>0, CondFacts DEF Release, Goto, GroupTypeOK, PC
<1>2. Others(w) /\ UNCHANGED <<parent, components, refcount, lock, waiter, state>>
  BY Zenon, <1>0 DEF Release, Goto, GroupTypeOK, Others
<1>3. /\ state[w] = "running" /\ pc[w] = "release" /\ ret[w] = "body" /\ cond'[w] = Deps(w)
      /\ \/ pc'[w] = "satisfy" /\ ret'[w] = "check"
         \/ pc'[w] = "check" /\ ret'[w] = "body"
  BY Zenon, <1>0, CondFacts DEF Release, Running, Goto, GroupTypeOK, StepInv
<1>4. Moves(w)
  BY Zenon, <1>0, <1>1, <1>2, <1>3 DEF Moves, StepInv, LifeInv, Decreased, Signaling
<1>5. \A v \in WD : depsSatisfied'[v] => depsSatisfied[v]
  BY Zenon, <1>0 DEF Release, GroupTypeOK
<1> QED
  BY Zenon, <1>2, <1>3, <1>4, <1>5, QuietStep DEF Quiet, Preserved

\* The DOWait becomes true and its signaler is at the lock.
LEMMA InvSatisfy ==
  ASSUME NEW w \in WD, Satisfy(w) PROVE Preserved
<1> SUFFICES ASSUME GroupInv PROVE GroupInv'
  BY DEF Preserved
<1>0. GroupTypeOK /\ StepInv(w) /\ LifeInv(w) /\ LockInv(w) /\ cond[w] \in Cond
  BY Zenon DEF GroupInv, GroupTypeOK
<1>1. GroupTypeOK'
  BY Zenon, <1>0, CondFacts DEF Satisfy, Goto, GroupTypeOK, PC
<1>2. Others(w) /\ UNCHANGED <<parent, components, refcount, lock, waiter, state>>
  BY Zenon, <1>0 DEF Satisfy, Goto, GroupTypeOK, Others
<1>3. /\ state[w] = "running" /\ pc[w] = "satisfy" /\ cond[w] = Deps(Owner(cond[w]))
      /\ pc'[w] = "sigLock" /\ ret'[w] = ret[w] /\ cond'[w] = cond[w]
  BY Zenon, <1>0, CondFacts DEF Satisfy, Running, Goto, GroupTypeOK, StepInv
<1>4. Moves(w)
  BY Zenon, <1>0, <1>1, <1>2, <1>3 DEF Moves, StepInv, LifeInv, Decreased, Signaling
<1>5. \A v \in WD : StepInv(v)' /\ LifeInv(v)' /\ CountInv(v)'
  BY Zenon, <1>2, <1>4, MovesKeep
<1>6. ASSUME NEW v \in WD PROVE LockInv(v)'
  BY Zenon, <1>2, <1>3 DEF GroupInv, LockInv, Others
<1>7. ASSUME NEW k \in waiter' PROVE WaiterInv(k)'
  BY Zenon, <1>2, <1>3, WaitersKept
<1>8. NoLostSwitch' /\ NoLostWakeUp'
  <2>1. ASSUME NEW k \in Cond, Holds(k)' PROVE Holds(k) \/ SignalsOn(w, k)'
    <3>1. CASE k = cond[w]
      BY Zenon, <1>3, <3>1 DEF SignalsOn
    <3>2. CASE k = Comp(Owner(k))
      BY Zenon, <1>2, <2>1, <3>2 DEF Holds
    <3>3. CASE k = Deps(Owner(k)) /\ k # cond[w]
      <4>1. Owner(k) # Owner(cond[w])
        BY Zenon, <1>3, <3>3
      <4>2. depsSatisfied'[Owner(k)] = depsSatisfied[Owner(k)]
        BY Zenon, <1>0, <4>1, CondFacts DEF Satisfy, GroupTypeOK
      <4> QED
        BY Zenon, <2>1, <3>3, <4>2, CondFacts DEF Holds
    <3> QED
      BY Zenon, <3>1, <3>2, <3>3, CondFacts
  <2>2. \A k \in Cond : ~SignalsOn(w, k)
    BY Zenon, <1>3 DEF SignalsOn
  <2> QED
    BY Zenon, <1>2, <1>3, <2>1, <2>2, SignalsKept
<1> QED
  BY Zenon, <1>1, <1>5, <1>6, <1>7, <1>8 DEF GroupInv

\* A check that succeeds.
LEMMA InvCheckTrue ==
  ASSUME NEW w \in WD, CheckTrue(w) PROVE Preserved
<1> SUFFICES ASSUME GroupInv PROVE GroupInv'
  BY DEF Preserved
<1>0. GroupTypeOK /\ StepInv(w) /\ LifeInv(w)
  BY Zenon DEF GroupInv
<1>1. GroupTypeOK'
  BY Zenon, <1>0, CondFacts DEF CheckTrue, Waited, Goto, GroupTypeOK, PC
<1>2. Others(w) /\ UNCHANGED <<parent, components, refcount, lock, waiter, state>>
  BY Zenon, <1>0 DEF CheckTrue, Goto, GroupTypeOK, Others, Waited, Holds
<1>3. /\ state[w] = "running" /\ pc[w] = "check" /\ cond'[w] = cond[w]
      /\ \/ pc'[w] = "drain" /\ ret'[w] = ret[w] /\ cond[w] = Comp(w)
         \/ pc'[w] = "body" /\ ret'[w] = "body" /\ ret[w] = "body"
      /\ pc'[w] = "drain" => components[w] = 0
  BY Zenon, <1>0, CondFacts DEF CheckTrue, Running, Goto, GroupTypeOK, StepInv, Waited, Holds
<1>4. Moves(w)
  BY Zenon, <1>0, <1>1, <1>2, <1>3 DEF Moves, StepInv, LifeInv, Decreased, Signaling
<1>5. \A v \in WD : depsSatisfied'[v] => depsSatisfied[v]
  BY Zenon, <1>0 DEF CheckTrue, GroupTypeOK, Waited, Holds
<1> QED
  BY Zenon, <1>2, <1>3, <1>4, <1>5, QuietStep DEF Quiet, Preserved

\* A check that fails.
LEMMA InvCheckFalse ==
  ASSUME NEW w \in WD, CheckFalse(w) PROVE Preserved
<1> SUFFICES ASSUME GroupInv PROVE GroupInv'
  BY DEF Preserved
<1>0. GroupTypeOK /\ StepInv(w) /\ LifeInv(w)
  BY Zenon DEF GroupInv
<1>1. GroupTypeOK'
  BY Zenon, <1>0, CondFacts DEF CheckFalse, Goto, GroupTypeOK, PC
<1>2. Others(w) /\ UNCHANGED <<parent, components, refcount, lock, waiter, state>>
  BY Zenon, <1>0 DEF CheckFalse, Goto, GroupTypeOK, Others
<1>3. /\ state[w] = "running" /\ pc[w] = "check"
      /\ pc'[w] = "loop" /\ ret'[w] = ret[w] /\ cond'[w] = cond[w]
  BY Zenon, <1>0, CondFacts DEF CheckFalse, Running, Goto, GroupTypeOK, StepInv
<1>4. Moves(w)
  BY Zenon, <1>0, <1>1, <1>2, <1>3 DEF Moves, StepInv, LifeInv, Decreased, Signaling
<1>5. \A v \in WD : depsSatisfied'[v] => depsSatisfied[v]
  BY Zenon, <1>0 DEF CheckFalse, GroupTypeOK
<1> QED
  BY Zenon, <1>2, <1>3, <1>4, <1>5, QuietStep DEF Quiet, Preserved

\* A waiter takes the lock of the condition.
LEMMA InvLock ==
  ASSUME NEW w \in WD, Lock(w) PROVE Preserved
<1> SUFFICES ASSUME GroupInv PROVE GroupInv'
  BY DEF Preserved
<1>0. GroupTypeOK /\ StepInv(w) /\ LifeInv(w) /\ LockInv(w) /\ cond[w] \in Cond
  BY Zenon DEF GroupInv, GroupTypeOK
<1>1. GroupTypeOK'
  BY Zenon, <1>0, CondFacts DEF Lock, Goto, GroupTypeOK, PC
<1>2. Others(w) /\ UNCHANGED <<parent, components, refcount, depsSatisfied, waiter, state>>
  BY Zenon, <1>0 DEF Lock, Goto, GroupTypeOK, Others
<1>3. /\ state[w] = "running" /\ pc[w] = "loop"
      /\ pc'[w] = "locked" /\ ret'[w] = ret[w] /\ cond'[w] = cond[w]
      /\ lock[cond[w]] = NoWD /\ lock' = [lock EXCEPT ![cond[w]] = w] /\ lock'[cond[w]] = w
  BY Zenon, <1>0, CondFacts DEF Lock, Running, Goto, GroupTypeOK, StepInv
<1>4. Moves(w)
  BY Zenon, <1>0, <1>1, <1>2, <1>3 DEF Moves, StepInv, LifeInv, Decreased, Signaling
<1>5. \A v \in WD : StepInv(v)' /\ LifeInv(v)' /\ CountInv(v)'
  BY Zenon, <1>2, <1>4, MovesKeep
<1>6. ASSUME NEW v \in WD PROVE LockInv(v)'
  <2>1. CASE v = w
    BY Zenon, <1>0, <1>3, <2>1 DEF LockInv
  <2>2. CASE v # w /\ cond[v] = cond[w]
    BY Zenon, <1>2, <1>3, <2>2, TaskGroupAssumption DEF GroupInv, LockInv, Others
  <2>3. CASE v # w /\ cond[v] # cond[w]
    <3>1. lock'[cond[v]] = lock[cond[v]] /\ LockInv(v)
      BY Zenon, <1>0, <1>3, <2>3 DEF GroupInv, GroupTypeOK
    <3> QED
      BY Zenon, <1>2, <2>3, <3>1 DEF LockInv, Others
  <2> QED
    BY Zenon, <2>1, <2>2, <2>3
<1>7. ASSUME NEW k \in waiter' PROVE WaiterInv(k)'
  BY Zenon, <1>2, <1>3, WaitersKept
<1>8. NoLostSwitch' /\ NoLostWakeUp'
  <2>1. \A k \in Cond : Holds(k)' => Holds(k)
    BY Zenon, <1>2, HoldsSame
  <2>2. \A k \in Cond : ~SignalsOn(w, k)
    BY Zenon, <1>3 DEF SignalsOn
  <2> QED
    BY Zenon, <1>2, <1>3, <2>1, <2>2, SignalsKept
<1> QED
  BY Zenon, <1>1, <1>5, <1>6, <1>7, <1>8 DEF GroupInv

\* The check under the lock succeeds.
LEMMA InvUnlock ==
  ASSUME NEW w \in WD, Unlock(w) PROVE Preserved
<1> SUFFICES ASSUME GroupInv PROVE GroupInv'
  BY DEF Preserved
<1>0. GroupTypeOK /\ StepInv(w) /\ LifeInv(w) /\ LockInv(w) /\ cond[w] \in Cond
  BY Zenon DEF GroupInv, GroupTypeOK
<1>1. GroupTypeOK'
  BY Zenon, <1>0, CondFacts DEF Unlock, Goto, GroupTypeOK, PC
<1>2. Others(w) /\ UNCHANGED <<parent, components, refcount, depsSatisfied, waiter, state>>
  BY Zenon, <1>0 DEF Unlock, Goto, GroupTypeOK, Others
<1>3. /\ state[w] = "running" /\ pc[w] = "locked"
      /\ pc'[w] = "check" /\ ret'[w] = ret[w] /\ cond'[w] = cond[w]
      /\ lock[cond[w]] = w /\ lock' = [lock EXCEPT ![cond[w]] = NoWD]
  BY Zenon, <1>0, CondFacts DEF Unlock, Running, Goto, GroupTypeOK, StepInv, LockInv
<1>4. Moves(w)
  BY Zenon, <1>0, <1>1, <1>2, <1>3 DEF Moves, StepInv, LifeInv, Decreased, Signaling
<1>5. \A v \in WD : StepInv(v)' /\ LifeInv(v)' /\ CountInv(v)'
  BY Zenon, <1>2, <1>4, MovesKeep
<1>6. ASSUME NEW v \in WD PROVE LockInv(v)'
  <2>1. CASE v = w
    BY Zenon, <1>0, <1>3, <2>1 DEF LockInv
  <2>2. CASE v # w /\ cond[v] = cond[w]
    BY Zenon, <1>2, <1>3, <2>2 DEF GroupInv, LockInv, Others
  <2>3. CASE v # w /\ cond[v] # cond[w]
    <3>1. lock'[cond[v]] = lock[cond[v]] /\ LockInv(v)
      BY Zenon, <1>0, <1>3, <2>3 DEF GroupInv, GroupTypeOK
    <3> QED
      BY Zenon, <1>2, <2>3, <3>1 DEF LockInv, Others
  <2> QED
    BY Zenon, <2>1, <2>2, <2>3
<1>7. ASSUME NEW k \in waiter' PROVE WaiterInv(k)'
  BY Zenon, <1>2, <1>3, WaitersKept
<1>8. NoLostSwitch' /\ NoLostWakeUp'
  <2>1. \A k \in Cond : Holds(k)' => Holds(k)
    BY Zenon, <1>2, HoldsSame
  <2>2. \A k \in Cond : ~SignalsOn(w, k)
    BY Zenon, <1>3 DEF SignalsOn
  <2> QED
    BY Zenon, <1>2, <1>3, <2>1, <2>2, SignalsKept
<1> QED
  BY Zenon, <1>1, <1>5, <1>6, <1>7, <1>8 DEF GroupInv

\* The check under the lock fails: the condition is false when the switch starts.
LEMMA InvRecheck ==
  ASSUME NEW w \in WD, Recheck(w) PROVE Preserved
<1> SUFFICES ASSUME GroupInv PROVE GroupInv'
  BY DEF Preserved
<1>0. GroupTypeOK /\ StepInv(w) /\ LifeInv(w) /\ LockInv(w) /\ cond[w] \in Cond
  BY Zenon DEF GroupInv, GroupTypeOK
<1>1. GroupTypeOK'
  BY Zenon, <1>0, CondFacts DEF Recheck, Goto, GroupTypeOK, PC
<1>2. Others(w) /\ UNCHANGED <<parent, components, refcount, depsSatisfied, waiter, state, lock>>
  BY Zenon, <1>0 DEF Recheck, Goto, GroupTypeOK, Others
<1>3. /\ state[w] = "running" /\ pc[w] = "locked" /\ ~Holds(cond[w])
      /\ pc'[w] = "switch" /\ ret'[w] = ret[w] /\ cond'[w] = cond[w]
  BY Zenon, <1>0, CondFacts DEF Recheck, Running, Goto, GroupTypeOK, StepInv
<1>4. Moves(w)
  BY Zenon, <1>0, <1>1, <1>2, <1>3 DEF Moves, StepInv, LifeInv, Decreased, Signaling
<1>5. \A v \in WD : StepInv(v)' /\ LifeInv(v)' /\ CountInv(v)'
  BY Zenon, <1>2, <1>4, MovesKeep
<1>6. ASSUME NEW v \in WD PROVE LockInv(v)'
  BY Zenon, <1>2, <1>3 DEF GroupInv, LockInv, Others
<1>7. ASSUME NEW k \in waiter' PROVE WaiterInv(k)'
  BY Zenon, <1>2, <1>3, WaitersKept
<1>8. NoLostSwitch' /\ NoLostWakeUp'
  <2>1. \A k \in Cond : Holds(k)' => Holds(k)
    BY Zenon, <1>2, HoldsSame
  <2>2. \A k \in Cond : ~SignalsOn(w, k)
    BY Zenon, <1>3 DEF SignalsOn
  <2> QED
    BY Zenon, <1>0, <1>2, <1>3, <2>1, <2>2, SignalsKept
<1> QED
  BY Zenon, <1>1, <1>5, <1>6, <1>7, <1>8 DEF GroupInv

\* The switch ends: who signals from now on finds the waiter.
LEMMA InvBlock ==
  ASSUME NEW w \in WD, Block(w) PROVE Preserved
<1> SUFFICES ASSUME GroupInv PROVE GroupInv'
  BY DEF Preserved
<1>0. GroupTypeOK /\ StepInv(w) /\ LifeInv(w) /\ LockInv(w) /\ cond[w] \in Cond
  BY Zenon DEF GroupInv, GroupTypeOK
<1>1. GroupTypeOK'
  BY Zenon, <1>0, CondFacts DEF Block, Goto, GroupTypeOK, PC, State
<1>2. Others(w) /\ UNCHANGED <<parent, components, refcount, depsSatisfied>>
  BY Zenon, <1>0 DEF Block, Goto, GroupTypeOK, Others
<1>3. /\ state[w] = "running" /\ state' = [state EXCEPT ![w] = "blocked"] /\ state'[w] = "blocked"
      /\ pc[w] = "switch" /\ Owner(cond[w]) = w /\ waiter' = waiter \cup {cond[w]}
      /\ pc'[w] = "check" /\ ret'[w] = ret[w] /\ cond'[w] = cond[w]
      /\ lock[cond[w]] = w /\ lock' = [lock EXCEPT ![cond[w]] = NoWD]
  BY Zenon, <1>0, CondFacts DEF Block, Running, Goto, GroupTypeOK, StepInv, LockInv
<1>4. Moves(w)
  BY Zenon, <1>0, <1>1, <1>2, <1>3 DEF Moves, StepInv, LifeInv, Decreased, Signaling
<1>5. \A v \in WD : StepInv(v)' /\ LifeInv(v)' /\ CountInv(v)'
  <2>1. \A v \in WD \ {w} : state'[v] = state[v]
    BY Zenon, <1>0, <1>3 DEF GroupTypeOK
  <2> QED
    BY Zenon, <1>4, <2>1, MovesKeep
<1>6. ASSUME NEW v \in WD PROVE LockInv(v)'
  <2>1. CASE v = w
    BY Zenon, <1>0, <1>3, <2>1 DEF LockInv
  <2>2. CASE v # w /\ cond[v] = cond[w]
    BY Zenon, <1>2, <1>3, <2>2 DEF GroupInv, LockInv, Others
  <2>3. CASE v # w /\ cond[v] # cond[w]
    <3>1. lock'[cond[v]] = lock[cond[v]] /\ LockInv(v)
      BY Zenon, <1>0, <1>3, <2>3 DEF GroupInv, GroupTypeOK
    <3> QED
      BY Zenon, <1>2, <2>3, <3>1 DEF LockInv, Others
  <2> QED
    BY Zenon, <2>1, <2>2, <2>3
<1>7. ASSUME NEW k \in waiter' PROVE WaiterInv(k)'
  <2>1. CASE k = cond[w]
    BY Zenon, <1>3, <2>1 DEF WaiterInv
  <2>2. CASE k \in waiter
    <3>1. WaiterInv(k) /\ k \in Cond
      BY Zenon, <2>2 DEF GroupInv, GroupTypeOK
    <3>2. Owner(k) \in WD /\ Owner(k) # w
      BY Zenon, <1>3, <3>1, CondFacts DEF WaiterInv
    <3>3. state'[Owner(k)] = state[Owner(k)]
      BY Zenon, <1>0, <1>3, <3>2 DEF GroupTypeOK
    <3> QED
      BY Zenon, <1>2, <3>1, <3>2, <3>3 DEF WaiterInv, Others
  <2> QED
    BY Zenon, <1>3, <2>1, <2>2
<1>8. NoLostSwitch' /\ NoLostWakeUp'
  <2>1. \A k \in Cond : Holds(k)' => Holds(k)
    BY Zenon, <1>2, HoldsSame
  <2>2. \A k \in Cond : ~SignalsOn(w, k)
    BY Zenon, <1>3 DEF SignalsOn
  <2>3. \A k \in waiter' : k \in waiter \/ (pc[w] = "switch" /\ k = cond[w])
    BY Zenon, <1>3
  <2> QED
    BY Zenon, <1>2, <1>3, <2>1, <2>2, <2>3, SignalsKept
<1> QED
  BY Zenon, <1>1, <1>5, <1>6, <1>7, <1>8 DEF GroupInv

\* waitConditionAndSignalers() returns.
LEMMA InvDrain ==
  ASSUME NEW w \in WD, Drain(w) PROVE Preserved
<1> SUFFICES ASSUME GroupInv PROVE GroupInv'
  BY DEF Preserved
<1>0. GroupTypeOK /\ StepInv(w) /\ LifeInv(w)
  BY Zenon DEF GroupInv
<1>1. GroupTypeOK'
  BY Zenon, <1>0, CondFacts DEF Drain, Goto, GroupTypeOK, PC
<1>2. Others(w) /\ UNCHANGED <<parent, components, refcount, lock, waiter, state>>
  BY Zenon, <1>0 DEF Drain, Goto, GroupTypeOK, Others
<1>3. /\ state[w] = "running" /\ pc[w] = "drain" /\ ret'[w] = "body" /\ pc'[w] = ret[w]
      /\ ret[w] \in {"body", "reference", "over"}
  BY Zenon, <1>0, CondFacts DEF Drain, Running, Goto, GroupTypeOK, StepInv
<1>4. Moves(w)
  BY Zenon, <1>0, <1>1, <1>2, <1>3 DEF Moves, StepInv, LifeInv, Decreased, Signaling
<1>5. \A v \in WD : depsSatisfied'[v] => depsSatisfied[v]
  BY Zenon, <1>0 DEF Drain, GroupTypeOK
<1> QED
  BY Zenon, <1>2, <1>3, <1>4, <1>5, QuietStep DEF Quiet, Preserved

-----------------------------------------------------------------------------
\* signal(), done(), exitWork() and the scheduler

\* A signaler takes the lock, so nobody is between the check and the switch.
LEMMA InvSignalLock ==
  ASSUME NEW w \in WD, SignalLock(w) PROVE Preserved
<1> SUFFICES ASSUME GroupInv PROVE GroupInv'
  BY DEF Preserved
<1>0. GroupTypeOK /\ StepInv(w) /\ LifeInv(w) /\ LockInv(w) /\ cond[w] \in Cond
  BY Zenon DEF GroupInv, GroupTypeOK
<1>1. GroupTypeOK'
  BY Zenon, <1>0, CondFacts DEF SignalLock, Goto, GroupTypeOK, PC
<1>2. Others(w) /\ UNCHANGED <<parent, components, refcount, depsSatisfied, waiter, state>>
  BY Zenon, <1>0 DEF SignalLock, Goto, GroupTypeOK, Others
<1>3. /\ state[w] = "running" /\ pc[w] = "sigLock"
      /\ pc'[w] = "sigWake" /\ ret'[w] = ret[w] /\ cond'[w] = cond[w]
      /\ lock[cond[w]] = NoWD /\ lock' = [lock EXCEPT ![cond[w]] = w] /\ lock'[cond[w]] = w
  BY Zenon, <1>0, CondFacts DEF SignalLock, Running, Goto, GroupTypeOK, StepInv
<1>4. Moves(w)
  BY Zenon, <1>0, <1>1, <1>2, <1>3 DEF Moves, StepInv, LifeInv, Decreased, Signaling
<1>5. \A v \in WD : StepInv(v)' /\ LifeInv(v)' /\ CountInv(v)'
  BY Zenon, <1>2, <1>4, MovesKeep
<1>6. ASSUME NEW v \in WD PROVE LockInv(v)'
  <2>1. CASE v = w
    BY Zenon, <1>0, <1>3, <2>1 DEF LockInv
  <2>2. CASE v # w /\ cond[v] = cond[w]
    BY Zenon, <1>2, <1>3, <2>2, TaskGroupAssumption DEF GroupInv, LockInv, Others
  <2>3. CASE v # w /\ cond[v] # cond[w]
    <3>1. lock'[cond[v]] = lock[cond[v]] /\ LockInv(v)
      BY Zenon, <1>0, <1>3, <2>3 DEF GroupInv, GroupTypeOK
    <3> QED
      BY Zenon, <1>2, <2>3, <3>1 DEF LockInv, Others
  <2> QED
    BY Zenon, <2>1, <2>2, <2>3
<1>7. ASSUME NEW k \in waiter' PROVE WaiterInv(k)'
  BY Zenon, <1>2, <1>3, WaitersKept
<1>8. NoLostSwitch' /\ NoLostWakeUp'
  <2>1. \A k \in Cond : Holds(k)' => Holds(k)
    BY Zenon, <1>2, HoldsSame
  <2>2. \A k \in Cond : SignalsOn(w, k) => SignalsOn(w, k)'
    BY Zenon, <1>3 DEF SignalsOn
  <2> QED
    BY Zenon, <1>2, <1>3, <2>1, <2>2, SignalsKept
<1> QED
  BY Zenon, <1>1, <1>5, <1>6, <1>7, <1>8 DEF GroupInv

\* The only waiter of the condition is woken up.
LEMMA InvSignalWake ==
  ASSUME NEW w \in WD, SignalWake(w) PROVE Preserved
<1> SUFFICES ASSUME GroupInv PROVE GroupInv'
  BY DEF Preserved
<1>0. GroupTypeOK /\ StepInv(w) /\ LifeInv(w) /\ LockInv(w) /\ cond[w] \in Cond
  BY Zenon DEF GroupInv, GroupTypeOK
<1>1. GroupTypeOK'
  <2>1. state' \in [WD -> State]
    BY Zenon, <1>0 DEF SignalWake, GroupTypeOK, State
  <2> QED
    BY Zenon, <1>0, <2>1, CondFacts DEF SignalWake, Goto, GroupTypeOK, PC
<1>2. Others(w) /\ UNCHANGED <<parent, components, refcount, depsSatisfied>>
  BY Zenon, <1>0 DEF SignalWake, Goto, GroupTypeOK, Others
<1>3. /\ state[w] = "running" /\ pc[w] = "sigWake" /\ waiter' = waiter \ {cond[w]}
      /\ pc'[w] = ret[w] /\ ret'[w] = "body" /\ cond'[w] = cond[w]
      /\ \/ ret[w] = "check" /\ cond[w] = Deps(w)
         \/ ret[w] \in {"children", "unreference"} /\ parent[w] \in WD
      /\ lock[cond[w]] = w /\ lock' = [lock EXCEPT ![cond[w]] = NoWD]
  BY Zenon, <1>0, CondFacts DEF SignalWake, Running, Goto, GroupTypeOK, StepInv, LockInv
<1>4. ASSUME NEW k \in waiter
      PROVE  Owner(k) \in WD \ {w} /\ state[Owner(k)] = "blocked" /\ cond[Owner(k)] = k
  <2>1. k \in Cond /\ WaiterInv(k)
    BY Zenon, <1>4 DEF GroupInv, GroupTypeOK
  <2> QED
    BY Zenon, <1>3, <2>1, CondFacts DEF WaiterInv
<1>5. /\ state'[w] = state[w]
      /\ \A v \in WD \ {w} : \/ state'[v] = state[v]
                             \/ /\ state[v] = "blocked" /\ state'[v] = "queued"
                                /\ cond[w] \in waiter /\ v = Owner(cond[w])
  <2>1. CASE cond[w] \in waiter
    <3>1. state' = [state EXCEPT ![Owner(cond[w])] = "queued"]
      BY Zenon, <2>1 DEF SignalWake
    <3> QED
      BY Zenon, <1>0, <1>4, <2>1, <3>1 DEF GroupTypeOK
  <2>2. CASE cond[w] \notin waiter
    BY Zenon, <2>2 DEF SignalWake
  <2> QED
    BY Zenon, <2>1, <2>2
<1>6. Moves(w)
  <2>1. StepInv(w)'
    BY Zenon, <1>2, <1>3 DEF StepInv
  <2>2. LifeInv(w)'
    BY Zenon, <1>0, <1>2, <1>3, <1>5, TaskGroupAssumption DEF LifeInv
  <2>3. (Decreased(w)' <=> Decreased(w)) /\ (Signaling(w)' <=> Signaling(w))
    BY Zenon, <1>3 DEF Decreased, Signaling
  <2> QED
    BY Zenon, <1>1, <1>2, <1>3, <2>1, <2>2, <2>3 DEF Moves
<1>7. \A v \in WD : StepInv(v)' /\ LifeInv(v)' /\ CountInv(v)'
  BY Zenon, <1>6, <1>5, MovesKeep
<1>8. ASSUME NEW v \in WD PROVE LockInv(v)'
  <2>1. CASE v = w
    BY Zenon, <1>0, <1>3, <2>1 DEF LockInv
  <2>2. CASE v # w /\ cond[v] = cond[w]
    BY Zenon, <1>2, <1>3, <2>2 DEF GroupInv, LockInv, Others
  <2>3. CASE v # w /\ cond[v] # cond[w]
    <3>1. lock'[cond[v]] = lock[cond[v]] /\ LockInv(v)
      BY Zenon, <1>0, <1>3, <2>3 DEF GroupInv, GroupTypeOK
    <3> QED
      BY Zenon, <1>2, <2>3, <3>1 DEF LockInv, Others
  <2> QED
    BY Zenon, <2>1, <2>2, <2>3
<1>9. ASSUME NEW k \in waiter' PROVE WaiterInv(k)'
  <2>1. k \in waiter /\ k # cond[w] /\ WaiterInv(k)
    BY Zenon, <1>3 DEF GroupInv
  <2>2. state'[Owner(k)] = state[Owner(k)]
    <3>1. Owner(k) \in WD \ {w} /\ cond[Owner(k)] = k
      BY Zenon, <1>4, <2>1
    <3>2. ~(cond[w] \in waiter /\ Owner(k) = Owner(cond[w]))
      BY Zenon, <1>4, <2>1, <3>1
    <3> QED
      BY Zenon, <1>5, <3>1, <3>2
  <2> QED
    BY Zenon, <1>2, <1>4, <2>1, <2>2 DEF WaiterInv, Others
<1>10. NoLostSwitch' /\ NoLostWakeUp'
  <2>1. \A k \in Cond : Holds(k)' => Holds(k)
    BY Zenon, <1>2, HoldsSame
  <2>2. ASSUME NEW k \in Cond, SignalsOn(w, k)
        PROVE  k \notin waiter' /\ \A v \in WD \ {w} : pc[v] = "switch" => cond[v] # k
    BY Zenon, <1>3, <2>2 DEF GroupInv, SignalsOn, LockInv
  <2>3. pc'[w] # "switch"
    BY Zenon, <1>3
  <2> QED
    BY Zenon, <1>2, <1>3, <2>1, <2>2, <2>3, SignalsKept
<1> QED
  BY Zenon, <1>1, <1>7, <1>8, <1>9, <1>10 DEF GroupInv

\* The successors of a finished work descriptor are released.
LEMMA InvFinish ==
  ASSUME NEW w \in WD, Finish(w) PROVE Preserved
<1> SUFFICES ASSUME GroupInv PROVE GroupInv'
  BY DEF Preserved
<1>0. GroupTypeOK /\ StepInv(w) /\ LifeInv(w) /\ LockInv(w) /\ cond[w] \in Cond
  BY Zenon DEF GroupInv, GroupTypeOK
<1>1. parent[w] \in WD
  BY Zenon, <1>0 DEF Finish, Running, GroupTypeOK, LifeInv
<1>2. GroupTypeOK'
  <2>1. Deps(parent[w]) \in Cond
    BY Zenon, <1>1, CondFacts
  <2>2. pc' \in [WD -> PC] /\ ret' \in [WD -> PC]
    BY Zenon, <1>0 DEF Finish, Goto, GroupTypeOK, PC
  <2>3. cond' = cond \/ cond' = [cond EXCEPT ![w] = Deps(parent[w])]
    BY Zenon DEF Finish
  <2>4. cond' \in [WD -> Cond]
    BY Zenon, <1>0, <2>1, <2>3 DEF GroupTypeOK
  <2>5. preds' \in [WD -> SUBSET WD]
    BY Zenon, <1>0 DEF Finish, GroupTypeOK
  <2> QED
    BY Zenon, <1>0, <2>2, <2>4, <2>5 DEF Finish, GroupTypeOK
<1>3. Others(w) /\ UNCHANGED <<parent, components, refcount, lock, waiter, state>>
  BY Zenon, <1>0 DEF Finish, Goto, GroupTypeOK, Others
<1>4. /\ state[w] = "running" /\ pc[w] = "body" /\ ret[w] = "body" /\ w # Root
      /\ \/ pc'[w] = "satisfy" /\ ret'[w] = "children" /\ cond'[w] = Deps(parent[w])
         \/ pc'[w] = "children" /\ ret'[w] = "body"
  BY Zenon, <1>0, CondFacts DEF Finish, Running, Goto, GroupTypeOK, StepInv
<1>5. Moves(w)
  BY Zenon, <1>0, <1>1, <1>2, <1>3, <1>4, TaskGroupAssumption DEF Moves, StepInv, LifeInv, Decreased, Signaling
<1>6. \A v \in WD : depsSatisfied'[v] => depsSatisfied[v]
  BY Zenon, <1>0 DEF Finish, GroupTypeOK
<1> QED
  BY Zenon, <1>3, <1>4, <1>5, <1>6, QuietStep DEF Quiet, Preserved

\* The main work descriptor starts its last wait.
LEMMA InvShutdown ==
  ASSUME NEW w \in WD, Shutdown(w) PROVE Preserved
<1> SUFFICES ASSUME GroupInv PROVE GroupInv'
  BY DEF Preserved
<1>0. GroupTypeOK /\ StepInv(w) /\ LifeInv(w)
  BY Zenon DEF GroupInv
<1>1. GroupTypeOK'
  BY Zenon, <1>0, CondFacts DEF Shutdown, Goto, GroupTypeOK, PC
<1>2. Others(w) /\ UNCHANGED <<parent, components, refcount, lock, waiter, state>>
  BY Zenon, <1>0 DEF Shutdown, Goto, GroupTypeOK, Others
<1>3. /\ state[w] = "running" /\ pc[w] = "body" /\ ret[w] = "body"
      /\ pc'[w] = "check" /\ ret'[w] = "over" /\ cond'[w] = Comp(w)
  BY Zenon, <1>0, CondFacts DEF Shutdown, Running, Goto, GroupTypeOK, StepInv
<1>4. Moves(w)
  BY Zenon, <1>0, <1>1, <1>2, <1>3 DEF Moves, StepInv, LifeInv, Decreased, Signaling
<1>5. \A v \in WD : depsSatisfied'[v] => depsSatisfied[v]
  BY Zenon, <1>0 DEF Shutdown, GroupTypeOK
<1> QED
  BY Zenon, <1>2, <1>3, <1>4, <1>5, QuietStep DEF Quiet, Preserved

\* done() waits for the children or not.
LEMMA InvChildren ==
  ASSUME NEW w \in WD, Children(w) PROVE Preserved
<1> SUFFICES ASSUME GroupInv PROVE GroupInv'
  BY DEF Preserved
<1>0. GroupTypeOK /\ StepInv(w) /\ LifeInv(w)
  BY Zenon DEF GroupInv
<1>1. GroupTypeOK'
  <2>1. pc' \in [WD -> PC] /\ ret' \in [WD -> PC]
    BY Zenon, <1>0 DEF Children, Goto, GroupTypeOK, PC
  <2>2. cond' = cond \/ cond' = [cond EXCEPT ![w] = Comp(w)]
    BY Zenon DEF Children
  <2>3. Comp(w) \in Cond
    BY Zenon, CondFacts
  <2>4. cond' \in [WD -> Cond]
    BY Zenon, <1>0, <2>2, <2>3 DEF GroupTypeOK
  <2> QED
    BY Zenon, <1>0, <2>1, <2>4 DEF Children, GroupTypeOK
<1>2. Others(w) /\ UNCHANGED <<parent, components, refcount, lock, waiter, state>>
  BY ZenonT(60), <1>0 DEF Children, Goto, GroupTypeOK, Others
<1>3. /\ state[w] = "running" /\ pc[w] = "children" /\ ret[w] = "body"
      /\ \/ pc'[w] = "check" /\ ret'[w] = "reference" /\ cond'[w] = Comp(w)
         \/ pc'[w] = "reference" /\ ret'[w] = "body" /\ components[w] = 0
  BY ZenonT(60), <1>0, CondFacts DEF Children, Running, Goto, GroupTypeOK, StepInv
<1>4. Moves(w)
  BY Zenon, <1>0, <1>1, <1>2, <1>3 DEF Moves, StepInv, LifeInv, Decreased, Signaling
<1>5. \A v \in WD : depsSatisfied'[v] => depsSatisfied[v]
  BY Zenon, <1>0 DEF Children, GroupTypeOK
<1> QED
  BY Zenon, <1>2, <1>3, <1>4, <1>5, QuietStep DEF Quiet, Preserved

\* exitWork() adds a signaler.
LEMMA InvReference ==
  ASSUME NEW w \in WD, Reference(w) PROVE Preserved
<1> SUFFICES ASSUME GroupInv PROVE GroupInv'
  BY DEF Preserved
<1>0. GroupTypeOK /\ StepInv(w) /\ LifeInv(w) /\ cond[w] \in Cond
  BY Zenon DEF GroupInv, GroupTypeOK
<1>1. parent[w] \in WD
  BY Zenon, <1>0 DEF Reference, Running, GroupTypeOK, LifeInv
<1>2. refcount' \in [WD -> Nat] /\ \A v \in WD :
        refcount'[v] = IF v = parent[w] THEN refcount[v] + 1 ELSE refcount[v]
  <2>1. refcount \in [WD -> Nat] /\ refcount' = [refcount EXCEPT ![parent[w]] = @ + 1]
    BY Zenon, <1>0 DEF Reference, GroupTypeOK
  <2> QED
    BY ONLY <1>1, <2>1
<1>3. GroupTypeOK'
  BY Zenon, <1>0, <1>2 DEF Reference, Goto, GroupTypeOK, PC
<1>4. /\ Others(w)
      /\ UNCHANGED <<parent, components, depsSatisfied, lock, waiter, state, cond, ret>>
  BY Zenon, <1>0 DEF Reference, Goto, GroupTypeOK, Others
<1>5. /\ state[w] = "running" /\ pc[w] = "reference" /\ pc'[w] = "decrease"
      /\ ret[w] = "body"
  BY Zenon, <1>0 DEF Reference, Running, Goto, GroupTypeOK, StepInv
<1>6. ASSUME NEW v \in WD PROVE StepInv(v)' /\ LifeInv(v)'
  <2>1. CASE v = w
    BY Zenon, <1>0, <1>4, <1>5, <2>1 DEF StepInv, LifeInv
  <2>2. CASE v # w
    BY Zenon, <1>4, <2>2, OthersKeep
  <2> QED
    BY Zenon, <2>1, <2>2
<1>7. ASSUME NEW v \in WD PROVE CountInv(v)'
  <2>1. \A u \in WD : Decreased(u)' <=> Decreased(u)
    BY Zenon, <1>4, <1>5 DEF Others, Decreased
  <2>2. Counted(v)' = Counted(v)
    BY Zenon, <1>4, <2>1 DEF Counted
  <2>3. \A u \in WD : (Signaling(u)' <=> Signaling(u) \/ u = w)
    BY Zenon, <1>4, <1>5 DEF Others, Signaling
  <2>4. ~Signaling(w)
    BY Zenon, <1>5 DEF Signaling
  <2>5. Signalers(v) \in SUBSET WD /\ CountInv(v)
    BY Zenon DEF Signalers, GroupInv
  <2>6. CASE v # parent[w]
    <3>1. Signalers(v)' = Signalers(v)
      BY Zenon, <1>4, <2>3, <2>6 DEF Signalers
    <3> QED
      BY Zenon, <1>2, <1>4, <2>2, <2>5, <2>6, <3>1 DEF CountInv
  <2>7. CASE v = parent[w]
    <3>1. Signalers(v)' = Signalers(v) \cup {w} /\ w \notin Signalers(v)
      BY Zenon, <1>4, <2>3, <2>4, <2>7 DEF Signalers
    <3>2. Cardinality(Signalers(v)') = Cardinality(Signalers(v)) + 1
      BY Zenon, <2>5, <3>1, OneMore
    <3> QED
      BY Zenon, <1>2, <1>4, <2>2, <2>5, <2>7, <3>2 DEF CountInv
  <2> QED
    BY Zenon, <2>6, <2>7
<1>8. ASSUME NEW v \in WD PROVE LockInv(v)'
  BY Zenon, <1>4, <1>5 DEF GroupInv, LockInv, Others
<1>9. ASSUME NEW k \in waiter' PROVE WaiterInv(k)'
  BY Zenon, <1>4, <1>5, WaitersKept
<1>10. NoLostSwitch' /\ NoLostWakeUp'
  <2>1. \A k \in Cond : Holds(k)' => Holds(k)
    BY Zenon, <1>4, HoldsSame
  <2>2. \A k \in Cond : ~SignalsOn(w, k)
    BY Zenon, <1>5 DEF SignalsOn
  <2> QED
    BY Zenon, <1>4, <1>5, <2>1, <2>2, SignalsKept
<1> QED
  BY Zenon, <1>3, <1>6, <1>7, <1>8, <1>9, <1>10 DEF GroupInv

\* exitWork() takes a child off the count; the last one goes on to signal().
LEMMA InvDecrease ==
  ASSUME NEW w \in WD, Decrease(w) PROVE Preserved
<1> SUFFICES ASSUME GroupInv PROVE GroupInv'
  BY DEF Preserved
<1>0. GroupTypeOK /\ StepInv(w) /\ LifeInv(w) /\ cond[w] \in Cond
  BY Zenon DEF GroupInv, GroupTypeOK
<1>1. parent[w] \in WD /\ components[parent[w]] > 0
  <2>0. state[w] = "running" /\ pc[w] = "decrease"
    BY Zenon DEF Decrease, Running
  <2>1. parent[w] \in WD
    BY Zenon, <1>0, <2>0 DEF GroupTypeOK, LifeInv
  <2>2. w \in Counted(parent[w]) /\ Counted(parent[w]) \in SUBSET WD
    BY Zenon, <1>0, <2>0 DEF Counted, Decreased, StepInv
  <2> QED
    BY Zenon, <2>1, <2>2, OneMore DEF GroupInv, CountInv
<1>2. components' \in [WD -> Nat] /\ \A v \in WD :
        components'[v] = IF v = parent[w] THEN components[v] - 1 ELSE components[v]
  <2>1. components \in [WD -> Nat] /\ components' = [components EXCEPT ![parent[w]] = @ - 1]
    BY Zenon, <1>0 DEF Decrease, GroupTypeOK
  <2> QED
    BY ONLY <1>1, <2>1
<1>3. ASSUME NEW v \in WD, components'[v] = 0
      PROVE  components[v] = 0 \/ (v = parent[w] /\ components[v] = 1)
  <2>1. components[v] \in Nat
    BY Zenon, <1>0 DEF GroupTypeOK
  <2> QED
    BY ONLY <1>2, <1>3, <2>1
<1>4. Others(w) /\ UNCHANGED <<parent, refcount, depsSatisfied, lock, waiter, state>>
  BY Zenon, <1>0 DEF Decrease, Goto, GroupTypeOK, Others
<1>5. /\ state[w] = "running" /\ pc[w] = "decrease" /\ ret[w] = "body"
      /\ IF components[parent[w]] = 1
           THEN pc'[w] = "sigLock" /\ ret'[w] = "unreference" /\ cond'[w] = Comp(parent[w])
           ELSE pc'[w] = "unreference" /\ ret'[w] = "body"
  BY ZenonT(60), <1>0 DEF Decrease, Running, Goto, GroupTypeOK, StepInv
<1>6. GroupTypeOK'
  <2>1. "sigLock" \in PC /\ "unreference" \in PC /\ Comp(parent[w]) \in Cond
    BY Zenon, <1>1, CondFacts DEF PC
  <2>2. pc' = [pc EXCEPT ![w] = "sigLock"] \/ pc' = [pc EXCEPT ![w] = "unreference"]
    BY Zenon DEF Decrease, Goto
  <2>3. ret' = [ret EXCEPT ![w] = "unreference"] \/ ret' = ret
    BY Zenon DEF Decrease
  <2>4. cond' = [cond EXCEPT ![w] = Comp(parent[w])] \/ cond' = cond
    BY Zenon DEF Decrease
  <2>5. pc' \in [WD -> PC] /\ ret' \in [WD -> PC]
    BY ZenonT(60), <1>0, <2>1, <2>2, <2>3 DEF GroupTypeOK
  <2>6. cond' \in [WD -> Cond]
    BY Zenon, <1>0, <2>1, <2>4 DEF GroupTypeOK
  <2> QED
    BY Zenon, <1>0, <1>2, <2>5, <2>6 DEF Decrease, GroupTypeOK
<1>7. ASSUME NEW v \in WD, components[v] = 0 PROVE components'[v] = 0
  BY ONLY <1>1, <1>2, <1>7
<1>8. ASSUME NEW v \in WD PROVE StepInv(v)' /\ LifeInv(v)'
  <2>1. CASE v = w
    <3>1. StepInv(w)'
      BY Zenon, <1>1, <1>4, <1>5 DEF StepInv
    <3>2. LifeInv(w)'
      BY Zenon, <1>0, <1>4, <1>5, <1>7 DEF LifeInv
    <3> QED
      BY Zenon, <2>1, <3>1, <3>2
  <2>2. CASE v # w
    BY Zenon, <1>4, <1>7, <2>2, OthersKeep
  <2> QED
    BY Zenon, <2>1, <2>2
<1>9. ASSUME NEW v \in WD PROVE CountInv(v)'
  <2>1. \A u \in WD \ {w} : (Decreased(u)' <=> Decreased(u)) /\ (Signaling(u)' <=> Signaling(u))
    BY Zenon, <1>4 DEF Others, Decreased, Signaling
  <2>2. Decreased(w)' /\ ~Decreased(w) /\ Signaling(w)' /\ Signaling(w)
    BY Zenon, <1>5 DEF Decreased, Signaling
  <2>3. Signalers(v)' = Signalers(v)
    <3>1. \A u \in WD : Signaling(u)' <=> Signaling(u)
      BY Zenon, <2>1, <2>2
    <3> QED
      BY Zenon, <1>4, <3>1 DEF Signalers
  <2>4. Counted(v) \in SUBSET WD /\ Counted(v)' \in SUBSET WD /\ CountInv(v)
    BY Zenon DEF Counted, GroupInv
  <2>5. \A u \in WD \ {w} : u \in Counted(v)' <=> u \in Counted(v)
    BY Zenon, <1>4, <2>1 DEF Counted
  <2>6. w \notin Counted(v)' /\ (w \in Counted(v) <=> v = parent[w])
    BY Zenon, <2>2 DEF Counted
  <2>7. CASE v # parent[w]
    <3>1. \A u \in WD : u \in Counted(v)' <=> u \in Counted(v)
      BY Zenon, <2>5, <2>6, <2>7
    <3>2. Counted(v)' = Counted(v)
      BY Zenon, <2>4, <3>1
    <3> QED
      BY Zenon, <1>2, <1>4, <2>3, <2>4, <2>7, <3>2 DEF CountInv
  <2>8. CASE v = parent[w]
    <3>1. Counted(v)' = Counted(v) \ {w} /\ w \in Counted(v)
      BY Zenon, <2>4, <2>5, <2>6, <2>8
    <3>2. Cardinality(Counted(v)') = Cardinality(Counted(v)) - 1
      BY Zenon, <2>4, <3>1, OneMore
    <3> QED
      BY Zenon, <1>2, <1>4, <2>3, <2>4, <2>8, <3>2 DEF CountInv
  <2> QED
    BY Zenon, <2>7, <2>8
<1>10. ASSUME NEW v \in WD PROVE LockInv(v)'
  BY Zenon, <1>4, <1>5 DEF GroupInv, LockInv, Others
<1>11. ASSUME NEW k \in waiter' PROVE WaiterInv(k)'
  BY Zenon, <1>4, <1>5, WaitersKept
<1>12. NoLostSwitch' /\ NoLostWakeUp'
  <2>1. ASSUME NEW k \in Cond, Holds(k)' PROVE Holds(k) \/ SignalsOn(w, k)'
    <3>1. CASE k = Comp(Owner(k))
      <4>1. components'[Owner(k)] = 0
        BY Zenon, <2>1, <3>1 DEF Holds
      <4>2. components[Owner(k)] = 0 \/ (Owner(k) = parent[w] /\ components[parent[w]] = 1)
        BY Zenon, <1>3, <4>1, CondFacts
      <4> QED
        BY Zenon, <1>5, <3>1, <4>2 DEF Holds, SignalsOn
    <3>2. CASE k # Comp(Owner(k))
      BY Zenon, <1>4, <2>1, <3>2 DEF Holds
    <3> QED
      BY Zenon, <3>1, <3>2
  <2>2. \A k \in Cond : ~SignalsOn(w, k)
    BY Zenon, <1>5 DEF SignalsOn
  <2>3. pc'[w] # "switch"
    BY Zenon, <1>5
  <2> QED
    BY Zenon, <1>4, <2>1, <2>2, <2>3, SignalsKept
<1> QED
  BY Zenon, <1>6, <1>8, <1>9, <1>10, <1>11, <1>12 DEF GroupInv

\* exitWork() ends.
LEMMA InvUnreference ==
  ASSUME NEW w \in WD, Unreference(w) PROVE Preserved
<1> SUFFICES ASSUME GroupInv PROVE GroupInv'
  BY DEF Preserved
<1>0. GroupTypeOK /\ StepInv(w) /\ LifeInv(w) /\ cond[w] \in Cond
  BY Zenon DEF GroupInv, GroupTypeOK
<1>1. parent[w] \in WD /\ refcount[parent[w]] > 0
  <2>1. parent[w] \in WD
    BY Zenon, <1>0 DEF Unreference, Running, GroupTypeOK, LifeInv
  <2>2. w \in Signalers(parent[w]) /\ Signalers(parent[w]) \in SUBSET WD
    BY Zenon DEF Unreference, Running, Signalers, Signaling
  <2> QED
    BY Zenon, <2>1, <2>2, OneMore DEF GroupInv, CountInv
<1>2. refcount' \in [WD -> Nat] /\ \A v \in WD :
        refcount'[v] = IF v = parent[w] THEN refcount[v] - 1 ELSE refcount[v]
  <2>1. refcount \in [WD -> Nat] /\ refcount' = [refcount EXCEPT ![parent[w]] = @ - 1]
    BY Zenon, <1>0 DEF Unreference, GroupTypeOK
  <2> QED
    BY ONLY <1>1, <2>1
<1>3. GroupTypeOK'
  BY Zenon, <1>0, <1>2 DEF Unreference, Goto, GroupTypeOK, PC
<1>4. /\ Others(w) /\ UNCHANGED <<components, depsSatisfied, lock, waiter, state, cond, ret>>
      /\ \A v \in WD \ {w} : parent'[v] = parent[v]
  BY Zenon, <1>0 DEF Unreference, Goto, GroupTypeOK, Others
<1>5. /\ state[w] = "running" /\ pc[w] = "unreference" /\ pc'[w] = "over"
      /\ parent'[w] = NoWD /\ ret[w] = "body"
  BY Zenon, <1>0 DEF Unreference, Running, Goto, GroupTypeOK, StepInv
<1>6. ASSUME NEW v \in WD PROVE StepInv(v)' /\ LifeInv(v)'
  <2>1. CASE v = w
    BY Zenon, <1>0, <1>4, <1>5, <2>1 DEF StepInv, LifeInv
  <2>2. CASE v # w
    BY Zenon, <1>4, <2>2, OthersKeep
  <2> QED
    BY Zenon, <2>1, <2>2
<1>7. ASSUME NEW v \in WD PROVE CountInv(v)'
  <2>1. \A u \in WD \ {w} : (Decreased(u)' <=> Decreased(u)) /\ (Signaling(u)' <=> Signaling(u))
    BY Zenon, <1>4 DEF Others, Decreased, Signaling
  <2>2. Decreased(w) /\ Signaling(w) /\ parent'[w] # v
    BY Zenon, <1>5, TaskGroupAssumption DEF Decreased, Signaling
  <2>3. Counted(v)' = Counted(v)
    BY Zenon, <1>4, <2>1, <2>2 DEF Counted
  <2>4. Signalers(v) \in SUBSET WD /\ CountInv(v)
    BY Zenon DEF Signalers, GroupInv
  <2>5. CASE v # parent[w]
    <3>1. Signalers(v)' = Signalers(v)
      BY Zenon, <1>4, <2>1, <2>2, <2>5 DEF Signalers
    <3> QED
      BY Zenon, <1>2, <1>4, <2>3, <2>4, <2>5, <3>1 DEF CountInv
  <2>6. CASE v = parent[w]
    <3>1. w \in Signalers(v) /\ w \notin Signalers(v)'
      BY Zenon, <2>2, <2>6 DEF Signalers
    <3>2. \A u \in WD \ {w} : u \in Signalers(v)' <=> u \in Signalers(v)
      BY Zenon, <1>4, <2>1 DEF Signalers
    <3>3. Signalers(v)' \in SUBSET WD
      BY Zenon DEF Signalers
    <3>4. Signalers(v)' = Signalers(v) \ {w}
      BY Zenon, <2>4, <3>1, <3>2, <3>3
    <3>5. Cardinality(Signalers(v)') = Cardinality(Signalers(v)) - 1
      BY Zenon, <2>4, <3>1, <3>4, OneMore
    <3> QED
      BY Zenon, <1>2, <1>4, <2>3, <2>4, <2>6, <3>5 DEF CountInv
  <2> QED
    BY Zenon, <2>5, <2>6
<1>8. ASSUME NEW v \in WD PROVE LockInv(v)'
  BY Zenon, <1>4, <1>5 DEF GroupInv, LockInv, Others
<1>9. ASSUME NEW k \in waiter' PROVE WaiterInv(k)'
  BY Zenon, <1>4, <1>5, WaitersKept
<1>10. NoLostSwitch' /\ NoLostWakeUp'
  <2>1. \A k \in Cond : Holds(k)' => Holds(k)
    BY Zenon, <1>4, HoldsSame
  <2>2. \A k \in Cond : ~SignalsOn(w, k)
    BY Zenon, <1>5 DEF SignalsOn
  <2> QED
    BY Zenon, <1>4, <1>5, <2>1, <2>2, SignalsKept
<1> QED
  BY Zenon, <1>3, <1>6, <1>7, <1>8, <1>9, <1>10 DEF GroupInv

\* A work descriptor is destroyed.
LEMMA InvDelete ==
  ASSUME NEW w \in WD, Delete(w) PROVE Preserved
<1> SUFFICES ASSUME GroupInv PROVE GroupInv'
  BY DEF Preserved
<1>0. GroupTypeOK /\ StepInv(w) /\ LifeInv(w) /\ LockInv(w) /\ cond[w] \in Cond
  BY Zenon DEF GroupInv, GroupTypeOK
<1>1. GroupTypeOK'
  BY Zenon, <1>0, CondFacts DEF Delete, GroupTypeOK, State
<1>2. Others(w) /\ UNCHANGED <<parent, components, refcount, depsSatisfied, lock, waiter, pc, cond, ret>>
  BY Zenon, <1>0 DEF Delete, Goto, GroupTypeOK, Others
<1>3. /\ state[w] = "running" /\ pc[w] = "over" /\ w # Root
      /\ state'[w] = "deleted" /\ \A v \in WD \ {w} : state'[v] = state[v]
  BY Zenon, <1>0, CondFacts DEF Delete, Running, Goto, GroupTypeOK, StepInv
<1>4. Moves(w)
  BY Zenon, <1>0, <1>1, <1>2, <1>3 DEF Moves, StepInv, LifeInv, Decreased, Signaling
<1>5. \A v \in WD : StepInv(v)' /\ LifeInv(v)' /\ CountInv(v)'
  BY Zenon, <1>3, <1>4, MovesKeep
<1>6. ASSUME NEW v \in WD PROVE LockInv(v)'
  BY Zenon, <1>2 DEF GroupInv, LockInv
<1>7. ASSUME NEW k \in waiter' PROVE WaiterInv(k)'
  BY Zenon, <1>2, <1>3, WaitersKept
<1>8. NoLostSwitch' /\ NoLostWakeUp'
  BY Zenon, <1>2 DEF GroupInv, NoLostSwitch, NoLostWakeUp, SignalsOn, Holds
<1> QED
  BY Zenon, <1>1, <1>5, <1>6, <1>7, <1>8 DEF GroupInv

\* A thread takes a work descriptor.
LEMMA InvDispatch ==
  ASSUME NEW w \in WD, Dispatch(w) PROVE Preserved
<1> SUFFICES ASSUME GroupInv PROVE GroupInv'
  BY DEF Preserved
<1>0. GroupTypeOK /\ StepInv(w) /\ LifeInv(w) /\ LockInv(w) /\ cond[w] \in Cond
  BY Zenon DEF GroupInv, GroupTypeOK
<1>1. GroupTypeOK'
  BY Zenon, <1>0, CondFacts DEF Dispatch, GroupTypeOK, State
<1>2. Others(w) /\ UNCHANGED <<parent, components, refcount, depsSatisfied, lock, waiter, pc, cond, ret>>
  BY Zenon, <1>0 DEF Dispatch, Goto, GroupTypeOK, Others
<1>3. /\ state[w] = "queued"
      /\ state'[w] = "running" /\ \A v \in WD \ {w} : state'[v] = state[v]
  BY Zenon, <1>0, CondFacts DEF Dispatch, Running, Goto, GroupTypeOK, StepInv
<1>4. Moves(w)
  BY Zenon, <1>0, <1>1, <1>2, <1>3 DEF Moves, StepInv, LifeInv, Decreased, Signaling
<1>5. \A v \in WD : StepInv(v)' /\ LifeInv(v)' /\ CountInv(v)'
  BY Zenon, <1>3, <1>4, MovesKeep
<1>6. ASSUME NEW v \in WD PROVE LockInv(v)'
  BY Zenon, <1>2 DEF GroupInv, LockInv
<1>7. ASSUME NEW k \in waiter' PROVE WaiterInv(k)'
  BY Zenon, <1>2, <1>3, WaitersKept
<1>8. NoLostSwitch' /\ NoLostWakeUp'
  BY Zenon, <1>2 DEF GroupInv, NoLostSwitch, NoLostWakeUp, SignalsOn, Holds
<1> QED
  BY Zenon, <1>1, <1>5, <1>6, <1>7, <1>8 DEF GroupInv

\* Every step of the specification preserves the invariant.
LEMMA InvNext == GroupInv /\ [GroupNext]_vars => GroupInv'
<1> SUFFICES ASSUME GroupInv, [GroupNext]_vars PROVE GroupInv'
  OBVIOUS
<1>1. CASE UNCHANGED vars
  <2> USE <1>1 DEF vars
  <2>1. GroupTypeOK' /\ NoLostWakeUp' /\ NoLostSwitch'
    BY Zenon DEF GroupInv, GroupTypeOK, NoLostWakeUp, NoLostSwitch, SignalsOn, Holds
  <2>2. ASSUME NEW w \in WD PROVE StepInv(w)' /\ LifeInv(w)' /\ LockInv(w)'
    BY Zenon DEF GroupInv, StepInv, LifeInv, LockInv
  <2>3. ASSUME NEW w \in WD PROVE CountInv(w)'
    BY Zenon DEF GroupInv, CountInv, Counted, Signalers, Decreased, Signaling
  <2>4. ASSUME NEW k \in waiter' PROVE WaiterInv(k)'
    BY Zenon DEF GroupInv, WaiterInv
  <2> QED
    BY SMTT(30), <2>1, <2>2, <2>3, <2>4 DEF GroupInv
<1>2. ASSUME NEW w \in WD, NEW c \in WD, Create(w, c) PROVE GroupInv'
  BY <1>2, InvCreate DEF Preserved
<1>3. ASSUME NEW w \in WD, NEW cs \in SUBSET WD, WaitOn(w, cs) PROVE GroupInv'
  BY <1>3, InvWaitOn DEF Preserved
<1>4. ASSUME NEW w \in WD, TaskWait(w) \/ Finish(w) \/ Shutdown(w) \/ Dispatch(w) PROVE GroupInv'
  BY <1>4, InvTaskWait, InvFinish, InvShutdown, InvDispatch DEF Preserved
<1>5. ASSUME NEW w \in WD, RuntimeStep(w) PROVE GroupInv'
  BY SMTT(30), <1>5, InvRelease, InvSatisfy, InvCheckTrue, InvCheckFalse, InvLock, InvUnlock, InvRecheck,
     InvBlock, InvDrain, InvSignalLock, InvSignalWake, InvChildren, InvReference, InvDecrease,
     InvUnreference, InvDelete DEF RuntimeStep, Preserved
<1> QED
  BY <1>1, <1>2, <1>3, <1>4, <1>5 DEF GroupNext

\* GroupInv holds in every reachable state, whatever the number of work
\* descriptors, threads and waits.
THEOREM GroupInductive == GroupSpec => []GroupInv
BY InvInit, InvNext, PTL DEF GroupSpec

\* Type correctness; in particular _components and _refcount never go below
\* zero.
THEOREM GroupTypeCorrect == GroupSpec => []GroupTypeOK
BY GroupInductive, PTL DEF GroupInv

\* No wake-up is lost between the check of waitOnCondition() and the switch.
THEOREM WakeUpsArrive == GroupSpec => []NoLostWakeUp
BY GroupInductive, PTL DEF GroupInv

\* A DOWait is never signalled after its work descriptor is destroyed.
THEOREM DOWaitIsAlive == GroupSpec => []DOWaitOutlivesSignal
<1>1. ASSUME GroupInv PROVE DOWaitOutlivesSignal
  <2> SUFFICES ASSUME NEW v \in WD, pc[v] \in {"satisfy", "sigLock", "sigWake"},
                      cond[v] = Deps(Owner(cond[v])), state[Owner(cond[v])] = "deleted"
               PROVE  FALSE
    BY SMTT(30) DEF DOWaitOutlivesSignal
  <2>1. cond[v] \in Cond /\ Owner(cond[v]) \in WD
    BY <1>1, CondFacts DEF GroupInv, GroupTypeOK
  <2>2. pc[Owner(cond[v])] = "over" /\ components[Owner(cond[v])] = 0
    BY SMTT(30), <1>1, <2>1 DEF GroupInv, LifeInv
  <2>3. Owner(cond[v]) # v
    BY Zenon, <2>2
  <2>4. parent[v] \in WD /\ cond[v] = Deps(parent[v]) /\ ret[v] = "children"
    BY ZenonT(30), <1>1, <2>1, <2>3, CondFacts DEF GroupInv, StepInv
  <2>5. Owner(cond[v]) = parent[v]
    BY ZenonT(30), <2>4, CondFacts
  <2>6. v \in Counted(parent[v]) /\ Counted(parent[v]) \in SUBSET WD
    BY SMTT(30), <2>4 DEF Counted, Decreased
  <2>7. Cardinality(Counted(parent[v])) > 0
    BY <2>6, OneMore, Zenon
  <2> QED
    <3>1. components[parent[v]] = Cardinality(Counted(parent[v]))
      BY <1>1, <2>4, Zenon DEF GroupInv, CountInv
    <3>2. Cardinality(Counted(parent[v])) = 0
      BY Zenon, <2>2, <2>5, <3>1
    <3> QED
      BY <2>7, <3>2
<1> QED
  BY <1>1, GroupInductive, PTL

\* When a taskwait returns, no child is inside exitWork() any more.
THEOREM TaskWaitSafe == GroupSpec => TaskWaitDrains
<1>1. ASSUME GroupInv, [GroupNext]_vars, NEW w \in WD, pc[w] = "drain", pc'[w] # "drain",
             NEW c \in WD, parent[c] = w
      PROVE  ~Signaling(c)
  <2>1. refcount[w] = 0
    <3> USE DEF Running, Goto
    <3>1. pc \in [WD -> PC]
      BY <1>1 DEF GroupInv, GroupTypeOK
    <3>2. ASSUME NEW v \in WD, ~Drain(v) PROVE ~RuntimeStep(v)
      <4>1. ~(Release(v) \/ Satisfy(v) \/ CheckTrue(v) \/ CheckFalse(v) \/ Lock(v) \/ Unlock(v))
        BY Zenon, <1>1, <3>1 DEF Release, Satisfy, CheckTrue, Waited, CheckFalse, Lock, Unlock
      <4>2. ~(Recheck(v) \/ Block(v) \/ SignalLock(v) \/ SignalWake(v) \/ Children(v))
        BY Zenon, <1>1, <3>1 DEF Recheck, Block, SignalLock, SignalWake, Children
      <4>3. ~(Reference(v) \/ Decrease(v) \/ Unreference(v) \/ Delete(v))
        BY Zenon, <1>1, <3>1 DEF Reference, Decrease, Unreference, Delete
      <4> QED
        BY Zenon, <3>2, <4>1, <4>2, <4>3 DEF RuntimeStep
    <3>3. ASSUME NEW v \in WD PROVE ~(TaskWait(v) \/ Finish(v) \/ Shutdown(v) \/ Dispatch(v))
      BY Zenon, <1>1, <3>1 DEF TaskWait, Finish, Shutdown, Dispatch
    <3>4. ASSUME NEW v \in WD, NEW x \in WD, NEW cs \in SUBSET WD
          PROVE  ~(Create(v, x) \/ WaitOn(v, cs))
      BY Zenon, <1>1, <3>1 DEF Create, WaitOn
    <3>5. PICK v \in WD : Drain(v)
      BY ZenonT(30), <1>1, <3>2, <3>3, <3>4 DEF GroupNext, vars
    <3> QED
      BY <1>1, <3>1, <3>5 DEF Drain
  <2>2. Signalers(w) \in SUBSET WD
    BY DEF Signalers
  <2>3. c \in Signalers(w) => Cardinality(Signalers(w)) > 0
    BY <2>2, OneMore, Zenon
  <2>4. c \notin Signalers(w)
    <3>1. refcount[w] = Cardinality(Signalers(w))
      BY <1>1, Zenon DEF GroupInv, CountInv
    <3> QED
      BY <2>1, <2>3, <3>1
  <2> QED
    BY <1>1, <2>4 DEF Signalers
<1>2. GroupInv /\ [GroupNext]_vars =>
        [\A w \in WD : pc[w] = "drain" /\ pc'[w] # "drain" =>
           \A c \in WD : parent[c] = w => ~Signaling(c)]_vars
  BY <1>1, Zenon
<1> QED
  BY <1>2, GroupInductive, PTL DEF GroupSpec, TaskWaitDrains
=============================================================================
