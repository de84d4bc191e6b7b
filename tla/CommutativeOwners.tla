-------------------------- MODULE CommutativeOwners --------------------------
(***************************************************************************)
(* The owners of commutative accesses.  Sibling tasks that name the same   *)
(* address as commutative may run in any order but not at the same time:   *)
(* the parent keeps one owner pointer for each such address, and a task is *)
(* runnable only when it owns every one of its own.  A target is one of    *)
(* these owner pointers; comm[w] is the list a task got from               *)
(* initCommutativeAccesses.                                                *)
(*                                                                         *)
(* tryAcquireCommutativeAccesses takes the targets in order, one           *)
(* compare-and-swap each, with no lock over the whole attempt: attempts of *)
(* different tasks, made by threads that hold the locks of different       *)
(* queues, interleave.  A task that fails gives back what it took, and one *)
(* that ends releases all it has, by a store to one pointer after another. *)
(* The stores do not look at the owner.                                    *)
(*                                                                         *)
(* A task names no target twice.  initCommutativeAccesses would list a     *)
(* target twice for a task that does, and the second store of a release    *)
(* could then clear the pointer after another task has taken it.           *)
(***************************************************************************)
EXTENDS WorkDescriptors, Integers, Sequences

CONSTANT Target  \* owner pointers

VARIABLES
  comm,    \* comm[w]: _commutativeOwners, fixed when the task is submitted
  owner,   \* owner[x]: the task the pointer holds, or NoWD
  got,     \* got[w]: targets the attempt under way has, or the release has cleared
  active,  \* tasks that were started and have not begun to release their targets
  failed,  \* tasks whose attempt has failed and that still give targets back
  leaving  \* tasks that have released some of their targets and not all

ownerVars == <<comm, owner, got, active, failed, leaving>>

Targets(w) == {comm[w][i] : i \in 1..Len(comm[w])}

NamedOnce(s) == \A i, j \in 1..Len(s) : s[i] = s[j] => i = j

OwnersInit ==
  /\ comm \in [WD -> {s \in Seq(Target) : NamedOnce(s)}]
  /\ owner = [x \in Target |-> NoWD]
  /\ got = [w \in WD |-> 0]
  /\ active \in SUBSET {w \in WD : comm[w] = <<>>}
  /\ failed = {} /\ leaving = {}

Trying(w) == w \notin active \union failed \union leaving /\ got[w] < Len(comm[w])

\* The pointer is null, or already the task's own: on to the next one.
TakeTarget(w) ==
  /\ Trying(w)
  /\ LET x == comm[w][got[w] + 1] IN
       /\ owner[x] \in {NoWD, w}
       /\ owner' = [owner EXCEPT ![x] = w]
  /\ got' = [got EXCEPT ![w] = @ + 1]
  /\ UNCHANGED <<comm, active, failed, leaving>>

\* Mutant: the target that could not be taken is given back too.
Refused_AlsoFailed(w) ==
  /\ Trying(w)
  /\ owner[comm[w][got[w] + 1]] \notin {NoWD, w}
  /\ failed' = failed \union {w}
  /\ got' = [got EXCEPT ![w] = @ + 1]
  /\ UNCHANGED <<comm, owner, active, leaving>>

\* The pointer is another task's: every target before it is to be given back.
Refused(w) ==
  /\ Trying(w)
  /\ owner[comm[w][got[w] + 1]] \notin {NoWD, w}
  /\ failed' = IF got[w] = 0 THEN failed ELSE failed \union {w}
  /\ UNCHANGED <<comm, owner, got, active, leaving>>

\* Mutant: the attempt forgets how many targets it has left.
GiveBack_NoReset(w) ==
  /\ w \in failed
  /\ owner' = [owner EXCEPT ![comm[w][got[w]]] = NoWD]
  /\ failed' = failed \ {w}
  /\ UNCHANGED <<comm, got, active, leaving>>

\* One of them, the last one first.
GiveBack(w) ==
  /\ w \in failed
  /\ owner' = [owner EXCEPT ![comm[w][got[w]]] = NoWD]
  /\ got' = [got EXCEPT ![w] = @ - 1]
  /\ failed' = IF got[w] = 1 THEN failed \ {w} ELSE failed
  /\ UNCHANGED <<comm, active, leaving>>

\* All taken, but the task is not started now: a later constraint refuses the
\* thread, or the task is handed over as an immediate successor.  It keeps
\* its targets, and the next attempt finds them its own.
KeepTargets(w) ==
  /\ w \notin active /\ got[w] = Len(comm[w])
  /\ got' = [got EXCEPT ![w] = 0]
  /\ UNCHANGED <<comm, owner, active, failed, leaving>>

StartOwning(w) ==
  /\ w \notin active /\ got[w] = Len(comm[w])
  /\ active' = active \union {w}
  /\ got' = [got EXCEPT ![w] = 0]
  /\ UNCHANGED <<comm, owner, failed, leaving>>

\* Attempts made without the lock of a queue, for a task that no queue holds:
\* no other attempt is under way for it, and all its targets are taken or, when
\* one is another task's, none.  The task keeps them, or is started.
CanOwn(w) ==
  /\ w \notin failed \union leaving
  /\ \A x \in Targets(w) : owner[x] \in {NoWD, w}
Acquired(w) == [x \in Target |-> IF x \in Targets(w) THEN w ELSE owner[x]]

AcquireAll(w) ==
  /\ CanOwn(w)
  /\ owner' = Acquired(w)
  /\ UNCHANGED <<comm, got, active, failed, leaving>>

StartAll(w) ==
  /\ CanOwn(w)
  /\ owner' = Acquired(w)
  /\ active' = active \union {w}
  /\ got' = [got EXCEPT ![w] = 0]
  /\ UNCHANGED <<comm, failed, leaving>>

\* releaseCommutativeAccesses clears the pointers of the list one by one, whoever
\* owns them.
ReleaseTarget(w) ==
  /\ w \in active \union leaving
  /\ active' = active \ {w}
  /\ owner' = IF comm[w] = <<>> THEN owner
              ELSE [owner EXCEPT ![comm[w][got[w] + 1]] = NoWD]
  /\ IF got[w] + 1 < Len(comm[w])
     THEN got' = [got EXCEPT ![w] = @ + 1] /\ leaving' = leaving \union {w}
     ELSE got' = [got EXCEPT ![w] = 0] /\ leaving' = leaving \ {w}
  /\ UNCHANGED <<comm, failed>>

OwnersNext == \E w \in WD : \/ TakeTarget(w)
                            \/ Refused(w)
                            \/ GiveBack(w)
                            \/ KeepTargets(w)
                            \/ StartOwning(w)
                            \/ AcquireAll(w)
                            \/ StartAll(w)
                            \/ ReleaseTarget(w)

OwnersSpec == OwnersInit /\ [][OwnersNext]_ownerVars

\* Tasks that name a common commutative target are never under way at the same
\* time ("exclusive access", tryAcquireCommutativeAccesses): not even when one
\* of them is blocked in a taskwait, and although a release clears pointers, one
\* after the other, without looking at who owns them.
CommutativeExclusive ==
  \A v, w \in active : v # w => Targets(v) \intersect Targets(w) = {}

(***************************************************************************)
(* Why CommutativeExclusive holds: a task under way owns all its targets,  *)
(* one that releases them owns those it has not cleared yet, and an        *)
(* attempt, also a failed one, owns those it has taken and not given back. *)
(* So GiveBack and ReleaseTarget clear only what is the task's own.        *)
(***************************************************************************)
OwnersInv ==
  /\ comm \in [WD -> Seq(Target)] /\ \A w \in WD : NamedOnce(comm[w])
  /\ owner \in [Target -> WD \union {NoWD}]
  /\ got \in [WD -> Nat] /\ \A w \in WD : got[w] <= Len(comm[w])
  /\ active \subseteq WD /\ failed \subseteq WD /\ leaving \subseteq WD
  /\ active \intersect failed = {} /\ leaving \intersect (active \union failed) = {}
  /\ \A w \in failed \union leaving : got[w] \in 1..(Len(comm[w]) - 1)
  /\ \A w \in active : got[w] = 0
  /\ \A w \in active \union leaving :
       \A i \in (got[w] + 1)..Len(comm[w]) : owner[comm[w][i]] = w
  /\ \A w \in WD \ (active \union leaving) :
       \A i \in 1..got[w] : owner[comm[w][i]] = w
=============================================================================
