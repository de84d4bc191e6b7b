------------------------------ MODULE Barrier ------------------------------
(***************************************************************************)
(* What Barrier::barrier() promises: "When it returns it guarantees that   *)
(* all participants have reached the barrier".                             *)
(***************************************************************************)
EXTENDS Integers, FiniteSets

CONSTANTS Participant,  \* the threads of the team
          Rounds        \* bound on the barriers each of them goes through

ASSUME BarrierAssumption ==
  IsFiniteSet(Participant) /\ Participant # {} /\ Rounds \in Nat

VARIABLES entered,      \* calls of barrier() a participant has made
          left          \* calls it has returned from

barrierVars == <<entered, left>>

BarrierInit ==
  /\ entered = [p \in Participant |-> 0]
  /\ left = [p \in Participant |-> 0]

BarrierEnter(p) ==
  /\ entered[p] = left[p] /\ entered[p] < Rounds
  /\ entered' = [entered EXCEPT ![p] = @ + 1]
  /\ UNCHANGED left

BarrierLeave(p) ==
  /\ left[p] < entered[p]
  /\ \A q \in Participant : entered[q] >= entered[p]
  /\ left' = [left EXCEPT ![p] = @ + 1]
  /\ UNCHANGED entered

BarrierNext == \E p \in Participant : BarrierEnter(p) \/ BarrierLeave(p)

\* barrier() returns only when every participant has entered it, barrier after
\* barrier, although the fast ones enter the next while the slow ones are still
\* in the last.
BarrierSpec == BarrierInit /\ [][BarrierNext]_barrierVars

\* Nobody stays inside: again and again there is no participant in a barrier
\* that everyone has entered.
AllLeave ==
  []<>(\A p \in Participant : \E q \in Participant : entered[q] <= left[p])
=============================================================================
