--------------------------- MODULE TeamConstructs ---------------------------
(***************************************************************************)
(* What the threads of a team synchronise with: the barrier the runtime    *)
(* was configured with, the single guards and the shared descriptors of    *)
(* the worksharing loops.  They have no state in common, so a behaviour is *)
(* one of any of them.                                                     *)
(***************************************************************************)
EXTENDS TeamSingle, CentralizedBarrier, OldCentralizedBarrier, TreeBarrier, WorkSharing

\* A team numbers its threads from 0, and has at least one
ASSUME TeamAssumption ==
  Participant = 0..(Cardinality(Participant) - 1)

VARIABLE construct  \* the construct of this behaviour

barrierState == <<entered, left, sem, flag, waiters, sense, sems, blocked, phase, barrierPc>>
tcVars == <<construct, tsVars, barrierState, wsVars>>

\* The state of the constructs that are not used
NoLoop ==
  /\ nths = 0 /\ kind = 0 /\ loops = 0 /\ linked = 0 /\ data = 0 /\ ready = 0
  /\ currentChunk = 0 /\ cur = 0 /\ lower = 0 /\ singles = 0 /\ items = 0 /\ wsPc = 0

NoCounter == sem = 0 /\ flag = 0 /\ waiters = 0 /\ sense = 0

NoTree == sems = 0 /\ blocked = 0 /\ phase = 0

NoBarrier == BarrierInit /\ NoCounter /\ NoTree /\ barrierPc = 0

TCInit ==
  /\ TSInit
  /\ \/ construct = "single" /\ NoBarrier /\ NoLoop
     \/ construct = "loop" /\ NoBarrier /\ WSInit
     \/ construct = "centralized" /\ CBInit /\ NoTree /\ NoLoop
     \/ construct = "old_centralized" /\ OCInit /\ sense = 0 /\ NoTree /\ NoLoop
     \/ construct = "tree" /\ TBInit /\ NoCounter /\ NoLoop

Use(c) ==
  /\ construct = c /\ UNCHANGED construct
  /\ c # "single" => UNCHANGED tsVars
  /\ c # "loop" => UNCHANGED wsVars
  /\ c \in {"single", "loop"} => UNCHANGED barrierState
  /\ c \in {"centralized", "old_centralized"} => UNCHANGED <<sems, blocked, phase>>
  /\ c = "old_centralized" => UNCHANGED sense
  /\ c = "tree" => UNCHANGED <<sem, flag, waiters, sense>>

TCNext ==
  \/ Use("single") /\ TSNext
  \/ Use("loop") /\ WSNext
  \/ Use("centralized") /\ CBNext
  \/ Use("old_centralized") /\ OCNext
  \/ Use("tree") /\ TBNext

\* A thread keeps running unless it is blocked
Step(t) ==
  \/ Use("single") /\ t \in Thread /\ InGuard(t)
  \/ Use("loop") /\ t < nths /\ ThreadStep(t)
  \/ Use("centralized") /\ InCentralized(t)
  \/ Use("old_centralized") /\ InOldCentralized(t)
  \/ Use("tree") /\ InTree(t)

TCFairness == \A t \in Participant : WF_tcVars(Step(t))

TCSpec == TCInit /\ [][TCNext]_tcVars /\ TCFairness

-----------------------------------------------------------------------------

\* The reductions of the team are computed while every other participant is
\* inside the same barrier, and in the two-phase barrier, which releases them
\* first, before any of them returns.
ReductionsInBarrier ==
  /\ construct = "centralized" => ReductionAlone
  /\ construct = "old_centralized" => ReductionBeforeReturn

\* Everyone comes out of the barriers, of the single constructs and of the
\* loops: the last to arrive releases the others, the initialisation is
\* declared complete, and the descriptor a thread waits for is published.
EveryoneLeaves == AllLeave /\ WaitsEnd /\ (construct = "loop" => LoopsEnd)
=============================================================================
