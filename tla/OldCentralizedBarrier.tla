----------------------- MODULE OldCentralizedBarrier -----------------------
(***************************************************************************)
(* OldCentralizedBarrier: one counter that the participants raise, and     *)
(* lower again in a second phase before anyone returns.                    *)
(***************************************************************************)
EXTENDS BarrierCall

ocVars == <<entered, left, sem, flag, waiters, barrierPc>>

OCInit ==
  /\ entered = [p \in Participant |-> 0] /\ left = [p \in Participant |-> 0]
  /\ sem = 0 /\ flag = FALSE
  /\ waiters = [b \in BOOLEAN |-> {}]
  /\ barrierPc = [p \in Participant |-> "out"]

Leave(p) == left' = [left EXCEPT ![p] = @ + 1]

\* First phase: the last to arrive sets the flag and signals
Arrive(p) ==
  /\ entered[p] < Rounds
  /\ entered' = [entered EXCEPT ![p] = @ + 1]
  /\ sem' = sem + 1
  /\ BarrierStep(p, "out", IF sem' = N THEN "raise" ELSE "waitTrue")
  /\ UNCHANGED <<left, flag, waiters>>

RaiseFlag(p) ==
  /\ BarrierStep(p, "raise", "signalTrue")
  /\ flag' = TRUE
  /\ UNCHANGED <<entered, left, sem, waiters>>

SignalTrue(p) ==
  /\ BarrierStep(p, "signalTrue", "reduce")
  /\ waiters' = [waiters EXCEPT ![TRUE] = {}]
  /\ UNCHANGED <<entered, left, sem, flag>>

\* computeVectorReductions(), after the others have been released
OCReduce(p) ==
  /\ BarrierStep(p, "reduce", "lower")
  /\ UNCHANGED <<entered, left, sem, flag, waiters>>

WaitedTrue(p) ==
  /\ flag /\ p \notin waiters[TRUE]
  /\ BarrierStep(p, "waitTrue", "lower")
  /\ UNCHANGED <<entered, left, sem, flag, waiters>>

\* Second phase: the last to leave resets the flag and signals
Lower_NoSecondPhase(p) ==
  /\ sem' = sem - 1
  /\ IF sem' = 0
       THEN BarrierStep(p, "lower", "reset") /\ UNCHANGED left
       ELSE BarrierStep(p, "lower", "out") /\ Leave(p)
  /\ UNCHANGED <<entered, flag, waiters>>

Lower(p) ==
  /\ sem' = sem - 1
  /\ BarrierStep(p, "lower", IF sem' = 0 THEN "reset" ELSE "waitFalse")
  /\ UNCHANGED <<entered, left, flag, waiters>>

ResetFlag(p) ==
  /\ BarrierStep(p, "reset", "signalFalse")
  /\ flag' = FALSE
  /\ UNCHANGED <<entered, left, sem, waiters>>

SignalFalse_Never(p) ==
  /\ BarrierStep(p, "signalFalse", "out") /\ Leave(p)
  /\ UNCHANGED <<entered, sem, flag, waiters>>

SignalFalse(p) ==
  /\ BarrierStep(p, "signalFalse", "out") /\ Leave(p)
  /\ waiters' = [waiters EXCEPT ![FALSE] = {}]
  /\ UNCHANGED <<entered, sem, flag>>

WaitedFalse(p) ==
  /\ ~flag /\ p \notin waiters[FALSE]
  /\ BarrierStep(p, "waitFalse", "out") /\ Leave(p)
  /\ UNCHANGED <<entered, sem, flag, waiters>>

\* Either wait() blocks when its condition does not hold
OCBlock(p, b) ==
  /\ barrierPc[p] = (IF b THEN "waitTrue" ELSE "waitFalse") /\ p \notin waiters[b]
  /\ flag # b
  /\ waiters' = [waiters EXCEPT ![b] = @ \cup {p}]
  /\ UNCHANGED <<entered, left, sem, flag, barrierPc>>

InOldCentralized(p) ==
  \/ RaiseFlag(p) \/ SignalTrue(p) \/ OCReduce(p) \/ WaitedTrue(p)
  \/ Lower(p) \/ ResetFlag(p) \/ SignalFalse(p) \/ WaitedFalse(p)
  \/ \E b \in BOOLEAN : OCBlock(p, b)

OCNext == \E p \in Participant : Arrive(p) \/ InOldCentralized(p)

OCSpec == OCInit /\ [][OCNext]_ocVars

\* A participant inside barrier() keeps running unless it is blocked
OCFairSpec == OCSpec /\ \A p \in Participant : WF_ocVars(InOldCentralized(p))

-----------------------------------------------------------------------------

\* The reductions are computed after the others were released, and yet before
\* anyone returns from the barrier: that is what the second phase is for.
ReductionBeforeReturn ==
  \A p \in Participant : barrierPc[p] = "reduce" =>
    \A q \in Participant : entered[q] = entered[p] /\ left[q] < entered[p]
=============================================================================
