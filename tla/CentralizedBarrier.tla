------------------------- MODULE CentralizedBarrier -------------------------
(***************************************************************************)
(* CentralizedBarrier: a counter and a flag that changes sense at each     *)
(* barrier.  A condition's wait() checks, and blocks when the condition is *)
(* false under its lock; signal() wakes up all who blocked (module         *)
(* TaskGroup models both in detail).                                       *)
(***************************************************************************)
EXTENDS BarrierCall

VARIABLE sense    \* the value of the flag the participant is to see

cbVars == <<entered, left, sem, flag, waiters, sense, barrierPc>>

CBInit ==
  /\ entered = [p \in Participant |-> 0] /\ left = [p \in Participant |-> 0]
  /\ sem = 0 /\ flag = FALSE
  /\ waiters = [b \in BOOLEAN |-> {}]
  /\ sense = [p \in Participant |-> TRUE]
  /\ barrierPc = [p \in Participant |-> "out"]

CBGoto(p, step) == barrierPc' = [barrierPc EXCEPT ![p] = step]

\* The flag tells which of the two branches is taken
CBEnter(p) ==
  /\ barrierPc[p] = "out" /\ entered[p] < Rounds
  /\ entered' = [entered EXCEPT ![p] = @ + 1]
  /\ sense' = [sense EXCEPT ![p] = ~flag]
  /\ CBGoto(p, "count")
  /\ UNCHANGED <<left, sem, flag, waiters>>

CBCount_OneEarly(p) ==
  /\ barrierPc[p] = "count"
  /\ sem' = sem + 1
  /\ CBGoto(p, IF sem' >= N - 1 THEN "reduce" ELSE "wait")
  /\ UNCHANGED <<entered, left, flag, waiters, sense>>

CBCount(p) ==
  /\ barrierPc[p] = "count"
  /\ sem' = sem + 1
  /\ CBGoto(p, IF sem' = N THEN "reduce" ELSE "wait")
  /\ UNCHANGED <<entered, left, flag, waiters, sense>>

\* The last one computes the reductions of the team, resets the counter,
CBReduce_NoReset(p) ==
  /\ barrierPc[p] = "reduce"
  /\ CBGoto(p, "flag")
  /\ UNCHANGED <<entered, left, sem, flag, waiters, sense>>

CBReduce(p) ==
  /\ barrierPc[p] = "reduce"
  /\ sem' = 0
  /\ CBGoto(p, "flag")
  /\ UNCHANGED <<entered, left, flag, waiters, sense>>

\* changes the flag
SetFlag(p) ==
  /\ barrierPc[p] = "flag"
  /\ flag' = sense[p]
  /\ CBGoto(p, "signal")
  /\ UNCHANGED <<entered, left, sem, waiters, sense>>

\* and signals the others
CBSignal(p) ==
  /\ barrierPc[p] = "signal"
  /\ waiters' = [waiters EXCEPT ![sense[p]] = {}]
  /\ left' = [left EXCEPT ![p] = @ + 1]
  /\ CBGoto(p, "out")
  /\ UNCHANGED <<entered, sem, flag, sense>>

CBBlock(p) ==
  /\ barrierPc[p] = "wait" /\ p \notin waiters[sense[p]]
  /\ flag # sense[p]
  /\ waiters' = [waiters EXCEPT ![sense[p]] = @ \cup {p}]
  /\ UNCHANGED <<entered, left, sem, flag, sense, barrierPc>>

CBWaited(p) ==
  /\ barrierPc[p] = "wait" /\ p \notin waiters[sense[p]]
  /\ flag = sense[p]
  /\ left' = [left EXCEPT ![p] = @ + 1]
  /\ CBGoto(p, "out")
  /\ UNCHANGED <<entered, sem, flag, waiters, sense>>

InCentralized(p) ==
  CBCount(p) \/ CBReduce(p) \/ SetFlag(p) \/ CBSignal(p) \/ CBBlock(p) \/ CBWaited(p)

CBNext == \E p \in Participant : CBEnter(p) \/ InCentralized(p)

CBSpec == CBInit /\ [][CBNext]_cbVars

\* A participant inside barrier() keeps running unless it is blocked
CBFairSpec == CBSpec /\ \A p \in Participant : WF_cbVars(InCentralized(p))

-----------------------------------------------------------------------------

\* The reductions of the team are computed while every other participant is
\* inside the same barrier.
ReductionAlone ==
  \A p \in Participant : barrierPc[p] = "reduce" =>
    \A q \in Participant \ {p} : entered[q] = entered[p] /\ left[q] < entered[p]
=============================================================================
