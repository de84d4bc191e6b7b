---------------------------- MODULE BarrierCall ----------------------------
(***************************************************************************)
(* What the implementations of Barrier have in common: where a call of     *)
(* barrier() is, and the counter and the flag of the centralized ones.     *)
(***************************************************************************)
EXTENDS Barrier

VARIABLES
  sem, flag,      \* _sem, _flag
  waiters,        \* waiters[b]: blocked until the flag is b
  barrierPc

N == Cardinality(Participant)

BarrierStep(p, from, to) == barrierPc[p] = from /\ barrierPc' = [barrierPc EXCEPT ![p] = to]
=============================================================================
