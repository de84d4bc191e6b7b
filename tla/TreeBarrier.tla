---------------------------- MODULE TreeBarrier ----------------------------
(***************************************************************************)
(* TreeBarrier: participant i waits for its children 2i+1 and 2i+2, tells  *)
(* its parent, waits for its parent and tells its children.  A message is  *)
(* the sender's phase, which counts the barriers modulo 3.                 *)
(***************************************************************************)
EXTENDS BarrierCall  \* the participants are 0..Cardinality(Participant)-1

Cond == {"left", "right", "parent"}

VARIABLES
  sems,           \* _sems[i]: the last message of each neighbour
  blocked,        \* blocked[i]: the condition i is blocked on, if any
  phase           \* _sems[i].phase

tbVars == <<entered, left, sems, blocked, phase, barrierPc>>

TBInit ==
  /\ entered = [i \in Participant |-> 0] /\ left = [i \in Participant |-> 0]
  /\ sems = [i \in Participant |-> [c \in Cond |-> 0]]
  /\ blocked = [i \in Participant |-> {}]
  /\ phase = [i \in Participant |-> 1]
  /\ barrierPc = [i \in Participant |-> "out"]

Parent(i) == (i - 1) \div 2

Side(i) == IF 2 * Parent(i) + 1 = i THEN "left" ELSE "right"

Child(i, c) == IF c = "left" THEN 2 * i + 1 ELSE 2 * i + 2

TBEnter(i) ==
  /\ entered[i] < Rounds
  /\ BarrierStep(i, "out", "left")
  /\ entered' = [entered EXCEPT ![i] = @ + 1]
  /\ UNCHANGED <<left, sems, blocked, phase>>

\* A leaf waits for no child, and the root for no parent
MustWait(i, c) == IF c = "parent" THEN i # 0 ELSE Child(i, c) \in Participant

\* What follows each wait: the root has no parent to tell
After(i, c) ==
  IF c = "left" THEN "right"
  ELSE IF c = "parent" THEN "tellLeft"
  ELSE IF i # 0 THEN "tellParent" ELSE "parent"

TBWaited(i, c) ==
  /\ MustWait(i, c) => sems[i][c] = phase[i] /\ c \notin blocked[i]
  /\ BarrierStep(i, c, After(i, c))
  /\ UNCHANGED <<entered, left, sems, blocked, phase>>

TBBlock(i, c) ==
  /\ barrierPc[i] = c /\ MustWait(i, c)
  /\ c \notin blocked[i] /\ sems[i][c] # phase[i]
  /\ blocked' = [blocked EXCEPT ![i] = @ \cup {c}]
  /\ UNCHANGED <<entered, left, sems, phase, barrierPc>>

\* The message is stored, and signalled as a step of its own
Tell(i, j, c) == sems' = [sems EXCEPT ![j][c] = phase[i]]

TBSignal(j, c) == blocked' = [blocked EXCEPT ![j] = @ \ {c}]

TellParent(i) ==
  /\ BarrierStep(i, "tellParent", "signalParent")
  /\ Tell(i, Parent(i), Side(i))
  /\ UNCHANGED <<entered, left, blocked, phase>>

SignalParent_Never(i) ==
  /\ BarrierStep(i, "signalParent", "parent")
  /\ UNCHANGED <<entered, left, sems, blocked, phase>>

SignalParent(i) ==
  /\ BarrierStep(i, "signalParent", "parent")
  /\ TBSignal(Parent(i), Side(i))
  /\ UNCHANGED <<entered, left, sems, phase>>

TellChild(i, c) ==
  LET here == IF c = "left" THEN "tellLeft" ELSE "tellRight"
      next == IF c = "left" THEN "tellRight" ELSE "advance"
  IN /\ IF Child(i, c) \in Participant
          THEN /\ BarrierStep(i, here, IF c = "left" THEN "signalLeft" ELSE "signalRight")
               /\ Tell(i, Child(i, c), "parent")
          ELSE BarrierStep(i, here, next) /\ UNCHANGED sems
     /\ UNCHANGED <<entered, left, blocked, phase>>

SignalChild(i, c) ==
  /\ IF c = "left" THEN BarrierStep(i, "signalLeft", "tellRight")
                   ELSE BarrierStep(i, "signalRight", "advance")
  /\ TBSignal(Child(i, c), "parent")
  /\ UNCHANGED <<entered, left, sems, phase>>

\* "The phase assumes values in [0,2]": it changes before barrier() returns
Advance_Never(i) ==
  /\ BarrierStep(i, "advance", "out")
  /\ left' = [left EXCEPT ![i] = @ + 1]
  /\ UNCHANGED <<entered, sems, blocked, phase>>

Advance(i) ==
  /\ BarrierStep(i, "advance", "out")
  /\ phase' = [phase EXCEPT ![i] = (@ + 1) % 3]
  /\ left' = [left EXCEPT ![i] = @ + 1]
  /\ UNCHANGED <<entered, sems, blocked>>

InTree(i) ==
  \/ \E c \in Cond : TBWaited(i, c) \/ TBBlock(i, c)
  \/ TellParent(i) \/ SignalParent(i)
  \/ \E c \in {"left", "right"} : TellChild(i, c) \/ SignalChild(i, c)
  \/ Advance(i)

TBNext == \E i \in Participant : TBEnter(i) \/ InTree(i)

TBSpec == TBInit /\ [][TBNext]_tbVars

\* A participant inside barrier() keeps running unless it is blocked
TBFairSpec == TBSpec /\ \A i \in Participant : WF_tbVars(InTree(i))
=============================================================================
