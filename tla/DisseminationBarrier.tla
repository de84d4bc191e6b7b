------------------------ MODULE DisseminationBarrier ------------------------
(***************************************************************************)
(* DisseminationBarrier: in step s participant i signals the participant   *)
(* 2^s places after it and waits to be signalled.  One semaphore per       *)
(* participant, 0 or -1 when signalled, serves all the steps.              *)
(***************************************************************************)
EXTENDS Integers

CONSTANTS NumParticipants, Rounds

Participant == 0..(NumParticipants - 1)

\* _q, the logarithm of the number of participants, rounded up
Q == CHOOSE q \in 0..NumParticipants :
       2^q >= NumParticipants /\ \A r \in 0..(q - 1) : 2^r < NumParticipants

Cond == {0, -1}
NoOne == -1

VARIABLES
  entered, left,  \* barriers each participant has entered and left
  semaphores,     \* _semaphores
  waiter,         \* waiter[c][i]: blocked until the semaphore of i is c; the
                  \* condition has room for one (SingleSyncCond)
  asleep,         \* the participants that are blocked
  s, pc

dbVars == <<entered, left, semaphores, waiter, asleep, s, pc>>

DBInit ==
  /\ entered = [i \in Participant |-> 0] /\ left = [i \in Participant |-> 0]
  /\ semaphores = [i \in Participant |-> 0]
  /\ waiter = [c \in Cond |-> [i \in Participant |-> NoOne]]
  /\ asleep = {}
  /\ s = [i \in Participant |-> 0]
  /\ pc = [i \in Participant |-> "out"]

ToSign(i) == (i + 2^s[i]) % NumParticipants

Step(i, from, to) == pc[i] = from /\ pc' = [pc EXCEPT ![i] = to]

Enter(i) ==
  /\ entered[i] < Rounds
  /\ Step(i, "out", "loop")
  /\ entered' = [entered EXCEPT ![i] = @ + 1]
  /\ s' = [s EXCEPT ![i] = 0]
  /\ UNCHANGED <<left, semaphores, waiter, asleep>>

Loop(i) ==
  /\ IF s[i] < Q
       THEN Step(i, "loop", "waitZero") /\ UNCHANGED left
       ELSE Step(i, "loop", "out") /\ left' = [left EXCEPT ![i] = @ + 1]
  /\ UNCHANGED <<entered, semaphores, waiter, asleep, s>>

\* _syncCondsZero[j] and _syncCondsMone[j]: wait() ...
Waited(i, c, j) ==
  /\ semaphores[j] = c /\ i \notin asleep
  /\ UNCHANGED <<entered, left, semaphores, waiter, asleep, s>>

Block(i, c, j) ==
  /\ pc[i] = (IF c = 0 THEN "waitZero" ELSE "waitMone")
  /\ i \notin asleep /\ semaphores[j] # c
  /\ waiter' = [waiter EXCEPT ![c][j] = i]
  /\ asleep' = asleep \cup {i}
  /\ UNCHANGED <<entered, left, semaphores, s, pc>>

\* ... and signal()
Signal(c, j) ==
  /\ waiter' = [waiter EXCEPT ![c][j] = NoOne]
  /\ asleep' = asleep \ {waiter[c][j]}

WaitedZero(i) == Step(i, "waitZero", "down") /\ Waited(i, 0, ToSign(i))

Down(i) ==
  /\ Step(i, "down", "signalMone")
  /\ semaphores' = [semaphores EXCEPT ![ToSign(i)] = @ - 1]
  /\ UNCHANGED <<entered, left, waiter, asleep, s>>

SignalMone(i) ==
  /\ Step(i, "signalMone", "waitMone") /\ Signal(-1, ToSign(i))
  /\ UNCHANGED <<entered, left, semaphores, s>>

WaitedMone(i) == Step(i, "waitMone", "up") /\ Waited(i, -1, i)

Up(i) ==
  /\ Step(i, "up", "signalZero")
  /\ semaphores' = [semaphores EXCEPT ![i] = @ + 1]
  /\ UNCHANGED <<entered, left, waiter, asleep, s>>

SignalZero(i) ==
  /\ Step(i, "signalZero", "loop") /\ Signal(0, i)
  /\ s' = [s EXCEPT ![i] = @ + 1]
  /\ UNCHANGED <<entered, left, semaphores>>

DBNext ==
  \E i \in Participant :
    \/ Enter(i) \/ Loop(i)
    \/ Block(i, 0, ToSign(i)) \/ WaitedZero(i) \/ Down(i) \/ SignalMone(i)
    \/ Block(i, -1, i) \/ WaitedMone(i) \/ Up(i) \/ SignalZero(i)

DBSpec == DBInit /\ [][DBNext]_dbVars

-----------------------------------------------------------------------------

\* "When it returns it guarantees that all participants have reached the
\* barrier" (Barrier::barrier()).
AllReached ==
  \A i, j \in Participant : entered[j] >= left[i]
=============================================================================
