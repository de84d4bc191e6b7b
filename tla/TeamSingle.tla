----------------------------- MODULE TeamSingle -----------------------------
(***************************************************************************)
(* The single guards of a team.  The threads of a team run the same        *)
(* sequence of constructs: a single (singleGuard) or a synchronised        *)
(* initialisation (enter, release and wait of SingleBarrierGuard).  Each   *)
(* thread counts the guards it has passed, one for a single and two for an *)
(* initialisation, and the team counts the ones that have been taken.      *)
(***************************************************************************)
EXTENDS Integers

CONSTANTS
  Thread,
  Last,   \* guards in the sequence of constructs (bound)
  Kind    \* the construct that starts at a count; "second" is the second guard
          \* of an initialisation

ASSUME TeamSingleAssumption ==
  /\ Last \in Nat
  /\ Kind \in [0..Last -> {"single", "init", "second", "end"}]
  /\ Kind[0] # "second"
  /\ \A n \in 0..Last : Kind[n] = "end" <=> n = Last
  /\ \A n \in 0..(Last - 1) : Kind[n + 1] = "second" <=> Kind[n] = "init"

VARIABLES
  singleGuardCount,  \* ThreadTeam::_singleGuardCount
  singleCount,       \* TeamData::_singleCount of each thread
  pc,
  read,              \* what a thread read to increment the count of the team
  won,               \* won[n]: the threads a guard has let in
  initialised        \* the constructs whose initialisation is complete

tsVars == <<singleGuardCount, singleCount, pc, read, won, initialised>>

Count == 0..Last
PC == {"out", "single", "enter", "init", "load", "store", "wait"}

TSInit ==
  /\ singleGuardCount = 0
  /\ singleCount = [t \in Thread |-> 0]
  /\ pc = [t \in Thread |-> "out"]
  /\ read = [t \in Thread |-> 0]
  /\ won = [n \in Count |-> {}]
  /\ initialised = {}

Goto(t, step) == pc' = [pc EXCEPT ![t] = step]

NextSingleGuard(t) ==
  /\ pc[t] = "out" /\ Kind[singleCount[t]] = "single"
  /\ singleCount' = [singleCount EXCEPT ![t] = @ + 1]
  /\ Goto(t, "single")
  /\ UNCHANGED <<singleGuardCount, read, won, initialised>>

\* The first check of builds without atomic operations refuses the threads
\* whose compareAndSwap would fail
SingleGuard_OffByOne(t) ==
  /\ pc[t] = "single"
  /\ IF singleGuardCount <= singleCount[t]
       THEN /\ singleGuardCount' = singleCount[t]
            /\ won' = [won EXCEPT ![singleCount[t] - 1] = @ \cup {t}]
       ELSE UNCHANGED <<singleGuardCount, won>>
  /\ Goto(t, "out")
  /\ UNCHANGED <<singleCount, read, initialised>>

SingleGuard(t) ==
  /\ pc[t] = "single"
  /\ IF singleGuardCount = singleCount[t] - 1
       THEN /\ singleGuardCount' = singleCount[t]
            /\ won' = [won EXCEPT ![singleCount[t] - 1] = @ \cup {t}]
       ELSE UNCHANGED <<singleGuardCount, won>>
  /\ Goto(t, "out")
  /\ UNCHANGED <<singleCount, read, initialised>>

NextSingleBarrierGuard(t) ==
  /\ pc[t] = "out" /\ Kind[singleCount[t]] = "init"
  /\ singleCount' = [singleCount EXCEPT ![t] = @ + 2]
  /\ Goto(t, "enter")
  /\ UNCHANGED <<singleGuardCount, read, won, initialised>>

EnterSingleBarrierGuard_Once(t) ==
  /\ pc[t] = "enter"
  /\ IF singleGuardCount = singleCount[t] - 2
       THEN /\ singleGuardCount' = singleCount[t]
            /\ won' = [won EXCEPT ![singleCount[t] - 2] = @ \cup {t}]
            /\ Goto(t, "init")
       ELSE Goto(t, "wait") /\ UNCHANGED <<singleGuardCount, won>>
  /\ UNCHANGED <<singleCount, read, initialised>>

EnterSingleBarrierGuard(t) ==
  /\ pc[t] = "enter"
  /\ IF singleGuardCount = singleCount[t] - 2
       THEN /\ singleGuardCount' = singleCount[t] - 1
            /\ won' = [won EXCEPT ![singleCount[t] - 2] = @ \cup {t}]
            /\ Goto(t, "init")
       ELSE Goto(t, "wait") /\ UNCHANGED <<singleGuardCount, won>>
  /\ UNCHANGED <<singleCount, read, initialised>>

\* The thread let in initialises
Initialise(t) ==
  /\ pc[t] = "init"
  /\ initialised' = initialised \cup {singleCount[t] - 2}
  /\ Goto(t, "load")
  /\ UNCHANGED <<singleGuardCount, singleCount, read, won>>

\* and increments the count, which builds without atomic operations do with a
\* load and a store
ReleaseLoad(t) ==
  /\ pc[t] = "load"
  /\ read' = [read EXCEPT ![t] = singleGuardCount]
  /\ Goto(t, "store")
  /\ UNCHANGED <<singleGuardCount, singleCount, won, initialised>>

ReleaseStore_Never(t) ==
  /\ pc[t] = "store"
  /\ Goto(t, "out")
  /\ UNCHANGED <<singleGuardCount, singleCount, read, won, initialised>>

ReleaseStore(t) ==
  /\ pc[t] = "store"
  /\ singleGuardCount' = read[t] + 1
  /\ Goto(t, "out")
  /\ UNCHANGED <<singleCount, read, won, initialised>>

WaitSingleBarrierGuard(t) ==
  /\ pc[t] = "wait" /\ singleCount[t] <= singleGuardCount
  /\ Goto(t, "out")
  /\ UNCHANGED <<singleGuardCount, singleCount, read, won, initialised>>

InGuard(t) ==
  \/ SingleGuard(t) \/ EnterSingleBarrierGuard(t) \/ Initialise(t)
  \/ ReleaseLoad(t) \/ ReleaseStore(t) \/ WaitSingleBarrierGuard(t)

TSNext ==
  \E t \in Thread : NextSingleGuard(t) \/ NextSingleBarrierGuard(t) \/ InGuard(t)

TSSpec == TSInit /\ [][TSNext]_tsVars

\* A thread inside a guard keeps running
TSFairSpec == TSSpec /\ \A t \in Thread : WF_tsVars(InGuard(t))

-----------------------------------------------------------------------------

TSTypeOK ==
  /\ singleGuardCount \in Count /\ singleCount \in [Thread -> Count]
  /\ pc \in [Thread -> PC]
  /\ read \in [Thread -> Count]
  /\ won \in [Count -> SUBSET Thread] /\ initialised \subseteq Count

\* Every construct a thread has passed has let in exactly one thread of the
\* team, however far apart the threads are.
OneWinner ==
  \A t \in Thread : \A n \in Count :
    pc[t] = "out" /\ n < singleCount[t] /\ Kind[n] # "second" =>
      \E u \in Thread : won[n] = {u}

\* A thread that has passed an initialisation finds it complete.
InitialisedWhenPassed ==
  \A t \in Thread : \A n \in Count :
    pc[t] = "out" /\ n < singleCount[t] /\ Kind[n] = "init" => n \in initialised

\* The count of the team does not change between the load and the store of its
\* increment, and never goes back.
CountGrows == [][singleGuardCount' \in {singleGuardCount, singleGuardCount + 1}]_tsVars

\* A thread that waits for an initialisation goes on.
WaitsEnd == \A t \in Thread : pc[t] = "wait" ~> pc[t] = "out"

-----------------------------------------------------------------------------

\* Where the construct a thread is in starts, and how far the team is at least
ThreadInv(t) ==
  /\ pc[t] = "out" => Kind[singleCount[t]] # "second" /\ singleCount[t] <= singleGuardCount
  /\ pc[t] = "single" =>
       /\ singleCount[t] >= 1 /\ Kind[singleCount[t] - 1] = "single"
       /\ singleCount[t] - 1 <= singleGuardCount
  /\ pc[t] \notin {"out", "single"} =>
       /\ singleCount[t] >= 2 /\ Kind[singleCount[t] - 2] = "init"
       /\ singleCount[t] - 2 <= singleGuardCount
  /\ pc[t] = "wait" => singleCount[t] - 1 <= singleGuardCount
  /\ pc[t] \in {"init", "load", "store"} => singleGuardCount = singleCount[t] - 1
  /\ pc[t] \in {"load", "store"} => singleCount[t] - 2 \in initialised
  /\ pc[t] = "store" => read[t] = singleGuardCount

Holder(t) == pc[t] \in {"init", "load", "store"}

\* What the count of the team says of the constructs
ConstructInv(n) ==
  /\ n >= singleGuardCount => won[n] = {}
  /\ n < singleGuardCount /\ Kind[n] # "second" => \E u \in Thread : won[n] = {u}
  /\ n + 2 <= singleGuardCount /\ Kind[n] = "init" => n \in initialised

TSInv ==
  /\ TSTypeOK
  /\ \A t \in Thread : ThreadInv(t)
  /\ \A n \in Count : ConstructInv(n)
  /\ \A t, u \in Thread : Holder(t) /\ Holder(u) => t = u
  /\ Kind[singleGuardCount] = "second" => \E t \in Thread : Holder(t)
=============================================================================
