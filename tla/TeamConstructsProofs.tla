------------------------ MODULE TeamConstructsProofs ------------------------
(***************************************************************************)
(* The barriers implement Barrier, their reductions are computed inside    *)
(* it, and a single guard has one winner, for any team and any sequence of *)
(* constructs.                                                             *)
(***************************************************************************)
EXTENDS TeamConstructs, FiniteSetTheorems, WellFoundedInduction, TLAPS

-----------------------------------------------------------------------------
\* The single guards: TSInv is inductive and implies what they promise

\* A construct never starts at the second guard of another one, nor ends past
\* the last guard.
LEMMA KindFacts ==
  /\ 0 \in Count /\ Count \subseteq Nat
  /\ \A n \in Count : Kind[n] \in {"single", "init", "second", "end"}
  /\ \A n \in Count : Kind[n] # "end" => n + 1 \in Count
  /\ \A n \in Count : Kind[n] = "single" => n + 1 \in Count /\ Kind[n + 1] # "second"
  /\ \A n \in Count : Kind[n] = "init" =>
       /\ n + 1 \in Count /\ Kind[n + 1] = "second"
       /\ n + 2 \in Count /\ Kind[n + 2] # "second"
  /\ \A n \in Count : Kind[n] = "second" => n >= 1 /\ n - 1 \in Count /\ Kind[n - 1] = "init"
<1> USE TeamSingleAssumption DEF Count
<1>1. 0 \in Count /\ Count \subseteq Nat
  OBVIOUS
<1>2. \A n \in Count : Kind[n] \in {"single", "init", "second", "end"}
  OBVIOUS
<1>3. \A n \in Count : Kind[n] # "end" => n + 1 \in Count
  OBVIOUS
<1>4. \A n \in Count : Kind[n] = "single" => n + 1 \in Count /\ Kind[n + 1] # "second"
  OBVIOUS
<1>5. \A n \in Count : Kind[n] = "init" => n + 1 \in Count /\ Kind[n + 1] = "second"
  OBVIOUS
<1>6. \A n \in Count : Kind[n] = "second" => n + 1 \in Count /\ Kind[n + 1] # "second"
  OBVIOUS
<1>7. \A n \in Count : Kind[n] = "init" => n + 2 \in Count /\ Kind[n + 2] # "second"
  <2> TAKE n \in Count
  <2> HAVE Kind[n] = "init"
  <2>1. n + 1 \in Count /\ Kind[n + 1] = "second"
    BY <1>5
  <2>2. (n + 1) + 1 \in Count /\ Kind[(n + 1) + 1] # "second"
    BY <2>1, <1>6
  <2>3. (n + 1) + 1 = n + 2
    OBVIOUS
  <2> QED
    BY <2>2, <2>3
<1>8. \A n \in Count : Kind[n] = "second" => n >= 1 /\ n - 1 \in Count /\ Kind[n - 1] = "init"
  <2> TAKE n \in Count
  <2> HAVE Kind[n] = "second"
  <2>1. n # 0 /\ n - 1 \in 0..(Last - 1) /\ (n - 1) + 1 = n
    OBVIOUS
  <2> QED
    BY <2>1
<1> QED
  BY <1>1, <1>2, <1>3, <1>4, <1>5, <1>7, <1>8

\* The guards of the construct a thread is in.
LEMMA ThreadFacts ==
  ASSUME TSInv, NEW t \in Thread
  PROVE  /\ Last \in Nat
         /\ singleCount[t] \in 0..Last /\ singleGuardCount \in 0..Last
         /\ ThreadInv(t)
         /\ pc[t] = "single" =>
              singleCount[t] - 1 \in 0..Last /\ Kind[singleCount[t]] # "second"
         /\ pc[t] \notin {"out", "single"} =>
              /\ singleCount[t] - 2 \in 0..Last
              /\ Kind[singleCount[t] - 1] = "second" /\ Kind[singleCount[t]] # "second"
<1>1. /\ Last \in Nat /\ singleCount[t] \in 0..Last /\ singleGuardCount \in 0..Last
      /\ ThreadInv(t)
  BY TeamSingleAssumption DEF TSInv, TSTypeOK, Count
<1>2. ASSUME pc[t] = "single"
      PROVE  singleCount[t] - 1 \in 0..Last /\ Kind[singleCount[t]] # "second"
  <2>1. /\ singleCount[t] - 1 \in Count /\ Kind[singleCount[t] - 1] = "single"
        /\ (singleCount[t] - 1) + 1 = singleCount[t]
    BY <1>1, <1>2 DEF ThreadInv, Count
  <2>2. Kind[(singleCount[t] - 1) + 1] # "second"
    BY Zenon, <2>1, KindFacts
  <2> QED
    BY <2>1, <2>2 DEF Count
<1>3. ASSUME pc[t] \notin {"out", "single"}
      PROVE  /\ singleCount[t] - 2 \in 0..Last
             /\ Kind[singleCount[t] - 1] = "second" /\ Kind[singleCount[t]] # "second"
  <2>1. /\ singleCount[t] - 2 \in Count /\ Kind[singleCount[t] - 2] = "init"
        /\ (singleCount[t] - 2) + 1 = singleCount[t] - 1
        /\ (singleCount[t] - 2) + 2 = singleCount[t]
    BY <1>1, <1>3 DEF ThreadInv, Count
  <2>2. Kind[(singleCount[t] - 2) + 1] = "second" /\ Kind[(singleCount[t] - 2) + 2] # "second"
    BY Zenon, <2>1, KindFacts
  <2> QED
    BY <2>1, <2>2 DEF Count
<1> QED
  BY <1>1, <1>2, <1>3

\* The count of a thread that has just started a construct, and the team that
\* has not taken its guard yet.
LEMMA InvNextSingleGuard ==
  ASSUME TSInv, NEW t \in Thread, NextSingleGuard(t) PROVE TSInv'
<1>1. ASSUME NEW u \in Thread PROVE ThreadInv(u)'
  <2>1. UNCHANGED <<singleGuardCount, read, initialised>> /\ ThreadInv(u)
    BY Zenon DEF TSInv, NextSingleGuard
  <2>2. CASE u # t
    <3>1. pc'[u] = pc[u] /\ singleCount'[u] = singleCount[u]
      BY Zenon, <2>2 DEF TSInv, TSTypeOK, NextSingleGuard, Goto
    <3> QED
      BY Zenon, <2>1, <3>1 DEF ThreadInv
  <2>3. CASE u = t
    <3>1. /\ pc'[t] = "single" /\ singleCount'[t] = singleCount[t] + 1
          /\ singleCount[t] \in Count /\ pc[t] = "out" /\ Kind[singleCount[t]] = "single"
      BY Zenon DEF TSInv, TSTypeOK, NextSingleGuard, Goto
    <3>2. singleCount[t] \in Nat /\ singleCount[t] <= singleGuardCount
      BY Zenon, <2>1, <2>3, <3>1, KindFacts DEF ThreadInv
    <3>3. singleCount'[t] >= 1 /\ singleCount'[t] - 1 = singleCount[t]
      BY ONLY <3>1, <3>2
    <3> QED
      BY Zenon, <2>1, <2>3, <3>1, <3>2, <3>3 DEF ThreadInv
  <2> QED
    BY Zenon, <2>2, <2>3
<1> USE KindFacts, ThreadFacts, TeamSingleAssumption DEF Count, PC, TSInv, NextSingleGuard, Goto
<1>2. TSTypeOK'
  BY Zenon DEF TSTypeOK, ThreadInv
<1>3. ASSUME NEW n \in Count PROVE ConstructInv(n)'
  BY DEF ConstructInv
<1>4. (\A u, v \in Thread : Holder(u) /\ Holder(v) => u = v)'
  BY DEF TSTypeOK, Holder
<1>5. (Kind[singleGuardCount] = "second" => \E u \in Thread : Holder(u))'
  BY DEF TSTypeOK, Holder
<1> QED
  BY <1>1, <1>2, <1>3, <1>4, <1>5

\* An initialisation takes two guards.
LEMMA InvNextSingleBarrierGuard ==
  ASSUME TSInv, NEW t \in Thread, NextSingleBarrierGuard(t) PROVE TSInv'
<1>1. ASSUME NEW u \in Thread PROVE ThreadInv(u)'
  <2>1. UNCHANGED <<singleGuardCount, read, initialised>> /\ ThreadInv(u)
    BY Zenon DEF TSInv, NextSingleBarrierGuard
  <2>2. CASE u # t
    <3>1. pc'[u] = pc[u] /\ singleCount'[u] = singleCount[u]
      BY Zenon, <2>2 DEF TSInv, TSTypeOK, NextSingleBarrierGuard, Goto
    <3> QED
      BY Zenon, <2>1, <3>1 DEF ThreadInv
  <2>3. CASE u = t
    <3>1. /\ pc'[t] = "enter" /\ singleCount'[t] = singleCount[t] + 2
          /\ singleCount[t] \in Count /\ pc[t] = "out" /\ Kind[singleCount[t]] = "init"
      BY Zenon DEF TSInv, TSTypeOK, NextSingleBarrierGuard, Goto
    <3>2. singleCount[t] \in Nat /\ singleCount[t] <= singleGuardCount
      BY Zenon, <2>1, <2>3, <3>1, KindFacts DEF ThreadInv
    <3>3. singleCount'[t] >= 2 /\ singleCount'[t] - 2 = singleCount[t]
      BY ONLY <3>1, <3>2
    <3> QED
      BY Zenon, <2>1, <2>3, <3>1, <3>2, <3>3 DEF ThreadInv
  <2> QED
    BY Zenon, <2>2, <2>3
<1> USE KindFacts, ThreadFacts, TeamSingleAssumption DEF Count, PC, TSInv, NextSingleBarrierGuard, Goto
<1>2. TSTypeOK'
  BY Zenon DEF TSTypeOK, ThreadInv
<1>3. ASSUME NEW n \in Count PROVE ConstructInv(n)'
  BY Zenon DEF ConstructInv
<1>4. (\A u, v \in Thread : Holder(u) /\ Holder(v) => u = v)'
  BY Zenon DEF TSTypeOK, Holder
<1>5. (Kind[singleGuardCount] = "second" => \E u \in Thread : Holder(u))'
  BY DEF TSTypeOK, Holder
<1> QED
  BY Zenon, <1>1, <1>2, <1>3, <1>4, <1>5

\* A step that takes the first guard of a construct lets in the thread that
\* takes it and leaves the other constructs alone.
LEMMA Taken ==
  ASSUME TSInv, NEW t \in Thread,
         singleGuardCount + 1 \in Count, Kind[singleGuardCount] \in {"single", "init"},
         singleGuardCount' = singleGuardCount + 1,
         won' = [won EXCEPT ![singleGuardCount] = @ \cup {t}], initialised' = initialised,
         NEW n \in Count
  PROVE  ConstructInv(n)'
<1>1. /\ singleGuardCount \in Nat /\ n \in Nat /\ singleGuardCount \in Count /\ ConstructInv(n)
      /\ won \in [Count -> SUBSET Thread]
  BY KindFacts DEF TSInv, TSTypeOK
<1>2. CASE n = singleGuardCount
  <2>1. won[n] = {} /\ won'[n] = {t}
    BY <1>1, <1>2 DEF ConstructInv
  <2> QED
    BY <1>1, <1>2, <2>1 DEF ConstructInv
<1>3. CASE n # singleGuardCount
  <2>1. won'[n] = won[n]
    BY <1>1, <1>3
  <2>2. ~(n + 2 = singleGuardCount + 1 /\ Kind[n] = "init")
    <3>1. ASSUME n + 2 = singleGuardCount + 1, Kind[n] = "init" PROVE FALSE
      <4>1. n + 1 = singleGuardCount
        BY <1>1, <3>1
      <4>2. Kind[n + 1] = "second"
        BY <3>1, KindFacts
      <4> QED
        BY <4>1, <4>2
    <3> QED
      BY <3>1
  <2> QED
    BY <1>1, <1>3, <2>1, <2>2 DEF ConstructInv
<1> QED
  BY <1>2, <1>3

\* The thread whose compareAndSwap succeeds is the only one the guard lets in,
\* and no initialisation is being made meanwhile.
LEMMA InvSingleGuard ==
  ASSUME TSInv, NEW t \in Thread, SingleGuard(t) PROVE TSInv'
<1> USE DEF Goto, Count, PC
<1>0. /\ Last \in Nat /\ singleCount[t] \in 0..Last /\ singleCount[t] - 1 \in 0..Last
      /\ Kind[singleCount[t] - 1] = "single" /\ Kind[singleCount[t]] # "second"
      /\ singleGuardCount \in 0..Last /\ singleCount[t] - 1 <= singleGuardCount
  BY ThreadFacts DEF SingleGuard, ThreadInv
<1>1. TSTypeOK'
  <2>1. CASE singleGuardCount = singleCount[t] - 1
    <3>1. singleGuardCount' \in Count
      BY <1>0, <2>1 DEF SingleGuard
    <3>2. won' \in [Count -> SUBSET Thread]
      BY <2>1 DEF TSInv, TSTypeOK, SingleGuard
    <3> QED
      BY <2>1, <3>1, <3>2 DEF TSInv, TSTypeOK, SingleGuard
  <2>2. CASE singleGuardCount # singleCount[t] - 1
    BY <2>2 DEF TSInv, TSTypeOK, SingleGuard
  <2> QED
    BY <2>1, <2>2
<1>2. singleGuardCount = singleCount[t] - 1 => \A u \in Thread : ~Holder(u)
  <2> SUFFICES ASSUME NEW u \in Thread, Holder(u), singleGuardCount = singleCount[t] - 1 PROVE FALSE
    BY Zenon
  <2>1. Kind[singleCount[u] - 1] = "second" /\ singleGuardCount = singleCount[u] - 1
    BY ThreadFacts DEF Holder, ThreadInv
  <2> QED
    BY <1>0, <2>1
<1>3. ASSUME NEW u \in Thread PROVE ThreadInv(u)'
  <2>1. /\ ThreadInv(u) /\ singleCount[u] \in 0..Last /\ pc[t] = "single"
        /\ pc \in [Thread -> PC]
    BY ThreadFacts DEF TSInv, TSTypeOK, SingleGuard
  <2>2. CASE singleGuardCount = singleCount[t] - 1
    <3>1. ~Holder(u) /\ singleGuardCount' = singleGuardCount + 1
      BY <1>0, <1>2, <2>2 DEF SingleGuard
    <3> QED
      BY <1>0, <2>1, <2>2, <3>1 DEF ThreadInv, Holder, SingleGuard
  <2>3. CASE singleGuardCount # singleCount[t] - 1
    BY <1>0, <2>1, <2>3 DEF ThreadInv, SingleGuard
  <2> QED
    BY <2>2, <2>3
<1>4. ASSUME NEW n \in Count PROVE ConstructInv(n)'
  <2>1. CASE singleGuardCount = singleCount[t] - 1
    <3>1. /\ singleGuardCount' = singleGuardCount + 1 /\ singleGuardCount + 1 \in Count
          /\ won' = [won EXCEPT ![singleGuardCount] = @ \cup {t}] /\ initialised' = initialised
          /\ Kind[singleGuardCount] \in {"single", "init"}
      BY <1>0, <2>1 DEF SingleGuard
    <3> QED
      BY Zenon, <3>1, Taken
  <2>2. CASE singleGuardCount # singleCount[t] - 1
    BY <2>2 DEF TSInv, SingleGuard, ConstructInv
  <2> QED
    BY <2>1, <2>2
<1>5. ASSUME NEW u \in Thread PROVE Holder(u)' <=> Holder(u)
  BY DEF TSInv, TSTypeOK, Holder, SingleGuard
<1>6. (Kind[singleGuardCount] = "second" => \E u \in Thread : Holder(u))'
  BY <1>0, <1>5 DEF TSInv, SingleGuard
<1>7. (\A u, v \in Thread : Holder(u) /\ Holder(v) => u = v)'
  BY <1>5, Zenon DEF TSInv
<1> QED
  BY <1>1, <1>3, <1>4, <1>6, <1>7, Zenon DEF TSInv

\* The thread let in stops the count halfway, so that nobody else passes.
LEMMA InvEnterSingleBarrierGuard ==
  ASSUME TSInv, NEW t \in Thread, EnterSingleBarrierGuard(t) PROVE TSInv'
<1> USE DEF Goto, Count, PC
<1>0. /\ Last \in Nat /\ singleCount[t] \in 0..Last /\ singleCount[t] - 2 \in 0..Last
      /\ Kind[singleCount[t] - 2] = "init" /\ Kind[singleCount[t] - 1] = "second"
      /\ singleGuardCount \in 0..Last /\ singleCount[t] - 2 <= singleGuardCount
  BY ThreadFacts DEF EnterSingleBarrierGuard, ThreadInv
<1>1. TSTypeOK'
  <2>1. CASE singleGuardCount = singleCount[t] - 2
    <3>1. singleGuardCount' \in Count
      BY <1>0, <2>1 DEF EnterSingleBarrierGuard
    <3>2. won' \in [Count -> SUBSET Thread]
      BY <2>1 DEF TSInv, TSTypeOK, EnterSingleBarrierGuard
    <3> QED
      BY Zenon, <2>1, <3>1, <3>2 DEF TSInv, TSTypeOK, EnterSingleBarrierGuard
  <2>2. CASE singleGuardCount # singleCount[t] - 2
    BY <2>2 DEF TSInv, TSTypeOK, EnterSingleBarrierGuard
  <2> QED
    BY <2>1, <2>2
<1>2. singleGuardCount = singleCount[t] - 2 => \A u \in Thread : ~Holder(u)
  <2> SUFFICES ASSUME NEW u \in Thread, Holder(u), singleGuardCount = singleCount[t] - 2 PROVE FALSE
    BY Zenon
  <2>1. Kind[singleCount[u] - 1] = "second" /\ singleGuardCount = singleCount[u] - 1
    BY ThreadFacts DEF Holder, ThreadInv
  <2> QED
    BY <1>0, <2>1
<1>3. ASSUME NEW u \in Thread PROVE ThreadInv(u)'
  <2>1. /\ ThreadInv(u) /\ singleCount[u] \in 0..Last /\ pc[t] = "enter"
        /\ pc \in [Thread -> PC]
    BY ThreadFacts DEF TSInv, TSTypeOK, EnterSingleBarrierGuard
  <2>2. CASE singleGuardCount = singleCount[t] - 2
    <3>1. ~Holder(u) /\ singleGuardCount' = singleGuardCount + 1
      BY <1>0, <1>2, <2>2 DEF EnterSingleBarrierGuard
    <3> QED
      BY <1>0, <2>1, <2>2, <3>1 DEF ThreadInv, Holder, EnterSingleBarrierGuard
  <2>3. CASE singleGuardCount # singleCount[t] - 2
    BY <1>0, <2>1, <2>3 DEF ThreadInv, EnterSingleBarrierGuard
  <2> QED
    BY <2>2, <2>3
<1>4. ASSUME NEW n \in Count PROVE ConstructInv(n)'
  <2>1. CASE singleGuardCount = singleCount[t] - 2
    <3>1. /\ singleGuardCount' = singleGuardCount + 1 /\ singleGuardCount + 1 \in Count
          /\ won' = [won EXCEPT ![singleGuardCount] = @ \cup {t}] /\ initialised' = initialised
          /\ Kind[singleGuardCount] \in {"single", "init"}
      BY <1>0, <2>1 DEF EnterSingleBarrierGuard
    <3> QED
      BY Zenon, <3>1, Taken
  <2>2. CASE singleGuardCount # singleCount[t] - 2
    BY <2>2 DEF TSInv, EnterSingleBarrierGuard, ConstructInv
  <2> QED
    BY <2>1, <2>2
<1>5. CASE singleGuardCount = singleCount[t] - 2
  <2>1. ASSUME NEW u \in Thread PROVE Holder(u)' <=> u = t
    BY <1>2, <1>5 DEF TSInv, TSTypeOK, Holder, EnterSingleBarrierGuard
  <2>2. (\A u, v \in Thread : Holder(u) /\ Holder(v) => u = v)' /\ \E u \in Thread : Holder(u)'
    BY <2>1, Zenon
  <2> QED
    BY <1>1, <1>3, <1>4, <2>2, Zenon DEF TSInv
<1>6. CASE singleGuardCount # singleCount[t] - 2
  <2>1. ASSUME NEW u \in Thread PROVE Holder(u)' <=> Holder(u)
    BY <1>6 DEF TSInv, TSTypeOK, Holder, EnterSingleBarrierGuard
  <2>2. (\A u, v \in Thread : Holder(u) /\ Holder(v) => u = v)'
    BY <2>1, Zenon DEF TSInv
  <2>3. singleGuardCount' = singleGuardCount
    BY <1>6 DEF EnterSingleBarrierGuard
  <2>4. (Kind[singleGuardCount] = "second" => \E u \in Thread : Holder(u))'
    BY <2>1, <2>3 DEF TSInv
  <2> QED
    BY <1>1, <1>3, <1>4, <2>2, <2>4, Zenon DEF TSInv
<1> QED
  BY <1>5, <1>6

\* Initialising and the load of the increment change nothing the others see.
LEMMA InvInitialise ==
  ASSUME TSInv, NEW t \in Thread, Initialise(t) \/ ReleaseLoad(t) PROVE TSInv'
<1> USE DEF Goto, Count, PC, Initialise, ReleaseLoad
<1>0. singleCount[t] - 2 \in 0..Last
  BY ThreadFacts
<1>1. TSTypeOK'
  BY Zenon, <1>0 DEF TSInv, TSTypeOK
<1>2. ASSUME NEW u \in Thread PROVE ThreadInv(u)'
  <2>1. ThreadInv(u) /\ ThreadInv(t) /\ pc \in [Thread -> PC]
    BY DEF TSInv, TSTypeOK
  <2>2. CASE Initialise(t)
    BY <2>1, <2>2 DEF ThreadInv
  <2>3. CASE ReleaseLoad(t)
    <3>1. read \in [Thread -> Count]
      BY DEF TSInv, TSTypeOK
    <3> QED
      BY <2>1, <2>3, <3>1 DEF ThreadInv
  <2> QED
    BY <2>2, <2>3
<1>3. ASSUME NEW n \in Count PROVE ConstructInv(n)'
  BY DEF TSInv, ConstructInv
<1>4. ASSUME NEW u \in Thread PROVE Holder(u)' <=> Holder(u)
  BY DEF TSInv, TSTypeOK, Holder
<1>5. (Kind[singleGuardCount] = "second" => \E u \in Thread : Holder(u))'
  BY <1>4 DEF TSInv
<1>6. (\A u, v \in Thread : Holder(u) /\ Holder(v) => u = v)'
  BY <1>4, Zenon DEF TSInv
<1> QED
  BY <1>1, <1>2, <1>3, <1>5, <1>6, Zenon DEF TSInv

\* Only the thread let in increments the count past the second guard.
LEMMA InvReleaseStore ==
  ASSUME TSInv, NEW t \in Thread, ReleaseStore(t) PROVE TSInv'
<1> USE DEF Goto, Count, PC
<1>0. /\ Last \in Nat /\ singleCount[t] \in 0..Last /\ singleCount[t] - 2 \in 0..Last
      /\ singleCount[t] - 2 \in initialised
      /\ Kind[singleCount[t] - 2] = "init" /\ Kind[singleCount[t] - 1] = "second"
      /\ Kind[singleCount[t]] # "second"
      /\ singleGuardCount = singleCount[t] - 1 /\ singleGuardCount' = singleCount[t]
  BY ThreadFacts DEF ReleaseStore, ThreadInv
<1>1. TSTypeOK'
  BY Zenon, <1>0 DEF TSInv, TSTypeOK, ReleaseStore
<1>2. ASSUME NEW u \in Thread PROVE ThreadInv(u)'
  <2>1. /\ ThreadInv(u) /\ singleCount[u] \in 0..Last /\ pc[t] = "store"
        /\ pc \in [Thread -> PC]
    BY ThreadFacts DEF TSInv, TSTypeOK, ReleaseStore
  <2>2. u # t => ~Holder(u)
    BY <2>1 DEF TSInv, Holder
  <2> QED
    BY <1>0, <2>1, <2>2 DEF ThreadInv, Holder, ReleaseStore
<1>3. ASSUME NEW n \in Count PROVE ConstructInv(n)'
  <2>1. ConstructInv(n) /\ won' = won /\ initialised' = initialised
    BY DEF TSInv, ReleaseStore
  <2>2. CASE n = singleCount[t] - 1
    BY <1>0, <2>1, <2>2 DEF ConstructInv
  <2>3. CASE n = singleCount[t] - 2
    BY <1>0, <2>1, <2>3 DEF ConstructInv
  <2>4. CASE n # singleCount[t] - 1 /\ n # singleCount[t] - 2
    BY <1>0, <2>1, <2>4 DEF ConstructInv
  <2> QED
    BY <2>2, <2>3, <2>4
<1>4. ASSUME NEW u \in Thread PROVE ~Holder(u)'
  BY DEF TSInv, TSTypeOK, Holder, ReleaseStore
<1>5. (\A u, v \in Thread : Holder(u) /\ Holder(v) => u = v)'
  BY <1>4, Zenon
<1>6. (Kind[singleGuardCount] = "second" => \E u \in Thread : Holder(u))'
  BY <1>0
<1> QED
  BY <1>1, <1>2, <1>3, <1>5, <1>6, Zenon DEF TSInv

\* A thread that stops waiting has been passed by the count.
LEMMA InvWaitSingleBarrierGuard ==
  ASSUME TSInv, NEW t \in Thread, WaitSingleBarrierGuard(t) PROVE TSInv'
<1> USE DEF Goto, Count, PC, WaitSingleBarrierGuard
<1>1. TSTypeOK'
  BY Zenon DEF TSInv, TSTypeOK
<1>2. ASSUME NEW u \in Thread PROVE ThreadInv(u)'
  BY ZenonT(60), ThreadFacts DEF TSInv, TSTypeOK, ThreadInv
<1>3. ASSUME NEW n \in Count PROVE ConstructInv(n)'
  BY DEF TSInv, ConstructInv
<1>4. ASSUME NEW u \in Thread PROVE Holder(u)' <=> Holder(u)
  BY DEF TSInv, TSTypeOK, Holder
<1>5. (Kind[singleGuardCount] = "second" => \E u \in Thread : Holder(u))'
  BY <1>4 DEF TSInv
<1>6. (\A u, v \in Thread : Holder(u) /\ Holder(v) => u = v)'
  BY <1>4, Zenon DEF TSInv
<1> QED
  BY <1>1, <1>2, <1>3, <1>5, <1>6, Zenon DEF TSInv

\* TSInv holds in every reachable state of the single guards.
THEOREM SinglesInductive == TSSpec => []TSInv
<1>1. TSInit => TSInv
  BY KindFacts, TeamSingleAssumption DEF TSInit, PC, TSInv, TSTypeOK, ThreadInv, ConstructInv, Holder
<1>2. TSInv /\ [TSNext]_tsVars => TSInv'
  <2> SUFFICES ASSUME TSInv, [TSNext]_tsVars PROVE TSInv'
    OBVIOUS
  <2>1. ASSUME NEW t \in Thread, NextSingleGuard(t) \/ NextSingleBarrierGuard(t) \/ InGuard(t)
        PROVE  TSInv'
    BY <2>1, InvNextSingleGuard, InvNextSingleBarrierGuard, InvSingleGuard,
       InvEnterSingleBarrierGuard, InvInitialise, InvReleaseStore, InvWaitSingleBarrierGuard
    DEF InGuard
  <2>2. CASE UNCHANGED tsVars
    BY <2>2 DEF tsVars, TSInv, TSTypeOK, ThreadInv, ConstructInv, Holder
  <2> QED
    BY <2>1, <2>2 DEF TSNext
<1> QED
  BY <1>1, <1>2, PTL DEF TSSpec

\* A guard lets in exactly one thread of the team, for every number of threads
\* and every sequence of single and synchronised-initialisation constructs.
THEOREM SingleWinner == TSSpec => []OneWinner
<1>1. TSInv => OneWinner
  <2> SUFFICES ASSUME TSInv, NEW t \in Thread, NEW n \in Count,
                      pc[t] = "out", n < singleCount[t], Kind[n] # "second"
               PROVE  \E u \in Thread : won[n] = {u}
    BY DEF OneWinner
  <2>1. n < singleGuardCount
    BY ThreadFacts DEF ThreadInv, Count
  <2> QED
    BY <2>1 DEF TSInv, ConstructInv
<1> QED
  BY <1>1, SinglesInductive, PTL

\* No thread leaves a synchronised initialisation before it is complete.
THEOREM InitialisationSafe == TSSpec => []InitialisedWhenPassed
<1>1. TSInv => InitialisedWhenPassed
  <2> SUFFICES ASSUME TSInv, NEW t \in Thread, NEW n \in Count,
                      pc[t] = "out", n < singleCount[t], Kind[n] = "init"
               PROVE  n \in initialised
    BY DEF InitialisedWhenPassed
  <2>1. singleCount[t] \in Count /\ singleGuardCount \in Count /\ singleCount[t] <= singleGuardCount
        /\ Kind[singleCount[t]] # "second"
    BY DEF TSInv, TSTypeOK, ThreadInv
  <2>2. n + 1 # singleCount[t]
    <3>1. Kind[n + 1] = "second"
      BY KindFacts
    <3> QED
      BY <2>1, <3>1
  <2>3. n + 2 <= singleGuardCount
    BY <2>1, <2>2, TeamSingleAssumption DEF Count
  <2> QED
    BY <2>3 DEF TSInv, ConstructInv
<1> QED
  BY <1>1, SinglesInductive, PTL

\* The unprotected increment of releaseSingleBarrierGuard() loses no update.
THEOREM CountNeverLost == TSSpec => CountGrows
<1>1. TSInv /\ [TSNext]_tsVars => [singleGuardCount' \in {singleGuardCount, singleGuardCount + 1}]_tsVars
  <2> SUFFICES ASSUME TSInv, NEW t \in Thread,
                      NextSingleGuard(t) \/ NextSingleBarrierGuard(t) \/ InGuard(t)
               PROVE  singleGuardCount' \in {singleGuardCount, singleGuardCount + 1}
    BY DEF TSNext
  <2>1. ThreadInv(t) /\ singleCount[t] \in Nat /\ singleGuardCount \in Nat
    BY Zenon, KindFacts DEF TSInv, TSTypeOK
  <2>2. CASE SingleGuard(t)
    BY <2>1, <2>2 DEF SingleGuard
  <2>3. CASE EnterSingleBarrierGuard(t)
    BY <2>1, <2>3 DEF EnterSingleBarrierGuard
  <2>4. CASE ReleaseStore(t)
    BY Zenon, <2>1, <2>4 DEF ReleaseStore, ThreadInv
  <2>5. CASE \/ NextSingleGuard(t) \/ NextSingleBarrierGuard(t) \/ Initialise(t)
             \/ ReleaseLoad(t) \/ WaitSingleBarrierGuard(t)
    BY <2>5 DEF NextSingleGuard, NextSingleBarrierGuard, Initialise, ReleaseLoad,
       WaitSingleBarrierGuard
  <2> QED
    BY <2>2, <2>3, <2>4, <2>5 DEF InGuard
<1> QED
  BY <1>1, SinglesInductive, PTL DEF TSSpec, CountGrows

-----------------------------------------------------------------------------
\* CentralizedBarrier.  All the participants have gone through r barriers, but for those
\* that the flag has released and that have yet to return from the last one.

\* Those that wait in the barrier under way, and those whose wait is over
CBWaits(p) == barrierPc[p] = "wait" /\ sense[p] # flag
CBReleased(p) == barrierPc[p] = "signal" \/ (barrierPc[p] = "wait" /\ sense[p] = flag)
CBCounted == {p \in Participant : CBWaits(p) \/ barrierPc[p] = "reduce"}

CBTypeOK ==
  /\ entered \in [Participant -> Nat] /\ left \in [Participant -> Nat]
  /\ flag \in BOOLEAN /\ sense \in [Participant -> BOOLEAN] /\ sem \in Nat
  /\ barrierPc \in [Participant -> {"out", "count", "wait", "reduce", "flag", "signal"}]

CBPlace(p, r) ==
  /\ barrierPc[p] = "out" => entered[p] = r /\ left[p] = r
  /\ barrierPc[p] \in {"count", "reduce", "flag"} => sense[p] = ~flag
  /\ barrierPc[p] \in {"count", "reduce", "flag"} \/ CBWaits(p) =>
       entered[p] = r + 1 /\ left[p] = r
  /\ CBReleased(p) => entered[p] = r /\ left[p] + 1 = r
  /\ barrierPc[p] = "signal" => sense[p] = flag

\* The last one acts while the others wait
CBLast(p) == barrierPc[p] \in {"reduce", "flag"} => \A q \in Participant \ {p} : CBWaits(q)

CBSum ==
  sem = IF \E p \in Participant : barrierPc[p] = "flag" THEN 0 ELSE Cardinality(CBCounted)

CBRound(r) ==
  CBTypeOK /\ CBSum /\ \A p \in Participant : CBPlace(p, r) /\ CBLast(p)

-----------------------------------------------------------------------------
\* OldCentralizedBarrier

OCUp == {p \in Participant :
           barrierPc[p] \in {"waitTrue", "raise", "signalTrue", "reduce", "lower"}}

OCTypeOK ==
  /\ entered \in [Participant -> Nat] /\ left \in [Participant -> Nat] /\ flag \in BOOLEAN
  /\ barrierPc \in [Participant -> {"out", "waitTrue", "raise", "signalTrue", "reduce", "lower",
                                    "waitFalse", "reset", "signalFalse"}]

OCPlace(p, r) ==
  IF flag
    THEN /\ barrierPc[p] \in {"waitTrue", "signalTrue", "reduce", "lower", "waitFalse", "reset"}
         /\ entered[p] = r + 1 /\ left[p] = r
    ELSE /\ barrierPc[p] \in {"out", "waitTrue", "raise", "waitFalse", "signalFalse"}
         /\ barrierPc[p] = "out" => entered[p] = r /\ left[p] = r
         /\ barrierPc[p] \in {"waitTrue", "raise"} => entered[p] = r + 1 /\ left[p] = r
         /\ barrierPc[p] \in {"waitFalse", "signalFalse"} => entered[p] = r /\ left[p] + 1 = r

OCLast(p) ==
  /\ barrierPc[p] = "raise" => \A q \in Participant \ {p} : barrierPc[q] = "waitTrue"
  /\ barrierPc[p] = "reset" => \A q \in Participant \ {p} : barrierPc[q] = "waitFalse"

OCRound(r) ==
  /\ OCTypeOK /\ sem = Cardinality(OCUp)
  /\ \A p \in Participant : OCPlace(p, r) /\ OCLast(p)

-----------------------------------------------------------------------------
\* TreeBarrier.  What a participant has done in the barrier it is in: told its parent, been
\* told by its parent, heard from a child, told a child.

Down == {"tellLeft", "signalLeft", "tellRight", "signalRight", "advance"}
Told == {"signalParent", "parent"} \cup Down
Heard(c) == IF c = "left" THEN {"right", "tellParent"} \cup Told ELSE {"tellParent"} \cup Told
Freed(c) == IF c = "left" THEN {"signalLeft", "tellRight", "signalRight", "advance"}
                          ELSE {"signalRight", "advance"}

\* The barriers in which i has got to one of these steps
Stage(i, S) == IF barrierPc[i] \in S THEN left[i] + 1 ELSE left[i]

\* A child and its parent
LinkInv(i) ==
  LET j == Parent(i)
      c == Side(i)
  IN  /\ sems[j][c] = Stage(i, Told) % 3
      /\ sems[i]["parent"] = Stage(j, Freed(c)) % 3
      /\ Stage(i, Told) <= Stage(j, Freed(c)) + 1
      /\ Stage(i, Told) >= Stage(j, Heard(c))
      /\ Stage(j, Freed(c)) >= Stage(i, Down)

TreeTypeOK ==
  /\ entered \in [Participant -> Nat] /\ left \in [Participant -> Nat]
  /\ sems \in [Participant -> [{"left", "right", "parent"} -> Int]]
  /\ phase \in [Participant -> Int]
  /\ barrierPc \in [Participant -> {"out", "left", "right", "tellParent"} \cup Told]

TreePlace(i) ==
  /\ entered[i] = IF barrierPc[i] = "out" THEN left[i] ELSE left[i] + 1
  /\ phase[i] = (left[i] + 1) % 3
  /\ i = 0 => barrierPc[i] \notin {"tellParent", "signalParent"}

TreeInv ==
  /\ TreeTypeOK
  /\ \A i \in Participant : TreePlace(i) /\ (i # 0 => LinkInv(i))

-----------------------------------------------------------------------------
TCInv ==
  /\ construct = "centralized" => \E r \in Nat : CBRound(r)
  /\ construct = "old_centralized" => \E r \in Nat : OCRound(r)
  /\ construct = "tree" => TreeInv

-----------------------------------------------------------------------------
\* Counting participants

\* The size of a set of participants says when it is all of them, or none.
LEMMA Counting ==
  ASSUME NEW S \in SUBSET Participant
  PROVE  /\ IsFiniteSet(S) /\ Cardinality(S) \in Nat /\ Cardinality(Participant) \in Nat \ {0}
         /\ Cardinality(S) = Cardinality(Participant) => S = Participant
         /\ Cardinality(S) = 0 => S = {}
         /\ \A p \in Participant \ S : Cardinality(S \cup {p}) = Cardinality(S) + 1
         /\ \A p \in S : Cardinality(S \ {p}) = Cardinality(S) - 1
<1>1. IsFiniteSet(S) /\ Cardinality(S) \in Nat
  BY BarrierAssumption, FS_Subset, FS_CardinalityType
<1>2. Cardinality(Participant) \in Nat \ {0}
  BY BarrierAssumption, FS_CardinalityType, FS_EmptySet
<1>3. Cardinality(S) = Cardinality(Participant) => S = Participant
  BY BarrierAssumption, FS_Subset
<1>4. Cardinality(S) = 0 => S = {}
  BY <1>1, FS_EmptySet
<1>5. \A p \in Participant \ S : Cardinality(S \cup {p}) = Cardinality(S) + 1
  BY Zenon, <1>1, FS_AddElement
<1>6. \A p \in S : Cardinality(S \ {p}) = Cardinality(S) - 1
  BY Zenon, <1>1, FS_RemoveElement
<1> QED
  BY <1>1, <1>2, <1>3, <1>4, <1>5, <1>6

-----------------------------------------------------------------------------
\* CentralizedBarrier

\* At first nobody is counted.
LEMMA CBStarts == CBInit => CBRound(0) /\ BarrierInit
<1> SUFFICES ASSUME CBInit PROVE CBRound(0) /\ BarrierInit
  BY Zenon
<1>1. CBTypeOK /\ \A p \in Participant : CBPlace(p, 0) /\ CBLast(p)
  BY ZenonT(30) DEF CBInit, CBTypeOK, CBPlace, CBLast, CBWaits, CBReleased
<1>2. CBCounted = {}
  BY DEF CBInit, CBCounted, CBWaits
<1>3. CBSum
  BY <1>2, FS_EmptySet DEF CBInit, CBSum
<1> QED
  BY Zenon, <1>1, <1>3 DEF CBRound, CBInit, BarrierInit

\* A step that leaves the barrier alone keeps the round.
LEMMA CBStays ==
  ASSUME NEW r, CBRound(r), UNCHANGED <<entered, left, sem, flag, sense, barrierPc>>
  PROVE  CBRound(r)'
BY DEF CBRound, CBTypeOK, CBSum, CBCounted, CBPlace, CBLast, CBWaits, CBReleased

\* The last one computes the reductions while the others wait.
LEMMA CBReduces == ASSUME NEW r \in Nat, CBRound(r) PROVE ReductionAlone
BY DEF CBRound, CBPlace, CBLast, CBWaits, ReductionAlone

\* The counter counts those who wait; when it is full the others all wait.
LEMMA CBCounts ==
  ASSUME NEW r \in Nat, CBRound(r), NEW p \in Participant, CBCount(p)
  PROVE  CBRound(r)'
<1> USE DEF CBWaits, CBReleased
<1>1. /\ barrierPc[p] = "count" /\ sem' = sem + 1
      /\ barrierPc' = [barrierPc EXCEPT ![p] = IF sem' = Cardinality(Participant)
                                                 THEN "reduce" ELSE "wait"]
      /\ UNCHANGED <<entered, left, flag, sense>>
  <2>1. /\ barrierPc[p] = "count" /\ sem' = sem + 1
        /\ CBGoto(p, IF sem' = N THEN "reduce" ELSE "wait")
        /\ UNCHANGED <<entered, left, flag, sense>>
    BY DEF CBCount
  <2> QED
    BY <2>1 DEF CBGoto, N
<1>2. \A q \in Participant : barrierPc[q] \notin {"reduce", "flag"}
  BY <1>1 DEF CBRound, CBLast
<1>3. sem = Cardinality(CBCounted) /\ CBCounted \subseteq Participant /\ p \notin CBCounted
  BY <1>1, <1>2 DEF CBRound, CBSum, CBCounted
<1>4. CBCounted' = CBCounted \cup {p}
  BY <1>1 DEF CBRound, CBTypeOK, CBPlace, CBCounted
<1>5. sem' = Cardinality(CBCounted')
  BY <1>1, <1>3, <1>4, Counting
<1>6. CBTypeOK'
  BY <1>1 DEF CBRound, CBTypeOK
<1>7. CBSum'
  BY <1>1, <1>2, <1>5 DEF CBSum, CBRound, CBTypeOK
<1>8. \A q \in Participant : CBPlace(q, r)'
  BY <1>1 DEF CBRound, CBTypeOK, CBPlace
<1>9. ASSUME NEW q \in Participant
      PROVE  CBLast(q)'
  <2>1. SUFFICES ASSUME barrierPc'[q] \in {"reduce", "flag"}, NEW x \in Participant \ {q}
                 PROVE  CBWaits(x)'
    BY DEF CBLast
  <2>2. q = p /\ sem' = Cardinality(Participant)
    BY <1>1, <1>2, <2>1 DEF CBRound, CBTypeOK
  <2>3. CBCounted' = Participant
    <3>1. CBCounted \cup {p} \in SUBSET Participant
      BY <1>3
    <3> QED
      BY <2>2, <1>4, <1>5, <3>1, Counting
  <2> QED
    BY <1>1, <1>2, <2>2, <2>3 DEF CBCounted, CBRound, CBTypeOK
<1> QED
  BY <1>6, <1>7, <1>8, <1>9 DEF CBRound

\* The last one resets the counter, and then starts the next round by changing the flag.
LEMMA CBReleases ==
  ASSUME NEW r \in Nat, CBRound(r), NEW p \in Participant,
         CBReduce(p) \/ SetFlag(p)
  PROVE  CBRound(r)' \/ CBRound(r + 1)'
<1> USE DEF CBWaits, CBReleased
<1>1. /\ barrierPc[p] \in {"reduce", "flag"} /\ sense[p] = ~flag
      /\ \A q \in Participant \ {p} : barrierPc[q] = "wait" /\ sense[q] = ~flag
  BY DEF CBRound, CBTypeOK, CBPlace, CBLast, CBReduce, SetFlag
<1>2. CASE CBReduce(p)
  <2>1. /\ barrierPc' = [barrierPc EXCEPT ![p] = "flag"] /\ sem' = 0
        /\ UNCHANGED <<entered, left, flag, sense>>
    BY <1>2 DEF CBReduce, CBGoto
  <2>2. CBTypeOK' /\ CBSum'
    BY <2>1 DEF CBRound, CBTypeOK, CBSum
  <2>3. \A q \in Participant : CBPlace(q, r)' /\ CBLast(q)'
    BY <1>1, <2>1 DEF CBRound, CBTypeOK, CBPlace, CBLast
  <2> QED
    BY <2>2, <2>3 DEF CBRound
<1>3. CASE SetFlag(p)
  <2>1. /\ barrierPc[p] = "flag" /\ barrierPc' = [barrierPc EXCEPT ![p] = "signal"]
        /\ flag' = ~flag /\ UNCHANGED <<entered, left, sense, sem>>
    BY <1>1, <1>3 DEF SetFlag, CBGoto
  <2>2. CBTypeOK' /\ sem' = 0
    BY <2>1 DEF CBRound, CBTypeOK, CBSum
  <2>3. CBCounted' = {}
    BY <1>1, <2>1 DEF CBRound, CBTypeOK, CBCounted
  <2>4. CBSum'
    <3>1. \A q \in Participant : barrierPc'[q] # "flag"
      BY Zenon, <1>1, <2>1 DEF CBRound, CBTypeOK
    <3> QED
      BY <2>2, <2>3, <3>1, FS_EmptySet DEF CBSum
  <2>5. \A q \in Participant : CBPlace(q, r + 1)' /\ CBLast(q)'
    BY <1>1, <2>1 DEF CBRound, CBTypeOK, CBPlace, CBLast
  <2> QED
    BY <2>2, <2>4, <2>5 DEF CBRound
<1> QED
  BY <1>2, <1>3

\* Entering the barrier, and returning from it: everyone else has entered it too.
LEMMA CBMoves ==
  ASSUME NEW r \in Nat, CBRound(r), NEW p \in Participant,
         \/ CBEnter(p) \/ CBSignal(p)
         \/ CBBlock(p) \/ CBWaited(p)
  PROVE  /\ CBRound(r)'
         /\ BarrierEnter(p) \/ BarrierLeave(p) \/ UNCHANGED barrierVars
<1> USE DEF CBWaits, CBReleased
<1>1. CASE CBEnter(p)
  <2>1. /\ barrierPc[p] = "out" /\ entered[p] < Rounds
        /\ entered' = [entered EXCEPT ![p] = @ + 1]
        /\ sense' = [sense EXCEPT ![p] = ~flag]
        /\ barrierPc' = [barrierPc EXCEPT ![p] = "count"]
        /\ UNCHANGED <<left, sem, flag>>
    BY <1>1 DEF CBEnter, CBGoto
  <2>2. CBTypeOK'
    BY <2>1 DEF CBRound, CBTypeOK
  <2>3. CBCounted' = CBCounted
    BY <2>1 DEF CBRound, CBTypeOK, CBCounted
  <2>4. CBSum'
    BY Zenon, <2>1, <2>3 DEF CBRound, CBTypeOK, CBSum
  <2>5. \A q \in Participant : CBPlace(q, r)' /\ CBLast(q)'
    BY ZenonT(60), <2>1 DEF CBRound, CBTypeOK, CBPlace, CBLast
  <2>6. BarrierEnter(p)
    BY Zenon, <2>1 DEF CBRound, CBPlace, BarrierEnter
  <2> QED
    BY <2>2, <2>4, <2>5, <2>6 DEF CBRound
<1>2. CASE CBBlock(p)
  BY <1>2 DEF CBBlock, CBRound, CBTypeOK, CBSum, CBCounted, CBPlace, CBLast, barrierVars
<1>3. CASE CBSignal(p) \/ CBWaited(p)
  <2>1. /\ CBReleased(p) /\ left' = [left EXCEPT ![p] = @ + 1]
        /\ barrierPc' = [barrierPc EXCEPT ![p] = "out"]
        /\ UNCHANGED <<entered, sem, flag, sense>>
    BY <1>3 DEF CBSignal, CBWaited, CBGoto
  <2>2. CBTypeOK'
    BY <2>1 DEF CBRound, CBTypeOK
  <2>3. CBCounted' = CBCounted
    BY <2>1 DEF CBRound, CBTypeOK, CBCounted
  <2>4. CBSum'
    BY Zenon, <2>1, <2>3 DEF CBRound, CBTypeOK, CBSum
  <2>5. \A q \in Participant : CBPlace(q, r)' /\ CBLast(q)'
    BY <2>1 DEF CBRound, CBTypeOK, CBPlace, CBLast
  <2>6. entered[p] = r /\ left[p] < r
    BY <2>1 DEF CBRound, CBTypeOK, CBPlace
  <2>7. \A q \in Participant : entered[q] >= r
    BY SMTT(30) DEF CBRound, CBTypeOK, CBPlace
  <2>8. BarrierLeave(p)
    BY Zenon, <2>1, <2>6, <2>7 DEF BarrierLeave
  <2> QED
    BY <2>2, <2>4, <2>5, <2>8 DEF CBRound
<1> QED
  BY <1>1, <1>2, <1>3

\* Every step of the barrier keeps the participants within a round of each other, and is a
\* step that Barrier allows.
LEMMA CBSteps ==
  ASSUME NEW r \in Nat, CBRound(r), CBNext
  PROVE  (\E n \in Nat : CBRound(n)') /\ [BarrierNext]_barrierVars
<1>1. PICK p \in Participant : CBEnter(p) \/ InCentralized(p)
  BY DEF CBNext
<1>2. CASE CBCount(p)
  BY <1>2, CBCounts DEF CBCount, barrierVars
<1>3. CASE CBReduce(p) \/ SetFlag(p)
  <2>1. UNCHANGED barrierVars
    BY <1>3 DEF CBReduce, SetFlag, barrierVars
  <2> QED
    BY <1>3, <2>1, CBReleases
<1>4. CASE \/ CBEnter(p) \/ CBSignal(p)
           \/ CBBlock(p) \/ CBWaited(p)
  BY <1>4, CBMoves DEF BarrierNext
<1> QED
  BY <1>1, <1>2, <1>3, <1>4 DEF InCentralized

-----------------------------------------------------------------------------
\* OldCentralizedBarrier

\* At first nobody is up.
LEMMA OCStarts == OCInit => OCRound(0) /\ BarrierInit
<1> SUFFICES ASSUME OCInit PROVE OCRound(0) /\ BarrierInit
  BY Zenon
<1>1. OCTypeOK /\ \A p \in Participant : OCPlace(p, 0) /\ OCLast(p)
  BY ZenonT(30) DEF OCInit, OCTypeOK, OCPlace, OCLast
<1>2. OCUp = {}
  BY DEF OCInit, OCUp
<1>3. OCRound(0)
  BY <1>1, <1>2, FS_EmptySet DEF OCInit, OCRound
<1> QED
  BY Zenon, <1>3 DEF OCInit, BarrierInit

\* A step that leaves the barrier alone keeps the round.
LEMMA OCStays ==
  ASSUME NEW r, OCRound(r), UNCHANGED <<entered, left, sem, flag, barrierPc>>
  PROVE  OCRound(r)'
BY DEF OCRound, OCTypeOK, OCUp, OCPlace, OCLast

\* The reductions are computed before anybody returns.
LEMMA OCReduces == ASSUME NEW r \in Nat, OCRound(r) PROVE ReductionBeforeReturn
BY DEF OCRound, OCPlace, ReductionBeforeReturn

\* Arriving: the last one finds all the others waiting.
LEMMA OCArrives ==
  ASSUME NEW r \in Nat, OCRound(r), NEW p \in Participant, Arrive(p)
  PROVE  OCRound(r)' /\ BarrierEnter(p)
<1>1. /\ entered[p] < Rounds /\ entered' = [entered EXCEPT ![p] = @ + 1]
      /\ sem' = sem + 1 /\ barrierPc[p] = "out"
      /\ barrierPc' = [barrierPc EXCEPT ![p] = IF sem' = Cardinality(Participant)
                                                 THEN "raise" ELSE "waitTrue"]
      /\ UNCHANGED <<left, flag>>
  BY DEF Arrive, BarrierStep, N
<1>2. /\ ~flag /\ entered[p] = r /\ left[p] = r
      /\ \A q \in Participant : barrierPc[q] \notin {"raise", "reset"}
  BY <1>1 DEF OCRound, OCTypeOK, OCPlace, OCLast
<1>3. OCUp' = OCUp \cup {p} /\ p \notin OCUp /\ OCUp \in SUBSET Participant
  BY <1>1 DEF OCRound, OCTypeOK, OCUp
<1>4. sem' = Cardinality(OCUp')
  BY <1>1, <1>3, Counting DEF OCRound
<1>5. OCTypeOK'
  BY <1>1 DEF OCRound, OCTypeOK
<1>6. \A q \in Participant : OCPlace(q, r)'
  BY Zenon, <1>1, <1>2 DEF OCRound, OCTypeOK, OCPlace
<1>7. ASSUME NEW q \in Participant
      PROVE  OCLast(q)'
  <2>1. SUFFICES ASSUME barrierPc'[q] \in {"raise", "reset"}
                 PROVE  barrierPc'[q] = "raise" /\ \A x \in Participant \ {q} : barrierPc'[x] = "waitTrue"
    BY Zenon DEF OCLast
  <2>2. q = p /\ barrierPc'[p] = "raise" /\ sem' = Cardinality(Participant)
    BY <1>1, <1>2, <2>1 DEF OCRound, OCTypeOK
  <2>3. OCUp' = Participant
    <3>1. OCUp \cup {p} \in SUBSET Participant
      BY <1>3
    <3> QED
      BY <2>2, <1>3, <1>4, <3>1, Counting
  <2>4. \A x \in Participant \ {p} : barrierPc'[x] = barrierPc[x]
    BY <1>1 DEF OCRound, OCTypeOK
  <2>5. \A x \in Participant \ {p} :
          barrierPc[x] \in {"waitTrue", "raise", "signalTrue", "reduce", "lower"}
    BY <2>3, <2>4 DEF OCUp
  <2> QED
    BY <1>2, <2>2, <2>4, <2>5 DEF OCRound, OCPlace
<1>8. BarrierEnter(p)
  BY <1>1, <1>2 DEF BarrierEnter
<1> QED
  BY <1>4, <1>5, <1>6, <1>7, <1>8 DEF OCRound

\* Lowering the counter: the last one finds that all the others have lowered it.
LEMMA OCLowers ==
  ASSUME NEW r \in Nat, OCRound(r), NEW p \in Participant, Lower(p)
  PROVE  OCRound(r)'
<1>1. /\ sem' = sem - 1 /\ barrierPc[p] = "lower"
      /\ barrierPc' = [barrierPc EXCEPT ![p] = IF sem' = 0 THEN "reset" ELSE "waitFalse"]
      /\ UNCHANGED <<entered, left, flag>>
  BY DEF Lower, BarrierStep
<1>2. flag /\ \A q \in Participant : barrierPc[q] \notin {"raise", "reset"}
  BY <1>1 DEF OCRound, OCTypeOK, OCPlace, OCLast
<1>3. OCUp' = OCUp \ {p} /\ p \in OCUp /\ OCUp \in SUBSET Participant
  BY <1>1 DEF OCRound, OCTypeOK, OCUp
<1>4. sem' = Cardinality(OCUp')
  BY <1>1, <1>3, Counting DEF OCRound
<1>5. OCTypeOK'
  BY Zenon, <1>1 DEF OCRound, OCTypeOK
<1>6. \A q \in Participant : OCPlace(q, r)'
  BY <1>1, <1>2 DEF OCRound, OCTypeOK, OCPlace
<1>7. ASSUME NEW q \in Participant
      PROVE  OCLast(q)'
  <2>1. SUFFICES ASSUME barrierPc'[q] \in {"raise", "reset"}
                 PROVE  barrierPc'[q] = "reset" /\ \A x \in Participant \ {q} : barrierPc'[x] = "waitFalse"
    BY DEF OCLast
  <2>2. q = p /\ barrierPc'[p] = "reset" /\ sem' = 0
    BY <1>1, <1>2, <2>1 DEF OCRound, OCTypeOK
  <2>3. OCUp' = {}
    <3>1. OCUp \ {p} \in SUBSET Participant
      BY <1>3
    <3> QED
      BY Zenon, <2>2, <1>3, <1>4, <3>1, Counting
  <2>4. \A x \in Participant \ {p} : barrierPc'[x] = barrierPc[x]
    BY <1>1 DEF OCRound, OCTypeOK
  <2>5. \A x \in Participant \ {p} :
          barrierPc[x] \notin {"waitTrue", "raise", "signalTrue", "reduce", "lower"}
    BY <2>3, <2>4 DEF OCUp
  <2> QED
    BY Zenon, <1>2, <2>2, <2>4, <2>5 DEF OCRound, OCPlace
<1> QED
  BY <1>4, <1>5, <1>6, <1>7 DEF OCRound

\* The flag starts the second phase, and then the next round.
LEMMA OCFlags ==
  ASSUME NEW r \in Nat, OCRound(r), NEW p \in Participant,
         RaiseFlag(p) \/ ResetFlag(p)
  PROVE  OCRound(r)' \/ OCRound(r + 1)'
<1>1. CASE RaiseFlag(p)
  <2>1. /\ barrierPc[p] = "raise" /\ barrierPc' = [barrierPc EXCEPT ![p] = "signalTrue"]
        /\ flag' = TRUE /\ UNCHANGED <<entered, left, sem>>
    BY Zenon, <1>1 DEF RaiseFlag, BarrierStep
  <2>2. ~flag /\ \A q \in Participant \ {p} : barrierPc[q] = "waitTrue"
    BY <2>1 DEF OCRound, OCPlace, OCLast
  <2>3. OCTypeOK' /\ OCUp' = OCUp
    BY Zenon, <2>1 DEF OCRound, OCTypeOK, OCUp
  <2>4. \A q \in Participant : OCPlace(q, r)' /\ OCLast(q)'
    BY <2>1, <2>2 DEF OCRound, OCTypeOK, OCPlace, OCLast
  <2> QED
    BY <2>1, <2>3, <2>4 DEF OCRound
<1>2. CASE ResetFlag(p)
  <2>1. /\ barrierPc[p] = "reset" /\ barrierPc' = [barrierPc EXCEPT ![p] = "signalFalse"]
        /\ flag' = FALSE /\ UNCHANGED <<entered, left, sem>>
    BY Zenon, <1>2 DEF ResetFlag, BarrierStep
  <2>2. flag /\ \A q \in Participant \ {p} : barrierPc[q] = "waitFalse"
    BY Zenon, <2>1 DEF OCRound, OCPlace, OCLast
  <2>3. OCTypeOK' /\ OCUp' = OCUp
    BY Zenon, <2>1 DEF OCRound, OCTypeOK, OCUp
  <2>4. \A q \in Participant : OCPlace(q, r + 1)' /\ OCLast(q)'
    BY <2>1, <2>2 DEF OCRound, OCTypeOK, OCPlace, OCLast
  <2> QED
    BY <2>1, <2>3, <2>4 DEF OCRound
<1> QED
  BY <1>1, <1>2

\* The steps of the first phase after the flag is set, and the waits that block.
LEMMA OCMoves ==
  ASSUME NEW r \in Nat, OCRound(r), NEW p \in Participant,
         \/ SignalTrue(p) \/ OCReduce(p)
         \/ WaitedTrue(p) \/ \E b \in BOOLEAN : OCBlock(p, b)
  PROVE  OCRound(r)' /\ UNCHANGED barrierVars
<1>1. CASE \E b \in BOOLEAN : OCBlock(p, b)
  BY <1>1 DEF OCBlock, OCRound, OCTypeOK, OCUp, OCPlace, OCLast, barrierVars
<1>2. CASE SignalTrue(p) \/ OCReduce(p) \/ WaitedTrue(p)
  <2>1. /\ \E to \in {"reduce", "lower"} : barrierPc' = [barrierPc EXCEPT ![p] = to]
        /\ barrierPc[p] \in {"signalTrue", "reduce", "waitTrue"}
        /\ barrierPc[p] = "waitTrue" => flag
        /\ UNCHANGED <<entered, left, sem, flag>>
    BY Zenon, <1>2 DEF SignalTrue, OCReduce, WaitedTrue,
                BarrierStep
  <2>2. flag
    BY <2>1 DEF OCRound, OCPlace
  <2>3. OCTypeOK' /\ OCUp' = OCUp
    BY <2>1 DEF OCRound, OCTypeOK, OCUp
  <2>4. \A q \in Participant : OCPlace(q, r)'
    BY Zenon, <2>1, <2>2 DEF OCRound, OCTypeOK, OCPlace
  <2>5. \A q \in Participant : OCLast(q)'
    BY <2>1, <2>2 DEF OCRound, OCTypeOK, OCPlace, OCLast
  <2> QED
    BY <2>1, <2>3, <2>4, <2>5 DEF OCRound, barrierVars
<1> QED
  BY Zenon, <1>1, <1>2

\* Returning from the barrier: everyone has entered it.
LEMMA OCLeaves ==
  ASSUME NEW r \in Nat, OCRound(r), NEW p \in Participant,
         SignalFalse(p) \/ WaitedFalse(p)
  PROVE  OCRound(r)' /\ BarrierLeave(p)
<1>1. /\ barrierPc' = [barrierPc EXCEPT ![p] = "out"]
      /\ barrierPc[p] \in {"signalFalse", "waitFalse"} /\ (barrierPc[p] = "waitFalse" => ~flag)
      /\ left' = [left EXCEPT ![p] = @ + 1]
      /\ UNCHANGED <<entered, sem, flag>>
  BY Zenon DEF SignalFalse, WaitedFalse, BarrierStep,
         Leave
<1>2. ~flag /\ entered[p] = r /\ left[p] + 1 = r
  BY Zenon, <1>1 DEF OCRound, OCPlace
<1>3. OCTypeOK' /\ OCUp' = OCUp
  BY <1>1 DEF OCRound, OCTypeOK, OCUp
<1>4. \A q \in Participant : OCPlace(q, r)'
  BY <1>1, <1>2 DEF OCRound, OCTypeOK, OCPlace
<1>5. \A q \in Participant : OCLast(q)'
  BY <1>1, <1>2 DEF OCRound, OCTypeOK, OCPlace, OCLast
<1>6. \A q \in Participant : entered[q] >= r
  BY <1>2 DEF OCRound, OCTypeOK, OCPlace
<1>7. left[p] < entered[p]
  BY <1>2 DEF OCRound, OCTypeOK
<1>8. BarrierLeave(p)
  BY <1>1, <1>2, <1>6, <1>7 DEF BarrierLeave
<1> QED
  BY <1>1, <1>3, <1>4, <1>5, <1>8 DEF OCRound

\* Every step of the two-phase barrier is one that Barrier allows.
LEMMA OCSteps ==
  ASSUME NEW r \in Nat, OCRound(r), OCNext
  PROVE  (\E n \in Nat : OCRound(n)') /\ [BarrierNext]_barrierVars
<1>1. PICK p \in Participant : Arrive(p) \/ InOldCentralized(p)
  BY DEF OCNext
<1>2. CASE Arrive(p)
  BY <1>2, OCArrives DEF BarrierNext
<1>3. CASE Lower(p)
  BY <1>3, OCLowers DEF Lower, barrierVars
<1>4. CASE RaiseFlag(p) \/ ResetFlag(p)
  <2>1. UNCHANGED barrierVars
    BY <1>4 DEF RaiseFlag, ResetFlag, barrierVars
  <2> QED
    BY <1>4, <2>1, OCFlags
<1>5. CASE SignalFalse(p) \/ WaitedFalse(p)
  BY <1>5, OCLeaves DEF BarrierNext
<1>6. CASE \/ SignalTrue(p) \/ OCReduce(p)
           \/ WaitedTrue(p) \/ \E b \in BOOLEAN : OCBlock(p, b)
  BY <1>6, OCMoves
<1> QED
  BY <1>1, <1>2, <1>3, <1>4, <1>5, <1>6 DEF InOldCentralized

-----------------------------------------------------------------------------
\* TreeBarrier

\* Every participant but the root is a child of one with a smaller number.
LEMMA TreeShape ==
  /\ 0 \in Participant /\ Participant \subseteq Nat
  /\ \A i \in Participant \ {0} :
       /\ Parent(i) \in Participant /\ Parent(i) < i
       /\ Side(i) \in {"left", "right"} /\ Child(Parent(i), Side(i)) = i
  /\ \A i \in Participant, c \in {"left", "right"} :
       Child(i, c) \in Participant =>
         /\ Child(i, c) # 0 /\ Parent(Child(i, c)) = i
         /\ Side(Child(i, c)) = c
<1>1. PICK n \in Nat \ {0} : Participant = 0..(n - 1)
  <2>1. Cardinality(Participant) \in Nat \ {0}
    BY Counting
  <2> QED
    BY <2>1, TeamAssumption
<1>2. 0 \in Participant /\ Participant \subseteq Nat
  BY <1>1
<1>3. ASSUME NEW i \in Participant \ {0}
      PROVE  /\ Parent(i) \in Participant /\ Parent(i) < i
             /\ Side(i) \in {"left", "right"}
             /\ Child(Parent(i), Side(i)) = i
  <2>1. i \in Nat \ {0} /\ i <= n - 1
    BY <1>1
  <2>2. PICK k \in Nat : k = (i - 1) \div 2 /\ (2 * k + 1 = i \/ 2 * k + 2 = i)
    BY <2>1
  <2>3. Parent(i) = k
    BY <2>2 DEF Parent
  <2>4. k \in Participant /\ k < i
    BY <1>1, <2>1, <2>2
  <2>5. Side(i) \in {"left", "right"} /\ Child(k, Side(i)) = i
    BY <2>1, <2>2, <2>3 DEF Side, Child
  <2> QED
    BY <2>3, <2>4, <2>5
<1>4. ASSUME NEW i \in Participant, NEW c \in {"left", "right"},
             Child(i, c) \in Participant
      PROVE  /\ Child(i, c) # 0 /\ Parent(Child(i, c)) = i
             /\ Side(Child(i, c)) = c
  <2>1. i \in Nat /\ (2 * i + 1 - 1) \div 2 = i /\ (2 * i + 2 - 1) \div 2 = i
    BY <1>2
  <2>2. CASE c = "left"
    <3>1. Child(i, c) = 2 * i + 1
      BY <2>2 DEF Child
    <3>2. Parent(2 * i + 1) = i
      BY <2>1 DEF Parent
    <3> QED
      BY <2>1, <2>2, <3>1, <3>2 DEF Side
  <2>3. CASE c = "right"
    <3>1. Child(i, c) = 2 * i + 2
      BY <2>3 DEF Child
    <3>2. Parent(2 * i + 2) = i
      BY <2>1 DEF Parent
    <3> QED
      BY <2>1, <2>3, <3>1, <3>2 DEF Side
  <2> QED
    BY <2>2, <2>3
<1> QED
  BY <1>2, <1>3, <1>4

\* A phase differs from the next one, and follows it.
LEMMA PhaseFacts ==
  \A n \in Nat : n % 3 \in Int /\ n % 3 # (n + 1) % 3 /\ ((n % 3) + 1) % 3 = (n + 1) % 3
OBVIOUS

\* A stage that is at most one ahead is known by its phase.
LEMMA NextPhase ==
  ASSUME NEW n \in Nat, NEW m \in Nat, m >= n, m <= n + 1, m % 3 = (n + 1) % 3
  PROVE  m = n + 1
BY PhaseFacts

\* What a participant is freed for follows from what it told and what was heard.
LEMMA BetweenStages ==
  ASSUME NEW f \in Nat, NEW n \in Nat, NEW h \in Nat, f <= h, n + 1 >= h, n + 1 <= f + 1
  PROVE  f >= n /\ f <= n + 1
OBVIOUS

\* At first every stage and every semaphore is zero.
LEMMA TreeStarts == TBInit => TreeInv /\ BarrierInit
<1> SUFFICES ASSUME TBInit PROVE TreeInv /\ BarrierInit
  BY Zenon
<1>1. TreeTypeOK
  BY DEF TBInit, Cond, TreeTypeOK
<1>2. \A i \in Participant : TreePlace(i)
  BY DEF TBInit, TreePlace
<1>3. ASSUME NEW i \in Participant \ {0} PROVE LinkInv(i)
  <2>1. Parent(i) \in Participant /\ Side(i) \in {"left", "right"}
    BY TreeShape
  <2>2. \A x \in Participant : left[x] = 0 /\ barrierPc[x] = "out"
    BY DEF TBInit
  <2>3. "out" \notin Told /\ "out" \notin Down
    BY DEF Told, Down
  <2>4. "out" \notin Freed(Side(i)) /\ "out" \notin Heard(Side(i))
    BY Zenon, <2>3 DEF Freed, Heard
  <2>5. /\ Stage(i, Told) = 0 /\ Stage(i, Down) = 0
        /\ Stage(Parent(i), Freed(Side(i))) = 0
        /\ Stage(Parent(i), Heard(Side(i))) = 0
    BY <2>1, <2>2, <2>3, <2>4 DEF Stage
  <2>6. sems[Parent(i)][Side(i)] = 0 /\ sems[i]["parent"] = 0
    BY Zenon, <2>1 DEF TBInit, Cond
  <2> QED
    BY SMTT(30), <2>5, <2>6 DEF LinkInv
<1> QED
  BY Zenon, <1>1, <1>2, <1>3 DEF TreeInv, TBInit, BarrierInit

\* A step that leaves the barrier alone keeps the stages.
LEMMA TreeStays ==
  ASSUME TreeInv, UNCHANGED <<entered, left, sems, phase, barrierPc>>
  PROVE  TreeInv'
<1>1. ASSUME NEW i, LinkInv(i) PROVE LinkInv(i)'
  BY Zenon, <1>1 DEF LinkInv, Stage
<1> QED
  BY Zenon, <1>1 DEF TreeInv, TreeTypeOK, TreePlace

\* Stages are numbers, and come in the order of the steps of a barrier.
LEMMA StageFacts ==
  ASSUME TreeTypeOK, NEW i \in Participant, NEW c \in {"left", "right"}
  PROVE  /\ left[i] \in Nat
         /\ \A S : Stage(i, S) \in Nat /\ Stage(i, S) \in {left[i], left[i] + 1}
         /\ Stage(i, Freed(c)) <= Stage(i, Heard(c))
         /\ Stage(i, Freed(c)) <= Stage(i, Down)
         /\ Stage(i, Down) <= Stage(i, Told)
         /\ Stage(i, Told) <= Stage(i, Heard(c))
<1>1. left[i] \in Nat
  BY DEF TreeTypeOK
<1>2. \A S : Stage(i, S) \in Nat /\ Stage(i, S) \in {left[i], left[i] + 1}
  BY <1>1 DEF Stage
<1>3. Freed(c) \subseteq Down /\ Down \subseteq Told /\ Told \subseteq Heard(c)
  BY DEF Freed, Down, Told, Heard
<1>4. \A S, T : S \subseteq T => Stage(i, S) <= Stage(i, T)
  BY SMTT(30), <1>1 DEF Stage
<1> QED
  BY <1>1, <1>2, <1>3, <1>4

\* When no stage and no message changes, neither do the links.
LEMMA LinksKept ==
  ASSUME TreeInv, UNCHANGED sems,
         \A i \in Participant :
           /\ Stage(i, Told)' = Stage(i, Told) /\ Stage(i, Down)' = Stage(i, Down)
           /\ \A c \in {"left", "right"} : /\ Stage(i, Freed(c))' = Stage(i, Freed(c))
                                           /\ Stage(i, Heard(c))' = Stage(i, Heard(c)),
         NEW x \in Participant \ {0}
  PROVE  LinkInv(x)'
<1>1. Parent(x) \in Participant /\ Side(x) \in {"left", "right"} /\ LinkInv(x)
  BY TreeShape DEF TreeInv
<1> QED
  BY Zenon, <1>1 DEF LinkInv

\* Entering the barrier, and the steps between messages, change no stage.
LEMMA TreeQuiet ==
  ASSUME TreeInv, NEW i \in Participant,
         \/ TBEnter(i) \/ SignalParent(i)
         \/ \E c \in {"left", "right"} : SignalChild(i, c)
         \/ \E c \in {"left", "right", "parent"} : TBBlock(i, c)
  PROVE  TreeInv' /\ (BarrierEnter(i) \/ UNCHANGED barrierVars)
<1>1. /\ UNCHANGED <<left, sems, phase>>
      /\ \/ /\ barrierPc[i] = "out" /\ barrierPc' = [barrierPc EXCEPT ![i] = "left"]
            /\ entered[i] < Rounds /\ entered' = [entered EXCEPT ![i] = @ + 1]
         \/ /\ UNCHANGED entered
            /\ \/ barrierPc[i] = "signalParent" /\ barrierPc' = [barrierPc EXCEPT ![i] = "parent"]
               \/ barrierPc[i] = "signalLeft" /\ barrierPc' = [barrierPc EXCEPT ![i] = "tellRight"]
               \/ barrierPc[i] = "signalRight" /\ barrierPc' = [barrierPc EXCEPT ![i] = "advance"]
               \/ UNCHANGED barrierPc
  BY Zenon DEF TBEnter, SignalParent, SignalChild, TBBlock, BarrierStep
<1>2. barrierPc \in [Participant -> {"out", "left", "right", "tellParent"} \cup Told]
  BY DEF TreeInv, TreeTypeOK
<1>3. TreeTypeOK'
  BY <1>1 DEF TreeInv, TreeTypeOK, Told, Down
<1>4. \A x \in Participant : TreePlace(x)'
  BY <1>1 DEF TreeInv, TreeTypeOK, TreePlace
<1>5. \A x \in Participant :
        /\ Stage(x, Told)' = Stage(x, Told) /\ Stage(x, Down)' = Stage(x, Down)
        /\ \A c \in {"left", "right"} : /\ Stage(x, Freed(c))' = Stage(x, Freed(c))
                                        /\ Stage(x, Heard(c))' = Stage(x, Heard(c))
  BY ZenonT(60), <1>1, <1>2 DEF Stage, Told, Down, Freed, Heard
<1>6. \A x \in Participant \ {0} : LinkInv(x)'
  BY Zenon, <1>1, <1>5, LinksKept
<1>7. BarrierEnter(i) \/ UNCHANGED barrierVars
  BY Zenon, <1>1 DEF TreeInv, TreePlace, BarrierEnter, barrierVars
<1> QED
  BY Zenon, <1>3, <1>4, <1>6, <1>7 DEF TreeInv

\* A participant moves on to another step: what its stages, and those of the others, become.
LEMMA StageMoves ==
  ASSUME TreeTypeOK, NEW i \in Participant, NEW to,
         barrierPc' = [barrierPc EXCEPT ![i] = to], left' = left
  PROVE  \A S : /\ \A x \in Participant \ {i} : Stage(x, S)' = Stage(x, S)
                /\ to \in S => Stage(i, S)' = left[i] + 1
                /\ to \notin S => Stage(i, S)' = left[i]
                /\ (to \in S <=> barrierPc[i] \in S) => Stage(i, S)' = Stage(i, S)
BY DEF TreeTypeOK, Stage

\* Having waited for a child: it has told its parent so in this barrier.
LEMMA TreeHears ==
  ASSUME TreeInv, NEW i \in Participant, NEW c \in {"left", "right"}, TBWaited(i, c)
  PROVE  TreeInv' /\ UNCHANGED barrierVars
<1>1. /\ Child(i, c) \in Participant => sems[i][c] = phase[i]
      /\ barrierPc[i] = c /\ UNCHANGED <<entered, left, sems, phase>>
  BY Zenon DEF TBWaited, MustWait, BarrierStep
<1>2. PICK to \in {"right", "tellParent", "parent"} :
        /\ barrierPc' = [barrierPc EXCEPT ![i] = to]
        /\ c = "left" => to = "right"
        /\ c = "right" => to = (IF i # 0 THEN "tellParent" ELSE "parent")
  BY Zenon DEF TBWaited, BarrierStep, After
<1>3. TreeTypeOK /\ TreeTypeOK'
  BY Zenon, <1>1, <1>2 DEF TreeInv, TreeTypeOK, Told, Down
<1>4. \A x \in Participant : TreePlace(x)'
  BY <1>1, <1>2 DEF TreeInv, TreeTypeOK, TreePlace
<1>5. \A S : /\ \A x \in Participant \ {i} : Stage(x, S)' = Stage(x, S)
             /\ (to \in S <=> barrierPc[i] \in S) => Stage(i, S)' = Stage(i, S)
             /\ to \in S => Stage(i, S)' = left[i] + 1
  BY Zenon, <1>1, <1>2, <1>3, StageMoves
<1>6. ASSUME NEW x \in Participant \ {0}
      PROVE  LinkInv(x)'
  <2>1. /\ Parent(x) \in Participant /\ Side(x) \in {"left", "right"} /\ LinkInv(x)
        /\ Child(Parent(x), Side(x)) = x
    BY Zenon, TreeShape DEF TreeInv
  <2>2. /\ barrierPc[i] \notin Told /\ barrierPc[i] \notin Down /\ to \notin Down
        /\ i # 0 => to \notin Told
        /\ \A d \in {"left", "right"} :
             barrierPc[i] \notin Freed(d) /\ to \notin Freed(d)
        /\ \A d \in {"left", "right"} \ {c} : to \in Heard(d) <=> barrierPc[i] \in Heard(d)
        /\ barrierPc[i] \notin Heard(c) /\ to \in Heard(c)
    BY Zenon, <1>1, <1>2 DEF Told, Down, Freed, Heard
  <2>3. Stage(x, Told)' = Stage(x, Told) /\ Stage(x, Down)' = Stage(x, Down)
    BY Zenon, <1>5, <2>2
  <2>4. /\ Stage(Parent(x), Freed(Side(x)))' = Stage(Parent(x), Freed(Side(x)))
        /\ Stage(Parent(x), Heard(Side(x)))' # Stage(Parent(x), Heard(Side(x))) =>
             Parent(x) = i /\ Side(x) = c
    BY <1>5, <2>1, <2>2
  <2>5. CASE Parent(x) = i /\ Side(x) = c
    <3>1. Stage(i, Heard(c))' = left[i] + 1 /\ Stage(i, Freed(c)) = left[i]
      BY Zenon, <1>5, <2>2 DEF Stage
    <3>2. /\ sems[i][c] = Stage(x, Told) % 3 /\ Stage(x, Told) <= Stage(i, Freed(c)) + 1
          /\ Stage(x, Told) >= Stage(i, Heard(c))
      BY <2>1, <2>5 DEF LinkInv
    <3>3. sems[i][c] = (left[i] + 1) % 3
      BY Zenon, <1>1, <2>1, <2>5 DEF TreeInv, TreePlace
    <3>4. left[i] \in Nat /\ Stage(x, Told) \in Nat /\ Stage(i, Heard(c)) = left[i]
      BY Zenon, <1>3, <2>2, StageFacts DEF Stage
    <3>5. /\ Stage(x, Told) >= left[i] /\ Stage(x, Told) <= left[i] + 1
          /\ Stage(x, Told) % 3 = (left[i] + 1) % 3
      BY Zenon, <3>1, <3>2, <3>3, <3>4
    <3>6. Stage(x, Told) = left[i] + 1
      BY Zenon, <3>4, <3>5, NextPhase
    <3> QED
      BY Zenon, <1>1, <2>1, <2>3, <2>4, <2>5, <3>1, <3>4, <3>6 DEF LinkInv
  <2>6. CASE ~(Parent(x) = i /\ Side(x) = c)
    BY Zenon, <1>1, <2>1, <2>3, <2>4, <2>6 DEF LinkInv
  <2> QED
    BY Zenon, <2>5, <2>6
<1> QED
  BY Zenon, <1>1, <1>3, <1>4, <1>6 DEF TreeInv, barrierVars

\* Having waited for the parent: it has told its child so in this barrier.
LEMMA TreeIsTold ==
  ASSUME TreeInv, NEW i \in Participant, TBWaited(i, "parent")
  PROVE  TreeInv' /\ UNCHANGED barrierVars
<1>1. /\ i # 0 => sems[i]["parent"] = phase[i]
      /\ barrierPc[i] = "parent" /\ barrierPc' = [barrierPc EXCEPT ![i] = "tellLeft"]
      /\ UNCHANGED <<entered, left, sems, phase>>
  BY Zenon DEF TBWaited, MustWait, BarrierStep, After
<1>2. TreeTypeOK /\ TreeTypeOK'
  BY Zenon, <1>1 DEF TreeInv, TreeTypeOK, Told, Down
<1>3. \A x \in Participant : TreePlace(x)'
  BY Zenon, <1>1 DEF TreeInv, TreeTypeOK, TreePlace
<1>4. \A S : /\ \A x \in Participant \ {i} : Stage(x, S)' = Stage(x, S)
             /\ ("tellLeft" \in S <=> barrierPc[i] \in S) => Stage(i, S)' = Stage(i, S)
             /\ "tellLeft" \in S => Stage(i, S)' = left[i] + 1
  BY Zenon, <1>1, <1>2, StageMoves
<1>5. /\ barrierPc[i] \in Told /\ "tellLeft" \in Told /\ "tellLeft" \in Down
      /\ \A c \in {"left", "right"} :
           /\ barrierPc[i] \notin Freed(c) /\ "tellLeft" \notin Freed(c)
           /\ barrierPc[i] \in Heard(c) /\ "tellLeft" \in Heard(c)
  BY <1>1 DEF Told, Down, Freed, Heard
<1>6. \A x \in Participant :
        /\ Stage(x, Told)' = Stage(x, Told)
        /\ \A c \in {"left", "right"} : /\ Stage(x, Freed(c))' = Stage(x, Freed(c))
                                        /\ Stage(x, Heard(c))' = Stage(x, Heard(c))
  BY <1>4, <1>5
<1>7. ASSUME NEW x \in Participant \ {0}
      PROVE  LinkInv(x)'
  <2>1. Parent(x) \in Participant /\ Side(x) \in {"left", "right"} /\ LinkInv(x)
    BY Zenon, TreeShape DEF TreeInv
  <2>2. CASE x # i
    <3>1. Stage(x, Down)' = Stage(x, Down)
      BY Zenon, <1>4, <2>2
    <3> QED
      BY Zenon, <1>1, <1>6, <2>1, <3>1 DEF LinkInv
  <2>3. CASE x = i
    <3> DEFINE f == Stage(Parent(i), Freed(Side(i)))
    <3>1. f \in Nat /\ left[i] \in Nat /\ f <= Stage(Parent(i), Heard(Side(i)))
      BY <1>2, <2>1, <2>3, StageFacts
    <3>2. Stage(i, Told) = left[i] + 1
      BY Zenon, <1>5 DEF Stage
    <3>3. /\ sems[i]["parent"] = f % 3 /\ Stage(i, Told) <= f + 1
          /\ Stage(i, Told) >= Stage(Parent(i), Heard(Side(i)))
          /\ Stage(Parent(i), Heard(Side(i))) \in Nat
      BY Zenon, <1>2, <2>1, <2>3, StageFacts DEF LinkInv
    <3>4. f % 3 = (left[i] + 1) % 3
      BY Zenon, <1>1, <2>3, <3>3 DEF TreeInv, TreePlace
    <3> HIDE DEF f
    <3>5. f >= left[i] /\ f <= left[i] + 1
      BY Zenon, <3>1, <3>2, <3>3, BetweenStages
    <3>6. f = left[i] + 1
      BY Zenon, <3>1, <3>4, <3>5, NextPhase
    <3>7. f >= Stage(i, Down)'
      BY <1>4, <1>5, <3>1, <3>6
    <3> USE DEF f
    <3> QED
      BY Zenon, <1>1, <1>6, <2>1, <2>3, <3>7 DEF LinkInv
  <2> QED
    BY <2>2, <2>3
<1> QED
  BY Zenon, <1>1, <1>2, <1>3, <1>7 DEF TreeInv, barrierVars

\* Telling the parent: it has heard of the barrier before this one, and no later.
LEMMA TreeTellsParent ==
  ASSUME TreeInv, NEW i \in Participant, TellParent(i)
  PROVE  TreeInv' /\ UNCHANGED barrierVars
<1>1. /\ barrierPc[i] = "tellParent" /\ barrierPc' = [barrierPc EXCEPT ![i] = "signalParent"]
      /\ sems' = [sems EXCEPT ![Parent(i)][Side(i)] = phase[i]]
      /\ UNCHANGED <<entered, left, phase>>
  BY Zenon DEF TellParent, BarrierStep, Tell
<1>2. i # 0 /\ phase[i] = (left[i] + 1) % 3
  BY <1>1 DEF TreeInv, TreePlace
<1>3. Parent(i) \in Participant /\ Side(i) \in {"left", "right"}
  BY Zenon, <1>2, TreeShape
<1>4. TreeTypeOK /\ TreeTypeOK'
  BY Zenon, <1>1, <1>3 DEF TreeInv, TreeTypeOK, Told, Down
<1>5. \A x \in Participant : TreePlace(x)'
  BY Zenon, <1>1, <1>2 DEF TreeInv, TreeTypeOK, TreePlace
<1>6. \A S : /\ \A x \in Participant \ {i} : Stage(x, S)' = Stage(x, S)
             /\ ("signalParent" \in S <=> barrierPc[i] \in S) => Stage(i, S)' = Stage(i, S)
             /\ "signalParent" \in S => Stage(i, S)' = left[i] + 1
  BY Zenon, <1>1, <1>4, StageMoves
<1>7. /\ barrierPc[i] \notin Down /\ "signalParent" \notin Down /\ "signalParent" \in Told
      /\ \A c \in {"left", "right"} :
           /\ barrierPc[i] \notin Freed(c) /\ "signalParent" \notin Freed(c)
           /\ barrierPc[i] \in Heard(c) /\ "signalParent" \in Heard(c)
  BY <1>1 DEF Told, Down, Freed, Heard
<1>8. \A x \in Participant :
        /\ Stage(x, Down)' = Stage(x, Down)
        /\ \A c \in {"left", "right"} : /\ Stage(x, Freed(c))' = Stage(x, Freed(c))
                                        /\ Stage(x, Heard(c))' = Stage(x, Heard(c))
  BY <1>6, <1>7
<1>9. ASSUME NEW x \in Participant \ {0}
      PROVE  LinkInv(x)'
  <2>1. /\ Parent(x) \in Participant /\ Side(x) \in {"left", "right"} /\ LinkInv(x)
        /\ Child(Parent(x), Side(x)) = x
        /\ Child(Parent(i), Side(i)) = i
    BY Zenon, <1>2, TreeShape DEF TreeInv
  <2>2. sems'[x]["parent"] = sems[x]["parent"]
    BY Zenon, <1>1, <1>3 DEF TreeInv, TreeTypeOK
  <2>3. CASE x # i
    <3>1. sems'[Parent(x)][Side(x)] = sems[Parent(x)][Side(x)]
      BY <1>1, <1>3, <2>1, <2>3 DEF TreeInv, TreeTypeOK
    <3>2. Stage(x, Told)' = Stage(x, Told)
      BY <1>6, <2>3
    <3> QED
      BY Zenon, <1>8, <2>1, <2>2, <3>1, <3>2 DEF LinkInv
  <2>4. CASE x = i
    <3>1. sems'[Parent(x)][Side(x)] = (left[i] + 1) % 3
      BY <1>1, <1>2, <1>3, <2>4 DEF TreeInv, TreeTypeOK
    <3>2. Stage(x, Told)' = left[i] + 1 /\ Stage(x, Down) = left[i]
      BY Zenon, <1>6, <1>7, <2>4 DEF Stage
    <3>3. /\ left[i] \in Nat /\ Stage(x, Told) \in Nat /\ Stage(x, Told) <= left[i] + 1
          /\ Stage(Parent(x), Freed(Side(x))) \in Nat
          /\ Stage(Parent(x), Heard(Side(x))) \in Nat
      BY <1>4, <2>1, <2>4, StageFacts
    <3>4. /\ Stage(Parent(x), Freed(Side(x))) >= left[i]
          /\ Stage(x, Told) >= Stage(Parent(x), Heard(Side(x)))
      BY Zenon, <2>1, <3>2 DEF LinkInv
    <3>5. /\ left[i] + 1 <= Stage(Parent(x), Freed(Side(x))) + 1
          /\ left[i] + 1 >= Stage(Parent(x), Heard(Side(x)))
      BY <3>3, <3>4
    <3> QED
      BY Zenon, <1>8, <2>1, <2>2, <3>1, <3>2, <3>5 DEF LinkInv
  <2> QED
    BY Zenon, <2>3, <2>4
<1> QED
  BY <1>1, <1>4, <1>5, <1>9 DEF TreeInv, barrierVars

\* Telling a child, if there is one
LEMMA TreeTellsChild ==
  ASSUME TreeInv, NEW i \in Participant, NEW c \in {"left", "right"}, TellChild(i, c)
  PROVE  TreeInv' /\ UNCHANGED barrierVars
<1> DEFINE ch == Child(i, c)
<1>1. PICK to \in {"signalLeft", "signalRight", "tellRight", "advance"} :
        /\ barrierPc[i] = (IF c = "left" THEN "tellLeft" ELSE "tellRight")
        /\ barrierPc' = [barrierPc EXCEPT ![i] = to]
        /\ c = "left" => to \in {"signalLeft", "tellRight"}
        /\ c = "right" => to \in {"signalRight", "advance"}
        /\ UNCHANGED <<entered, left, phase>>
        /\ IF ch \in Participant THEN sems' = [sems EXCEPT ![ch]["parent"] = phase[i]]
                                 ELSE UNCHANGED sems
  BY Zenon DEF TellChild, BarrierStep, Tell
<1> HIDE DEF ch
<1>2. phase[i] = (left[i] + 1) % 3
  BY Zenon DEF TreeInv, TreePlace
<1>3. TreeTypeOK /\ TreeTypeOK'
  <2>1. TreeTypeOK
    BY Zenon DEF TreeInv
  <2>2. sems' \in [Participant -> [{"left", "right", "parent"} -> Int]]
    <3>1. CASE ch \in Participant
      BY <1>1, <2>1, <3>1 DEF TreeTypeOK
    <3>2. CASE ch \notin Participant
      BY Zenon, <1>1, <2>1, <3>2 DEF TreeTypeOK
    <3> QED
      BY Zenon, <3>1, <3>2
  <2>3. barrierPc' \in [Participant -> {"out", "left", "right", "tellParent"} \cup Told]
    BY Zenon, <1>1, <2>1 DEF TreeTypeOK, Told, Down
  <2> QED
    BY <1>1, <2>1, <2>2, <2>3 DEF TreeTypeOK
<1>4. \A x \in Participant : TreePlace(x)'
  BY Zenon, <1>1 DEF TreeInv, TreeTypeOK, TreePlace
<1>5. \A S : /\ \A x \in Participant \ {i} : Stage(x, S)' = Stage(x, S)
             /\ (to \in S <=> barrierPc[i] \in S) => Stage(i, S)' = Stage(i, S)
             /\ to \in S => Stage(i, S)' = left[i] + 1
  BY Zenon, <1>1, <1>3, StageMoves
<1>6. /\ barrierPc[i] \in Down /\ to \in Down /\ barrierPc[i] \in Told /\ to \in Told
      /\ \A d \in {"left", "right"} : barrierPc[i] \in Heard(d) /\ to \in Heard(d)
      /\ \A d \in {"left", "right"} \ {c} : to \in Freed(d) <=> barrierPc[i] \in Freed(d)
      /\ to \in Freed(c)
  BY <1>1 DEF Told, Down, Freed, Heard
<1>7. \A x \in Participant :
        /\ Stage(x, Down)' = Stage(x, Down) /\ Stage(x, Told)' = Stage(x, Told)
        /\ \A d \in {"left", "right"} : Stage(x, Heard(d))' = Stage(x, Heard(d))
  BY Zenon, <1>5, <1>6
<1>8. ASSUME NEW x \in Participant \ {0}
      PROVE  LinkInv(x)'
  <2>1. /\ Parent(x) \in Participant /\ Side(x) \in {"left", "right"} /\ LinkInv(x)
        /\ Child(Parent(x), Side(x)) = x
    BY Zenon, TreeShape DEF TreeInv
  <2>2. sems'[Parent(x)][Side(x)] = sems[Parent(x)][Side(x)]
    BY <1>1, <2>1 DEF TreeInv, TreeTypeOK
  <2>3. CASE x # ch
    <3>1. Parent(x) # i \/ Side(x) # c
      BY Zenon, <2>1, <2>3 DEF ch
    <3>2. Stage(Parent(x), Freed(Side(x)))' = Stage(Parent(x), Freed(Side(x)))
      BY Zenon, <1>5, <1>6, <2>1, <3>1
    <3>3. sems'[x]["parent"] = sems[x]["parent"]
      BY ZenonT(30), <1>1, <2>3 DEF TreeInv, TreeTypeOK
    <3> QED
      BY Zenon, <1>7, <2>1, <2>2, <3>2, <3>3 DEF LinkInv
  <2>4. CASE x = ch
    <3>1. Parent(x) = i /\ Side(x) = c
      BY Zenon, <2>4, TreeShape DEF ch
    <3>2. sems'[x]["parent"] = (left[i] + 1) % 3
      BY <1>1, <1>2, <2>4 DEF TreeInv, TreeTypeOK
    <3>3. Stage(i, Freed(c))' = left[i] + 1
      BY Zenon, <1>5, <1>6
    <3>4. /\ left[i] \in Nat /\ Stage(x, Told) \in Nat /\ Stage(x, Down) \in Nat
          /\ Stage(i, Freed(c)) \in Nat /\ Stage(i, Freed(c)) <= left[i] + 1
      BY SMTT(30), <1>3, StageFacts
    <3>5. Stage(x, Told) <= Stage(i, Freed(c)) + 1 /\ Stage(i, Freed(c)) >= Stage(x, Down)
      BY Zenon, <2>1, <3>1 DEF LinkInv
    <3>6. Stage(x, Told) <= left[i] + 1 + 1 /\ left[i] + 1 >= Stage(x, Down)
      BY <3>4, <3>5
    <3> QED
      BY Zenon, <1>7, <2>1, <2>2, <3>1, <3>2, <3>3, <3>6 DEF LinkInv
  <2> QED
    BY Zenon, <2>3, <2>4
<1> QED
  BY <1>1, <1>3, <1>4, <1>8 DEF TreeInv, barrierVars

\* A set of participants has a least one.
LEMMA LeastParticipant ==
  ASSUME NEW S \in SUBSET Participant, S # {}
  PROVE  \E x \in S : \A y \in S : ~(y < x)
<1>1. S \in SUBSET Nat
  BY TreeShape
<1>2. PICK x \in S : \A y \in S : ~(<<y, x>> \in OpToRel(<, Nat))
  BY Zenon, <1>1, NatLessThanWellFounded, WFMin
<1>3. ASSUME NEW y \in S PROVE ~(y < x)
  <2>1. <<y, x>> \notin OpToRel(<, Nat)
    BY Zenon, <1>2
  <2> SUFFICES ASSUME y < x PROVE <<y, x>> \in OpToRel(<, Nat)
    BY Zenon, <2>1
  <2> QED
    BY <1>1 DEF OpToRel
<1> QED
  BY <1>3

\* Once a participant has been told by its parent that it may leave the n-th barrier, the
\* root has been through the same step, hence everyone has told its parent that it is in it.
LEMMA EveryoneIsIn ==
  ASSUME TreeInv, NEW p \in Participant, barrierPc[p] \in Down, NEW q \in Participant
  PROVE  entered[q] >= entered[p]
<1> DEFINE n == entered[p]
           A == {i \in Participant : Stage(i, Down) >= n}
           B == {i \in Participant : Stage(i, Told) < n}
<1>1. /\ n \in Nat /\ TreeTypeOK
      /\ \A i \in Participant : Stage(i, Told) \in Nat /\ Stage(i, Down) \in Nat
  BY Zenon, StageFacts DEF TreeInv, TreeTypeOK
<1>2. ASSUME NEW i \in Participant \ {0}
      PROVE  /\ Parent(i) \in Participant /\ Parent(i) < i
             /\ Stage(Parent(i), Down) >= Stage(i, Down)
             /\ Stage(i, Told) >= Stage(Parent(i), Told)
  <2>1. Parent(i) \in Participant /\ Parent(i) < i /\ Side(i) \in {"left", "right"}
    BY Zenon, TreeShape
  <2>2. /\ Stage(i, Told) >= Stage(Parent(i), Heard(Side(i)))
        /\ Stage(Parent(i), Freed(Side(i))) >= Stage(i, Down)
    BY Zenon DEF TreeInv, LinkInv
  <2>3. /\ Stage(Parent(i), Freed(Side(i))) <= Stage(Parent(i), Down)
        /\ Stage(Parent(i), Told) <= Stage(Parent(i), Heard(Side(i)))
        /\ Stage(Parent(i), Freed(Side(i))) \in Nat
        /\ Stage(Parent(i), Heard(Side(i))) \in Nat
    BY Zenon, <1>1, <2>1, StageFacts
  <2>4. Stage(Parent(i), Down) >= Stage(i, Down)
    BY SMTT(30), <1>1, <2>1, <2>2, <2>3
  <2>5. Stage(i, Told) >= Stage(Parent(i), Told)
    BY SMTT(30), <1>1, <2>1, <2>2, <2>3
  <2> QED
    BY <2>1, <2>4, <2>5
<1>3. p \in A
  <2>1. Stage(p, Down) = left[p] + 1 /\ barrierPc[p] # "out"
    BY DEF Stage, Down
  <2>2. n = left[p] + 1
    BY <2>1 DEF TreeInv, TreePlace
  <2> QED
    BY <1>1, <2>1, <2>2
<1>4. 0 \in A
  <2>1. PICK x \in A : \A y \in A : ~(y < x)
    BY Zenon, <1>3, LeastParticipant
  <2>2. SUFFICES ASSUME x # 0 PROVE FALSE
    BY <2>1
  <2>3. x \in Participant \ {0} /\ Stage(x, Down) >= n
    BY <2>1, <2>2
  <2>4. /\ Parent(x) \in Participant /\ Parent(x) < x
        /\ Stage(Parent(x), Down) >= Stage(x, Down)
    BY <1>2, <2>3
  <2>5. Stage(Parent(x), Down) >= n
    BY <1>1, <2>3, <2>4
  <2> QED
    BY Zenon, <2>1, <2>4, <2>5
<1>5. B = {}
  <2>1. SUFFICES ASSUME B # {} PROVE FALSE
    OBVIOUS
  <2>2. PICK x \in B : \A y \in B : ~(y < x)
    BY Zenon, <2>1, LeastParticipant
  <2>3. x \in Participant /\ Stage(x, Told) < n
    BY <2>2
  <2>4. x # 0
    <3>1. 0 \in Participant /\ Stage(0, Down) >= n
      BY Zenon, <1>4
    <3>2. Stage(0, Told) >= n
      BY <1>1, <3>1, StageFacts
    <3> QED
      BY <1>1, <2>3, <3>1, <3>2
  <2>5. /\ Parent(x) \in Participant /\ Parent(x) < x
        /\ Stage(x, Told) >= Stage(Parent(x), Told)
    BY <1>2, <2>3, <2>4
  <2>6. Stage(Parent(x), Told) < n
    BY <1>1, <2>3, <2>5
  <2> QED
    BY <2>2, <2>5, <2>6
<1>6. Stage(q, Told) >= n
  BY <1>1, <1>5
<1>7. entered[q] \in Nat /\ entered[q] >= Stage(q, Told)
  BY DEF TreeInv, TreeTypeOK, TreePlace, Stage, Told, Down
<1> QED
  BY <1>1, <1>6, <1>7

\* Leaving the barrier starts the next phase and changes no stage: all of them are behind.
LEMMA TreeLeaves ==
  ASSUME TreeInv, NEW i \in Participant, Advance(i)
  PROVE  TreeInv' /\ BarrierLeave(i)
<1>1. /\ barrierPc[i] = "advance" /\ barrierPc' = [barrierPc EXCEPT ![i] = "out"]
      /\ phase' = [phase EXCEPT ![i] = (@ + 1) % 3]
      /\ left' = [left EXCEPT ![i] = @ + 1]
      /\ UNCHANGED <<entered, sems>>
  BY Zenon DEF Advance, BarrierStep
<1>2. /\ left[i] \in Nat /\ entered[i] = left[i] + 1 /\ phase[i] = (left[i] + 1) % 3
      /\ TreeTypeOK
  BY Zenon, <1>1 DEF TreeInv, TreeTypeOK, TreePlace
<1>3. phase'[i] = (left[i] + 1 + 1) % 3
  <2>1. phase'[i] = (((left[i] + 1) % 3) + 1) % 3
    BY Zenon, <1>1, <1>2 DEF TreeTypeOK
  <2>2. left[i] + 1 \in Nat
    BY <1>2
  <2> QED
    BY Zenon, <2>1, <2>2, PhaseFacts
<1>4. TreeTypeOK'
  <2>1. phase' \in [Participant -> Int]
    <3>1. (phase[i] + 1) % 3 \in Int
      BY <1>2 DEF TreeTypeOK
    <3> QED
      BY <1>1, <1>2, <3>1 DEF TreeTypeOK
  <2> QED
    BY Zenon, <1>1, <1>2, <2>1 DEF TreeTypeOK
<1>5. \A x \in Participant : TreePlace(x)'
  <2>1. TreePlace(i)'
    BY Zenon, <1>1, <1>2, <1>3 DEF TreeTypeOK, TreePlace
  <2>2. ASSUME NEW x \in Participant \ {i} PROVE TreePlace(x)'
    BY Zenon, <1>1, <1>2 DEF TreeInv, TreeTypeOK, TreePlace
  <2> QED
    BY Zenon, <2>1, <2>2
<1>6. \A x \in Participant :
        /\ Stage(x, Told)' = Stage(x, Told) /\ Stage(x, Down)' = Stage(x, Down)
        /\ \A c \in {"left", "right"} : /\ Stage(x, Freed(c))' = Stage(x, Freed(c))
                                        /\ Stage(x, Heard(c))' = Stage(x, Heard(c))
  BY Zenon, <1>1, <1>2 DEF TreeTypeOK, Stage, Told, Down, Freed, Heard
<1>7. \A x \in Participant \ {0} : LinkInv(x)'
  BY Zenon, <1>1, <1>6, LinksKept
<1>8. \A q \in Participant : entered[q] >= entered[i]
  BY <1>1, EveryoneIsIn DEF Down
<1>9. BarrierLeave(i)
  BY <1>1, <1>2, <1>8 DEF BarrierLeave
<1> QED
  BY <1>4, <1>5, <1>7, <1>9 DEF TreeInv

\* Every step of the tree barrier is one that Barrier allows.
LEMMA TreeSteps ==
  ASSUME TreeInv, TBNext
  PROVE  TreeInv' /\ [BarrierNext]_barrierVars
<1>1. PICK i \in Participant : TBEnter(i) \/ InTree(i)
  BY Zenon DEF TBNext
<1>2. CASE \/ TBEnter(i) \/ SignalParent(i)
           \/ \E c \in {"left", "right"} : SignalChild(i, c)
           \/ \E c \in {"left", "right", "parent"} : TBBlock(i, c)
  BY <1>2, TreeQuiet DEF BarrierNext
<1>3. CASE \E c \in {"left", "right", "parent"} : TBWaited(i, c)
  BY <1>3, TreeHears, TreeIsTold
<1>4. CASE TellParent(i)
  BY <1>4, TreeTellsParent
<1>5. CASE \E c \in {"left", "right"} : TellChild(i, c)
  BY <1>5, TreeTellsChild
<1>6. CASE Advance(i)
  BY <1>6, TreeLeaves DEF BarrierNext
<1> QED
  BY <1>1, <1>2, <1>3, <1>4, <1>5, <1>6 DEF InTree, Cond

-----------------------------------------------------------------------------
\* The constructs together

\* The first round has a number.
LEMMA ZeroIsNat == 0 \in Nat
OBVIOUS

\* At first no participant is in a construct, and every count is zero.
LEMMA TCStarts == TCInit => TCInv /\ BarrierInit
<1> SUFFICES ASSUME TCInit PROVE TCInv /\ BarrierInit
  OBVIOUS
<1>1. CASE construct \in {"single", "loop"} /\ NoBarrier
  BY <1>1 DEF TCInv, NoBarrier
<1>2. CASE construct = "centralized" /\ CBInit
  BY Zenon, <1>2, CBStarts, ZeroIsNat DEF TCInv
<1>3. CASE construct = "old_centralized" /\ OCInit
  BY Zenon, <1>3, OCStarts, ZeroIsNat DEF TCInv
<1>4. CASE construct = "tree" /\ TBInit
  BY Zenon, <1>4, TreeStarts DEF TCInv
<1> QED
  BY <1>1, <1>2, <1>3, <1>4 DEF TCInit

\* The invariant of the construct in use is kept, and its steps are steps of Barrier.
LEMMA TCInductive ==
  TCInv /\ [TCNext]_tcVars => TCInv' /\ [BarrierNext]_barrierVars
<1> SUFFICES ASSUME TCInv, [TCNext]_tcVars PROVE TCInv' /\ [BarrierNext]_barrierVars
  BY Zenon
<1>1. CASE Use("single") \/ Use("loop")
  <2>1. UNCHANGED <<construct, barrierVars>> /\ construct \in {"single", "loop"}
    BY Zenon, <1>1 DEF Use, barrierState, barrierVars
  <2> QED
    BY Zenon, <2>1 DEF TCInv, barrierVars
<1>2. CASE Use("centralized") /\ CBNext
  <2>1. construct = "centralized" /\ construct' = construct
    BY <1>2 DEF Use
  <2>2. PICK r \in Nat : CBRound(r)
    BY <2>1 DEF TCInv
  <2> QED
    BY <1>2, <2>1, <2>2, CBSteps DEF TCInv
<1>3. CASE Use("old_centralized") /\ OCNext
  <2>1. construct = "old_centralized" /\ construct' = construct
    BY <1>3 DEF Use
  <2>2. PICK r \in Nat : OCRound(r)
    BY Zenon, <2>1 DEF TCInv
  <2> QED
    BY <1>3, <2>1, <2>2, OCSteps DEF TCInv
<1>4. CASE Use("tree") /\ TBNext
  <2>1. construct = "tree" /\ construct' = construct
    BY <1>4 DEF Use
  <2> QED
    BY <1>4, <2>1, TreeSteps DEF TCInv
<1>5. CASE UNCHANGED tcVars
  <2>1. UNCHANGED <<construct, entered, left, sem, flag, sense, sems, phase, barrierPc>>
    BY Zenon, <1>5 DEF tcVars, barrierState
  <2>2. UNCHANGED barrierVars
    BY <2>1 DEF barrierVars
  <2>3. \A r \in Nat : CBRound(r) => CBRound(r)'
    BY Zenon, <2>1, CBStays
  <2>4. \A r \in Nat : OCRound(r) => OCRound(r)'
    BY Zenon, <2>1, OCStays
  <2>5. TreeInv => TreeInv'
    BY Zenon, <2>1, TreeStays
  <2>6. TCInv'
    BY <2>1, <2>3, <2>4, <2>5 DEF TCInv
  <2> QED
    BY Zenon, <2>2, <2>6
<1> QED
  BY <1>1, <1>2, <1>3, <1>4, <1>5 DEF TCNext

\* The inductive invariant of the constructs of a team
THEOREM ConstructsCorrect == TCSpec => []TCInv
<1>1. TCInit => TCInv
  BY TCStarts
<1> QED
  BY <1>1, TCInductive, PTL DEF TCSpec

\* barrier() returns only when every participant has entered it, barrier after barrier: in
\* the centralized, the two-phase and the tree barrier, with any number of participants.
THEOREM BarriersHold == TCSpec => BarrierSpec
<1>1. TCInit => TCInv /\ BarrierInit
  BY TCStarts
<1> QED
  BY <1>1, TCInductive, PTL DEF TCSpec, BarrierSpec

\* The reductions of the team are computed while everyone is inside the same barrier.
THEOREM ReductionsHold == TCSpec => []ReductionsInBarrier
<1>1. TCInv => ReductionsInBarrier
  <2> SUFFICES ASSUME TCInv PROVE ReductionsInBarrier
    BY Zenon
  <2>1. construct = "centralized" => ReductionAlone
    BY Zenon, CBReduces DEF TCInv
  <2>2. construct = "old_centralized" => ReductionBeforeReturn
    BY Zenon, OCReduces DEF TCInv
  <2> QED
    BY <2>1, <2>2 DEF ReductionsInBarrier
<1> QED
  BY <1>1, ConstructsCorrect, PTL
=============================================================================
