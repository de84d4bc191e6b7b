----------------------------- MODULE LoopProofs -----------------------------
(***************************************************************************)
(* The plugins that divide a loop hand out each of its iterations once,    *)
(* for any bounds, any step but zero, any chunk and any number of threads. *)
(*                                                                         *)
(* LPInv has an invariant for each plugin, in terms of the numbers of the  *)
(* iterations (module LoopItemsProofs): how far the threads are with the   *)
(* descriptors of the loops (WSInv) and with their items (HandInv), the    *)
(* tasks with a replicated loop (RSInv), and the slicers with what is left *)
(* of a descriptor (SLInv).                                                *)
(***************************************************************************)
EXTENDS LoopPlugins, LoopItemsProofs, FiniteSetTheorems

-----------------------------------------------------------------------------
\* The worksharing loops

WSTypeOK ==
  /\ nths \in Nat \ {0} /\ kind \in Schedules /\ loops \in Seq(LoopType)
  /\ Len(loops) \in Nat /\ DOMAIN loops = 1..Len(loops)
  /\ linked \in 0..Len(loops)
  /\ data \in [DOMAIN loops -> BOOLEAN] /\ ready \in [DOMAIN loops -> BOOLEAN]
  /\ cur \in [TeamThread -> 0..Len(loops)]
  /\ singles \in [DOMAIN loops -> SUBSET TeamThread]
  /\ wsPc \in [TeamThread -> {"body", "link", "init", "publish", "wait", "items"}]

\* A loop that is linked, or that a thread has come to, has one creator
LoopInv(k) ==
  /\ singles[k] = {} \/ \E t \in TeamThread : singles[k] = {t}
  /\ singles[k] = {} => \A t \in TeamThread : cur[t] < k
  /\ kind # "static" => (k <= linked <=> singles[k] # {})
  /\ ready[k] => data[k]
  /\ data[k] => singles[k] # {}

\* It fills in its descriptor before it says so
LooperInv(t) ==
  /\ kind # "static" => cur[t] <= linked
  /\ wsPc[t] = "link" => cur[t] < Len(loops)
  /\ wsPc[t] \in {"init", "publish", "wait", "items"} => cur[t] # 0
  /\ wsPc[t] \in {"link", "init", "publish", "wait"} => kind # "static"
  /\ wsPc[t] = "init" => singles[cur[t]] = {t} /\ ~data[cur[t]]
  /\ wsPc[t] = "publish" \/ (wsPc[t] = "items" /\ kind # "static") => data[cur[t]]

WSInv ==
  /\ WSTypeOK
  /\ \A k \in DOMAIN loops : LoopInv(k)
  /\ \A t \in TeamThread : LooperInv(t)

\* Going on to the next loop, one that has a descriptor already or that the thread links.
LEMMA LoopLinks ==
  ASSUME WSInv, NEW t \in TeamThread, Lookup(t) \/ Link(t)
  PROVE  WSInv'
<1>1. /\ UNCHANGED <<nths, kind, loops, data, ready>> /\ kind # "static" /\ cur[t] < Len(loops)
      /\ TeamThread' = TeamThread
  BY Zenon DEF Lookup, Link, program, TeamThread, WSInv, LooperInv
<1>2. /\ cur[t] \in 0..Len(loops) /\ cur[t] + 1 \in DOMAIN loops
      /\ cur[t] <= linked /\ linked \in 0..Len(loops) /\ Len(loops) \in Nat
  BY <1>1 DEF WSInv, WSTypeOK, LooperInv
<1>3. CASE UNCHANGED <<linked, singles>> /\ cur[t] < linked /\ cur' = [cur EXCEPT ![t] = @ + 1]
           /\ wsPc' = [wsPc EXCEPT ![t] = "wait"]
  <2>1. WSTypeOK'
    BY SMTT(30), <1>1, <1>2, <1>3 DEF WSInv, WSTypeOK
  <2>2. ASSUME NEW k \in DOMAIN loops
        PROVE  LoopInv(k)'
    <3>1. k \in Nat /\ linked \in Nat /\ cur[t] \in Nat /\ LoopInv(k)
      BY SMTT(30), <1>2 DEF WSInv, WSTypeOK
    <3>2. singles[k] = {} => cur[t] + 1 < k
      BY SMTT(30), <1>1, <1>3, <3>1 DEF LoopInv
    <3>3. singles[k] = {} => \A x \in TeamThread : cur'[x] < k
      BY Zenon, <1>3, <3>1, <3>2 DEF WSInv, WSTypeOK, LoopInv
    <3> QED
      BY Zenon, <1>1, <1>3, <3>1, <3>3 DEF LoopInv
  <2>3. \A x \in TeamThread : LooperInv(x)'
    BY SMTT(30), <1>1, <1>2, <1>3 DEF WSInv, WSTypeOK, LooperInv
  <2> QED
    BY Zenon, <1>1, <2>1, <2>2, <2>3 DEF WSInv
<1>4. CASE UNCHANGED <<linked, singles, cur>> /\ wsPc' = [wsPc EXCEPT ![t] = "link"]
  <2>1. WSTypeOK'
    BY <1>1, <1>4 DEF WSInv, WSTypeOK
  <2>2. \A k \in DOMAIN loops : LoopInv(k)'
    BY Zenon, <1>1, <1>4 DEF WSInv, LoopInv
  <2>3. \A x \in TeamThread : LooperInv(x)'
    BY <1>1, <1>4 DEF WSInv, WSTypeOK, LooperInv
  <2> QED
    BY <1>1, <2>1, <2>2, <2>3 DEF WSInv
<1>5. CASE /\ linked = cur[t] /\ linked' = linked + 1 /\ cur' = [cur EXCEPT ![t] = @ + 1]
           /\ singles' = [singles EXCEPT ![cur[t] + 1] = @ \cup {t}]
           /\ wsPc' = [wsPc EXCEPT ![t] = "init"]
  <2>1. singles[cur[t] + 1] = {}
    BY <1>1, <1>2, <1>5 DEF WSInv, LoopInv
  <2>2. singles' = [singles EXCEPT ![cur[t] + 1] = {t}]
    BY <1>2, <1>5, <2>1 DEF WSInv, WSTypeOK
  <2>3. WSTypeOK'
    BY <1>1, <1>2, <1>5, <2>2 DEF WSInv, WSTypeOK
  <2>4. ASSUME NEW k \in DOMAIN loops
        PROVE  LoopInv(k)'
    <3>1. k \in Nat /\ linked \in Nat /\ cur[t] \in Nat /\ LoopInv(k)
      BY <1>2 DEF WSInv, WSTypeOK
    <3>2. CASE k = cur[t] + 1
      <4>1. singles'[k] = {t} /\ k <= linked'
        BY <1>2, <1>5, <2>2, <3>1, <3>2 DEF WSInv, WSTypeOK
      <4> QED
        BY ZenonT(30), <1>1, <3>1, <4>1 DEF LoopInv
    <3>3. CASE k # cur[t] + 1
      <4>1. singles'[k] = singles[k] /\ (k <= linked' <=> k <= linked)
        BY <1>2, <1>5, <2>2, <3>1, <3>3 DEF WSInv, WSTypeOK
      <4>2. singles[k] = {} => cur[t] + 1 < k
        BY <1>1, <1>5, <3>1, <3>3 DEF LoopInv
      <4>3. singles[k] = {} => \A x \in TeamThread : cur'[x] < k
        BY Zenon, <1>5, <3>1, <4>2 DEF WSInv, WSTypeOK, LoopInv
      <4> QED
        BY Zenon, <1>1, <3>1, <4>1, <4>3 DEF LoopInv
    <3> QED
      BY Zenon, <3>2, <3>3
  <2>5. ASSUME NEW x \in TeamThread
        PROVE  LooperInv(x)'
    <3>1. CASE x = t
      <4>1. /\ cur'[t] = cur[t] + 1 /\ wsPc'[t] = "init" /\ singles'[cur[t] + 1] = {t}
            /\ ~data[cur[t] + 1] /\ cur[t] + 1 <= linked' /\ cur[t] + 1 # 0
        BY SMTT(30), <1>2, <1>5, <2>1, <2>2 DEF WSInv, WSTypeOK, LoopInv
      <4> QED
        BY Zenon, <1>1, <3>1, <4>1 DEF LooperInv
    <3>2. CASE x # t
      <4>1. /\ cur[x] \in Nat /\ cur'[x] = cur[x] /\ wsPc'[x] = wsPc[x] /\ cur[x] <= linked
            /\ LooperInv(x)
        BY SMTT(30), <1>1, <1>5, <3>2 DEF WSInv, WSTypeOK, LooperInv
      <4>2. cur[x] <= linked' /\ cur[x] # cur[t] + 1
        BY <1>2, <1>5, <4>1
      <4>3. cur[x] # 0 => singles'[cur[x]] = singles[cur[x]]
        BY SMTT(30), <2>2, <4>1, <4>2 DEF WSInv, WSTypeOK
      <4> QED
        BY Zenon, <1>1, <4>1, <4>2, <4>3 DEF LooperInv
    <3> QED
      BY <3>1, <3>2
  <2> QED
    BY <1>1, <2>3, <2>4, <2>5 DEF WSInv
<1>6. CASE Lookup(t)
  BY <1>2, <1>3, <1>4, <1>6 DEF Lookup, MoveOn, WSGoto
<1>7. CASE Link(t)
  BY <1>2, <1>3, <1>5, <1>7 DEF Link, MoveOn, WSGoto
<1> QED
  BY Zenon, <1>6, <1>7

\* The creator fills in its descriptor and says so; the others see that it has.
LEMMA LoopFills ==
  ASSUME WSInv, NEW t \in TeamThread,
         InitialiseLoop(t) \/ Publish(t) \/ WaitReady(t)
  PROVE  WSInv'
<1>1. /\ UNCHANGED <<nths, kind, loops, linked, cur, singles>>
      /\ TeamThread' = TeamThread
  BY Zenon DEF InitialiseLoop, Publish, WaitReady, program, TeamThread
<1>2. cur[t] \in DOMAIN loops
  BY SMTT(30) DEF InitialiseLoop, Publish, WaitReady, WSInv, WSTypeOK, LooperInv
<1>3. CASE InitialiseLoop(t)
  <2>1. /\ data' = [data EXCEPT ![cur[t]] = TRUE] /\ UNCHANGED ready
        /\ wsPc' = [wsPc EXCEPT ![t] = "publish"] /\ wsPc[t] = "init"
        /\ singles[cur[t]] = {t} /\ LooperInv(t)
    BY Zenon, <1>3 DEF InitialiseLoop, WSGoto, WSInv, LooperInv
  <2>2. WSTypeOK'
    BY Zenon, <1>1, <1>2, <2>1 DEF WSInv, WSTypeOK
  <2>3. \A k \in DOMAIN loops : LoopInv(k)'
    BY Zenon, <1>1, <1>2, <2>1 DEF WSInv, WSTypeOK, LoopInv
  <2>4. ASSUME NEW x \in TeamThread
        PROVE  LooperInv(x)'
    <3>1. CASE x = t
      BY SMTT(30), <1>1, <1>2, <2>1, <3>1 DEF WSInv, WSTypeOK, LooperInv
    <3>2. CASE x # t
      <4>1. wsPc'[x] = wsPc[x] /\ LooperInv(x)
        BY <2>1, <3>2 DEF WSInv, WSTypeOK
      <4>2. wsPc[x] = "init" => cur[x] # cur[t]
        BY Zenon, <2>1, <3>2, <4>1 DEF LooperInv
      <4>3. cur[x] # 0 => cur[x] \in DOMAIN loops
        BY DEF WSInv, WSTypeOK
      <4>4. ASSUME cur[x] # 0
            PROVE  /\ cur[x] # cur[t] => data'[cur[x]] = data[cur[x]]
                   /\ data[cur[x]] => data'[cur[x]]
        BY ZenonT(30), <1>2, <2>1, <4>3, <4>4 DEF WSInv, WSTypeOK
      <4> QED
        BY Zenon, <1>1, <4>1, <4>2, <4>4 DEF LooperInv
    <3> QED
      BY <3>1, <3>2
  <2> QED
    BY <1>1, <2>2, <2>3, <2>4 DEF WSInv
<1>4. CASE Publish(t)
  <2>1. /\ ready' = [ready EXCEPT ![cur[t]] = TRUE] /\ UNCHANGED data
        /\ wsPc' = [wsPc EXCEPT ![t] = "items"] /\ data[cur[t]] /\ wsPc[t] = "publish"
    BY Zenon, <1>4 DEF Publish, WSGoto, WSInv, LooperInv
  <2>2. WSTypeOK'
    BY Zenon, <1>1, <1>2, <2>1 DEF WSInv, WSTypeOK
  <2>3. \A k \in DOMAIN loops : LoopInv(k)'
    BY Zenon, <1>1, <1>2, <2>1 DEF WSInv, WSTypeOK, LoopInv
  <2>4. \A x \in TeamThread : LooperInv(x)'
    BY SMTT(30), <1>1, <1>2, <2>1 DEF WSInv, WSTypeOK, LooperInv
  <2> QED
    BY <1>1, <2>2, <2>3, <2>4 DEF WSInv
<1>5. CASE WaitReady(t)
  <2>1. /\ UNCHANGED <<data, ready>> /\ wsPc[t] = "wait"
        /\ wsPc' = [wsPc EXCEPT ![t] = "items"] /\ ready[cur[t]]
    BY Zenon, <1>5 DEF WaitReady, WSGoto
  <2>2. data[cur[t]]
    BY Zenon, <1>2, <2>1 DEF WSInv, LoopInv
  <2>3. WSTypeOK'
    BY <1>1, <2>1 DEF WSInv, WSTypeOK
  <2>4. \A k \in DOMAIN loops : LoopInv(k)'
    BY Zenon, <1>1, <2>1 DEF WSInv, LoopInv
  <2>5. \A x \in TeamThread : LooperInv(x)'
    BY Zenon, <1>1, <1>2, <2>1, <2>2 DEF WSInv, WSTypeOK, LooperInv
  <2> QED
    BY <1>1, <2>3, <2>4, <2>5 DEF WSInv
<1> QED
  BY <1>3, <1>4, <1>5

\* Taking an item, or leaving the loop when there is none
LEMMA LoopTakes ==
  ASSUME WSInv, NEW t \in TeamThread, NextItem(t) \/ NextStatic(t)
  PROVE  WSInv'
<1>1. /\ UNCHANGED <<nths, kind, loops, linked, data, ready, cur, singles>>
      /\ TeamThread' = TeamThread
      /\ wsPc' = wsPc \/ wsPc' = [wsPc EXCEPT ![t] = "body"]
  <2>1. \A item : Give(t, item) => wsPc' = wsPc \/ wsPc' = [wsPc EXCEPT ![t] = "body"]
    BY Zenon DEF Give, WSGoto
  <2> QED
    BY Zenon, <2>1 DEF NextItem, NextStatic, program, TeamThread
<1>2. WSTypeOK'
  BY <1>1 DEF WSInv, WSTypeOK
<1>3. \A k \in DOMAIN loops : LoopInv(k)'
  BY Zenon, <1>1 DEF WSInv, LoopInv
<1>4. \A x \in TeamThread : LooperInv(x)'
  BY ZenonT(30), <1>1 DEF WSInv, WSTypeOK, LooperInv
<1> QED
  BY <1>1, <1>2, <1>3, <1>4 DEF WSInv

\* The first thread to come to a static loop is the one the single guard tells.
LEMMA LoopCreates ==
  ASSUME WSInv, NEW t \in TeamThread, CreateStatic(t)
  PROVE  WSInv'
<1>1. /\ UNCHANGED <<nths, kind, loops, linked, data, ready>>
      /\ TeamThread' = TeamThread
      /\ kind = "static" /\ cur[t] < Len(loops) /\ cur' = [cur EXCEPT ![t] = @ + 1]
      /\ wsPc' = [wsPc EXCEPT ![t] = "items"]
      /\ singles' = [singles EXCEPT ![cur[t] + 1] = IF @ = {} THEN {t} ELSE @]
  BY Zenon DEF CreateStatic, MoveOn, WSGoto, program, TeamThread
<1>2. cur[t] \in 0..Len(loops) /\ cur[t] + 1 \in DOMAIN loops /\ Len(loops) \in Nat
  BY <1>1 DEF WSInv, WSTypeOK
<1>3. /\ \A k \in DOMAIN loops : k # cur[t] + 1 => singles'[k] = singles[k]
      /\ singles'[cur[t] + 1] # {}
      /\ \E x \in TeamThread : singles'[cur[t] + 1] = {x}
      /\ singles' \in [DOMAIN loops -> SUBSET TeamThread]
  BY Zenon, <1>1, <1>2 DEF WSInv, WSTypeOK, LoopInv
<1>4. WSTypeOK'
  BY <1>1, <1>2, <1>3 DEF WSInv, WSTypeOK
<1>5. ASSUME NEW k \in DOMAIN loops
      PROVE  LoopInv(k)'
  <2>1. k \in Nat /\ cur[t] \in Nat /\ LoopInv(k)
    BY <1>2 DEF WSInv, WSTypeOK
  <2>2. CASE k = cur[t] + 1
    BY Zenon, <1>1, <1>3, <2>1, <2>2 DEF LoopInv
  <2>3. CASE k # cur[t] + 1
    <3>1. singles'[k] = singles[k]
      BY Zenon, <1>3, <2>3
    <3>2. singles[k] = {} => cur[t] + 1 < k
      BY SMTT(30), <2>1, <2>3 DEF LoopInv
    <3>3. singles[k] = {} => \A x \in TeamThread : cur'[x] < k
      BY Zenon, <1>1, <2>1, <3>2 DEF WSInv, WSTypeOK, LoopInv
    <3> QED
      BY Zenon, <1>1, <2>1, <3>1, <3>3 DEF LoopInv
  <2> QED
    BY <2>2, <2>3
<1>6. \A x \in TeamThread : LooperInv(x)'
  BY SMTT(30), <1>1, <1>2 DEF WSInv, WSTypeOK, LooperInv
<1> QED
  BY Zenon, <1>1, <1>4, <1>5, <1>6 DEF WSInv

\* The initial state of a team that goes through its loops
LEMMA LoopStarts == WSInit => WSInv
<1> SUFFICES ASSUME WSInit PROVE WSInv
  BY Zenon
<1>1. PICK p \in Programs : nths = p.nths /\ kind = p.kind /\ loops = p.loops
  BY Zenon DEF WSInit
<1>2. nths \in Nat \ {0}
  BY <1>1, LoopAssumption
<1>3. Len(loops) \in Nat /\ DOMAIN loops = 1..Len(loops)
  BY <1>1, LoopAssumption
<1>4. kind \in Schedules /\ loops \in Seq(LoopType)
  BY <1>1, LoopAssumption
<1>5. WSTypeOK
  BY SMTT(30), <1>2, <1>3, <1>4 DEF WSInit, Index, TeamThread, WSTypeOK
<1>6. \A k \in DOMAIN loops : LoopInv(k)
  BY SMTT(30), <1>3 DEF WSInit, Index, LoopInv
<1>7. \A t \in TeamThread : LooperInv(t)
  BY SMTT(30) DEF WSInit, Index, LooperInv
<1> QED
  BY <1>5, <1>6, <1>7 DEF WSInv

\* A step that leaves the loops alone keeps their invariant.
LEMMA LoopStays ==
  ASSUME WSInv, UNCHANGED <<nths, kind, loops, linked, data, ready, cur, singles, wsPc>>
  PROVE  WSInv'
BY Zenon DEF WSInv, WSTypeOK, LoopInv, LooperInv, TeamThread

\* The invariant gives each loop its creator, and a descriptor that is filled in.
LEMMA LoopSafe == WSInv => OneSingle /\ UsedWhenFilled
<1> SUFFICES ASSUME WSInv PROVE OneSingle /\ UsedWhenFilled
  BY Zenon
<1>1. UsedWhenFilled
  BY Zenon DEF WSInv, LooperInv, UsedWhenFilled
<1>2. ASSUME NEW k \in DOMAIN loops
      PROVE  /\ Cardinality(singles[k]) <= 1
             /\ (\A t \in TeamThread : Past(t, k)) => singles[k] # {}
  <2>1. LoopInv(k) /\ k \in Nat /\ \A t \in TeamThread : cur[t] \in Nat
    BY DEF WSInv, WSTypeOK
  <2>2. Cardinality(singles[k]) <= 1
    <3>1. CASE singles[k] = {}
      BY <3>1, FS_EmptySet
    <3>2. CASE \E t \in TeamThread : singles[k] = {t}
      BY <3>2, FS_Singleton
    <3> QED
      BY Zenon, <2>1, <3>1, <3>2 DEF LoopInv
  <2>3. 0 \in TeamThread
    BY DEF WSInv, WSTypeOK, TeamThread
  <2>4. ASSUME Past(0, k) PROVE singles[k] # {}
    BY <2>1, <2>3, <2>4 DEF LoopInv, Past
  <2> QED
    BY Zenon, <2>2, <2>3, <2>4
<1> QED
  BY Zenon, <1>1, <1>2 DEF OneSingle, Index

-----------------------------------------------------------------------------
\* The items of the worksharing loops of a team

\* Every chunk that has been handed out of a dynamic or guided loop is before
\* its currentChunk, and a thread leaves it when there are none.
ChunkLoop(k) ==
  /\ Chunked(kind, loops[k], nths, currentChunk[k], items[k])
  /\ ~data[k] => currentChunk[k] = 0
  /\ \A t \in TeamThread : Past(t, k) => currentChunk[k] >= NumOfChunks(kind, loops[k], nths)

\* A thread has taken none of the iterations of a static loop that it owns, or
\* those before its lower bound, or all.
StaticLoop(k) ==
  /\ Shared(loops[k], nths, items[k])
  /\ \A t \in TeamThread :
       /\ cur[t] < k => Share(loops[k], nths, items[k], t, {})
       /\ cur[t] = k /\ wsPc[t] = "items" => Passed(loops[k], nths, items[k], t, lower[t])
       /\ Past(t, k) => Share(loops[k], nths, items[k], t, Owned(loops[k], nths, t))

HandInv ==
  /\ currentChunk \in [DOMAIN loops -> Nat] /\ DOMAIN items = DOMAIN loops
  /\ DOMAIN lower = TeamThread
  /\ \A k \in DOMAIN loops : IF kind = "static" THEN StaticLoop(k) ELSE ChunkLoop(k)

\* An item that is handed out is one more item of its thread.
Entry(S, t, item) ==
  [thread |-> t, nth |-> Cardinality({a \in S : a.thread = t}), item |-> item]

\* It has the thread and the item.
LEMMA HandedOne ==
  ASSUME NEW S, NEW t, NEW item
  PROVE  /\ Entry(S, t, item).thread = t /\ Entry(S, t, item).item = item
         /\ Handed(S, t, item) = S \cup {Entry(S, t, item)}
<1>1. Entry(S, t, item).thread = t /\ Entry(S, t, item).item = item
  BY DEF Entry
<1> QED
  BY Zenon, <1>1 DEF Handed, Entry

\* The next chunk is handed to a thread.
LEMMA ChunkHanded ==
  ASSUME NEW kd \in {"dynamic", "guided"}, NEW l \in LoopType, NEW nt \in Nat \ {0},
         NEW cc, NEW S, Chunked(kd, l, nt, cc, S), ~(cc >= NumOfChunks(kd, l, nt)), NEW t
  PROVE  LET item == ChunkItem(kd, l, nt, cc)
         IN item.execute /\ Chunked(kd, l, nt, cc + 1, Handed(S, t, item))
<1> DEFINE item == ChunkItem(kd, l, nt, cc)
<1> DEFINE e == Entry(S, t, item)
<1>1. e.item = item /\ Handed(S, t, item) = S \cup {e}
  <2> HIDE DEF item
  <2> QED BY ONLY HandedOne
<1> HIDE DEF e
<1>2. e.item.execute /\ Chunked(kd, l, nt, cc + 1, S \cup {e})
  BY Zenon, <1>1, ChunkGiven
<1> HIDE DEF item
<1>3. item.execute /\ Chunked(kd, l, nt, cc + 1, Handed(S, t, item))
  BY ONLY Zenon, <1>1, <1>2
<1> QED
  BY ONLY Zenon, <1>3 DEF item

\* A thread is handed an item of its share.
LEMMA ShareHanded ==
  ASSUME NEW l \in LoopType, NEW nt \in Nat \ {0}, NEW i \in 0..(nt - 1), NEW S, NEW lo,
         Shared(l, nt, S), Passed(l, nt, S, i, lo),
         StaticItem([l EXCEPT !.lower = lo], nt, i).execute
  PROVE  LET m == [l EXCEPT !.lower = lo]
             T == Handed(S, i, StaticItem(m, nt, i))
         IN /\ Shared(l, nt, T) /\ Passed(l, nt, T, i, StaticLower(m, nt))
            /\ \A F : \A j \in 0..(nt - 1) : j # i /\ Share(l, nt, S, j, F) => Share(l, nt, T, j, F)
<1> DEFINE m == [l EXCEPT !.lower = lo]
           item == StaticItem(m, nt, i)
           T == Handed(S, i, item)
<1> DEFINE e == Entry(S, i, item)
<1>1. e.thread = i /\ e.item = item /\ T = S \cup {e}
  <2> HIDE DEF item
  <2> QED BY ONLY HandedOne
<1> HIDE DEF e
<1>2. LET U == S \cup {e}
      IN /\ Shared(l, nt, U) /\ Passed(l, nt, U, i, StaticLower(m, nt))
         /\ \A F : \A j \in 0..(nt - 1) : j # i /\ Share(l, nt, S, j, F) => Share(l, nt, U, j, F)
  BY Zenon, <1>1, ShareGiven
<1> HIDE DEF T, m
<1>3. /\ Shared(l, nt, T) /\ Passed(l, nt, T, i, StaticLower(m, nt))
      /\ \A F : \A j \in 0..(nt - 1) : j # i /\ Share(l, nt, S, j, F) => Share(l, nt, T, j, F)
  BY ONLY Zenon, <1>1, <1>2
<1> QED
  BY ONLY Zenon, <1>3 DEF T, m, item

\* What the loops of a team and their schedules are.
LEMMA LoopTypes ==
  ASSUME WSInv
  PROVE  /\ nths \in Nat \ {0} /\ TeamThread = 0..(nths - 1)
         /\ \A k \in DOMAIN loops : k \in Nat /\ loops[k] \in LoopType
         /\ kind # "static" => kind \in {"dynamic", "guided"}
         /\ \A t \in TeamThread : cur[t] \in Nat /\ (cur[t] # 0 => cur[t] \in DOMAIN loops)
BY DEF WSInv, WSTypeOK, TeamThread, Schedules

\* On its way to a dynamic or guided loop, a thread takes nothing from any loop.
LEMMA HandWaits ==
  ASSUME WSInv, HandInv, NEW t \in TeamThread,
         Lookup(t) \/ Link(t) \/ InitialiseLoop(t) \/ Publish(t) \/ WaitReady(t)
  PROVE  HandInv'
<1>1. /\ UNCHANGED <<nths, kind, loops, lower, items>> /\ TeamThread' = TeamThread
      /\ kind # "static"
  BY Zenon DEF Lookup, Link, InitialiseLoop, Publish, WaitReady, program, TeamThread, WSInv, LooperInv
<1>2. /\ \A k \in DOMAIN loops : data[k] => data'[k]
      /\ UNCHANGED currentChunk
  <2>1. CASE InitialiseLoop(t)
    <3>1. ~data[cur[t]] /\ cur[t] \in DOMAIN loops
      BY Zenon, <2>1, LoopTypes DEF InitialiseLoop, WSInv, LooperInv
    <3>2. currentChunk[cur[t]] = 0
      BY Zenon, <1>1, <3>1 DEF HandInv, ChunkLoop
    <3>3. UNCHANGED currentChunk
      BY ZenonT(30), <2>1, <3>1, <3>2 DEF InitialiseLoop, HandInv
    <3>4. \A k \in DOMAIN loops : data[k] => data'[k]
      BY <2>1 DEF InitialiseLoop, WSInv, WSTypeOK
    <3> QED
      BY <3>3, <3>4
  <2> QED
    BY Zenon, <2>1 DEF Lookup, Link, Publish, WaitReady
<1>3. ASSUME NEW k \in DOMAIN loops, NEW u \in TeamThread, Past(u, k)'
      PROVE  Past(u, k)
  <2>1. k \in Nat /\ cur[u] \in Nat /\ DOMAIN wsPc = TeamThread /\ DOMAIN cur = TeamThread
    BY LoopTypes DEF WSInv, WSTypeOK
  <2>2. \/ /\ cur' = [cur EXCEPT ![t] = @ + 1] /\ wsPc[t] \in {"body", "link"}
           /\ \E s \in {"wait", "init"} : wsPc' = [wsPc EXCEPT ![t] = s]
        \/ cur' = cur /\ wsPc' = [wsPc EXCEPT ![t] = "link"] /\ wsPc[t] = "body"
        \/ /\ cur' = cur
           /\ \E s \in {"publish", "items"} : wsPc' = [wsPc EXCEPT ![t] = s]
    BY Zenon DEF Lookup, Link, InitialiseLoop, Publish, WaitReady, MoveOn, WSGoto
  <2> QED
    BY <1>3, <2>1, <2>2 DEF Past
<1>4. ASSUME NEW k \in DOMAIN loops PROVE ChunkLoop(k)'
  <2>1. ChunkLoop(k)
    BY Zenon, <1>1 DEF HandInv
  <2> QED
    BY Zenon, <1>1, <1>2, <1>3, <2>1 DEF ChunkLoop
<1> QED
  BY Zenon, <1>1, <1>2, <1>4 DEF HandInv

\* A thread takes the next chunk of a dynamic or guided loop, or leaves the loop.
LEMMA HandChunk ==
  ASSUME WSInv, HandInv, NEW t \in TeamThread, NextItem(t)
  PROVE  HandInv'
<1> DEFINE c == cur[t]
           cc == currentChunk[c]
           N == NumOfChunks(kind, loops[c], nths)
           item == ChunkItem(kind, loops[c], nths, cc)
<1>1. /\ UNCHANGED <<nths, kind, loops, lower, data, cur>> /\ TeamThread' = TeamThread
      /\ kind # "static" /\ wsPc[t] = "items" /\ c \in DOMAIN loops /\ data[c]
      /\ currentChunk' = [currentChunk EXCEPT ![c] = cc + 1]
  BY Zenon, LoopTypes DEF NextItem, program, TeamThread, WSInv, LooperInv
<1>2. /\ currentChunk' \in [DOMAIN loops -> Nat] /\ currentChunk'[c] = cc + 1 /\ cc \in Nat
      /\ \A k \in DOMAIN loops : k # c => currentChunk'[k] = currentChunk[k]
  BY <1>1 DEF HandInv
<1>3. ChunkLoop(c) /\ kind \in {"dynamic", "guided"} /\ nths \in Nat \ {0} /\ loops[c] \in LoopType
  BY Zenon, <1>1, LoopTypes DEF HandInv
<1>4. CASE cc >= N
  <2>1. items' = items /\ wsPc' = [wsPc EXCEPT ![t] = "body"]
    <3>1. ~NoItem.execute
      BY DEF NoItem, Item
    <3> QED
      BY Zenon, <1>4, <3>1 DEF NextItem, Give, WSGoto
  <2>2. Chunked(kind, loops[c], nths, cc + 1, items[c]) /\ cc + 1 >= N
    BY Zenon, <1>3, <1>4, ChunkRefused DEF ChunkLoop
  <2>3. ChunkLoop(c)'
    BY Zenon, <1>1, <1>2, <2>1, <2>2 DEF ChunkLoop
  <2>4. ASSUME NEW k \in DOMAIN loops, k # c PROVE ChunkLoop(k)'
    <3>1. ASSUME NEW u \in TeamThread, Past(u, k)' PROVE Past(u, k)
      BY Zenon, <1>1, <2>1, <2>4, <3>1 DEF Past, WSInv, WSTypeOK
    <3> QED
      BY Zenon, <1>1, <1>2, <2>1, <2>4, <3>1 DEF ChunkLoop, HandInv
  <2> QED
    BY Zenon, <1>1, <1>2, <2>1, <2>3, <2>4 DEF HandInv
<1>5. CASE ~(cc >= N)
  <2>1. /\ item.execute
        /\ Chunked(kind, loops[c], nths, cc + 1, Handed(items[c], t, item))
    BY Zenon, <1>3, <1>5, ChunkHanded DEF ChunkLoop
  <2>2. /\ items' = [items EXCEPT ![c] = Handed(@, t, item)]
        /\ UNCHANGED wsPc
    BY Zenon, <1>5, <2>1 DEF NextItem, Give
  <2>3. /\ DOMAIN items' = DOMAIN loops
        /\ items'[c] = Handed(items[c], t, item)
        /\ \A k \in DOMAIN loops : k # c => items'[k] = items[k]
    BY Zenon, <1>1, <2>2 DEF HandInv
  <2>4. \A u, k : Past(u, k)' <=> Past(u, k)
    BY Zenon, <1>1, <2>2 DEF Past
  <2>5. ChunkLoop(c)'
    BY Zenon, <1>1, <1>2, <1>3, <1>5, <2>1, <2>3, <2>4 DEF ChunkLoop
  <2>6. ASSUME NEW k \in DOMAIN loops, k # c PROVE ChunkLoop(k)'
    BY Zenon, <1>1, <1>2, <2>3, <2>4, <2>6 DEF ChunkLoop, HandInv
  <2> QED
    BY Zenon, <1>1, <1>2, <2>3, <2>5, <2>6 DEF HandInv
<1> QED
  BY <1>4, <1>5

\* A thread comes to its next static loop.
LEMMA HandCreates ==
  ASSUME WSInv, HandInv, NEW t \in TeamThread, CreateStatic(t)
  PROVE  HandInv'
<1> DEFINE c == cur[t] + 1
<1>1. /\ UNCHANGED <<nths, kind, loops, items, currentChunk>> /\ TeamThread' = TeamThread
      /\ kind = "static" /\ wsPc[t] = "body" /\ cur[t] < Len(loops)
      /\ cur' = [cur EXCEPT ![t] = @ + 1] /\ wsPc' = [wsPc EXCEPT ![t] = "items"]
      /\ lower' = [lower EXCEPT ![t] = loops[c].lower]
  BY Zenon DEF CreateStatic, MoveOn, WSGoto, program, TeamThread
<1>2. /\ c \in DOMAIN loops /\ c \in Nat /\ cur[t] \in Nat /\ cur'[t] = c /\ wsPc'[t] = "items"
      /\ lower'[t] = loops[c].lower
      /\ \A u \in TeamThread : u # t => cur'[u] = cur[u] /\ wsPc'[u] = wsPc[u] /\ lower'[u] = lower[u]
  BY <1>1 DEF WSInv, WSTypeOK, HandInv
<1>3. ASSUME NEW k \in DOMAIN loops PROVE StaticLoop(k)'
  <2>1. StaticLoop(k) /\ k \in Nat /\ loops[k] \in LoopType /\ nths \in Nat \ {0}
    BY Zenon, <1>1, LoopTypes DEF HandInv
  <2>2. ASSUME NEW u \in TeamThread, u # t
        PROVE  /\ cur'[u] < k => Share(loops[k], nths, items[k], u, {})
               /\ cur'[u] = k /\ wsPc'[u] = "items" => Passed(loops[k], nths, items[k], u, lower'[u])
               /\ Past(u, k)' => Share(loops[k], nths, items[k], u, Owned(loops[k], nths, u))
    BY Zenon, <1>2, <2>1, <2>2 DEF StaticLoop, Past
  <2>3. cur'[t] < k => cur[t] < k
    BY SMTT(30), <1>2, <2>1
  <2>4. ASSUME cur'[t] = k PROVE Passed(loops[k], nths, items[k], t, lower'[t])
    <3>1. cur[t] < k /\ lower'[t] = loops[k].lower
      BY <1>2, <2>1, <2>4
    <3> QED
      BY Zenon, <2>1, <3>1, PassedNone DEF StaticLoop
  <2>5. Past(t, k)' => Past(t, k)
    BY <1>1, <1>2, <2>1 DEF Past
  <2> QED
    BY Zenon, <1>1, <2>1, <2>2, <2>3, <2>4, <2>5 DEF StaticLoop
<1>4. DOMAIN lower' = TeamThread
  BY Zenon, <1>1 DEF HandInv
<1> QED
  BY Zenon, <1>1, <1>3, <1>4 DEF HandInv

\* A thread takes its next item of a static loop, or leaves the loop.
LEMMA HandStatic ==
  ASSUME WSInv, HandInv, NEW t \in TeamThread, NextStatic(t)
  PROVE  HandInv'
<1> DEFINE c == cur[t]
           m == [loops[c] EXCEPT !.lower = lower[t]]
           item == StaticItem(m, nths, t)
           next == StaticLower(m, nths)
           T == Handed(items[c], t, item)
<1>1. /\ UNCHANGED <<nths, kind, loops, currentChunk, cur>> /\ TeamThread' = TeamThread
      /\ kind = "static" /\ wsPc[t] = "items" /\ c \in DOMAIN loops
      /\ lower' = [lower EXCEPT ![t] = next]
      /\ Give(t, item)
  BY Zenon, LoopTypes DEF NextStatic, program, TeamThread, WSInv, LooperInv
<1>2. /\ DOMAIN lower' = TeamThread /\ lower'[t] = next
      /\ \A u \in TeamThread : u # t => lower'[u] = lower[u]
  BY Zenon, <1>1 DEF HandInv
<1>3. /\ StaticLoop(c) /\ nths \in Nat \ {0} /\ loops[c] \in LoopType /\ t \in 0..(nths - 1)
      /\ TeamThread = 0..(nths - 1)
  BY Zenon, <1>1, LoopTypes DEF HandInv
<1>4. Shared(loops[c], nths, items[c]) /\ Passed(loops[c], nths, items[c], t, lower[t])
  BY Zenon, <1>1, <1>3 DEF StaticLoop
<1>5. CASE ~item.execute
  <2>1. items' = items /\ wsPc' = [wsPc EXCEPT ![t] = "body"]
    BY Zenon, <1>1, <1>5 DEF Give, WSGoto
  <2>2. Share(loops[c], nths, items[c], t, Owned(loops[c], nths, t))
    BY Zenon, <1>3, <1>4, <1>5, ShareRefused
  <2>3. wsPc'[t] = "body" /\ \A u \in TeamThread : u # t => wsPc'[u] = wsPc[u]
    BY <2>1 DEF WSInv, WSTypeOK
  <2>4. ASSUME NEW k \in DOMAIN loops PROVE StaticLoop(k)'
    <3>1. StaticLoop(k)
      BY Zenon, <1>1 DEF HandInv
    <3>2. ASSUME NEW u \in TeamThread
          PROVE  /\ cur'[u] < k => Share(loops[k], nths, items[k], u, {})
                 /\ cur'[u] = k /\ wsPc'[u] = "items" => Passed(loops[k], nths, items[k], u, lower'[u])
                 /\ Past(u, k)' => Share(loops[k], nths, items[k], u, Owned(loops[k], nths, u))
      <4>1. CASE u # t
        BY Zenon, <1>1, <1>2, <2>3, <3>1, <4>1 DEF StaticLoop, Past
      <4>2. CASE u = t
        <5>1. Past(t, k)' => Past(t, k) \/ k = c
          BY Zenon, <1>1 DEF Past
        <5> QED
          BY Zenon, <1>1, <2>2, <2>3, <3>1, <4>2, <5>1 DEF StaticLoop
      <4> QED
        BY ZenonT(30), <4>1, <4>2
    <3> QED
      BY Zenon, <1>1, <2>1, <3>1, <3>2 DEF StaticLoop
  <2> QED
    BY Zenon, <1>1, <1>2, <2>1, <2>4 DEF HandInv
<1>6. CASE item.execute
  <2>1. items' = [items EXCEPT ![c] = T] /\ UNCHANGED wsPc
    BY Zenon, <1>1, <1>6 DEF Give
  <2>2. /\ Shared(loops[c], nths, T) /\ Passed(loops[c], nths, T, t, next)
        /\ \A F : \A j \in 0..(nths - 1) :
             j # t /\ Share(loops[c], nths, items[c], j, F) => Share(loops[c], nths, T, j, F)
    BY Zenon, <1>3, <1>4, <1>6, ShareHanded
  <2>3. /\ DOMAIN items' = DOMAIN loops /\ items'[c] = T
        /\ \A k \in DOMAIN loops : k # c => items'[k] = items[k]
    BY Zenon, <1>1, <2>1 DEF HandInv
  <2> HIDE DEF T
  <2>4. \A u, k : Past(u, k)' <=> Past(u, k)
    BY Zenon, <1>1, <2>1 DEF Past
  <2>5. StaticLoop(c)'
    <3>1. ASSUME NEW u \in TeamThread
          PROVE  /\ cur'[u] < c => Share(loops[c], nths, T, u, {})
                 /\ cur'[u] = c /\ wsPc'[u] = "items" => Passed(loops[c], nths, T, u, lower'[u])
                 /\ Past(u, c)' => Share(loops[c], nths, T, u, Owned(loops[c], nths, u))
      <4>1. CASE u # t
        BY Zenon, <1>1, <1>2, <1>3, <2>1, <2>2, <2>4, <4>1 DEF StaticLoop, Passed
      <4>2. CASE u = t
        <5>1. ~(cur[t] < c) /\ ~Past(t, c)
          BY <1>1, LoopTypes DEF Past
        <5> QED
          BY Zenon, <1>1, <1>2, <2>2, <2>4, <4>2, <5>1
      <4> QED
        BY ZenonT(30), <4>1, <4>2
    <3> QED
      BY Zenon, <1>1, <2>2, <2>3, <3>1 DEF StaticLoop
  <2>6. ASSUME NEW k \in DOMAIN loops, k # c PROVE StaticLoop(k)'
    <3>1. StaticLoop(k)
      BY Zenon, <1>1 DEF HandInv
    <3>2. \A u \in TeamThread : cur'[u] = k => lower'[u] = lower[u]
      BY Zenon, <1>1, <1>2, <2>6
    <3> QED
      BY Zenon, <1>1, <2>1, <2>3, <2>4, <2>6, <3>1, <3>2 DEF StaticLoop
  <2> QED
    BY Zenon, <1>1, <1>2, <2>3, <2>5, <2>6 DEF HandInv
<1> QED
  BY <1>5, <1>6

\* No thread has any item at first.
LEMMA HandStarts == WSInit => HandInv
<1> SUFFICES ASSUME WSInit PROVE HandInv
  BY Zenon
<1>1. WSInv
  BY Zenon, LoopStarts
<1>2. /\ currentChunk \in [DOMAIN loops -> Nat] /\ DOMAIN items = DOMAIN loops
      /\ DOMAIN lower = TeamThread
      /\ \A k \in DOMAIN loops : currentChunk[k] = 0 /\ items[k] = {}
      /\ \A t \in TeamThread : cur[t] = 0
  BY DEF WSInit, Index
<1>3. ASSUME NEW k \in DOMAIN loops
      PROVE  IF kind = "static" THEN StaticLoop(k) ELSE ChunkLoop(k)
  <2>1. /\ loops[k] \in LoopType /\ nths \in Nat \ {0} /\ TeamThread = 0..(nths - 1)
        /\ kind # "static" => kind \in {"dynamic", "guided"}
    BY Zenon, <1>1, LoopTypes
  <2>2. k > 0 /\ k \in Nat
    BY <1>1 DEF WSInv, WSTypeOK
  <2>3. \A t \in TeamThread : ~Past(t, k) /\ cur[t] # k
    BY <1>2, <2>2 DEF Past
  <2>4. CASE kind # "static"
    <3>1. Chunked(kind, loops[k], nths, 0, {})
      BY Zenon, <2>1, <2>4, ChunkNone
    <3> QED
      BY Zenon, <1>2, <2>3, <2>4, <3>1 DEF ChunkLoop
  <2>5. CASE kind = "static"
    <3>1. \A t \in TeamThread : Share(loops[k], nths, {}, t, {})
      BY Zenon, ShareNone
    <3>2. Shared(loops[k], nths, {})
      BY Zenon, <2>1, <3>1, NoItems DEF Shared, Ranged
    <3> QED
      BY Zenon, <1>2, <2>3, <2>5, <3>1, <3>2 DEF StaticLoop
  <2> QED
    BY <2>4, <2>5
<1> QED
  BY Zenon, <1>2, <1>3 DEF HandInv

\* A step that leaves the loops alone keeps their invariant.
LEMMA HandStays ==
  ASSUME HandInv, UNCHANGED <<nths, kind, loops, data, cur, wsPc, currentChunk, lower, items>>
  PROVE  HandInv'
BY Zenon DEF HandInv, ChunkLoop, StaticLoop, Past, TeamThread

\* The items that have been handed out are apart, and a loop that every thread
\* has left has been handed out.
LEMMA HandSafe == WSInv /\ HandInv => NoIterationTwice /\ EveryIteration
<1> SUFFICES ASSUME WSInv, HandInv PROVE NoIterationTwice /\ EveryIteration
  BY Zenon
<1>1. ASSUME NEW k \in DOMAIN loops
      PROVE  /\ Apart(loops[k], items[k]) /\ Ranged(loops[k], items[k])
             /\ (\A t \in TeamThread : Past(t, k)) => HandedOut(loops[k], items[k]) = Iterations(loops[k])
  <2>1. /\ loops[k] \in LoopType /\ nths \in Nat \ {0} /\ TeamThread = 0..(nths - 1)
        /\ kind # "static" => kind \in {"dynamic", "guided"}
    BY Zenon, LoopTypes
  <2>2. CASE kind # "static"
    <3>1. ChunkLoop(k) /\ Chunked(kind, loops[k], nths, currentChunk[k], items[k])
      BY Zenon, <2>2 DEF HandInv, ChunkLoop
    <3>2. 0 \in TeamThread
      BY <2>1
    <3>3. ASSUME currentChunk[k] >= NumOfChunks(kind, loops[k], nths)
          PROVE  HandedOut(loops[k], items[k]) = Iterations(loops[k])
      BY ONLY SMTT(30), <2>1, <2>2, <3>1, <3>3, ChunkRefused
    <3> QED
      BY Zenon, <3>1, <3>2, <3>3 DEF ChunkLoop, Chunked
  <2>3. CASE kind = "static"
    <3>1. StaticLoop(k)
      BY Zenon, <2>3 DEF HandInv
    <3> QED
      BY Zenon, <2>1, <3>1, SharedAll DEF StaticLoop, Shared
  <2> QED
    BY SMTT(30), <2>2, <2>3
<1> QED
  BY Zenon, <1>1 DEF NoIterationTwice, EveryIteration, Index, Apart, Ranged, HandedOut

\* The invariant of the worksharing plugins, and that their steps keep it.
LEMMA WorkSharingStep ==
  ASSUME WSInv, HandInv, WSNext
  PROVE  WSInv' /\ HandInv'
<1>1. PICK t \in TeamThread : ThreadStep(t)
  BY Zenon DEF WSNext
<1>2. CASE Lookup(t) \/ Link(t)
  BY Zenon, <1>2, LoopLinks, HandWaits
<1>3. CASE InitialiseLoop(t) \/ Publish(t) \/ WaitReady(t)
  BY Zenon, <1>3, LoopFills, HandWaits
<1>4. CASE NextItem(t)
  BY Zenon, <1>4, LoopTakes, HandChunk
<1>5. CASE CreateStatic(t)
  BY Zenon, <1>5, LoopCreates, HandCreates
<1>6. CASE NextStatic(t)
  BY Zenon, <1>6, LoopTakes, HandStatic
<1> QED
  BY Zenon, <1>1, <1>2, <1>3, <1>4, <1>5, <1>6 DEF ThreadStep

-----------------------------------------------------------------------------
\* The items of a loop that the replicating slicer gives to tasks

\* A task that ends has found no chunk left, whatever the others took while the
\* items left were read; a static loop has a task for each thread, which ends
\* when it has run all that the thread owns.
RSInv ==
  /\ nths \in Nat \ {0} /\ kind \in Schedules /\ loop \in LoopType
  /\ running \subseteq TeamThread
  /\ ~submitted => running = {} /\ ~queued
  /\ kind # "static" =>
       /\ Chunked(kind, loop, nths, currentChunk, items)
       /\ submitted /\ ~queued /\ running = {} => currentChunk >= Chunks
  /\ kind = "static" =>
       /\ ~queued /\ DOMAIN lower = TeamThread
       /\ Shared(loop, nths, items)
       /\ \A t \in TeamThread :
            IF submitted /\ t \notin running
              THEN Share(loop, nths, items, t, Owned(loop, nths, t))
              ELSE Passed(loop, nths, items, t, lower[t])

\* What holds of the constants of a replicated loop in every state.
LEMMA TaskTypes ==
  ASSUME RSInv
  PROVE  /\ nths \in Nat \ {0} /\ loop \in LoopType /\ TeamThread = 0..(nths - 1)
         /\ kind # "static" => kind \in {"dynamic", "guided"}
BY Zenon DEF RSInv, Schedules, TeamThread

\* No task has any item at first.
LEMMA TasksStart == RSInit => RSInv
<1> SUFFICES ASSUME RSInit PROVE RSInv
  BY Zenon
<1>1. /\ nths \in Nat \ {0} /\ kind \in Schedules /\ loop \in LoopType
      /\ running = {} /\ ~submitted /\ ~queued /\ currentChunk = 0 /\ items = {}
      /\ DOMAIN lower = TeamThread /\ TeamThread = 0..(nths - 1)
      /\ \A t \in TeamThread : lower[t] = loop.lower
  BY LoopAssumption DEF RSInit, TeamThread
<1>2. ASSUME kind # "static" PROVE Chunked(kind, loop, nths, currentChunk, items)
  BY Zenon, <1>1, <1>2, ChunkNone DEF Schedules
<1>3. \A t \in TeamThread : Share(loop, nths, items, t, {})
  BY Zenon, <1>1, ShareNone
<1>4. Shared(loop, nths, items)
  BY Zenon, <1>1, <1>3, NoItems DEF Shared, Ranged
<1>5. \A t \in TeamThread : Passed(loop, nths, items, t, lower[t])
  BY Zenon, <1>1, <1>3, PassedNone
<1> QED
  BY Zenon, <1>1, <1>2, <1>4, <1>5 DEF RSInv

\* submit() and dequeue() give tasks to threads, and no items.
LEMMA TasksMade ==
  ASSUME RSInv, SubmitReplicate \/ \E t \in TeamThread : DequeueTask(t)
  PROVE  RSInv'
<1>1. /\ UNCHANGED <<nths, kind, loop, currentChunk, lower, items>>
      /\ TeamThread' = TeamThread /\ Chunks' = Chunks
  BY Zenon DEF SubmitReplicate, DequeueTask, replicated, TeamThread, Chunks
<1>2. CASE SubmitReplicate
  <2>1. CASE kind = "static"
    BY Zenon, <1>1, <1>2, <2>1 DEF SubmitReplicate, RSInv
  <2>2. CASE kind # "static"
    BY Zenon, <1>1, <1>2, <2>2 DEF SubmitReplicate, RSInv
  <2> QED
    BY <2>1, <2>2
<1>3. ASSUME NEW t \in TeamThread, DequeueTask(t) PROVE RSInv'
  <2>1. /\ queued /\ submitted' = submitted /\ running' = running \cup {t}
    BY Zenon, <1>3 DEF DequeueTask
  <2>2. kind # "static"
    BY Zenon, <2>1 DEF RSInv
  <2> QED
    BY Zenon, <1>1, <2>1, <2>2 DEF RSInv
<1> QED
  BY Zenon, <1>2, <1>3

\* A task takes the next chunk of a dynamic or guided loop, or ends.
LEMMA TaskTakesChunk ==
  ASSUME RSInv, NEW t \in TeamThread, TaskItem(t)
  PROVE  RSInv'
<1>1. /\ UNCHANGED <<nths, kind, loop, submitted, queued>> /\ kind # "static" /\ t \in running
      /\ TeamThread' = TeamThread /\ Chunks' = Chunks /\ currentChunk' = currentChunk + 1
  BY Zenon DEF TaskItem, replicated, TeamThread, Chunks
<1>2. /\ kind \in {"dynamic", "guided"} /\ nths \in Nat \ {0} /\ loop \in LoopType
      /\ Chunked(kind, loop, nths, currentChunk, items)
  BY Zenon, <1>1, TaskTypes DEF RSInv
<1>3. CASE currentChunk >= Chunks
  <2>1. items' = items /\ running' = running \ {t}
    <3>1. ~NoItem.execute
      BY DEF NoItem, Item
    <3> QED
      BY Zenon, <1>3, <3>1 DEF TaskItem, GiveTask
  <2>2. Chunked(kind, loop, nths, currentChunk + 1, items) /\ currentChunk + 1 >= Chunks
    BY Zenon, <1>2, <1>3, ChunkRefused DEF Chunks
  <2> QED
    BY Zenon, <1>1, <2>1, <2>2 DEF RSInv
<1>4. CASE ~(currentChunk >= Chunks)
  <2> DEFINE item == ChunkItem(kind, loop, nths, currentChunk)
             T == Handed(items, t, item)
  <2>1. item.execute /\ Chunked(kind, loop, nths, currentChunk + 1, T)
    BY Zenon, <1>2, <1>4, ChunkHanded DEF Chunks
  <2>2. items' = T /\ running' = running
    BY Zenon, <1>4, <2>1 DEF TaskItem, GiveTask
  <2> HIDE DEF T
  <2> QED
    BY Zenon, <1>1, <2>1, <2>2 DEF RSInv
<1> QED
  BY <1>3, <1>4

\* A task takes its next item of a static loop, or ends.
LEMMA TaskTakesShare ==
  ASSUME RSInv, NEW t \in TeamThread, TaskStatic(t)
  PROVE  RSInv'
<1> DEFINE m == [loop EXCEPT !.lower = lower[t]]
           item == StaticItem(m, nths, t)
           next == StaticLower(m, nths)
           T == Handed(items, t, item)
<1>1. /\ UNCHANGED <<nths, kind, loop, submitted, queued>> /\ kind = "static" /\ t \in running
      /\ TeamThread' = TeamThread /\ lower' = [lower EXCEPT ![t] = next] /\ GiveTask(t, item)
  BY Zenon DEF TaskStatic, replicated, TeamThread
<1>2. /\ DOMAIN lower' = TeamThread /\ lower'[t] = next
      /\ \A u \in TeamThread : u # t => lower'[u] = lower[u]
  BY Zenon, <1>1 DEF RSInv
<1>3. /\ nths \in Nat \ {0} /\ loop \in LoopType /\ t \in 0..(nths - 1) /\ TeamThread = 0..(nths - 1)
      /\ Shared(loop, nths, items) /\ Passed(loop, nths, items, t, lower[t])
      /\ submitted /\ ~queued
  BY Zenon, <1>1, TaskTypes DEF RSInv
<1>4. CASE ~item.execute
  <2>1. items' = items /\ running' = running \ {t}
    BY Zenon, <1>1, <1>4 DEF GiveTask
  <2>2. Share(loop, nths, items, t, Owned(loop, nths, t))
    BY Zenon, <1>3, <1>4, ShareRefused
  <2> QED
    BY Zenon, <1>1, <1>2, <1>3, <2>1, <2>2 DEF RSInv
<1>5. CASE item.execute
  <2>1. items' = T /\ running' = running
    BY Zenon, <1>1, <1>5 DEF GiveTask
  <2>2. /\ Shared(loop, nths, T) /\ Passed(loop, nths, T, t, next)
        /\ \A F : \A j \in 0..(nths - 1) :
             j # t /\ Share(loop, nths, items, j, F) => Share(loop, nths, T, j, F)
    BY Zenon, <1>3, <1>5, ShareHanded
  <2> HIDE DEF T, next
  <2>3. ASSUME NEW u \in TeamThread
        PROVE  IF submitted /\ u \notin running
                 THEN Share(loop, nths, T, u, Owned(loop, nths, u))
                 ELSE Passed(loop, nths, T, u, lower'[u])
    <3>1. CASE u = t
      BY Zenon, <1>1, <1>2, <2>2, <3>1
    <3>2. CASE u # t
      BY Zenon, <1>1, <1>2, <1>3, <2>2, <3>2 DEF RSInv, Passed
    <3> QED
      BY <3>1, <3>2
  <2> QED
    BY Zenon, <1>1, <1>2, <1>3, <2>1, <2>2, <2>3 DEF RSInv
<1> QED
  BY <1>4, <1>5

\* The invariant of the replicating slicer, and that its steps keep it.
LEMMA ReplicateStep ==
  ASSUME RSInv, RSNext
  PROVE  RSInv'
BY Zenon, TasksMade, TaskTakesChunk, TaskTakesShare DEF RSNext

\* A step that leaves the replicated loop alone keeps its invariant.
LEMMA TasksStay ==
  ASSUME RSInv, UNCHANGED <<nths, kind, loop, running, submitted, queued, currentChunk, lower, items>>
  PROVE  RSInv'
BY Zenon DEF RSInv, TeamThread, Chunks

\* The items of the tasks are apart, and cover the loop when the last has ended.
LEMMA TasksSafe == RSInv => TasksDisjoint /\ LoopIsDone
<1> SUFFICES ASSUME RSInv PROVE TasksDisjoint /\ LoopIsDone
  BY Zenon
<1>1. CASE kind # "static"
  <2>1. /\ kind \in {"dynamic", "guided"} /\ nths \in Nat \ {0} /\ loop \in LoopType
        /\ Chunked(kind, loop, nths, currentChunk, items)
    BY Zenon, <1>1, TaskTypes DEF RSInv
  <2>2. ASSUME currentChunk >= Chunks PROVE HandedOut(loop, items) = Iterations(loop)
    BY ONLY <2>1, <2>2, ChunkRefused DEF Chunks
  <2> QED
    BY Zenon, <1>1, <2>1, <2>2 DEF RSInv, TasksDisjoint, LoopIsDone, Chunked, Apart, Ranged, HandedOut
<1>2. CASE kind = "static"
  <2>1. /\ nths \in Nat \ {0} /\ loop \in LoopType /\ Shared(loop, nths, items)
        /\ TeamThread = 0..(nths - 1)
    BY Zenon, <1>2, TaskTypes DEF RSInv
  <2>2. ASSUME submitted, running = {} PROVE HandedOut(loop, items) = Iterations(loop)
    BY Zenon, <1>2, <2>1, <2>2, SharedAll DEF RSInv
  <2> QED
    BY Zenon, <2>1, <2>2 DEF TasksDisjoint, LoopIsDone, Shared, Apart, Ranged, HandedOut
<1> QED
  BY <1>1, <1>2

-----------------------------------------------------------------------------
\* How many slices there can be

\* The iterations of a loop are finitely many.
LEMMA IterationsFinite ==
  ASSUME NEW l \in LoopType
  PROVE  IsFiniteSet(Iterations(l)) /\ Cardinality(Iterations(l)) \in Nat
<1> DEFINE a == Min({l.lower, l.upper})
           b == Max({l.lower, l.upper})
<1>1. a \in Int /\ b \in Int
  BY MinOfTwo, MaxOfTwo DEF LoopType
<1>2. Iterations(l) \in SUBSET (a..b)
  BY Zenon DEF Iterations
<1> HIDE DEF a, b
<1> QED
  BY ZenonT(30), <1>1, <1>2, FS_Interval, FS_Subset, FS_CardinalityType

\* There are no more slices with iterations than iterations.
LEMMA PiecesBounded ==
  ASSUME NEW l \in LoopType, NEW g \in Seq(SliceType), Apart(l, Pieces(g)), NEW m \in Nat, m <= Len(g),
         \A k \in 1..m : Covered(l, g[k]) # {}
  PROVE  m <= Cardinality(Iterations(l))
<1> DEFINE f == [k \in 1..m |-> CHOOSE x \in Covered(l, g[k]) : TRUE]
<1>1. \A k \in 1..m : f[k] \in Covered(l, g[k])
  OBVIOUS
<1> HIDE DEF f
<1>2. \A k \in 1..m : k \in DOMAIN g
  OBVIOUS
<1>3. \A k \in 1..m : Covered(l, g[k]) \subseteq Iterations(l)
  BY Zenon, <1>2, PiecesApart
<1>4. ASSUME NEW j \in 1..m, NEW k \in 1..m, j # k PROVE f[j] # f[k]
  <2>1. Covered(l, g[j]) \cap Covered(l, g[k]) = {}
    BY Zenon, <1>2, <1>4, PiecesApart
  <2> QED
    BY Zenon, <1>1, <2>1
<1>5. f \in Injection(1..m, Iterations(l))
  BY Zenon, <1>1, <1>3, <1>4 DEF Injection, IsInjective, f
<1>6. Cardinality(1..m) <= Cardinality(Iterations(l))
  BY Zenon, <1>5, IterationsFinite, FS_Injection
<1>7. Cardinality(1..m) = m
  BY FS_Interval
<1> QED
  BY <1>6, <1>7

-----------------------------------------------------------------------------
\* The slices of a dynamic or guided loop

\* The slices that have run are all the iterations before those that are left; only
\* the last one may have none.
DynamicInv ==
  /\ slices = <<>> /\ given \in Seq(SliceType) /\ Apart(loop, Pieces(given))
  /\ \A k \in DOMAIN given : Covered(loop, given[k]) # {} \/ (k = Len(given) /\ ~queued)
  /\ queued => \E p \in Nat : /\ nli = LeftFrom(loop, p) /\ (p = 0 \/ p <= Last(loop) + 1)
                              /\ HandedOut(loop, Pieces(given)) = Cells(loop, 0..(p - 1))
  /\ ~queued => \/ given = <<>> /\ nli = loop
                \/ given # <<>> /\ HandedOut(loop, Pieces(given)) = Iterations(loop)

\* dequeue() with a slice that has at least one iteration, if there are any.
LEMMA DynamicStep ==
  ASSUME DynamicInv, loop \in LoopType, NEW p \in Nat, NEW u \in Int, p <= u,
         nli = LeftFrom(loop, p), p = 0 \/ p <= Last(loop) + 1,
         HandedOut(loop, Pieces(given)) = Cells(loop, 0..(p - 1)),
         DequeueLoop(Iter(loop, u))
  PROVE  DynamicInv'
<1> DEFINE all == Empty(nli) \/ Iter(loop, u) * Sign(nli) >= nli.upper * Sign(nli)
           a == Slice(nli.lower, nli.upper, FALSE)
           b == Slice(nli.lower, Iter(loop, u), FALSE)
<1>1. /\ UNCHANGED <<loop, slices>> /\ queued
      /\ all => given' = Append(given, a) /\ ~queued' /\ UNCHANGED nli
      /\ ~all => /\ given' = Append(given, b) /\ UNCHANGED queued
                 /\ nli' = [nli EXCEPT !.lower = Iter(loop, u) + nli.step]
  BY Zenon DEF DequeueLoop, work
<1>2. /\ Covered(loop, a) = Cells(loop, p..Last(loop)) /\ Covered(loop, b) = Cells(loop, p..u)
      /\ a \in SliceType /\ b \in SliceType /\ (~all => p <= Last(loop) /\ u <= Last(loop))
      /\ [nli EXCEPT !.lower = Iter(loop, u) + nli.step] = LeftFrom(loop, u + 1)
  <2>1. p \in Int
    OBVIOUS
  <2> QED
    BY Zenon, <2>1, LeftSlice
<1>3. Last(loop) \in Int /\ given \in Seq(SliceType) /\ Apart(loop, Pieces(given)) /\ slices = <<>>
  BY SMTT(30), NItersIs DEF DynamicInv
<1>4. \A k \in DOMAIN given : Covered(loop, given[k]) # {}
  BY Zenon, <1>1 DEF DynamicInv
<1> HIDE DEF all, a, b
<1>5. ASSUME NEW s \in SliceType, given' = Append(given, s), NEW y \in Int, y <= Last(loop),
             Covered(loop, s) = Cells(loop, p..y)
      PROVE  /\ given' \in Seq(SliceType) /\ given' # <<>> /\ Apart(loop, Pieces(given'))
             /\ HandedOut(loop, Pieces(given')) = Cells(loop, 0..(p - 1)) \cup Cells(loop, p..y)
             /\ \A k \in DOMAIN given' : k # Len(given') => Covered(loop, given'[k]) # {}
             /\ given'[Len(given')] = s
  <2>1. Cells(loop, p..y) \subseteq Iterations(loop)
    <3>1. p..y \subseteq 0..Last(loop)
      BY <1>3, <1>5
    <3> QED
      BY Zenon, <3>1, WholeLoop DEF Cells
  <2>2. Cells(loop, p..y) \cap Cells(loop, 0..(p - 1)) = {}
    <3>1. (p..y) \cap (0..(p - 1)) = {} /\ p..y \in SUBSET Int /\ 0..(p - 1) \in SUBSET Int
      BY <1>5
    <3> QED
      BY Zenon, <3>1, CellsApart
  <2>3. /\ Covered(loop, s) \subseteq Iterations(loop)
        /\ Covered(loop, s) \cap HandedOut(loop, Pieces(given)) = {}
    BY Zenon, <1>5, <2>1, <2>2
  <2>4. /\ Apart(loop, Pieces(Append(given, s)))
        /\ HandedOut(loop, Pieces(Append(given, s)))
             = HandedOut(loop, Pieces(given)) \cup Covered(loop, s)
    BY Zenon, <1>3, <2>3, PieceMore
  <2>5. /\ given' \in Seq(SliceType) /\ given' # <<>> /\ given'[Len(given')] = s
        /\ \A k \in DOMAIN given' : k # Len(given') => k \in DOMAIN given /\ given'[k] = given[k]
    BY <1>3, <1>5
  <2> QED
    BY Zenon, <1>4, <1>5, <2>4, <2>5
<1>6. CASE all
  <2>1. /\ given' \in Seq(SliceType) /\ given' # <<>> /\ Apart(loop, Pieces(given'))
        /\ HandedOut(loop, Pieces(given')) = Cells(loop, 0..(p - 1)) \cup Cells(loop, p..Last(loop))
        /\ \A k \in DOMAIN given' : k # Len(given') => Covered(loop, given'[k]) # {}
    BY <1>1, <1>2, <1>3, <1>5, <1>6
  <2>2. (0..(p - 1)) \cup (p..Last(loop)) = 0..Last(loop)
    BY <1>3
  <2>3. HandedOut(loop, Pieces(given')) = Iterations(loop)
    <3> DEFINE S == 0..(p - 1)
               T == p..Last(loop)
               V == 0..Last(loop)
    <3>1. S \cup T = V
      BY <2>2
    <3> HIDE DEF S, T, V
    <3>2. Cells(loop, S) \cup Cells(loop, T) = Cells(loop, V)
      BY <3>1, CellsJoin
    <3> QED
      BY Zenon, <2>1, <3>2, WholeLoop DEF S, T, V
  <2> QED
    BY Zenon, <1>1, <1>3, <1>6, <2>1, <2>3 DEF DynamicInv
<1>7. CASE ~all
  <2>1. /\ given' \in Seq(SliceType) /\ given' # <<>> /\ Apart(loop, Pieces(given'))
        /\ HandedOut(loop, Pieces(given')) = Cells(loop, 0..(p - 1)) \cup Cells(loop, p..u)
        /\ \A k \in DOMAIN given' : k # Len(given') => Covered(loop, given'[k]) # {}
        /\ given'[Len(given')] = b
    BY <1>1, <1>2, <1>5, <1>7
  <2>2. (0..(p - 1)) \cup (p..u) = 0..(u + 1 - 1) /\ u + 1 \in Nat /\ u + 1 <= Last(loop) + 1
    BY <1>2, <1>3, <1>7
  <2>3. HandedOut(loop, Pieces(given')) = Cells(loop, 0..(u + 1 - 1))
    BY SMTT(30), <2>1, <2>2, CellsJoin
  <2>4. p \in p..u
    OBVIOUS
  <2>5. Covered(loop, b) # {}
    BY <1>2, <2>4 DEF Cells
  <2>6. \E q \in Nat : /\ nli' = LeftFrom(loop, q) /\ (q = 0 \/ q <= Last(loop) + 1)
                       /\ HandedOut(loop, Pieces(given')) = Cells(loop, 0..(q - 1))
    <3>1. PICK q \in Nat : q = u + 1
      BY <2>2
    <3>2. nli' = LeftFrom(loop, q)
      BY Zenon, <1>1, <1>2, <1>7, <3>1
    <3>3. q <= Last(loop) + 1 /\ HandedOut(loop, Pieces(given')) = Cells(loop, 0..(q - 1))
      BY ONLY <2>2, <2>3, <3>1
    <3> QED
      BY Zenon, <3>2, <3>3
  <2>7. \A k \in DOMAIN given' : Covered(loop, given'[k]) # {}
    BY Zenon, <2>1, <2>5
  <2> QED
    BY Zenon, <1>1, <1>3, <1>7, <2>1, <2>6, <2>7 DEF DynamicInv
<1> QED
  BY <1>6, <1>7

\* submit() puts the whole loop in the queue.
LEMMA DynamicSubmit ==
  ASSUME DynamicInv, loop \in LoopType, SubmitLoop("dynamic") \/ SubmitLoop("guided")
  PROVE  DynamicInv'
<1>1. /\ UNCHANGED <<loop, slices, given>> /\ queued' /\ ~queued /\ given = <<>>
      /\ nli' = [nli EXCEPT !.chunk = ChunkSize(nli)]
  BY Zenon DEF SubmitLoop, Unsubmitted, work
<1>2. nli = loop
  BY Zenon, <1>1 DEF DynamicInv
<1>3. nli' = LeftFrom(loop, 0)
  <2>1. Iter(loop, 0) = loop.lower
    BY StepSplit DEF Iter
  <2> QED
    BY ZenonT(30), <1>1, <1>2, <2>1 DEF LeftFrom, LoopType
<1>4. HandedOut(loop, Pieces(given)) = Cells(loop, 0..(0 - 1))
  <2>1. DOMAIN given = {} /\ 0..(0 - 1) = {}
    BY <1>1
  <2>2. HandedOut(loop, Pieces(given)) = {}
    <3>1. Pieces(given) = {}
      BY Zenon, <2>1 DEF Pieces
    <3> QED
      BY Zenon, <3>1, NoItems
  <2>3. Cells(loop, 0..(0 - 1)) = {}
    BY Zenon, <2>1 DEF Cells
  <2> QED
    BY Zenon, <2>2, <2>3
<1>5. DOMAIN given = {}
  BY <1>1
<1> QED
  BY Zenon, <1>1, <1>3, <1>4, <1>5, 0 \in Nat DEF DynamicInv

\* dequeue() of a dynamic loop takes a chunk, and of a guided one at least a chunk.
LEMMA DynamicDequeue ==
  ASSUME DynamicInv, loop \in LoopType, threads \in Nat \ {0}, DequeueDynamic \/ DequeueGuided
  PROVE  DynamicInv'
<1>1. queued
  BY Zenon DEF DequeueDynamic, DequeueGuided, DequeueLoop
<1>2. PICK p \in Nat : /\ nli = LeftFrom(loop, p) /\ (p = 0 \/ p <= Last(loop) + 1)
                       /\ HandedOut(loop, Pieces(given)) = Cells(loop, 0..(p - 1))
  BY Zenon, <1>1 DEF DynamicInv
<1>3. PICK c \in Nat \ {0} : c = ChunkSize(loop)
  BY ChunkSizeIs
<1>4. /\ nli.lower = Iter(loop, p) /\ nli.chunk = c /\ nli.step = loop.step /\ nli \in LoopType
      /\ loop.step \in Int /\ loop.lower \in Int
  <2>1. Iter(loop, p) \in Int
    BY IterAt
  <2>2. nli = [loop EXCEPT !.lower = Iter(loop, p), !.chunk = c]
    BY Zenon, <1>2, <1>3 DEF LeftFrom
  <2> QED
    BY ZenonT(30), <2>1, <2>2 DEF LoopType
<1>5. ASSUME NEW w \in Int PROVE Iter(loop, p) + w * loop.step = Iter(loop, p + w)
  BY <1>4 DEF Iter
<1>6. CASE DequeueDynamic
  <2>1. PICK u \in Int : u = p + (c - 1)
    OBVIOUS
  <2>2. DynamicUpper(nli) = Iter(loop, p) + (c - 1) * loop.step
    <3>1. Iter(loop, p) \in Int
      BY IterAt
    <3> QED
      BY <1>4, <3>1 DEF DynamicUpper
  <2>3. DynamicUpper(nli) = Iter(loop, u) /\ p <= u
    BY <1>5, <2>1, <2>2
  <2>4. DequeueLoop(Iter(loop, u))
    BY Zenon, <1>6, <2>3 DEF DequeueDynamic
  <2> QED
    BY Zenon, <1>2, <2>3, <2>4, DynamicStep
<1>7. CASE DequeueGuided
  <2> DEFINE w == Max({CDiv(NIters(nli), 2 * threads), nli.chunk})
  <2>1. w \in Int /\ w >= 1
    <3>1. NIters(nli) \in Int /\ 2 * threads \in Int \ {0}
      BY <1>4, NItersIs
    <3>2. CDiv(NIters(nli), 2 * threads) \in Int
      BY <3>1, CDivType
    <3> QED
      BY <1>4, <3>2, MaxOfTwo
  <2>2. GuidedUpper(nli) = Iter(loop, p) + w * loop.step
    BY Zenon, <1>4 DEF GuidedUpper
  <2> HIDE DEF w
  <2>3. PICK u \in Int : u = p + w
    BY <2>1
  <2>4. GuidedUpper(nli) = Iter(loop, u) /\ p <= u
    BY <1>5, <2>1, <2>2, <2>3
  <2>5. DequeueLoop(Iter(loop, u))
    BY Zenon, <1>7, <2>4 DEF DequeueGuided
  <2> QED
    BY Zenon, <1>2, <2>4, <2>5, DynamicStep
<1> QED
  BY <1>6, <1>7

\* Nothing runs twice, the loop has run when it is not in the queue any more, and no
\* slice but the last is empty.
LEMMA DynamicSafe ==
  ASSUME DynamicInv, loop \in LoopType
  PROVE  /\ Apart(loop, Pieces(given))
         /\ Done => HandedOut(loop, Pieces(given)) = Iterations(loop)
         /\ Len(given) <= Cardinality(Iterations(loop)) + 1
<1>1. given \in Seq(SliceType) /\ Apart(loop, Pieces(given)) /\ slices = <<>>
  BY Zenon DEF DynamicInv
<1>2. Done => HandedOut(loop, Pieces(given)) = Iterations(loop)
  BY Zenon, <1>1 DEF DynamicInv, Done, Unsubmitted
<1>3. Len(given) <= Cardinality(Iterations(loop)) + 1
  <2>1. Cardinality(Iterations(loop)) \in Nat /\ Len(given) \in Nat
    BY <1>1, IterationsFinite
  <2>2. CASE Len(given) = 0
    BY <2>1, <2>2
  <2>3. CASE Len(given) # 0
    <3>1. PICK m \in Nat : Len(given) = m + 1
      <4>1. PICK z \in Nat : z = Len(given)
        BY <2>1
      <4>2. z - 1 \in Nat /\ z = (z - 1) + 1
        BY <2>3, <4>1
      <4> QED
        BY <4>1, <4>2
    <3>2. m <= Len(given) /\ \A k \in 1..m : k \in DOMAIN given /\ k # Len(given)
      BY <1>1, <2>1, <3>1
    <3>3. \A k \in 1..m : Covered(loop, given[k]) # {}
      BY Zenon, <3>2 DEF DynamicInv
    <3>4. m <= Cardinality(Iterations(loop))
      BY Zenon, <1>1, <3>2, <3>3, PiecesBounded
    <3> QED
      BY <2>1, <3>1, <3>4
  <2> QED
    BY <2>2, <2>3
<1> QED
  BY <1>1, <1>2, <1>3

-----------------------------------------------------------------------------
\* The slices of the static slicer

\* Slice i is at the start of a piece that it owns, or past the loop.
SliceAt(i, s) ==
  \E p, w, v \in Int :
    /\ s = [lower |-> Iter(loop, p), chunk |-> w * loop.step, stride |-> v * loop.step]
    /\ Slot(loop, threads, i, p, w, v)

\* What each slice has run.
RunBy(sl) == UNION {Gone(loop, threads, i - 1, sl[i].lower) : i \in DOMAIN sl}

\* Each slice has run the iterations it owns that are before its lower bound, and every
\* piece of it has at least one and tells whether it has the last of the loop.
StaticInv ==
  /\ ~queued /\ given \in Seq(SliceType) /\ Apart(loop, Pieces(given))
  /\ \A k \in DOMAIN given : Covered(loop, given[k]) # {} /\ HasLast(loop, given[k])
  /\ \/ slices = <<>> /\ given = <<>>
     \/ /\ slices # <<>> /\ DOMAIN slices = 1..StaticSlices
        /\ \A i \in DOMAIN slices : SliceAt(i - 1, slices[i])
        /\ HandedOut(loop, Pieces(given)) = Cells(loop, RunBy(slices))

\* A turn of staticLoop() in slice i.
LEMMA StaticTurn ==
  ASSUME StaticInv, loop \in LoopType, threads \in Nat \ {0}, NEW i \in DOMAIN slices, RunStatic(i)
  PROVE  StaticInv'
<1>1. /\ slices # <<>> /\ DOMAIN slices = 1..StaticSlices
      /\ \A j \in DOMAIN slices : SliceAt(j - 1, slices[j])
      /\ HandedOut(loop, Pieces(given)) = Cells(loop, RunBy(slices))
  BY DEF StaticInv
<1>2. PICK p, w, v \in Int :
        /\ slices[i] = [lower |-> Iter(loop, p), chunk |-> w * loop.step, stride |-> v * loop.step]
        /\ Slot(loop, threads, i - 1, p, w, v)
  BY Zenon, <1>1 DEF SliceAt
<1>3. \A j \in DOMAIN slices : j \in Int /\ j - 1 \in 0..(threads - 1)
  BY <1>1, SlicesMade
<1> DEFINE end == Iter(loop, p) + w * loop.step - Sign(loop)
           fin == end * Sign(loop) >= loop.upper * Sign(loop)
           s == Slice(Iter(loop, p), IF fin THEN loop.upper ELSE end, fin)
           D == p..Upto(loop, p + w - 1)
           lo == Iter(loop, p) + v * loop.step
<1>4. /\ UNCHANGED <<slicer, loop, threads, parts, queued>> /\ given' = Append(given, s)
      /\ Iter(loop, p) * Sign(loop) <= loop.upper * Sign(loop)
      /\ slices' = [slices EXCEPT ![i].lower = lo]
  <2>1. /\ slices[i].lower = Iter(loop, p) /\ slices[i].chunk = w * loop.step
        /\ slices[i].stride = v * loop.step
    BY SMTT(30), <1>2
  <2> QED
    BY Zenon, <2>1 DEF RunStatic, work
<1>5. p <= Last(loop)
  BY <1>4, IterAt, StepSplit DEF Last
<1>6. /\ p >= 0 /\ w >= 1 /\ Slot(loop, threads, i - 1, p + v, w, v)
  BY ZenonT(30), <1>2, <1>3, <1>5, SlotPart
<1>7. /\ Gone(loop, threads, i - 1, Iter(loop, p + v)) = Gone(loop, threads, i - 1, Iter(loop, p)) \cup D
      /\ Gone(loop, threads, i - 1, Iter(loop, p)) \cap D = {}
      /\ D \subseteq Owned(loop, threads, i - 1) /\ p \in D
  <2>1. i - 1 \in 0..(threads - 1)
    BY Zenon, <1>3
  <2> QED
    BY ONLY SMTT(30), loop \in LoopType, threads \in Nat \ {0}, p \in Int, w \in Int, v \in Int,
            <1>2, <1>5, <2>1, SlotGone
<1>8. /\ s \in SliceType /\ Covered(loop, s) = Cells(loop, D)
      /\ s.last <=> p + w - 1 >= Last(loop)
  BY Zenon, <1>6, SlotSlice
<1>9. lo = Iter(loop, p + v)
  BY StepSplit DEF Iter
<1>10. HasLast(loop, s)
  <2>1. p \in Nat /\ p + w - 1 \in Int /\ p <= p + w - 1
    BY <1>6
  <2> QED
    BY Zenon, <1>5, <1>8, <2>1, LastPiece
<1> HIDE DEF s, D, end, fin, lo
<1>11. /\ slices' # <<>> /\ DOMAIN slices' = 1..StaticSlices /\ StaticSlices' = StaticSlices
       /\ slices'[i] = [lower |-> lo, chunk |-> w * loop.step, stride |-> v * loop.step]
       /\ \A j \in DOMAIN slices : j # i => slices'[j] = slices[j]
  <2>1. slices'[i] = [slices[i] EXCEPT !.lower = lo]
    BY <1>4
  <2>2. slices'[i] = [lower |-> lo, chunk |-> w * loop.step, stride |-> v * loop.step]
    BY <1>2, <2>1
  <2>3. DOMAIN slices' = 1..StaticSlices /\ \A j \in DOMAIN slices : j # i => slices'[j] = slices[j]
    BY Zenon, <1>1, <1>4
  <2>4. StaticSlices' = StaticSlices
    BY Zenon, <1>4 DEF StaticSlices
  <2>5. slices' # <<>>
    BY <1>1, <2>3
  <2> QED
    BY <2>2, <2>3, <2>4, <2>5
<1>12. \A j \in DOMAIN slices : SliceAt(j - 1, slices'[j])
  <2>1. SliceAt(i - 1, slices'[i])
    <3>1. p + v \in Int
      OBVIOUS
    <3> QED
      BY Zenon, <1>6, <1>9, <1>11, <3>1 DEF SliceAt
  <2> QED
    BY Zenon, <1>1, <1>11, <2>1
<1>13. ASSUME NEW j \in DOMAIN slices
       PROVE  Gone(loop, threads, j - 1, slices[j].lower) \cap D = {}
  <2>1. CASE j = i
    <3>1. slices[i].lower = Iter(loop, p)
      BY SMTT(30), <1>2
    <3> QED
      BY Zenon, <1>7, <2>1, <3>1
  <2>2. CASE j # i
    <3>1. j - 1 # i - 1 /\ j - 1 \in 0..(threads - 1) /\ i - 1 \in 0..(threads - 1)
      BY <1>3, <2>2
    <3>2. Owned(loop, threads, j - 1) \cap Owned(loop, threads, i - 1) = {}
      BY Zenon, <3>1, OwnedApart
    <3> QED
      BY Zenon, <1>7, <3>2 DEF Gone
  <2> QED
    BY <2>1, <2>2
<1>14. RunBy(slices) \cap D = {}
  BY Zenon, <1>13 DEF RunBy
<1>15. RunBy(slices') = RunBy(slices) \cup D
  <2> DEFINE G(j) == Gone(loop, threads, j - 1, slices[j].lower)
             H(j) == Gone(loop, threads, j - 1, slices'[j].lower)
  <2>1. H(i) = G(i) \cup D
    <3>1. slices[i].lower = Iter(loop, p) /\ slices'[i].lower = Iter(loop, p + v)
      BY SMTT(30), <1>2, <1>9, <1>11
    <3> QED
      BY Zenon, <1>7, <3>1
  <2>2. \A j \in DOMAIN slices : j # i => H(j) = G(j)
    BY Zenon, <1>11
  <2>3. RunBy(slices) = UNION {G(j) : j \in DOMAIN slices}
        /\ RunBy(slices') = UNION {H(j) : j \in DOMAIN slices}
    BY Zenon, <1>1, <1>11 DEF RunBy
  <2> HIDE DEF G, H
  <2> QED
    BY Zenon, <2>1, <2>2, <2>3
<1>16. /\ RunBy(slices) \in SUBSET Int /\ D \in SUBSET Int
       /\ Cells(loop, D) \subseteq Iterations(loop)
  <2>1. \A j : Owned(loop, threads, j) \in SUBSET Int
    BY NItersIs DEF Owned
  <2>2. D \in SUBSET Owned(loop, threads, i - 1)
    BY Zenon, <1>7
  <2>3. Cells(loop, D) \subseteq Iterations(loop)
    BY Zenon, <2>2, OwnedIn
  <2> QED
    BY Zenon, <2>1, <2>2, <2>3 DEF RunBy, Gone
<1>17. Cells(loop, D) \cap Cells(loop, RunBy(slices)) = {}
  BY Zenon, <1>14, <1>16, CellsApart
<1>18. /\ Apart(loop, Pieces(given'))
       /\ HandedOut(loop, Pieces(given')) = Cells(loop, RunBy(slices'))
  <2>1. given \in Seq(SliceType) /\ Apart(loop, Pieces(given))
    BY Zenon DEF StaticInv
  <2>2. Covered(loop, s) \subseteq Iterations(loop) /\ Covered(loop, s) \cap HandedOut(loop, Pieces(given)) = {}
    BY Zenon, <1>1, <1>8, <1>16, <1>17
  <2>3. /\ Apart(loop, Pieces(Append(given, s)))
        /\ HandedOut(loop, Pieces(Append(given, s))) = HandedOut(loop, Pieces(given)) \cup Covered(loop, s)
    BY Zenon, <1>8, <2>1, <2>2, PieceMore
  <2>4. Cells(loop, RunBy(slices)) \cup Cells(loop, D) = Cells(loop, RunBy(slices'))
    <3>1. RunBy(slices) \cup D = RunBy(slices')
      BY Zenon, <1>15
    <3> QED
      BY ONLY <3>1, CellsJoin
  <2> QED
    BY Zenon, <1>1, <1>4, <1>8, <2>3, <2>4
<1>19. /\ given' \in Seq(SliceType)
       /\ \A k \in DOMAIN given' : Covered(loop, given'[k]) # {} /\ HasLast(loop, given'[k])
  <2>1. given \in Seq(SliceType)
    BY Zenon DEF StaticInv
  <2>2. /\ given' \in Seq(SliceType)
        /\ \A k \in DOMAIN given' : given'[k] = s \/ (k \in DOMAIN given /\ given'[k] = given[k])
    BY <1>4, <1>8, <2>1
  <2>3. Covered(loop, s) # {}
    BY Zenon, <1>7, <1>8 DEF Cells
  <2> QED
    BY Zenon, <1>10, <2>2, <2>3 DEF StaticInv
<1>20. RunBy(slices)' = RunBy(slices') /\ \A j \in DOMAIN slices' : SliceAt(j - 1, slices[j])'
  <2>1. RunBy(slices)' = RunBy(slices')
    BY Zenon, <1>4 DEF RunBy
  <2>2. ASSUME NEW j \in DOMAIN slices PROVE SliceAt(j - 1, slices[j])'
    <3>1. SliceAt(j - 1, slices'[j])
      BY Zenon, <1>12
    <3> QED
      BY Zenon, <1>4, <3>1 DEF SliceAt
  <2> QED
    BY Zenon, <1>1, <1>11, <2>1, <2>2
<1>21. ~queued'
  BY Zenon, <1>4 DEF StaticInv
<1> QED
  BY Zenon, <1>4, <1>11, <1>18, <1>19, <1>20, <1>21 DEF StaticInv

\* submit() makes slices that have run nothing.
LEMMA StaticSubmit ==
  ASSUME StaticInv, loop \in LoopType, threads \in Nat \ {0}, SubmitStatic
  PROVE  StaticInv'
<1>1. /\ UNCHANGED <<slicer, loop, threads, parts, queued, given>> /\ ~queued /\ given = <<>>
      /\ slices' = [i \in 1..StaticSlices |-> StaticSlice(i - 1)]
  BY Zenon DEF SubmitStatic, Unsubmitted, work
<1>2. StaticSlices \in 1..threads /\ StaticSlices' = StaticSlices
  BY Zenon, <1>1, SlicesMade DEF StaticSlices
<1>3. /\ DOMAIN slices' = 1..StaticSlices /\ slices' # <<>>
      /\ \A i \in 1..StaticSlices : slices'[i] = StaticSlice(i - 1) /\ i - 1 \in 0..(threads - 1)
  BY <1>1, <1>2
<1>4. ASSUME NEW i \in 1..StaticSlices
      PROVE  /\ SliceAt(i - 1, slices[i])'
             /\ Gone(loop, threads, i - 1, slices'[i].lower) = {}
  <2>1. PICK p, w, v \in Int :
          /\ slices'[i] = [lower |-> Iter(loop, p), chunk |-> w * loop.step, stride |-> v * loop.step]
          /\ Slot(loop, threads, i - 1, p, w, v)
          /\ \A x \in Owned(loop, threads, i - 1) : p <= x
    BY Zenon, <1>3, FirstSlot
  <2>2. SliceAt(i - 1, slices[i])'
    BY Zenon, <1>1, <2>1 DEF SliceAt
  <2>3. \A x \in Owned(loop, threads, i - 1) : ~(x < p)
    <3>1. \A x \in Owned(loop, threads, i - 1) : x \in Int
      BY NItersIs DEF Owned
    <3> QED
      BY SMTT(30), <2>1, <3>1
  <2>4. slices'[i].lower = Iter(loop, p)
    BY SMTT(30), <2>1
  <2>5. Gone(loop, threads, i - 1, Iter(loop, p)) = {x \in Owned(loop, threads, i - 1) : x < p}
    BY ONLY loop \in LoopType, p \in Int, GoneAt
  <2> QED
    BY Zenon, <2>2, <2>3, <2>4, <2>5
<1>5. RunBy(slices)' = {}
  <2>1. RunBy(slices)' = RunBy(slices')
    BY Zenon, <1>1 DEF RunBy
  <2>2. ASSUME NEW x \in RunBy(slices') PROVE FALSE
    <3>1. PICK i \in DOMAIN slices' : x \in Gone(loop, threads, i - 1, slices'[i].lower)
      BY Zenon, <2>2 DEF RunBy
    <3> QED
      BY Zenon, <1>3, <1>4, <3>1
  <2> QED
    BY Zenon, <2>1, <2>2
<1>6. Pieces(given') = {} /\ DOMAIN given' = {} /\ given' \in Seq(SliceType)
  <2>1. given' = <<>>
    BY Zenon, <1>1
  <2> QED
    BY ONLY <2>1 DEF Pieces
<1>7. Apart(loop, Pieces(given')) /\ HandedOut(loop, Pieces(given')) = {}
  BY Zenon, <1>6, NoItems
<1>8. Cells(loop, {}) = {}
  BY Zenon DEF Cells
<1>9. HandedOut(loop, Pieces(given')) = Cells(loop, RunBy(slices)')
  BY Zenon, <1>5, <1>7, <1>8
<1> QED
  BY Zenon, <1>1, <1>2, <1>3, <1>4, <1>6, <1>7, <1>9 DEF StaticInv

\* Nothing runs twice, the loop has run when every slice is past it, every slice has some
\* iteration and tells whether it is the last.
LEMMA StaticSafe ==
  ASSUME StaticInv, loop \in LoopType, threads \in Nat \ {0}
  PROVE  /\ Apart(loop, Pieces(given))
         /\ Done => HandedOut(loop, Pieces(given)) = Iterations(loop)
         /\ Len(given) <= Cardinality(Iterations(loop)) + 1
         /\ \A k \in DOMAIN given : HasLast(loop, given[k])
<1>1. given \in Seq(SliceType) /\ Apart(loop, Pieces(given))
  BY Zenon DEF StaticInv
<1>2. ASSUME Done PROVE HandedOut(loop, Pieces(given)) = Iterations(loop)
  <2>1. /\ DOMAIN slices = 1..StaticSlices /\ \A i \in DOMAIN slices : SliceAt(i - 1, slices[i])
        /\ HandedOut(loop, Pieces(given)) = Cells(loop, RunBy(slices))
        /\ \A i \in DOMAIN slices : slices[i].lower * Sign(loop) > loop.upper * Sign(loop)
    BY Zenon, <1>2 DEF StaticInv, Done, Unsubmitted
  <2>2. ASSUME NEW x \in RunBy(slices) PROVE x \in 0..Last(loop)
    BY Zenon DEF RunBy, Gone, Owned
  <2>3. ASSUME NEW x \in 0..Last(loop) PROVE x \in RunBy(slices)
    <3>1. PICK i \in 0..(threads - 1) : x \in Owned(loop, threads, i)
      BY Zenon, OwnedAll
    <3>2. i \notin StaticSlices..(threads - 1) /\ StaticSlices \in 1..threads
      BY Zenon, <3>1, SlicesMade
    <3>3. PICK j \in DOMAIN slices : i = j - 1
      <4>1. i + 1 \in 1..StaticSlices /\ i = (i + 1) - 1
        BY <3>2
      <4> QED
        BY ZenonT(30), <2>1, <4>1
    <3>4. x \in Int /\ x <= Last(loop)
      BY NItersIs
    <3>5. Iter(loop, x) \in Int /\ Iter(loop, x) * Sign(loop) <= loop.upper * Sign(loop)
      BY Zenon, <3>4, IterAt, StepSplit DEF Last
    <3>6. slices[j].lower \in Int
      <4>1. PICK p, w, v \in Int :
              slices[j] = [lower |-> Iter(loop, p), chunk |-> w * loop.step, stride |-> v * loop.step]
        BY Zenon, <2>1 DEF SliceAt
      <4>2. slices[j].lower = Iter(loop, p)
        BY SMTT(30), <4>1
      <4> QED
        BY Zenon, <4>2, IterAt
    <3>7. Iter(loop, x) * Sign(loop) < slices[j].lower * Sign(loop)
      <4>1. slices[j].lower * Sign(loop) > loop.upper * Sign(loop)
        BY Zenon, <2>1
      <4>2. loop.upper \in Int /\ Sign(loop) \in {-1, 1}
        BY StepSplit
      <4> QED
        BY ONLY SMTT(30), <3>5, <3>6, <4>1, <4>2
    <3>8. x \in Gone(loop, threads, j - 1, slices[j].lower)
      BY Zenon, <3>1, <3>3, <3>7 DEF Gone
    <3> QED
      BY Zenon, <3>8 DEF RunBy
  <2>4. RunBy(slices) = 0..Last(loop)
    BY Zenon, <2>2, <2>3
  <2> QED
    BY Zenon, <2>1, <2>4, WholeLoop
<1>3. Len(given) <= Cardinality(Iterations(loop)) + 1
  <2>1. Cardinality(Iterations(loop)) \in Nat /\ Len(given) \in Nat /\ Len(given) <= Len(given)
        /\ DOMAIN given = 1..Len(given)
    BY <1>1, IterationsFinite
  <2>2. \A k \in 1..Len(given) : Covered(loop, given[k]) # {}
    BY Zenon, <2>1 DEF StaticInv
  <2>3. Len(given) <= Cardinality(Iterations(loop))
    BY Zenon, <1>1, <2>1, <2>2, PiecesBounded
  <2> QED
    BY <2>1, <2>3
<1> QED
  BY Zenon, <1>1, <1>2, <1>3 DEF StaticInv

-----------------------------------------------------------------------------
\* The parts of a repeated or a compound descriptor

Given == {given[k] : k \in DOMAIN given}

\* The parts that have run and those that are left are all of them; the sections that
\* have run are the last ones.
PartsInv ==
  /\ slices = <<>> /\ given \in Seq(Int) /\ n \in Nat
  /\ queued => /\ n >= 1 /\ Len(given) + n = parts
               /\ slicer = "compound" => Given = n..(parts - 1)
  /\ ~queued => \/ given = <<>> /\ n = parts
                \/ /\ given # <<>> /\ Len(given) = parts
                   /\ slicer = "compound" => Given = 0..(parts - 1)

\* submit() puts the descriptor in the queue.
LEMMA PartsSubmit ==
  ASSUME PartsInv, parts \in Nat \ {0}, SubmitParts
  PROVE  PartsInv'
<1>1. /\ UNCHANGED <<slicer, parts, n, slices, given>> /\ ~queued /\ given = <<>> /\ queued'
  BY Zenon DEF SubmitParts, Unsubmitted, work
<1>2. n = parts /\ slices = <<>>
  BY Zenon, <1>1 DEF PartsInv
<1>3. given' \in Seq(Int) /\ Len(given') + n' = parts' /\ Given' = {} /\ n'..(parts' - 1) = {}
      /\ n' \in Nat /\ n' >= 1
  BY <1>1, <1>2 DEF Given
<1> QED
  BY Zenon, <1>1, <1>2, <1>3 DEF PartsInv

\* Appending an element adds it to the elements.
LEMMA GivenMore ==
  ASSUME given \in Seq(Int), NEW e \in Int, given' = Append(given, e)
  PROVE  /\ given' \in Seq(Int) /\ given' # <<>> /\ Len(given') = Len(given) + 1
         /\ Given' = Given \cup {e}
<1>1. /\ given' \in Seq(Int) /\ given' # <<>> /\ Len(given') = Len(given) + 1
      /\ DOMAIN given' = DOMAIN given \cup {Len(given) + 1}
      /\ \A k \in DOMAIN given : given'[k] = given[k]
      /\ given'[Len(given) + 1] = e
  OBVIOUS
<1>2. ASSUME NEW k \in DOMAIN given' PROVE given'[k] \in Given \cup {e}
  BY Zenon, <1>1 DEF Given
<1>3. ASSUME NEW x \in Given \cup {e} PROVE \E k \in DOMAIN given' : x = given'[k]
  BY Zenon, <1>1 DEF Given
<1>4. Given' = Given \cup {e}
  BY Zenon, <1>2, <1>3 DEF Given
<1> QED
  BY <1>1, <1>4

\* dequeue() of a repeated descriptor.
LEMMA RepeatStep ==
  ASSUME PartsInv, parts \in Nat \ {0}, DequeueRepeat
  PROVE  PartsInv'
<1>1. /\ UNCHANGED <<slicer, parts, slices>> /\ slicer = "repeat" /\ queued
      /\ n' = n - 1 /\ queued' = (n' > 0) /\ given' = Append(given, 1)
  BY Zenon DEF DequeueRepeat, work
<1>2. /\ slices = <<>> /\ given \in Seq(Int) /\ n \in Nat /\ n >= 1 /\ Len(given) + n = parts
  BY Zenon, <1>1 DEF PartsInv
<1>3. given' \in Seq(Int) /\ given' # <<>> /\ Len(given') = Len(given) + 1 /\ Len(given) \in Nat
  BY <1>1, <1>2
<1>4. n' \in Nat /\ Len(given') + n' = parts'
  BY ONLY <1>1, <1>2, <1>3
<1>5. (n' > 0 => n' >= 1) /\ (~(n' > 0) => Len(given') = parts')
  BY <1>2, <1>3, <1>4
<1> QED
  BY Zenon, <1>1, <1>2, <1>3, <1>4, <1>5 DEF PartsInv

\* dequeue() of a compound descriptor: its last section that is left, or all of them.
LEMMA CompoundStep ==
  ASSUME PartsInv, parts \in Nat \ {0}, NEW serialize \in BOOLEAN, DequeueCompound(serialize)
  PROVE  PartsInv'
<1>1. /\ UNCHANGED <<slicer, parts, slices>> /\ slicer = "compound" /\ queued
  BY Zenon DEF DequeueCompound, work
<1>2. /\ slices = <<>> /\ given \in Seq(Int) /\ n \in Nat /\ n >= 1 /\ Len(given) + n = parts
      /\ Given = n..(parts - 1)
  BY Zenon, <1>1 DEF PartsInv
<1>3. CASE given' = given \o [i \in 1..n |-> i - 1] /\ ~queued' /\ UNCHANGED n
  <2> DEFINE t == [i \in 1..n |-> i - 1]
  <2>1. t \in Seq(Int) /\ Len(t) = n /\ Len(given) \in Nat /\ DOMAIN given = 1..Len(given)
    BY <1>2
  <2>2. \A i \in 1..n : t[i] = i - 1
    OBVIOUS
  <2> HIDE DEF t
  <2>3. /\ given' \in Seq(Int) /\ Len(given') = Len(given) + n
        /\ DOMAIN given' = 1..(Len(given) + n)
        /\ \A k \in 1..(Len(given) + n) :
             given'[k] = IF k <= Len(given) THEN given[k] ELSE t[k - Len(given)]
    BY <1>2, <1>3, <2>1 DEF t
  <2>4. Len(given') = parts /\ given' # <<>>
    BY <1>2, <2>3
  <2>5. ASSUME NEW k \in DOMAIN given' PROVE given'[k] \in 0..(parts - 1)
    <3>1. CASE k <= Len(given)
      <4>1. given'[k] = given[k] /\ k \in DOMAIN given
        BY SMTT(30), <2>1, <2>3, <3>1
      <4>2. given[k] \in n..(parts - 1)
        BY Zenon, <1>2, <4>1 DEF Given
      <4> QED
        BY <1>2, <4>1, <4>2
    <3>2. CASE ~(k <= Len(given))
      <4>1. k - Len(given) \in 1..n /\ given'[k] = t[k - Len(given)]
        BY SMTT(30), <1>2, <2>1, <2>3, <3>2
      <4>2. given'[k] = k - Len(given) - 1
        BY <2>2, <4>1
      <4> QED
        BY SMTT(30), <1>2, <2>1, <4>1, <4>2
    <3> QED
      BY <3>1, <3>2
  <2>6. ASSUME NEW x \in 0..(parts - 1) PROVE \E k \in DOMAIN given' : given'[k] = x
    <3>1. CASE x >= n
      <4>1. x \in n..(parts - 1)
        BY <1>2, <3>1
      <4>2. PICK k \in DOMAIN given : given[k] = x
        BY Zenon, <1>2, <4>1 DEF Given
      <4>3. k \in DOMAIN given' /\ given'[k] = given[k]
        BY <1>2, <2>1, <2>3, <4>2
      <4> QED
        BY Zenon, <4>2, <4>3
    <3>2. CASE ~(x >= n)
      <4>1. PICK z \in Nat : z = Len(given)
        BY ZenonT(30), <2>1
      <4>2. PICK k \in Int : k = z + (x + 1)
        BY <1>2
      <4>3. k \in 1..(z + n) /\ ~(k <= z) /\ k - z = x + 1 /\ x + 1 \in 1..n
        BY <1>2, <3>2, <4>2
      <4>4. given'[k] = t[x + 1] /\ k \in DOMAIN given'
        BY Zenon, <2>3, <4>1, <4>3
      <4>5. t[x + 1] = x
        BY <1>2, <2>2, <4>3
      <4> QED
        BY Zenon, <4>4, <4>5
    <3> QED
      BY <3>1, <3>2
  <2>7. Given' = 0..(parts - 1)
    BY Zenon, <2>5, <2>6 DEF Given
  <2> QED
    BY Zenon, <1>1, <1>2, <1>3, <2>3, <2>4, <2>7 DEF PartsInv
<1>4. CASE n # 1 /\ given' = Append(given, n - 1) /\ n' = n - 1 /\ UNCHANGED queued
  <2>1. n - 1 \in Int
    BY <1>2
  <2>2. /\ given' \in Seq(Int) /\ Len(given') = Len(given) + 1 /\ Given' = Given \cup {n - 1}
    BY <1>2, <1>4, <2>1, GivenMore
  <2>3. Len(given) \in Nat
    BY <1>2
  <2>4. n' \in Nat /\ n' >= 1 /\ Len(given') + n' = parts
    <3>1. n' \in Nat /\ n' >= 1
      BY <1>2, <1>4
    <3>2. PICK a \in Nat : a = Len(given) /\ Len(given') = a + 1 /\ a + n = parts
      BY <1>2, <2>2, <2>3
    <3>3. Len(given') + n' = (a + 1) + (n - 1)
      BY Zenon, <1>4, <3>2
    <3>4. (a + 1) + (n - 1) = a + n
      BY <1>2
    <3> QED
      BY Zenon, <3>1, <3>2, <3>3, <3>4
  <2>5. (n..(parts - 1)) \cup {n - 1} = (n - 1)..(parts - 1)
    BY <1>2, <1>4, <2>3
  <2>6. Given' = n'..(parts - 1)
    BY Zenon, <1>2, <1>4, <2>2, <2>5
  <2> QED
    BY Zenon, <1>1, <1>2, <1>4, <2>2, <2>4, <2>6 DEF PartsInv
<1> QED
  BY Zenon, <1>3, <1>4 DEF DequeueCompound

\* When the descriptor is not in the queue any more, every part has run.
LEMMA PartsSafe == PartsInv => PartsOnce
BY Zenon DEF PartsInv, PartsOnce, Done, Unsubmitted, Given

-----------------------------------------------------------------------------
\* The slicers

SLInv ==
  /\ loop \in LoopType /\ threads \in Nat \ {0} /\ parts \in Nat \ {0}
  /\ slicer \in {"dynamic", "guided", "static", "repeat", "compound"}
  /\ slicer \in {"dynamic", "guided"} => DynamicInv
  /\ slicer = "static" => StaticInv
  /\ slicer \in {"repeat", "compound"} => PartsInv

\* Nothing has run at first.
LEMMA SlicersStart == SLInit => SLInv
<1> SUFFICES ASSUME SLInit PROVE SLInv
  BY Zenon
<1>1. PICK x \in Works : slicer = x.kind /\ loop = x.loop /\ threads = x.nths /\ parts = x.parts
  BY Zenon DEF SLInit
<1>2. /\ loop \in LoopType /\ threads \in Nat \ {0} /\ parts \in Nat \ {0}
      /\ slicer \in {"dynamic", "guided", "static", "repeat", "compound"}
  BY <1>1, LoopAssumption DEF Schedules
<1>3. ~queued /\ nli = loop /\ n = parts /\ slices = <<>> /\ given = <<>>
  BY Zenon DEF SLInit
<1>4. given \in Seq(SliceType) /\ given \in Seq(Int) /\ DOMAIN given = {} /\ n \in Nat
  BY <1>2, <1>3
<1>5. Apart(loop, Pieces(given))
  <2>1. Pieces(given) = {}
    BY Zenon, <1>4 DEF Pieces
  <2> QED
    BY Zenon, <2>1, NoItems
<1> QED
  BY Zenon, <1>2, <1>3, <1>4, <1>5 DEF SLInv, DynamicInv, StaticInv, PartsInv

\* Every submit(), every dequeue() and every turn of staticLoop() keeps the invariant.
LEMMA SlicerStep ==
  ASSUME SLInv, SLNext
  PROVE  SLInv'
<1>1. /\ loop \in LoopType /\ threads \in Nat \ {0} /\ parts \in Nat \ {0}
  BY Zenon DEF SLInv
<1>2. CASE SubmitLoop("dynamic") \/ SubmitLoop("guided")
  <2>1. slicer \in {"dynamic", "guided"} /\ UNCHANGED <<slicer, loop, threads, parts>>
    BY Zenon, <1>2 DEF SubmitLoop, work
  <2>2. DynamicInv'
    BY Zenon, <1>1, <1>2, <2>1, DynamicSubmit DEF SLInv
  <2> QED
    BY <1>1, <2>1, <2>2 DEF SLInv
<1>3. CASE SubmitStatic
  <2>1. slicer = "static" /\ UNCHANGED <<slicer, loop, threads, parts>>
    BY Zenon, <1>3 DEF SubmitStatic, work
  <2>2. StaticInv'
    BY Zenon, <1>1, <1>3, <2>1, StaticSubmit DEF SLInv
  <2> QED
    BY <1>1, <2>1, <2>2 DEF SLInv
<1>4. CASE SubmitParts
  <2>1. slicer \in {"repeat", "compound"} /\ UNCHANGED <<slicer, loop, threads, parts>>
    BY Zenon, <1>4 DEF SubmitParts, work
  <2>2. PartsInv'
    BY Zenon, <1>1, <1>4, <2>1, PartsSubmit DEF SLInv
  <2> QED
    BY <1>1, <2>1, <2>2 DEF SLInv
<1>5. CASE DequeueDynamic \/ DequeueGuided
  <2>1. slicer \in {"dynamic", "guided"} /\ UNCHANGED <<slicer, loop, threads, parts>>
    BY Zenon, <1>5 DEF DequeueDynamic, DequeueGuided, DequeueLoop, work
  <2>2. DynamicInv'
    BY Zenon, <1>1, <1>5, <2>1, DynamicDequeue DEF SLInv
  <2> QED
    BY <1>1, <2>1, <2>2 DEF SLInv
<1>6. CASE DequeueRepeat
  <2>1. slicer = "repeat" /\ UNCHANGED <<slicer, loop, threads, parts>>
    BY Zenon, <1>6 DEF DequeueRepeat, work
  <2>2. PartsInv'
    BY Zenon, <1>1, <1>6, <2>1, RepeatStep DEF SLInv
  <2> QED
    BY <1>1, <2>1, <2>2 DEF SLInv
<1>7. ASSUME NEW serialize \in BOOLEAN, DequeueCompound(serialize) PROVE SLInv'
  <2>1. slicer = "compound" /\ UNCHANGED <<slicer, loop, threads, parts>>
    BY Zenon, <1>7 DEF DequeueCompound, work
  <2>2. PartsInv'
    BY Zenon, <1>1, <1>7, <2>1, CompoundStep DEF SLInv
  <2> QED
    BY <1>1, <2>1, <2>2 DEF SLInv
<1>8. ASSUME NEW i \in DOMAIN slices, RunStatic(i) PROVE SLInv'
  <2>1. slicer = "static" /\ UNCHANGED <<slicer, loop, threads, parts>>
    BY Zenon, <1>8 DEF RunStatic, work
  <2>2. StaticInv'
    BY Zenon, <1>1, <1>8, <2>1, StaticTurn DEF SLInv
  <2> QED
    BY <1>1, <2>1, <2>2 DEF SLInv
<1> QED
  BY Zenon, <1>2, <1>3, <1>4, <1>5, <1>6, <1>7, <1>8 DEF SLNext, Dequeue

\* A step that leaves the sliced descriptor alone keeps its invariant.
LEMMA SlicersStay ==
  ASSUME SLInv, UNCHANGED slVars
  PROVE  SLInv'
<1>1. UNCHANGED <<slicer, loop, threads, parts, queued, nli, n, slices, given>>
  BY Zenon DEF slVars
<1>2. DynamicInv => DynamicInv'
  BY Zenon, <1>1 DEF DynamicInv
<1>3. StaticInv => StaticInv'
  BY Zenon, <1>1 DEF StaticInv, SliceAt, RunBy, StaticSlices
<1>4. PartsInv => PartsInv'
  BY Zenon, <1>1 DEF PartsInv, Given
<1> QED
  BY Zenon, <1>1, <1>2, <1>3, <1>4 DEF SLInv

\* What the invariant says of the slices.
LEMMA SlicersSafe ==
  ASSUME SLInv
  PROVE  SlicesDisjoint /\ SlicesCover /\ PartsOnce /\ LastOnce /\ SlicesBounded
<1>1. CASE slicer \in {"dynamic", "guided", "static"}
  <2>1. /\ Apart(loop, Pieces(given))
        /\ Done => HandedOut(loop, Pieces(given)) = Iterations(loop)
        /\ Len(given) <= Cardinality(Iterations(loop)) + 1
        /\ slicer = "static" => \A k \in DOMAIN given : HasLast(loop, given[k])
    BY SMTT(30), <1>1, DynamicSafe, StaticSafe DEF SLInv
  <2>2. /\ \A k \in DOMAIN given : Piece(k) \subseteq Iterations(loop)
        /\ \A j, k \in DOMAIN given : j = k \/ Piece(j) \cap Piece(k) = {}
        /\ HandedOut(loop, Pieces(given)) = UNION {Piece(k) : k \in DOMAIN given}
    BY Zenon, <2>1, PiecesApart DEF Piece
  <2>3. PartsOnce
    BY <1>1 DEF PartsOnce
  <2>4. LastOnce
    BY Zenon, <2>1 DEF LastOnce, HasLast, Piece
  <2> QED
    BY Zenon, <2>1, <2>2, <2>3, <2>4 DEF SlicesDisjoint, SlicesCover, SlicesBounded
<1>2. CASE slicer \in {"repeat", "compound"}
  <2>1. PartsOnce
    BY Zenon, <1>2, PartsSafe DEF SLInv
  <2>2. ~IsLoop /\ slicer # "static"
    BY <1>2 DEF IsLoop
  <2> QED
    BY Zenon, <2>1, <2>2 DEF SlicesDisjoint, SlicesCover, SlicesBounded, LastOnce
<1> QED
  BY <1>1, <1>2 DEF SLInv

-----------------------------------------------------------------------------
\* The loop plugins

LPInv ==
  /\ plugin \in {"worksharing", "slicer", "replicate"}
  /\ plugin = "worksharing" => WSInv /\ HandInv
  /\ plugin = "slicer" => SLInv
  /\ plugin # "slicer" => slicer = "none"
  /\ plugin = "replicate" => RSInv

\* The inductive invariant of the plugins.
LEMMA LoopsInvariant == LPSpec => []LPInv
<1>1. LPInit => LPInv
  <2> SUFFICES ASSUME LPInit PROVE LPInv
    BY Zenon
  <2>1. CASE plugin = "worksharing" /\ WSInit /\ NoSlicer
    BY <2>1, LoopStarts, HandStarts DEF LPInv, NoSlicer
  <2>2. CASE plugin = "slicer" /\ SLInit
    BY <2>2, SlicersStart DEF LPInv
  <2>3. CASE plugin = "replicate" /\ RSInit /\ NoSlicer
    BY <2>3, TasksStart DEF LPInv, NoSlicer
  <2> QED
    BY Zenon, <2>1, <2>2, <2>3 DEF LPInit
<1>2. LPInv /\ [LPNext]_lpVars => LPInv'
  <2> SUFFICES ASSUME LPInv, [LPNext]_lpVars PROVE LPInv'
    BY Zenon
  <2>1. CASE Use("worksharing") /\ WSNext
    <3>1. plugin = "worksharing" /\ plugin' = plugin /\ slicer' = slicer
      BY Zenon, <2>1 DEF Use, slOnly
    <3>2. WSInv' /\ HandInv'
      BY Zenon, <2>1, <3>1, WorkSharingStep DEF LPInv
    <3> QED
      BY <3>1, <3>2 DEF LPInv
  <2>2. CASE Use("slicer") /\ SLNext
    <3>1. plugin = "slicer" /\ plugin' = plugin
      BY Zenon, <2>2 DEF Use
    <3>2. SLInv'
      BY Zenon, <2>2, <3>1, SlicerStep DEF LPInv
    <3> QED
      BY <3>1, <3>2 DEF LPInv
  <2>3. CASE Use("replicate") /\ RSNext
    <3>1. plugin = "replicate" /\ plugin' = plugin /\ slicer' = slicer
      BY Zenon, <2>3 DEF Use, slOnly
    <3>2. RSInv'
      BY Zenon, <2>3, <3>1, ReplicateStep DEF LPInv
    <3> QED
      BY <3>1, <3>2 DEF LPInv
  <2>4. CASE UNCHANGED lpVars
    <3>1. /\ UNCHANGED <<plugin, nths, kind, loop, queued, currentChunk, lower, items>>
          /\ UNCHANGED <<loops, linked, data, ready, cur, singles, wsPc>>
          /\ UNCHANGED <<slicer, threads, parts, nli, n, slices, given>>
          /\ UNCHANGED <<submitted, running>>
      BY Zenon, <2>4 DEF lpVars, wsOnly, slOnly, rsOnly
    <3>2. WSInv => WSInv'
      BY Zenon, <3>1, LoopStays
    <3>3. HandInv => HandInv'
      BY Zenon, <3>1, HandStays
    <3>4. SLInv => SLInv'
      BY Zenon, <3>1, SlicersStay DEF slVars
    <3>5. RSInv => RSInv'
      BY Zenon, <3>1, TasksStay
    <3> QED
      BY Zenon, <3>1, <3>2, <3>3, <3>4, <3>5 DEF LPInv
  <2> QED
    BY Zenon, <2>1, <2>2, <2>3, <2>4 DEF LPNext
<1> QED
  BY <1>1, <1>2, PTL DEF LPSpec

\* No iteration of a loop is handed out twice or out of the loop, for any bounds, any step
\* but zero, any chunk and any number of threads, by nextItem(), by dequeue() or by
\* staticLoop().
THEOREM EachIterationOnce == LPSpec => []IterationOnce
<1>1. LPInv => IterationOnce
  BY Zenon, HandSafe, SlicersSafe, TasksSafe DEF LPInv, IterationOnce
<1> QED
  BY <1>1, LoopsInvariant, PTL

\* When a worksharing loop has been left, a sliced one dequeued or a replicated one ended,
\* all of it has been handed out, and every part of a compound or repeated descriptor.
THEOREM WholeLoopCovered == LPSpec => []LoopCovered
<1>1. LPInv => LoopCovered
  BY Zenon, HandSafe, SlicersSafe, TasksSafe DEF LPInv, LoopCovered
<1> QED
  BY <1>1, LoopsInvariant, PTL

\* staticLoop() sets 'last' in the slice that has the last iteration and in no other.
THEOREM LastToldOnce == LPSpec => []LastOnce
<1>1. LPInv => LastOnce
  <2>1. ASSUME LPInv, plugin # "slicer" PROVE LastOnce
    <3>1. slicer = "none"
      BY Zenon, <2>1 DEF LPInv
    <3> QED
      BY <3>1 DEF LastOnce
  <2> QED
    BY Zenon, <2>1, SlicersSafe DEF LPInv
<1> QED
  BY <1>1, LoopsInvariant, PTL

\* A sliced loop, empty or not, makes no more slices than it has iterations and one.
THEOREM SlicesAreBounded == LPSpec => []SlicesBounded
<1>1. LPInv => SlicesBounded
  <2>1. ASSUME LPInv, plugin # "slicer" PROVE SlicesBounded
    <3>1. slicer = "none"
      BY Zenon, <2>1 DEF LPInv
    <3> QED
      BY <3>1 DEF SlicesBounded, IsLoop
  <2> QED
    BY Zenon, <2>1, SlicersSafe DEF LPInv
<1> QED
  BY <1>1, LoopsInvariant, PTL

\* create() returns true to one thread of the team for each loop, and nobody takes an item
\* from a descriptor that is not filled in.
THEOREM CreatorsHold == LPSpec => []OneCreator
<1>1. LPInv => OneCreator
  BY Zenon, LoopSafe DEF LPInv, OneCreator
<1> QED
  BY <1>1, LoopsInvariant, PTL
=============================================================================
