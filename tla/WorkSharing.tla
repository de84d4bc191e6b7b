---------------------------- MODULE WorkSharing ----------------------------
(***************************************************************************)
(* The worksharing loops of a team: each thread goes through the same      *)
(* sequence of loops, without barriers between them.  A dynamic or guided  *)
(* loop has one descriptor, which the first thread to ask for it links to  *)
(* the team's list and initialises; a static loop has one in each thread.  *)
(***************************************************************************)
EXTENDS LoopItems, Sequences

CONSTANTS
  MaxThreads,  \* bound on the threads of a team
  Programs     \* what a team may go through: its number of threads 'nths', a
               \* schedule 'kind', "dynamic", "guided" or "static", and the
               \* sequence 'loops', each as module LoopItems has it

VARIABLES
  nths, kind, loops,  \* the program, fixed in a behaviour
  linked,        \* descriptors in the team's list
  data,          \* data[k]: descriptor k has its WorkSharingLoopInfo
  ready,         \* ready[k]: its field 'ws' is set
  currentChunk,
  cur,           \* cur[t]: the last loop of t; the descriptor _wsDescriptor
  lower,         \* lower[t]: lowerBound of its own descriptor (static)
  singles,       \* singles[k]: the threads create() has returned true to
  items,         \* items[k]: the items handed out, see Handed
  wsPc

wsVars == <<nths, kind, loops, linked, data, ready, currentChunk, cur, lower, singles, items, wsPc>>
program == <<nths, kind, loops>>

TeamThread == 0..(nths - 1)
Index == DOMAIN loops

WSInit ==
  /\ \E p \in Programs : nths = p.nths /\ kind = p.kind /\ loops = p.loops
  /\ linked = 0
  /\ data = [k \in Index |-> FALSE] /\ ready = [k \in Index |-> FALSE]
  /\ currentChunk = [k \in Index |-> 0]
  /\ cur = [t \in TeamThread |-> 0] /\ lower = [t \in TeamThread |-> 0]
  /\ singles = [k \in Index |-> {}]
  /\ items = [k \in Index |-> {}]
  /\ wsPc = [t \in TeamThread |-> "body"]

WSGoto(t, step) == wsPc' = [wsPc EXCEPT ![t] = step]

MoveOn(t) == cur' = [cur EXCEPT ![t] = @ + 1]

\* getTeamWorkSharingDescriptor(): is there a next descriptor already?
Lookup(t) ==
  /\ wsPc[t] = "body" /\ kind # "static" /\ cur[t] < Len(loops)
  /\ IF linked > cur[t] THEN MoveOn(t) /\ WSGoto(t, "wait")
                        ELSE UNCHANGED cur /\ WSGoto(t, "link")
  /\ UNCHANGED <<program, linked, data, ready, currentChunk, lower, singles, items>>

\* If not, the thread that links its own is the creator
Link_NoCAS(t) ==
  /\ wsPc[t] = "link"
  /\ linked' = cur[t] + 1 /\ WSGoto(t, "init")
  /\ singles' = [singles EXCEPT ![cur[t] + 1] = @ \cup {t}]
  /\ MoveOn(t)
  /\ UNCHANGED <<program, data, ready, currentChunk, lower, items>>

Link(t) ==
  /\ wsPc[t] = "link"
  /\ IF linked = cur[t]
       THEN /\ linked' = linked + 1 /\ WSGoto(t, "init")
            /\ singles' = [singles EXCEPT ![cur[t] + 1] = @ \cup {t}]
       ELSE UNCHANGED <<linked, singles>> /\ WSGoto(t, "wait")
  /\ MoveOn(t)
  /\ UNCHANGED <<program, data, ready, currentChunk, lower, items>>

\* create(): the creator fills in the descriptor, and then sets 'ws'
InitialiseLoop(t) ==
  /\ wsPc[t] = "init"
  /\ data' = [data EXCEPT ![cur[t]] = TRUE]
  /\ currentChunk' = [currentChunk EXCEPT ![cur[t]] = 0]
  /\ WSGoto(t, "publish")
  /\ UNCHANGED <<program, linked, ready, cur, lower, singles, items>>

Publish_Never(t) ==
  /\ wsPc[t] = "publish"
  /\ WSGoto(t, "items")
  /\ UNCHANGED <<program, linked, data, ready, currentChunk, cur, lower, singles, items>>

Publish(t) ==
  /\ wsPc[t] = "publish"
  /\ ready' = [ready EXCEPT ![cur[t]] = TRUE]
  /\ WSGoto(t, "items")
  /\ UNCHANGED <<program, linked, data, currentChunk, cur, lower, singles, items>>

WaitReady_Not(t) ==
  /\ wsPc[t] = "wait"
  /\ WSGoto(t, "items")
  /\ UNCHANGED <<program, linked, data, ready, currentChunk, cur, lower, singles, items>>

WaitReady(t) ==
  /\ wsPc[t] = "wait" /\ ready[cur[t]]
  /\ WSGoto(t, "items")
  /\ UNCHANGED <<program, linked, data, ready, currentChunk, cur, lower, singles, items>>

\* The items S, and one more for t: its place among those of t tells it apart
\* from an equal one that t already has
Handed(S, t, item) ==
  S \cup {[thread |-> t, nth |-> Cardinality({a \in S : a.thread = t}), item |-> item]}

Give(t, item) ==
  IF item.execute
    THEN /\ items' = [items EXCEPT ![cur[t]] = Handed(@, t, item)]
         /\ UNCHANGED wsPc
    ELSE WSGoto(t, "body") /\ UNCHANGED items

\* nextItem() of a dynamic or guided loop: currentChunk++ is atomic
NextItem(t) ==
  LET k == cur[t]
      mychunk == currentChunk[k]
  IN /\ wsPc[t] = "items" /\ kind # "static"
     /\ currentChunk' = [currentChunk EXCEPT ![k] = @ + 1]
     /\ Give(t, IF mychunk >= NumOfChunks(kind, loops[k], nths) THEN NoItem
                ELSE ChunkItem(kind, loops[k], nths, mychunk))
     /\ UNCHANGED <<program, linked, data, ready, cur, lower, singles>>

\* create() of a static loop: singleGuard() tells one thread of them (module
\* TeamSingle)
CreateStatic(t) ==
  /\ wsPc[t] = "body" /\ kind = "static" /\ cur[t] < Len(loops)
  /\ MoveOn(t) /\ WSGoto(t, "items")
  /\ lower' = [lower EXCEPT ![t] = loops[cur[t] + 1].lower]
  /\ singles' = [singles EXCEPT ![cur[t] + 1] = IF @ = {} THEN {t} ELSE @]
  /\ UNCHANGED <<program, linked, data, ready, currentChunk, items>>

NextStatic_StandsStill(t) ==
  LET l == [loops[cur[t]] EXCEPT !.lower = lower[t]]
  IN /\ wsPc[t] = "items" /\ kind = "static"
     /\ Give(t, StaticItem(l, nths, t))
     /\ lower' = [lower EXCEPT ![t] = IF l.chunk = 0 THEN StaticLower(l, nths)
                                      ELSE @ + l.chunk * l.step]
     /\ UNCHANGED <<program, linked, data, ready, currentChunk, cur, singles>>

NextStatic(t) ==
  LET l == [loops[cur[t]] EXCEPT !.lower = lower[t]]
  IN /\ wsPc[t] = "items" /\ kind = "static"
     /\ Give(t, StaticItem(l, nths, t))
     /\ lower' = [lower EXCEPT ![t] = StaticLower(l, nths)]
     /\ UNCHANGED <<program, linked, data, ready, currentChunk, cur, singles>>

ThreadStep(t) ==
  \/ Lookup(t) \/ Link(t) \/ InitialiseLoop(t) \/ Publish(t) \/ WaitReady(t) \/ NextItem(t)
  \/ CreateStatic(t) \/ NextStatic(t)

WSNext == \E t \in TeamThread : ThreadStep(t)

WSSpec == WSInit /\ [][WSNext]_wsVars

\* A thread keeps running its implicit task
WSFairness ==
  \A t \in 0..(MaxThreads - 1) : WF_wsVars(t \in TeamThread /\ ThreadStep(t))

WSFairSpec == WSSpec /\ WSFairness

-----------------------------------------------------------------------------

\* The threads that have gone past loop k
Past(t, k) == cur[t] > k \/ (cur[t] = k /\ wsPc[t] \in {"body", "link"})

\* No iteration is handed out twice, to two threads or to one, or out of the loop,
\* whatever the order in which the threads ask for items; and the bounds of every
\* item of a loop that has iterations are as the plugins ensure.  (An empty loop
\* whose bounds are less than a step apart has one item, with bounds that are not.)
NoIterationTwice ==
  \A k \in Index :
    /\ \A a \in items[k] : /\ Covered(loops[k], a.item) \subseteq Iterations(loops[k])
                            /\ Iterations(loops[k]) # {} => InRange(loops[k], a.item)
    /\ \A a, b \in items[k] :
         a = b \/ Covered(loops[k], a.item) \cap Covered(loops[k], b.item) = {}

\* When all the threads have left a loop, every iteration has been handed out.
EveryIteration ==
  \A k \in Index :
    (\A t \in TeamThread : Past(t, k)) =>
      UNION {Covered(loops[k], a.item) : a \in items[k]} = Iterations(loops[k])

\* "only one thread per loop will get 'true' (single like behaviour)"
OneSingle ==
  \A k \in Index :
    /\ Cardinality(singles[k]) <= 1
    /\ (\A t \in TeamThread : Past(t, k)) => singles[k] # {}

\* Nobody takes an item from a descriptor that is not filled in, even if it
\* reaches the loop long before or after the one who creates it.
UsedWhenFilled ==
  \A t \in TeamThread : wsPc[t] = "items" /\ kind # "static" => data[cur[t]]

\* Every thread comes to the end of its loops.
LoopsEnd == <>(\A t \in TeamThread : cur[t] = Len(loops) /\ wsPc[t] = "body")
=============================================================================
