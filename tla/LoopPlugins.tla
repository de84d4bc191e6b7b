---------------------------- MODULE LoopPlugins ----------------------------
(***************************************************************************)
(* The plugins that divide the iterations of a loop: a behaviour is one    *)
(* loop given to the worksharing plugins, to a slicer or to the slicer     *)
(* that replicates a worksharing loop over tasks.                          *)
(***************************************************************************)
EXTENDS ReplicateSlicer

\* Loops have steps other than zero, and a team has at least one thread
ASSUME LoopAssumption ==
  /\ MaxThreads \in Nat \ {0}
  /\ Programs \subseteq [nths : 1..MaxThreads, kind : Schedules, loops : Seq(LoopType)]
  /\ Works \subseteq [kind : Schedules \cup {"repeat", "compound"}, loop : LoopType,
                      nths : Nat \ {0}, parts : Nat \ {0}]
  /\ ReplicateKinds \subseteq Schedules /\ ReplicateLoops \subseteq LoopType

VARIABLE plugin  \* the plugin of this behaviour

wsOnly == <<loops, linked, data, ready, cur, singles, wsPc>>
slOnly == <<slicer, threads, parts, nli, n, slices, given>>
rsOnly == <<submitted, running>>
lpVars == <<plugin, nths, kind, loop, queued, currentChunk, lower, items, wsOnly, slOnly, rsOnly>>

NoWorkSharing ==
  /\ loops = <<>> /\ linked = 0 /\ data = 0 /\ ready = 0 /\ cur = 0 /\ singles = 0 /\ wsPc = 0

NoSlicer ==
  /\ slicer = "none" /\ threads = 0 /\ parts = 0 /\ nli = 0 /\ n = 0 /\ slices = <<>>
  /\ given = <<>>

NoReplicate == submitted = FALSE /\ running = {}

LPInit ==
  \/ /\ plugin = "worksharing" /\ WSInit /\ NoSlicer /\ NoReplicate
     /\ loop = 0 /\ queued = FALSE
  \/ /\ plugin = "slicer" /\ SLInit /\ NoWorkSharing /\ NoReplicate
     /\ nths = 0 /\ kind = "none" /\ currentChunk = 0 /\ lower = 0 /\ items = {}
  \/ /\ plugin = "replicate" /\ RSInit /\ NoWorkSharing /\ NoSlicer

Use(p) ==
  /\ plugin = p /\ UNCHANGED plugin
  /\ p = "worksharing" => UNCHANGED <<loop, queued, slOnly, rsOnly>>
  /\ p = "slicer" => UNCHANGED <<nths, kind, currentChunk, lower, items, wsOnly, rsOnly>>
  /\ p = "replicate" => UNCHANGED <<wsOnly, slOnly>>

LPNext ==
  \/ Use("worksharing") /\ WSNext
  \/ Use("slicer") /\ SLNext
  \/ Use("replicate") /\ RSNext

LPSpec == LPInit /\ [][LPNext]_lpVars

-----------------------------------------------------------------------------

\* No iteration is handed out twice or out of the loop, for every bound, step
\* and chunk: whatever the order in which the threads ask nextItem() for items
\* or call dequeue(), and while the replicated tasks take items of one loop.  And
\* unless the loop is empty, ensure( ..., "Chunk bounds out of range" ) holds of
\* every item.
IterationOnce ==
  /\ plugin = "worksharing" => NoIterationTwice
  /\ plugin = "slicer" => SlicesDisjoint
  /\ plugin = "replicate" => TasksDisjoint

\* When all the threads have left a worksharing loop, nothing is left to
\* dequeue, or all the replicated tasks have ended, every iteration has been
\* handed out, every section of a compound descriptor has run once, and a
\* repeated one n times.
LoopCovered ==
  /\ plugin = "worksharing" => EveryIteration
  /\ plugin = "slicer" => SlicesCover /\ PartsOnce
  /\ plugin = "replicate" => LoopIsDone

\* "only one thread per loop will get 'true' (single like behaviour)" from
\* create(), whichever of them links its descriptor; and nobody takes an item
\* from a descriptor that is not filled in, even if it reaches the loop long
\* before or after the one who creates it.
OneCreator == plugin = "worksharing" => OneSingle /\ UsedWhenFilled
=============================================================================
