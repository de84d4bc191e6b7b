--------------------------- MODULE MCLoopPlugins ---------------------------
EXTENDS LoopPlugins

Loop(lo, hi, s, c) == [lower |-> lo, upper |-> hi, step |-> s, chunk |-> c]

\* Every shape of a loop: empty ones, both signs, steps that do not divide it
ManyLoops ==
  {Loop(lo, hi, s, c) : lo \in {-1, 2}, hi \in -4..7, s \in {-3, -2, -1, 1, 2, 3}, c \in 0..3}

\* Two threads in a worksharing loop, up to three with the slicers; and three in
\* two loops, one of them with two chunks and one empty
TwoLoops == <<Loop(0, 2, 1, 2), Loop(2, 0, 1, 1)>>

MCPrograms ==
  [nths : {2}, kind : Schedules, loops : {<<l>> : l \in ManyLoops}]
  \cup [nths : {3}, kind : Schedules, loops : {TwoLoops, <<TwoLoops[2], TwoLoops[1]>>}]

MCWorks ==
  [kind : Schedules, loop : ManyLoops, nths : 1..3, parts : {1}]
  \cup [kind : {"repeat", "compound"}, loop : {Loop(0, 0, 1, 1)}, nths : {1}, parts : 1..8]

SomeLoops == {Loop(1, hi, s, c) : hi \in {-3, 0, 1, 4, 6}, s \in {-2, 1, 2}, c \in 0..2}
=============================================================================
