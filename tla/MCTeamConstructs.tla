-------------------------- MODULE MCTeamConstructs --------------------------
(* Three threads and four participants: a sequence with every pair of        *)
(* consecutive single constructs, three barriers, two loops.                 *)
EXTENDS TeamConstructs

Guards == <<"single", "single", "init", "second", "init", "second", "single", "end">>
MCLast == Len(Guards) - 1
MCKind == [n \in 0..MCLast |-> Guards[n + 1]]

MCThreads == 0..2
MCParticipants == 0..3

\* A loop with two chunks, and an empty one before or after it
TwoChunks == [lower |-> 0, upper |-> 2, step |-> 1, chunk |-> 2]
Empty == [lower |-> 2, upper |-> 0, step |-> 1, chunk |-> 1]

MCPrograms ==
  {[nths |-> MaxThreads, kind |-> k, loops |-> ls] :
     k \in {"dynamic", "static"}, ls \in {<<TwoChunks, Empty>>, <<Empty, TwoChunks>>}}
=============================================================================
