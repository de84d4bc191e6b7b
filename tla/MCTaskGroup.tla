---------------------------- MODULE MCTaskGroup ----------------------------
EXTENDS TaskGroup
CONSTANTS r, a, b

\* The main work descriptor waits twice, so that its condition is used again
MCWaits == [w \in WD |-> IF w = Root THEN 2 ELSE 1]
NoWaits == [w \in WD |-> 0]
=============================================================================
