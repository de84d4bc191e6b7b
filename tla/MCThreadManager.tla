--------------------------- MODULE MCThreadManager ---------------------------
(* Three threads, two of them on the same CPU. *)
EXTENDS ThreadManager

MCWorker == 1..3
MCCpu == 1..2
MCCpuOf == [t \in MCWorker |-> IF t = 3 THEN 1 ELSE t]

Uses(b, u, n, s) == [block |-> b, untied |-> u, calls |-> n, uses |-> s]

MCSetups ==
  {Uses(TRUE, TRUE, 2, {"submit", "tied"}), Uses(TRUE, FALSE, 2, {"submit", "replicate"}),
   Uses(TRUE, TRUE, 2, {"tied", "mask"}), Uses(TRUE, TRUE, 2, {"submit", "tied", "mainNum"}),
   Uses(FALSE, TRUE, 3, {"submit", "num"})}
=============================================================================
