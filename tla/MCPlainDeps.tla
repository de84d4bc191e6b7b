---------------------------- MODULE MCPlainDeps ----------------------------
EXTENDS PlainDeps
CONSTANTS A, B, w1

MCTasks2 == 1..2
MCTasks3 == 1..3
MCComms == 11..16

Acc(x, m) == [addr |-> x, mode |-> m]

\* Any one access to A, and two-address lists that cross the kinds
OneAddress == {<<Acc(A, m)>> : m \in {"in", "out", "inout", "comm", "conc"}}
TwoAddresses ==
  {<<Acc(A, "in"), Acc(B, "inout")>>, <<Acc(A, "out"), Acc(B, "in")>>,
   <<Acc(B, "in")>>, <<Acc(A, "inout")>>}
\* Two relaxed addresses, and an address named twice
Repeated ==
  {<<Acc(A, "comm"), Acc(B, "conc")>>, <<Acc(B, "in"), Acc(A, "in"), Acc(B, "comm")>>,
   <<Acc(A, "conc"), Acc(A, "inout")>>, <<Acc(A, "in"), Acc(A, "out")>>}
MCWaits == {<<Acc(A, "in")>>, <<Acc(A, "inout")>>}

Program(n, ls, w, k) == [tasks |-> n, lists |-> ls, waits |-> w, keepDeps |-> k]

MCPrograms ==
  {Program(3, OneAddress, 0, {FALSE}), Program(3, TwoAddresses, 0, BOOLEAN),
   Program(2, OneAddress, 2, {FALSE}), Program(2, Repeated, 1, {FALSE})}

LivePrograms == {Program(2, OneAddress, 1, BOOLEAN)}
=============================================================================
