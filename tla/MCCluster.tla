----------------------------- MODULE MCCluster -----------------------------
(***************************************************************************)
(* Two programs on two remote nodes that accept two tasks each and have    *)
(* room for one transfer. In the first a region is rewritten and read      *)
(* again, with two readers at the end: it is the shortest in which two     *)
(* transfers between the same nodes are followed by a third request for    *)
(* the region. In the second a task needs two regions, one of them to      *)
(* update it.                                                              *)
(***************************************************************************)
EXTENDS Cluster

T(i, o) == [in |-> i, out |-> o]

MCPrograms ==
  LET write == T({}, {"a"})
      read == T({"a"}, {})
  IN { <<write, read, write, read, read>>,
       <<T({"a"}, {"a"}), T({"b"}, {"b"}), T({"a", "b"}, {"b"}), T({"b"}, {})>> }
=============================================================================
