----------------------------- MODULE TaskOrder -----------------------------
(***************************************************************************)
(* What the dependency system promises its user: tasks are submitted in    *)
(* program order with a list of data accesses, and a task starts only when *)
(* every earlier task whose accesses conflict with its own has ended.      *)
(* Accesses are the ones of core/dataaccess and submitDependableObject-    *)
(* DataAccess(): input, output, inout, commutative and concurrent.         *)
(***************************************************************************)
EXTENDS Integers, Sequences

CONSTANTS Tasks,   \* the tasks, numbered in submission order
          Addr     \* the addresses tasks access

Mode == {"in", "out", "inout", "comm", "conc"}
Access == [addr : Addr, mode : Mode]

VARIABLES state,   \* "new", "pending", "running" or "ended"
          access   \* the accesses each task was submitted with

orderVars == <<state, access>>

\* Two accesses to one address commute when both read, or when both are of the
\* same relaxed kind
ModesConflict(m, n) == m # n \/ m \in {"out", "inout"}

Conflict(xs, ys) ==
  \E i \in 1..Len(xs), j \in 1..Len(ys) :
    xs[i].addr = ys[j].addr /\ ModesConflict(xs[i].mode, ys[j].mode)

OrderInit ==
  /\ state = [t \in Tasks |-> "new"]
  /\ access = [t \in Tasks |-> <<>>]

Submit(t) ==
  /\ state[t] = "new"
  /\ \A u \in Tasks : u < t => state[u] # "new"
  /\ state' = [state EXCEPT ![t] = "pending"]
  /\ access'[t] \in Seq(Access)
  /\ access' = [access EXCEPT ![t] = access'[t]]

Begin(t) ==
  /\ state[t] = "pending"
  /\ \A u \in Tasks :
       u < t /\ Conflict(access[u], access[t]) => state[u] = "ended"
  /\ state' = [state EXCEPT ![t] = "running"]
  /\ UNCHANGED access

End(t) ==
  /\ state[t] = "running"
  /\ state' = [state EXCEPT ![t] = "ended"]
  /\ UNCHANGED access

OrderNext == \E t \in Tasks : Submit(t) \/ Begin(t) \/ End(t)

OrderSpec == OrderInit /\ [][OrderNext]_orderVars
=============================================================================
