------------------------------ MODULE Cluster ------------------------------
(***************************************************************************)
(* Tasks of the master (node 0) that run on remote nodes: the thread of    *)
(* the master that sends them (ClusterThread), the choice of where their   *)
(* data come from (the directory and the Router), and the messages by      *)
(* which the data and the tasks reach the nodes (Network and GASNetAPI).   *)
(* GASNet loses nothing and orders nothing, and the threads of a node run  *)
(* the handlers side by side: the sequence numbers, counters and sets of   *)
(* Network have to make up for it.                                         *)
(*                                                                         *)
(* What a region holds is the number of tasks that have written it.        *)
(* Transfers have one size and are not cut into packets.                   *)
(***************************************************************************)
EXTENDS FiniteSetsExt, Sequences, Integers

CONSTANTS
  Slaves,    \* remote nodes, numbered from 1
  Regions,   \* what the tasks name in their copies
  Programs,  \* sequences of tasks, each with the regions it reads and writes
  Threads,   \* possible numbers of threads of a remote node
  Presend,   \* ClusterConfig::_smpPresend
  Buffers    \* transfers that fit in the receive segment of a remote node

ASSUME ClusterAssumption ==
  /\ Slaves \subseteq Nat \ {0}
  /\ Threads \subseteq Nat \ {0}
  /\ Presend \in Nat \ {0}
  /\ Buffers \in Nat \ {0}

NoTask == 0
NoOp == [reg |-> "none"]

VARIABLES
  prog,     \* the program that runs
  threads,  \* threads of each remote node
  st,       \* of each task: new, taken, sent, host, ran, done
  where,    \* the node that runs it
  loc,      \* directory: the nodes that hold the current version of a region
  mem,      \* memory of the nodes
  comm,     \* what the cluster thread of the master is doing
  out,      \* master: counters and resources per remote node
  getting,  \* regions that a thread of the master copies to the host
  node,     \* state of Network at each remote node
  net,      \* messages on the way
  merged    \* two early transfers to one address have been recorded as one

vars == <<prog, threads, st, where, loc, mem, comm, out, getting, node, net, merged>>

Nodes == Slaves \cup {0}
Tasks == DOMAIN prog
Reads(w) == prog[w].in
Writes(w) == prog[w].out
\* The version a task reads in a sequential run of the program
Expected(w, r) == Cardinality({v \in 1..(w - 1) : r \in Writes(v)})

\* The dependencies of the task (deps plugins) have been satisfied
Ready(w) ==
  /\ st[w] = "new"
  /\ \A v \in 1..(w - 1) :
       \/ st[v] = "done"
       \/ /\ Writes(v) \cap (Reads(w) \cup Writes(w)) = {}
          /\ Writes(w) \cap Reads(v) = {}

NoComm == [wd |-> NoTask]

Out0 == [work |-> 0, put |-> 0, meta |-> 1, fwd |-> {}, buf |-> Buffers,
         running |-> 0, completed |-> {}]

Node0(p) == [meta |-> 1, byMeta |-> {}, wds |-> 0, count |-> [w \in DOMAIN p |-> 0],
             pending |-> {}, deferred |-> {}, put |-> 0, bySeq |-> {}, waiting |-> {},
             unmatched |-> {}, delayed |-> {}, sendQ |-> {}, ready |-> {}, busy |-> {}]

Init ==
  /\ prog \in Programs
  /\ threads \in Threads
  /\ st = [w \in Tasks |-> "new"]
  /\ where = [w \in Tasks |-> 0]
  /\ loc = [r \in Regions |-> {0}]
  /\ mem = [n \in Nodes |-> [r \in Regions |-> IF n = 0 THEN 0 ELSE -1]]
  /\ comm = NoComm
  /\ out = [n \in Slaves |-> Out0]
  /\ getting = {}
  /\ node = [n \in Slaves |-> Node0(prog)]
  /\ net = {}
  /\ merged = FALSE

-----------------------------------------------------------------------------
(* The master                                                              *)

\* Mutant: the load is balanced for remote destinations too
Sources_Any(dest, locs) == locs

\* Router::getSource: a remote destination takes the first of the locations,
\* which is the host if it is one of them. For the host itself any of the
\* locations may be the one that has been used least.
Sources(dest, locs) == IF dest = 0 THEN locs ELSE {Min(locs)}

\* workerClusterLoop: the node accepts another task (acceptsWDs), and the copies
\* of what it has not got are prepared (generateInOps)
Take(w, n) ==
  /\ comm = NoComm
  /\ Ready(w)
  /\ out[n].running < Presend
  /\ LET todo == {r \in Reads(w) : n \notin loc[r]} IN
     \E src \in [todo -> Nodes] :
       /\ \A r \in todo : src[r] \in Sources(n, loc[r])
       /\ comm' = [wd |-> w, node |-> n, src |-> src, todo |-> todo, op |-> NoOp, sent |-> 0]
  /\ st' = [st EXCEPT ![w] = "taken"]
  /\ where' = [where EXCEPT ![w] = n]
  /\ UNCHANGED <<prog, threads, loc, mem, out, getting, node, net, merged>>

\* The metadata of a region go ahead of its first transfer to a node
Metadata(n, r) ==
  IF r \in out[n].fwd THEN {} ELSE {[type |-> "META", to |-> n, reg |-> r, seq |-> out[n].meta]}
Forward(o, r) ==
  IF r \in o.fwd THEN o ELSE [o EXCEPT !.fwd = @ \cup {r}, !.meta = @ + 1]

\* Network::put and sendRequestPut up to the wait for a buffer. Transfers
\* between nodes are issued first; the destination is told to wait for the
\* data, and both messages are numbered.
BeginTransfer(r) ==
  /\ comm # NoComm /\ comm.op = NoOp
  /\ r \in comm.todo
  /\ comm.src[r] = 0 => \A x \in comm.todo : comm.src[x] = 0
  /\ LET n == comm.node
         s == comm.src[r]
         o == Forward(out[n], r)
     IN IF s = 0
        THEN /\ out' = [out EXCEPT ![n] = o]
             /\ comm' = [comm EXCEPT !.op = [reg |-> r, seq |-> o.meta], !.sent = @ + 1]
             /\ net' = net \cup Metadata(n, r)
        ELSE /\ out' = [out EXCEPT ![n] = [o EXCEPT !.put = @ + 1], ![s].put = @ + 1]
             /\ comm' = [comm EXCEPT !.op = [reg |-> r, seq |-> out[s].put], !.sent = @ + 1]
             /\ net' = net \cup Metadata(n, r)
                           \cup {[type |-> "WAIT", to |-> n, reg |-> r, seq |-> out[n].put]}
  /\ UNCHANGED <<prog, threads, st, where, loc, mem, getting, node, merged>>

\* A buffer of the destination is free: the data, or the request for them, go out
EndTransfer ==
  /\ comm # NoComm /\ comm.op # NoOp
  /\ out[comm.node].buf > 0
  /\ out' = [out EXCEPT ![comm.node].buf = @ - 1]
  /\ comm' = [comm EXCEPT !.op = NoOp, !.todo = @ \ {comm.op.reg}]
  /\ LET r == comm.op.reg
         s == comm.src[r]
     IN net' = net \cup
          IF s = 0
          THEN {[type |-> "PUT", from |-> 0, to |-> comm.node, reg |-> r, wd |-> comm.wd,
                 ver |-> mem[0][r], meta |-> comm.op.seq]}
          ELSE {[type |-> "REQ", to |-> s, dest |-> comm.node, reg |-> r, wd |-> comm.wd,
                 seq |-> comm.op.seq]}
  /\ UNCHANGED <<prog, threads, st, where, loc, mem, getting, node, merged>>

\* Transfers to nodes are complete once issued: the directory is updated
\* (setCacheMetaData, commitMetadata) and the task is sent
SendWork ==
  /\ comm # NoComm /\ comm.op = NoOp /\ comm.todo = {}
  /\ LET w == comm.wd
         n == comm.node
     IN /\ net' = net \cup {[type |-> "WORK", to |-> n, wd |-> w, seq |-> out[n].work,
                             expected |-> comm.sent]}
        /\ out' = [out EXCEPT ![n].work = @ + 1, ![n].running = @ + 1]
        /\ st' = [st EXCEPT ![w] = "sent"]
        /\ loc' = [r \in Regions |-> IF r \in Writes(w) THEN {n}
                                     ELSE IF r \in Reads(w) THEN loc[r] \cup {n} ELSE loc[r]]
  /\ comm' = NoComm
  /\ UNCHANGED <<prog, threads, where, mem, getting, node, merged>>

\* amWorkDone: notifyOutlinedCompletion, completeWD
RecvDone(m) ==
  /\ m \in net /\ m.type = "DONE"
  /\ net' = net \ {m}
  /\ out' = [out EXCEPT ![m.from].running = @ - 1, ![m.from].completed = @ \cup {m.wd}]
  /\ UNCHANGED <<prog, threads, st, where, loc, mem, comm, getting, node, merged>>

\* clearCompletedWDs: postOutlineWork releases the successors
ClearCompleted(n) ==
  /\ comm = NoComm
  /\ out[n].completed # {}
  /\ st' = [w \in Tasks |-> IF w \in out[n].completed THEN "done" ELSE st[w]]
  /\ out' = [out EXCEPT ![n].completed = {}]
  /\ UNCHANGED <<prog, threads, where, loc, mem, comm, getting, node, net, merged>>

RecvFree(m) ==
  /\ m \in net /\ m.type = "FREE"
  /\ net' = net \ {m}
  /\ out' = [out EXCEPT ![m.from].buf = @ + 1]
  /\ UNCHANGED <<prog, threads, st, where, loc, mem, comm, getting, node, merged>>

\* A thread of the master takes a task for itself
HostTake(w) ==
  /\ Ready(w)
  /\ st' = [st EXCEPT ![w] = "host"]
  /\ UNCHANGED <<prog, threads, where, loc, mem, comm, out, getting, node, net, merged>>

\* copyInputData: nobody copies the region yet
HostGet(w, r) ==
  /\ st[w] = "host"
  /\ r \in Reads(w) /\ 0 \notin loc[r] /\ r \notin getting
  /\ getting' = getting \cup {r}
  /\ \E s \in Sources(0, loc[r]) :
       /\ out' = [out EXCEPT ![s].put = @ + 1, ![s].fwd = @ \cup {r}]
       /\ net' = net \cup {[type |-> "GET", to |-> s, reg |-> r, seq |-> out[s].put]}
  /\ UNCHANGED <<prog, threads, st, where, loc, mem, comm, node, merged>>

\* amGetReply, GetRequest::clear and commitMetadata
RecvReply(m) ==
  /\ m \in net /\ m.type = "REPLY"
  /\ net' = net \ {m}
  /\ mem' = [mem EXCEPT ![0][m.reg] = m.ver]
  /\ loc' = [loc EXCEPT ![m.reg] = @ \cup {0}]
  /\ getting' = getting \ {m.reg}
  /\ UNCHANGED <<prog, threads, st, where, comm, out, node, merged>>

HostRun(w) ==
  /\ st[w] = "host"
  /\ \A r \in Reads(w) : 0 \in loc[r]
  /\ st' = [st EXCEPT ![w] = "done"]
  /\ mem' = [mem EXCEPT ![0] = [r \in Regions |-> IF r \in Writes(w) THEN Expected(w, r) + 1 ELSE @[r]]]
  /\ loc' = [r \in Regions |-> IF r \in Writes(w) THEN {0} ELSE loc[r]]
  /\ UNCHANGED <<prog, threads, where, comm, out, getting, node, net, merged>>
-----------------------------------------------------------------------------
(* A remote node. A thread that polls runs one handler at a time; busy     *)
(* holds the handlers that have released one lock and not yet taken the    *)
(* next.                                                                   *)

Polls(n) == Cardinality(node[n].busy) < threads

Message(t, n) == {m \in net : m.type = t /\ m.to = n}

\* notifyRegionMetaData
Metadatum(s, m) == IF s.meta < m.seq THEN [s EXCEPT !.byMeta = @ \cup {m}]
                   ELSE [s EXCEPT !.meta = IF @ = m.seq THEN @ + 1 ELSE @]

\* ReceivedWDData::addData
AddData(s, w) ==
  LET c == s.count[w] + 1
      complete == {m \in s.pending : m.wd = w /\ m.expected = c}
  IN [s EXCEPT !.count[w] = c,
               !.pending = @ \ complete,
               !.ready = @ \cup {m.wd : m \in complete},
               !.wds = @ + Cardinality(complete)]

\* notifyPut up to the lock of the requests
NotifyPut(s, m) ==
  IF s.meta < m.meta THEN [s EXCEPT !.byMeta = @ \cup {m}]
  ELSE LET a == AddData(s, m.wd) IN
       IF m.from = 0 THEN a
       ELSE [a EXCEPT !.busy = @ \cup {[do |-> "match", reg |-> m.reg, wd |-> m.wd]}]

\* ReceivedWDData::addWD for each of a set of tasks
AddWDs(s, ms) ==
  LET complete == {m \in ms : s.count[m.wd] = m.expected} IN
  [s EXCEPT !.pending = @ \cup (ms \ complete),
            !.ready = @ \cup {m.wd : m \in complete},
            !.wds = @ + Cardinality(complete),
            !.deferred = @ \ ms]

\* The tasks that notifyWork and checkDeferredWorkReqs may add, one after the
\* other: how far they come depends on the order of the list
Chains(s, ms) ==
  {c \in SUBSET ms : \A m \in c :
     /\ m.seq >= s.wds
     /\ \A i \in s.wds..(m.seq - 1) : \E x \in c : x.seq = i /\ s.count[x.wd] = x.expected}

RecvMeta(n) ==
  \E m \in Message("META", n) :
    /\ node' = [node EXCEPT ![n] = Metadatum(@, m)]
    /\ net' = net \ {m}
    /\ UNCHANGED <<mem, merged>>

\* Mutant: only the transfers from the master give their buffer back
FreeBuffer_Own(n, m) == IF m.from = 0 THEN {[type |-> "FREE", from |-> n, wd |-> m.wd, reg |-> m.reg]} ELSE {}

\* enqueueFreeBufferNotify: the buffer goes back to the master, who allocated it
FreeBuffer(n, m) == {[type |-> "FREE", from |-> n, wd |-> m.wd, reg |-> m.reg]}

\* amPut: the data are in place before anybody is told
RecvPut(n) ==
  \E m \in Message("PUT", n) :
    /\ mem' = [mem EXCEPT ![n][m.reg] = m.ver]
    /\ node' = [node EXCEPT ![n] = NotifyPut(@, m)]
    /\ net' = (net \ {m}) \cup FreeBuffer(n, m)
    /\ UNCHANGED merged

\* amWorkData, notifyWork
RecvWork(n) ==
  \E m \in Message("WORK", n) :
    /\ IF m.seq = node[n].wds
       THEN \E c \in Chains(node[n], node[n].deferred \cup {m}) :
              m \in c /\ node' = [node EXCEPT ![n] = AddWDs(@, c)]
       ELSE node' = [node EXCEPT ![n].deferred = @ \cup {m}]
    /\ net' = net \ {m}
    /\ UNCHANGED <<mem, merged>>

\* processWaitRequestPut and processSendDataRequest, in the order of their numbers
Process(s, m) ==
  CASE m.type = "WAIT" ->
         [s EXCEPT !.waiting = IF m.reg \in s.unmatched THEN @ ELSE @ \cup {m.reg},
                   !.unmatched = @ \ {m.reg}, !.put = @ + 1]
    [] m.type # "WAIT" /\ m.reg \in s.waiting ->
         [s EXCEPT !.busy = @ \cup {[do |-> "delay", req |-> m]}]
    [] OTHER -> [s EXCEPT !.sendQ = @ \cup {m}, !.put = @ + 1]

\* The address is awaited already, for a transfer that has arrived
Remerges(s, m) == m.type = "WAIT" /\ m.reg \in s.waiting \ s.unmatched

\* notifyWaitRequestPut, notifyRequestPut, notifyGet
RecvNumbered(n) ==
  \E m \in Message("WAIT", n) \cup Message("REQ", n) \cup Message("GET", n) :
    /\ node' = [node EXCEPT ![n] = IF m.seq = @.put THEN Process(@, m)
                                   ELSE [@ EXCEPT !.bySeq = @ \cup {m}]]
    /\ net' = net \ {m}
    /\ merged' = (merged \/ (m.seq = node[n].put /\ Remerges(node[n], m)))
    /\ UNCHANGED mem

\* checkDeferredWorkReqs
PollDeferred(n) ==
  \E c \in Chains(node[n], node[n].deferred) \ {{}} :
    /\ node' = [node EXCEPT ![n] = AddWDs(@, c)]
    /\ UNCHANGED <<mem, net, merged>>

\* processRequestsDelayedBySeqNumber
PollNumbered(n) ==
  \E m \in node[n].bySeq :
    /\ m.seq = node[n].put
    /\ node' = [node EXCEPT ![n] = Process([@ EXCEPT !.bySeq = @ \ {m}], m)]
    /\ merged' = (merged \/ Remerges(node[n], m))
    /\ UNCHANGED <<mem, net>>

\* processRequestsDelayedBySeqRecvMetadata
PollMeta(n) ==
  \E m \in node[n].byMeta :
    LET Key(x) == IF x.type = "META" THEN x.seq ELSE x.meta IN
    /\ Key(m) <= node[n].meta
    /\ \A x \in node[n].byMeta : Key(m) <= Key(x)
    /\ node' = [node EXCEPT ![n] = LET s == [@ EXCEPT !.byMeta = @ \ {m}] IN
                  IF m.type = "META" THEN Metadatum(s, m) ELSE NotifyPut(s, m)]
    /\ UNCHANGED <<mem, net, merged>>

\* checkForPutReqs: doSend reads the memory of the node now
SendData(n) ==
  \E m \in node[n].sendQ :
    /\ node' = [node EXCEPT ![n].sendQ = @ \ {m}]
    /\ net' = net \cup
         IF m.type = "REQ"
         THEN {[type |-> "PUT", from |-> n, to |-> m.dest, reg |-> m.reg, wd |-> m.wd,
                ver |-> mem[n][m.reg], meta |-> 0]}
         ELSE {[type |-> "REPLY", reg |-> m.reg, ver |-> mem[n][m.reg]]}
    /\ UNCHANGED <<mem, merged>>

Handle(n) ==
  /\ Polls(n)
  /\ \/ RecvMeta(n) \/ RecvPut(n) \/ RecvWork(n) \/ RecvNumbered(n)
     \/ PollDeferred(n) \/ PollNumbered(n) \/ PollMeta(n) \/ SendData(n)
  /\ UNCHANGED <<prog, threads, st, where, loc, comm, out, getting>>

\* Mutant: the delayed requests are not looked at
Release_None(s, r) == [s EXCEPT !.waiting = @ \ {r}]

\* The address is no longer awaited: the requests that it delayed are served
Release(s, r) ==
  LET now == {m \in s.delayed : m.reg = r} IN
  [s EXCEPT !.waiting = @ \ {r}, !.delayed = @ \ now, !.sendQ = @ \cup now]

\* The rest of notifyPut, under the locks. A second unannounced transfer to
\* an address leaves the set of such addresses as it is.
MatchPut(n) ==
  \E b \in node[n].busy :
    /\ b.do = "match"
    /\ LET s == [node[n] EXCEPT !.busy = @ \ {b}] IN
       IF b.reg \in s.waiting
          THEN /\ node' = [node EXCEPT ![n] = Release(s, b.reg)]
               /\ UNCHANGED merged
          ELSE /\ node' = [node EXCEPT ![n] = [s EXCEPT !.unmatched = @ \cup {b.reg}]]
               /\ merged' = (merged \/ b.reg \in s.unmatched)
    /\ UNCHANGED <<prog, threads, st, where, loc, mem, comm, out, getting, net>>

\* The rest of processSendDataRequest for a request that has to wait
DelayRequest(n) ==
  \E b \in node[n].busy :
    /\ b.do = "delay"
    /\ node' = [node EXCEPT ![n].busy = @ \ {b}, ![n].delayed = @ \cup {b.req}, ![n].put = @ + 1]
    /\ UNCHANGED <<prog, threads, st, where, loc, mem, comm, out, getting, net, merged>>

\* A thread of the node runs a submitted task; the master is told
Run(n, w) ==
  /\ Polls(n)
  /\ w \in node[n].ready
  /\ node' = [node EXCEPT ![n].ready = @ \ {w}]
  /\ mem' = [mem EXCEPT ![n] = [r \in Regions |-> IF r \in Writes(w) THEN Expected(w, r) + 1 ELSE @[r]]]
  /\ st' = [st EXCEPT ![w] = "ran"]
  /\ net' = net \cup {[type |-> "DONE", from |-> n, wd |-> w]}
  /\ UNCHANGED <<prog, threads, where, loc, comm, out, getting, merged>>

Master ==
  \/ \E w \in Tasks : \/ HostTake(w) \/ HostRun(w)
                      \/ \E n \in Slaves : Take(w, n)
                      \/ \E r \in Regions : HostGet(w, r)
  \/ \E r \in Regions : BeginTransfer(r)
  \/ EndTransfer \/ SendWork
  \/ \E m \in net : RecvDone(m) \/ RecvFree(m) \/ RecvReply(m)
  \/ \E n \in Slaves : ClearCompleted(n)

Slave(n) ==
  \/ Handle(n) \/ MatchPut(n) \/ DelayRequest(n)
  \/ \E w \in Tasks : Run(n, w)

Next == Master \/ \E n \in Slaves : Slave(n)

Spec == Init /\ [][Next]_vars

\* Threads without work poll, so that something that can happen does happen;
\* no more is needed, since every task and message takes finitely many steps.
FairSpec == Spec /\ WF_vars(Next)

-----------------------------------------------------------------------------
\* A task finds in the memory of its node what a sequential run of the program
\* would have left in the regions that it reads, wherever they were produced,
\* however the transfers and the tasks overtake each other: the bytes counted
\* per task, the order of the tasks of a node (notifyWork) and the announced
\* transfers (processWaitRequestPut) see to it. With several threads in a node
\* this holds until two transfers to an address have been recorded as one.
RunsOnCurrentData ==
  [][\A w \in Tasks :
       /\ threads = 1 \/ ~merged
       /\ st[w] \in {"sent", "host"}
       /\ st'[w] \in {"ran", "done"}
       => \A r \in Reads(w) : mem[where[w]][r] = Expected(w, r)]_vars

\* Every task of the program ends: no message waits for ever for a number, for
\* metadata, for a transfer or for a buffer of the receive segment. The two
\* exceptions are real: several threads may leave a request delayed for ever,
\* and two transfers to an address that overtake both announcements count as
\* one, after which the second announcement is never met.
EveryTaskEnds ==
  threads = 1 => <>(merged \/ \A w \in Tasks : st[w] = "done")
=============================================================================
