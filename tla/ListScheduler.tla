--------------------------- MODULE ListScheduler ---------------------------
(***************************************************************************)
(* The top-down list scheduler (lib/CodeGen/SelectionDAG/                  *)
(* ScheduleDAGList.cpp) on the DAG of BuildSchedGraph.                     *)
(*                                                                         *)
(* getDepth() is the longest path over the depths setDepthToAtLeast has    *)
(* imposed, which is what SUnitDAG shows of the cached number.  Which node *)
(* the priority queue and the hazard recognizer let through is left open.  *)
(***************************************************************************)
EXTENDS DAGPaths, FiniteSetsExt

CONSTANTS
  Kinds,      \* kinds of dependence
  Latencies,  \* latencies of the instructions; 0 for a pseudo-op
  MaxStalls   \* bound on the cycles in which hazards let nothing through

ASSUME SchedulerAssumption ==
  /\ Nodes \subseteq Nat
  /\ IsFiniteSet(Kinds)
  /\ Latencies \subseteq Nat
  /\ MaxStalls \in Nat

VARIABLES
  preds,         \* Preds
  latency,       \* SUnit::Latency
  numPredsLeft,  \* NumPredsLeft
  floor,         \* what setDepthToAtLeast imposed, or 0
  available,     \* AvailableQueue
  pending,       \* PendingQueue
  curCycle,      \* CurCycle
  issued,        \* history: the cycle each node was scheduled in, or Never
  stalls         \* history: cycles in which hazards let nothing through

vars == <<preds, latency, numPredsLeft, floor, available, pending, curCycle,
          issued, stalls>>

Never == -1
scheduled == {u \in Nodes : issued[u] # Never}

SuccEdges(u, w) == {e \in preds[w] : Node(e) = u}
Succs(u) == {w \in Nodes : SuccEdges(u, w) # {}}

getDepth(f) == Longest(preds, f)

\* AddSchedEdges gives an edge the latency of the node it comes from (no
\* scheduler of SDNodes overrides ComputeOperandLatency).  Nodes are
\* numbered along the edges, as those of any DAG can be.  Nodes without
\* predecessors are available from the start.
Init ==
  /\ latency \in [Nodes -> Latencies]
  /\ \E arcs \in SUBSET {a \in Nodes \X Kinds \X Nodes : a[1] < a[3]} :
       preds = [u \in Nodes |-> {<<a[1], a[2], latency[a[1]]>> :
                                   a \in {b \in arcs : b[3] = u}}]
  /\ numPredsLeft = [u \in Nodes |-> Cardinality(preds[u])]
  /\ floor = [u \in Nodes |-> 0]
  /\ available = {u \in Nodes : preds[u] = {}}
  /\ pending = {}
  /\ curCycle = 0
  /\ issued = [u \in Nodes |-> Never]
  /\ stalls = 0

(***************************************************************************)
(* One round of ListScheduleTopDown's loop.                                *)
(***************************************************************************)
\* The floors after u->setDepthToAtLeast(x): below u they are forgotten.
SetDepthToAtLeast(f, u, x) ==
  IF x <= getDepth(f)[u] THEN f
  ELSE LET outgoing == [m \in Nodes |-> {<<w>> : w \in Succs(m)}]
           below == Reached(u, outgoing, Nodes)
       IN  [m \in Nodes |-> IF m = u THEN x ELSE IF m \in below THEN 0 ELSE f[m]]

\* PendingQueue[i]->getDepth() == CurCycle: these move to AvailableQueue.
Ripe == {u \in pending : getDepth(floor)[u] = curCycle}

\* Fault: a node that was held up keeps its old depth.
AtIssueUnraised(u) == floor

\* SU->setDepthToAtLeast(CurCycle)
AtIssue(u) == SetDepthToAtLeast(floor, u, curCycle)

\* ReleaseSuccessors(u), each ReleaseSucc with its setDepthToAtLeast.
Released(u) ==
  [w \in Nodes |-> numPredsLeft[w] - Cardinality(SuccEdges(u, w))]

\* Raising a depth once for each edge raises it to the largest.
LatencyTo(u, w) == Max({Latency(e) : e \in SuccEdges(u, w)})

FloorsReleased(u) ==
  FoldSet(LAMBDA w, f : SetDepthToAtLeast(f, w, getDepth(f)[u] + LatencyTo(u, w)),
          AtIssue(u), Succs(u))

\* Don't increment CurCycle for pseudo-ops.
CycleAfter(u) == IF latency[u] # 0 THEN curCycle + 1 ELSE curCycle

Issue(u) ==
  /\ u \in available \cup Ripe
  /\ available' = (available \cup Ripe) \ {u}
  /\ floor' = FloorsReleased(u)
  /\ numPredsLeft' = Released(u)
  /\ pending' = (pending \ Ripe) \cup {w \in Succs(u) : Released(u)[w] = 0}
  /\ issued' = [issued EXCEPT ![u] = curCycle]
  /\ curCycle' = CycleAfter(u)
  /\ UNCHANGED <<preds, latency, stalls>>

\* Nothing is available: ++CurCycle.
Wait ==
  /\ available \cup Ripe = {} /\ pending # {}
  /\ curCycle' = curCycle + 1
  /\ UNCHANGED <<preds, latency, numPredsLeft, floor, available, pending,
                 issued, stalls>>

\* Every available node has a hazard: a stall, or a noop in Sequence.
Stall ==
  /\ available \cup Ripe # {}
  /\ stalls < MaxStalls
  /\ stalls' = stalls + 1
  /\ curCycle' = curCycle + 1
  /\ available' = available \cup Ripe
  /\ pending' = pending \ Ripe
  /\ UNCHANGED <<preds, latency, numPredsLeft, floor, issued>>

\* Both queues are empty: the loop is over.
Over == available \cup pending = {}

Next ==
  \/ \E u \in Nodes : Issue(u)
  \/ Wait
  \/ Stall
  \/ Over /\ UNCHANGED vars

Spec == Init /\ [][Next]_vars

(***************************************************************************)
(* Properties.                                                             *)
(***************************************************************************)
\* The schedule is legal: an instruction is issued only when every result it
\* depends on is there, through stalls, idle cycles and pseudo-ops that share
\* a cycle with others.
LatenciesRespected ==
  \A u \in scheduled : \A e \in preds[u] :
     /\ Node(e) \in scheduled
     /\ issued[u] >= issued[Node(e)] + Latency(e)

\* Once scheduled, a node's depth stays the cycle it was issued in, although
\* raising a node's depth makes the nodes below it forget theirs.
DepthKept ==
  \A u \in scheduled : getDepth(floor)[u] = issued[u]

\* Every instruction gets scheduled: VerifySchedule finds none left.
Completes == <>(scheduled = Nodes)
=============================================================================
