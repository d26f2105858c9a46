--------------------------- MODULE PostRAScheduler ---------------------------
(***************************************************************************)
(* The list scheduler after register allocation (lib/CodeGen/              *)
(* PostRASchedulerList.cpp) with its LatencyPriorityQueue.  It shares the  *)
(* release of successors with the top-down list scheduler; edges have a    *)
(* latency of their own (0 for an anti-dependence), a node is ripe also    *)
(* when its cycle has passed, and with the target's hazards several nodes  *)
(* may issue in one cycle.                                                 *)
(***************************************************************************)
EXTENDS ListScheduler

VARIABLES
  hazardAvoidance,   \* EnablePostRAHazardAvoidance, -post-RA-avoid-hazards
  isAvailable,   \* SUnit::isAvailable, never reset
  blocking,      \* LatencyPriorityQueue::NumNodesSolelyBlocking
  cycleInstCnt   \* CycleInstCnt > 0

pvars == <<vars, hazardAvoidance, isAvailable, blocking, cycleInstCnt>>

(***************************************************************************)
(* LatencyPriorityQueue                                                    *)
(***************************************************************************)
UnscheduledPreds(w, done) == {Node(e) : e \in preds[w]} \ done

\* The edges to nodes u alone keeps from being released, when done are scheduled.
SolelyBlocked(u, done) ==
  LET sole == {w \in Succs(u) : UnscheduledPreds(w, done) = {u}}
  IN  Cardinality(UNION {{<<w, e>> : e \in SuccEdges(u, w)} : w \in sole})

\* The nodes ScheduledNode(u) finds to stand alone before a successor of u:
\* they are taken out of the queue and pushed again.
Adjusted(u, avail) ==
  {p \in Nodes : avail[p] /\ \E w \in Succs(u) :
      ~avail[w] /\ UnscheduledPreds(w, scheduled \cup {u}) = {p}}

\* push_impl counts anew for each node it pushes.
Pushed(S, done, b) == [u \in Nodes |-> IF u \in S THEN SolelyBlocked(u, done) ELSE b[u]]

\* An edge has the latency its kind and its instructions give it.
PInit ==
  /\ hazardAvoidance \in BOOLEAN
  /\ latency \in [Nodes -> Latencies]
  /\ \E lat \in [{a \in Nodes \X Nodes : a[1] < a[2]} -> Latencies \cup {Never}] :
       \E kind \in Kinds :
         preds = [u \in Nodes |-> {<<w, kind, lat[w, u]>> :
                     w \in {v \in Nodes : v < u /\ lat[v, u] # Never}}]
  /\ numPredsLeft = [u \in Nodes |-> Cardinality(preds[u])]
  /\ floor = [u \in Nodes |-> 0]
  /\ available = {u \in Nodes : preds[u] = {}}
  /\ isAvailable = [u \in Nodes |-> preds[u] = {}]
  /\ blocking = Pushed(available, {}, [u \in Nodes |-> 0])
  /\ pending = {} /\ curCycle = 0 /\ stalls = 0
  /\ issued = [u \in Nodes |-> Never]
  /\ cycleInstCnt = FALSE

(***************************************************************************)
(* ListScheduleTopDown                                                     *)
(***************************************************************************)
\* PendingQueue[i]->getDepth() <= CurCycle
PRipe == {u \in pending : getDepth(floor)[u] <= curCycle}

AvailableNow == [u \in Nodes |-> isAvailable[u] \/ u \in PRipe]

PCycleAfter(u) ==
  IF hazardAvoidance \/ latency[u] = 0 THEN curCycle ELSE curCycle + 1

\* Fault: the nodes a scheduled one had in common with others are left alone.
BlockingUnadjusted(u, held) == Pushed(PRipe \cup held, scheduled, blocking)

\* After the ripe nodes were pushed, those with hazards popped and pushed
\* again, and u scheduled.
BlockingAfter(u, held) ==
  Pushed(Adjusted(u, AvailableNow), scheduled \cup {u},
         Pushed(PRipe \cup held, scheduled, blocking))

PIssue(u) ==
  /\ u \in available \cup PRipe
  /\ \E held \in SUBSET ((available \cup PRipe) \ {u}) :
       blocking' = BlockingAfter(u, held)
  /\ available' = (available \cup PRipe) \ {u}
  /\ isAvailable' = AvailableNow
  /\ floor' = FloorsReleased(u)
  /\ numPredsLeft' = Released(u)
  /\ pending' = (pending \ PRipe) \cup {w \in Succs(u) : Released(u)[w] = 0}
  /\ issued' = [issued EXCEPT ![u] = curCycle]
  /\ curCycle' = PCycleAfter(u)
  /\ cycleInstCnt' = TRUE
  /\ UNCHANGED <<preds, latency, hazardAvoidance, stalls>>

\* Fault: a cycle in which nothing issued does not count.
NextCycleIfIssued == IF cycleInstCnt THEN curCycle + 1 ELSE curCycle

\* ++CurCycle
NextCycle == curCycle + 1

\* Nothing is available, or everything has a hazard: the end of a cycle in
\* which something issued, or else a stall or a noop.
EndCycle ==
  /\ available \cup pending # {}
  /\ available \cup PRipe # {} =>
       cycleInstCnt \/ stalls < MaxStalls
  /\ stalls' = IF available \cup PRipe # {} /\ ~cycleInstCnt THEN stalls + 1 ELSE stalls
  /\ available' = available \cup PRipe
  /\ isAvailable' = AvailableNow
  /\ pending' = pending \ PRipe
  /\ blocking' = Pushed(available', scheduled, blocking)
  /\ curCycle' = NextCycle
  /\ cycleInstCnt' = FALSE
  /\ UNCHANGED <<preds, latency, hazardAvoidance, numPredsLeft, floor, issued>>

PNext ==
  \/ \E u \in Nodes : PIssue(u)
  \/ EndCycle
  \/ Over /\ UNCHANGED pvars

(***************************************************************************)
(* Properties, with LatenciesRespected, DepthKept and Completes of         *)
(* ListScheduler.                                                          *)
(***************************************************************************)
\* The tie-breaker of latency_sort is never stale: for a queued node it is the
\* number of nodes only that node still keeps from being released. And "since
\* it is available, it must be in the priority queue": the node ScheduledNode
\* removes is there, although isAvailable is never reset and nodes with
\* hazards were out of the queue a moment before.
QueueExact ==
  /\ \A u \in available : blocking[u] = SolelyBlocked(u, scheduled)
  /\ \A u \in available \cup PRipe :
       Adjusted(u, AvailableNow) \subseteq (available \cup PRipe) \ {u}
=============================================================================
