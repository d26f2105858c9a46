------------------------------ MODULE SUnitDAG ------------------------------
(***************************************************************************)
(* The scheduling DAG (SUnit in include/llvm/CodeGen/ScheduleDAG.h and     *)
(* lib/CodeGen/ScheduleDAG.cpp): edges kept at both ends, counters derived *)
(* from them, and the lazily computed depth and height of every node.      *)
(*                                                                         *)
(* An SDep is <<n, kind, latency>>: in preds[u] n is the predecessor, in   *)
(* succs[u] the successor.  addPred refuses a second equal SDep, so both   *)
(* lists are sets.  depth[u] = Dirty stands for !isDepthCurrent; the stale *)
(* number the field then holds is never used.                              *)
(***************************************************************************)
EXTENDS DAGPaths

CONSTANTS
  Deps,      \* pairs <<kind, latency>> an SDep may have
  Raises,    \* arguments of setDepthToAtLeast and setHeightToAtLeast
  Lengths    \* values of Depth and Height: a bound wide enough for Nodes

ASSUME DAGAssumption ==
  /\ Deps \subseteq {"data", "order"} \X Nat
  /\ Raises \subseteq Nat
  /\ Lengths \subseteq Nat

VARIABLES
  preds, succs,                \* Preds, Succs
  numPreds, numSuccs,          \* NumPreds, NumSuccs: SDep::Data edges
  numPredsLeft, numSuccsLeft,  \* NumPredsLeft, NumSuccsLeft
  scheduled,                   \* the nodes with isScheduled
  depth, height,               \* getDepth(), getHeight(), or Dirty
  depthFloor, heightFloor      \* history: what setDepthToAtLeast and
                               \* setHeightToAtLeast last imposed, or 0

countVars == <<numPreds, numSuccs, numPredsLeft, numSuccsLeft, scheduled>>
depthVars == <<depth, depthFloor>>
heightVars == <<height, heightFloor>>
vars == <<preds, succs, countVars, depthVars, heightVars>>

Dirty == -1

SDep(n, d) == <<n, d[1], d[2]>>
SDeps      == {SDep(n, d) : n \in Nodes, d \in Deps}

Init ==
  /\ preds = [u \in Nodes |-> {}] /\ succs = [u \in Nodes |-> {}]
  /\ numPreds = [u \in Nodes |-> 0] /\ numSuccs = [u \in Nodes |-> 0]
  /\ numPredsLeft = [u \in Nodes |-> 0] /\ numSuccsLeft = [u \in Nodes |-> 0]
  /\ scheduled = {}
  /\ depth = [u \in Nodes |-> Dirty] /\ height = [u \in Nodes |-> Dirty]
  /\ depthFloor = [u \in Nodes |-> 0] /\ heightFloor = [u \in Nodes |-> 0]

(***************************************************************************)
(* setDepthDirty and setHeightDirty.  Depth follows preds, height follows  *)
(* succs, so each operator takes the lists it follows as an argument.      *)
(***************************************************************************)
Current(value) == {m \in Nodes : value[m] # Dirty}

\* Fault: only the node itself is marked.
DirtiedAlone(u, out, value) == IF value[u] = Dirty THEN {} ELSE {u}

\* if (!isDepthCurrent) return; then all it spreads to among current nodes.
Dirtied(u, out, value) ==
  IF value[u] = Dirty THEN {} ELSE Reached(u, out, Current(value))

Reset(value, S, to) == [m \in Nodes |-> IF m \in S THEN to ELSE value[m]]

SetDepthDirty(u, out) ==
  /\ depth' = Reset(depth, Dirtied(u, out, depth), Dirty)
  /\ depthFloor' = Reset(depthFloor, Dirtied(u, out, depth), 0)

SetHeightDirty(u, out) ==
  /\ height' = Reset(height, Dirtied(u, out, height), Dirty)
  /\ heightFloor' = Reset(heightFloor, Dirtied(u, out, height), 0)

(***************************************************************************)
(* addPred and removePred.                                                 *)
(***************************************************************************)
\* An edge without latency is taken not to change any depth or height.
ChangesPaths(e) == Latency(e) # 0

\* The SDep at the other end of the SDep e of u.
Mirrored(u, e) == SDep(u, <<Kind(e), Latency(e)>>)

Data(e) == IF Kind(e) = "data" THEN 1 ELSE 0
Left(n) == IF n \in scheduled THEN 0 ELSE 1

\* u->addPred(SDep(n, d)).  The schedulers insert no cycle, and a bottom-up
\* scheduler edits only edges from nodes it has not scheduled.
AddPred(u, n, d) ==
  LET new == SDep(n, d) \notin preds[u]
      by(x) == IF new THEN x ELSE 0
  IN
  /\ n # u
  /\ n \notin scheduled
  /\ preds' = [preds EXCEPT ![u] = @ \cup {SDep(n, d)}]
  /\ succs' = [succs EXCEPT ![n] = @ \cup {Mirrored(u, SDep(n, d))}]
  /\ Acyclic(preds')
  /\ numPreds' = [numPreds EXCEPT ![u] = @ + by(Data(SDep(n, d)))]
  /\ numSuccs' = [numSuccs EXCEPT ![n] = @ + by(Data(SDep(n, d)))]
  /\ numPredsLeft' = [numPredsLeft EXCEPT ![u] = @ + by(Left(n))]
  /\ numSuccsLeft' = [numSuccsLeft EXCEPT ![n] = @ + by(Left(u))]
  /\ IF new /\ ChangesPaths(SDep(n, d))
       THEN SetDepthDirty(u, succs') /\ SetHeightDirty(n, preds')
       ELSE UNCHANGED <<depthVars, heightVars>>
  /\ UNCHANGED scheduled

\* u->removePred(e).
RemovePred(u, e) ==
  LET n == Node(e) IN
  /\ e \in preds[u] /\ n \notin scheduled
  /\ preds' = [preds EXCEPT ![u] = @ \ {e}]
  /\ succs' = [succs EXCEPT ![n] = @ \ {Mirrored(u, e)}]
  /\ numPreds' = [numPreds EXCEPT ![u] = @ - Data(e)]
  /\ numSuccs' = [numSuccs EXCEPT ![n] = @ - Data(e)]
  /\ numPredsLeft' = [numPredsLeft EXCEPT ![u] = @ - Left(n)]
  /\ numSuccsLeft' = [numSuccsLeft EXCEPT ![n] = @ - Left(u)]
  /\ IF ChangesPaths(e)
       THEN SetDepthDirty(u, succs') /\ SetHeightDirty(n, preds')
       ELSE UNCHANGED <<depthVars, heightVars>>
  /\ UNCHANGED scheduled

(***************************************************************************)
(* getDepth and getHeight.                                                 *)
(***************************************************************************)
\* Lengths of the paths that reach u through its neighbours along in.
PathsThrough(u, in, value) ==
  {0} \cup {value[Node(e)] + Latency(e) : e \in in[u]}

\* The possible values once u has been computed (there is just one): the work
\* list takes in the nodes that are not current and sets each, after its
\* neighbours, to the longest path through them.
Computed(u, in, value) ==
  LET todo == IF value[u] = Dirty THEN Reached(u, in, Nodes \ Current(value))
                                  ELSE {}
      Patch(part) == [m \in Nodes |-> IF m \in todo THEN part[m] ELSE value[m]]
  IN  {new \in {Patch(part) : part \in [todo -> Lengths]} :
         \A m \in todo : IsLargest(new[m], PathsThrough(m, in, new))}

GetDepth(u) ==
  /\ depth' \in Computed(u, preds, depth)
  /\ UNCHANGED <<preds, succs, countVars, depthFloor, heightVars>>

GetHeight(u) ==
  /\ height' \in Computed(u, succs, height)
  /\ UNCHANGED <<preds, succs, countVars, depthVars, heightFloor>>

(***************************************************************************)
(* setDepthToAtLeast and setHeightToAtLeast.                               *)
(***************************************************************************)
\* new is what getDepth() left; nothing more happens if x is no more than that.
Raised(u, x, out, new) ==
  IF x <= new[u] THEN new
  ELSE [Reset(new, Dirtied(u, out, new), Dirty) EXCEPT ![u] = x]

RaisedFloor(u, x, out, new, floor) ==
  IF x <= new[u] THEN floor
  ELSE [Reset(floor, Dirtied(u, out, new), 0) EXCEPT ![u] = x]

SetDepthToAtLeast(u, x) ==
  /\ \E new \in Computed(u, preds, depth) :
       /\ depth' = Raised(u, x, succs, new)
       /\ depthFloor' = RaisedFloor(u, x, succs, new, depthFloor)
  /\ UNCHANGED <<preds, succs, countVars, heightVars>>

RaiseHeight(u, x, new) ==
  /\ height' = Raised(u, x, preds, new)
  /\ heightFloor' = RaisedFloor(u, x, preds, new, heightFloor)

SetHeightToAtLeast(u, x) ==
  /\ \E new \in Computed(u, succs, height) : RaiseHeight(u, x, new)
  /\ UNCHANGED <<preds, succs, countVars, depthVars>>

(***************************************************************************)
(* What the bottom-up schedulers do to the nodes they schedule.            *)
(***************************************************************************)
\* Fault: a predecessor is released once, not once for each edge.
EdgesToOnce(u, n) == IF \E e \in preds[u] : Node(e) = n THEN 1 ELSE 0

EdgesTo(u, n) == Cardinality({e \in preds[u] : Node(e) = n})

\* ScheduleNodeBottomUp: CurCycle is at least the height of u; every
\* predecessor is released, once for each edge.
ScheduleNodeBottomUp(u, cycle) ==
  /\ u \notin scheduled
  /\ numSuccsLeft[u] = 0
  /\ \E new \in Computed(u, succs, height) :
       cycle >= new[u] /\ RaiseHeight(u, cycle, new)
  /\ numSuccsLeft' = [n \in Nodes |-> numSuccsLeft[n] - EdgesTo(u, n)]
  /\ scheduled' = scheduled \cup {u}
  /\ UNCHANGED <<preds, succs, numPreds, numSuccs, numPredsLeft, depthVars>>

\* UnscheduleNodeBottomUp, of the node scheduled last.
UnscheduleNodeBottomUp(u) ==
  /\ u \in scheduled
  /\ \A e \in preds[u] : Node(e) \notin scheduled
  /\ numSuccsLeft' = [n \in Nodes |-> numSuccsLeft[n] + EdgesTo(u, n)]
  /\ SetHeightDirty(u, preds)
  /\ scheduled' = scheduled \ {u}
  /\ UNCHANGED <<preds, succs, numPreds, numSuccs, numPredsLeft, depthVars>>

Next ==
  \E u \in Nodes :
    \/ \E n \in Nodes, d \in Deps : AddPred(u, n, d)
    \/ \E e \in preds[u] : RemovePred(u, e)
    \/ GetDepth(u) \/ GetHeight(u)
    \/ \E x \in Raises : \/ SetDepthToAtLeast(u, x)
                         \/ SetHeightToAtLeast(u, x)
                         \/ ScheduleNodeBottomUp(u, x)
    \/ UnscheduleNodeBottomUp(u)

Spec == Init /\ [][Next]_vars

(***************************************************************************)
(* Properties.                                                             *)
(***************************************************************************)
\* Every edge is known at both ends ("Mismatching preds / succs lists!" never
\* fires), and the counters say what the lists say, whatever was scheduled,
\* unscheduled, added and removed in between: a node is released when its last
\* successor is scheduled, not before, not twice.
CountersExact ==
  \A u \in Nodes :
    /\ \A n \in Nodes, d \in Deps : SDep(n, d) \in preds[u] <=> SDep(u, d) \in succs[n]
    /\ numPreds[u] = Cardinality({e \in preds[u] : Kind(e) = "data"})
    /\ numSuccs[u] = Cardinality({e \in succs[u] : Kind(e) = "data"})
    /\ numPredsLeft[u] = Cardinality(preds[u])
    /\ numSuccsLeft[u] = Cardinality({e \in succs[u] : Node(e) \notin scheduled})

\* A cached depth or height is the length of the longest path, counting what
\* the scheduler imposed on nodes along it: no edit leaves a stale number
\* behind that getDepth or getHeight would return.
LengthsExact ==
  \A u \in Nodes :
    /\ depth[u] # Dirty => depth[u] = Longest(preds, depthFloor)[u]
    /\ height[u] # Dirty => height[u] = Longest(succs, heightFloor)[u]

\* "Return the depth of this node, which is the length of the maximum path up
\* to any node with has no predecessors."
DepthIsMaximumPath ==
  \A u \in Nodes : depth[u] # Dirty =>
     depth[u] = Longest(preds, [m \in Nodes |-> 0])[u]
=============================================================================
