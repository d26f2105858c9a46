------------------------- MODULE SchedulingDAG_proofs -------------------------
(***************************************************************************)
(* Proofs about the scheduling DAG.  Of SUnitDAG: the edge lists, the      *)
(* counters and the cached depths and heights, for any nodes and           *)
(* dependences.  Of TopologicalSort: the order that rebuilds and shifts    *)
(* leave, what the bounded search finds, and that the graph stays one      *)
(* without cycles, for any number of nodes and any kinds of edge.          *)
(***************************************************************************)
EXTENDS SUnitDAG, TopologicalSort, DAGPaths_proofs

DataIn(S)    == {e \in S : Kind(e) = "data"}
WaitingIn(S) == {e \in S : Node(e) \notin scheduled}

-----------------------------------------------------------------------------
(***************************************************************************)
(* The inductive invariant.                                                *)
(***************************************************************************)
EdgeInv ==
  /\ preds \in [Nodes -> SUBSET SDeps] /\ succs \in [Nodes -> SUBSET SDeps]
  /\ \A u \in Nodes : IsFiniteSet(preds[u]) /\ IsFiniteSet(succs[u])
  /\ \A u, n \in Nodes, d \in Deps : SDep(n, d) \in preds[u] <=> SDep(u, d) \in succs[n]

CountInv ==
  /\ DOMAIN numPreds = Nodes /\ DOMAIN numSuccs = Nodes
  /\ DOMAIN numPredsLeft = Nodes /\ DOMAIN numSuccsLeft = Nodes
  /\ \A u \in Nodes :
       /\ numPreds[u] = Cardinality(DataIn(preds[u]))
       /\ numSuccs[u] = Cardinality(DataIn(succs[u]))
       /\ numPredsLeft[u] = Cardinality(preds[u])
       /\ numSuccsLeft[u] = Cardinality(WaitingIn(succs[u]))

DInv == EdgeInv /\ CountInv

-----------------------------------------------------------------------------
(***************************************************************************)
(* SDeps and what is counted.                                              *)
(***************************************************************************)
LEMMA SDepFields ==
  ASSUME NEW n, NEW d \in Deps
  PROVE  /\ Node(SDep(n, d)) = n /\ Mirrored(n, SDep(n, d)) = SDep(n, d)
         /\ \A u : Mirrored(u, SDep(n, d)) = SDep(u, d) /\ Kind(SDep(u, d)) = Kind(SDep(n, d))
         /\ \A m, c \in Deps : SDep(n, d) = SDep(m, c) => n = m /\ d = c
<1>1. d = <<d[1], d[2]>> /\ \A c \in Deps : c = <<c[1], c[2]>>
  BY DAGAssumption
<1> QED BY <1>1 DEF Node, Kind, Latency, SDep, Mirrored

LEMMA SDepOf ==
  ASSUME NEW e \in SDeps
  PROVE  \E n \in Nodes, d \in Deps : e = SDep(n, d) /\ n = Node(e)
BY SDepFields DEF SDeps

LEMMA SubsetFinite ==
  ASSUME NEW S, IsFiniteSet(S), NEW T, T \subseteq S
  PROVE  IsFiniteSet(T) /\ Cardinality(T) \in Nat
BY FS_Subset, FS_CardinalityType

LEMMA CountAdded ==
  ASSUME NEW S, IsFiniteSet(S), NEW e
  PROVE  LET by(x) == IF e \notin S THEN x ELSE 0
         IN  /\ IsFiniteSet(S \cup {e})
             /\ Cardinality(S \cup {e}) = Cardinality(S) + by(1)
             /\ Cardinality(DataIn(S \cup {e})) = Cardinality(DataIn(S)) + by(Data(e))
             /\ Cardinality(WaitingIn(S \cup {e}))
                  = Cardinality(WaitingIn(S)) + by(Left(Node(e)))
<1> DEFINE by(x) == IF e \notin S THEN x ELSE 0
<1>1. IsFiniteSet(S \cup {e}) /\ Cardinality(S \cup {e}) = Cardinality(S) + by(1)
  BY FS_AddElement, FS_CardinalityType
<1>2. IsFiniteSet(DataIn(S)) /\ Cardinality(DataIn(S)) \in Nat
  BY SubsetFinite DEF DataIn
<1>3. IsFiniteSet(WaitingIn(S)) /\ Cardinality(WaitingIn(S)) \in Nat
  BY SubsetFinite DEF WaitingIn
<1>4. Cardinality(DataIn(S \cup {e})) = Cardinality(DataIn(S)) + by(Data(e))
  <2>1. CASE Kind(e) = "data"
    <3>1. DataIn(S \cup {e}) = DataIn(S) \cup {e} /\ (e \in DataIn(S) <=> e \in S)
      BY <2>1 DEF DataIn
    <3>2. Cardinality(DataIn(S) \cup {e}) =
            IF e \in DataIn(S) THEN Cardinality(DataIn(S)) ELSE Cardinality(DataIn(S)) + 1
      BY <1>2, FS_AddElement
    <3>3. Data(e) = 1
      BY <2>1 DEF Data
    <3> QED BY <1>2, <3>1, <3>2, <3>3
  <2>2. CASE Kind(e) # "data"
    <3>1. DataIn(S \cup {e}) = DataIn(S)
      BY <2>2 DEF DataIn
    <3> QED BY <1>2, <2>2, <3>1 DEF Data
  <2> QED BY <2>1, <2>2
<1>5. Cardinality(WaitingIn(S \cup {e})) = Cardinality(WaitingIn(S)) + by(Left(Node(e)))
  <2>1. CASE Node(e) \notin scheduled
    <3>1. WaitingIn(S \cup {e}) = WaitingIn(S) \cup {e} /\ (e \in WaitingIn(S) <=> e \in S)
      BY <2>1 DEF WaitingIn
    <3>2. Cardinality(WaitingIn(S) \cup {e}) =
            IF e \in WaitingIn(S) THEN Cardinality(WaitingIn(S)) ELSE Cardinality(WaitingIn(S)) + 1
      BY <1>3, FS_AddElement
    <3>3. Left(Node(e)) = 1
      BY <2>1 DEF Left
    <3>4. Cardinality(WaitingIn(S \cup {e})) =
            IF e \in S THEN Cardinality(WaitingIn(S)) ELSE Cardinality(WaitingIn(S)) + 1
      BY <3>1, <3>2
    <3> QED BY <1>3, <3>3, <3>4
  <2>2. CASE Node(e) \in scheduled
    <3>1. WaitingIn(S \cup {e}) = WaitingIn(S)
      BY <2>2 DEF WaitingIn
    <3> QED BY <1>3, <2>2, <3>1 DEF Left
  <2> QED BY <2>1, <2>2
<1> QED BY <1>1, <1>4, <1>5

LEMMA CountRemoved ==
  ASSUME NEW S, IsFiniteSet(S), NEW e \in S
  PROVE  /\ IsFiniteSet(S \ {e})
         /\ Cardinality(S \ {e}) = Cardinality(S) - 1
         /\ Cardinality(DataIn(S \ {e})) = Cardinality(DataIn(S)) - Data(e)
         /\ Cardinality(WaitingIn(S \ {e})) = Cardinality(WaitingIn(S)) - Left(Node(e))
<1> DEFINE R == S \ {e}
<1>1. IsFiniteSet(R) /\ e \notin R /\ R \cup {e} = S
  BY FS_RemoveElement
<1>2. /\ Cardinality(R) \in Nat /\ Cardinality(DataIn(R)) \in Nat
      /\ Cardinality(WaitingIn(R)) \in Nat
  BY <1>1, SubsetFinite DEF DataIn, WaitingIn
<1>3. Data(e) \in Int /\ Left(Node(e)) \in Int
  BY DEF Data, Left
<1> HIDE DEF R
<1>4. /\ Cardinality(S) = Cardinality(R) + 1
      /\ Cardinality(DataIn(S)) = Cardinality(DataIn(R)) + Data(e)
      /\ Cardinality(WaitingIn(S)) = Cardinality(WaitingIn(R)) + Left(Node(e))
  BY <1>1, CountAdded
<1>5. IsFiniteSet(R) /\ Cardinality(R) = Cardinality(S) - 1
      /\ Cardinality(DataIn(R)) = Cardinality(DataIn(S)) - Data(e)
      /\ Cardinality(WaitingIn(R)) = Cardinality(WaitingIn(S)) - Left(Node(e))
  BY <1>1, <1>2, <1>3, <1>4
<1> QED BY <1>5 DEF R

\* The edges between two nodes, seen from either end.
LEMMA EdgesMatch ==
  ASSUME EdgeInv, NEW u \in Nodes, NEW n \in Nodes
  PROVE  EdgesTo(u, n) = Cardinality({e \in succs[n] : Node(e) = u})
<1> DEFINE S == {e \in preds[u] : Node(e) = n}
           T == {e \in succs[n] : Node(e) = u}
           f == [e \in S |-> Mirrored(u, e)]
<1>1. \A e \in S : \E d \in Deps : e = SDep(n, d)
  BY SDepOf DEF EdgeInv
<1>2. \A e \in T : \E d \in Deps : e = SDep(u, d)
  BY SDepOf DEF EdgeInv
<1>3. \A d \in Deps : SDep(n, d) \in S <=> SDep(u, d) \in T
  BY SDepFields DEF EdgeInv
<1>4. \A d \in Deps : SDep(n, d) \in S => f[SDep(n, d)] = SDep(u, d)
  BY SDepFields
<1> HIDE DEF f
<1>5. DOMAIN f = S /\ f = [e \in DOMAIN f |-> f[e]]
  BY DEF f
<1>6. f \in [S -> T]
  BY <1>1, <1>3, <1>4, <1>5
<1>7. \A e, g \in S : f[e] = f[g] => e = g
  <2> SUFFICES ASSUME NEW e \in S, NEW g \in S, f[e] = f[g] PROVE e = g
    OBVIOUS
  <2>1. PICK c \in Deps, d \in Deps : e = SDep(n, c) /\ g = SDep(n, d)
    BY <1>1
  <2>2. SDep(u, c) = SDep(u, d)
    BY <1>4, <2>1
  <2> QED BY <2>1, <2>2, SDepFields
<1>8. \A h \in T : \E e \in S : f[e] = h
  BY <1>2, <1>3, <1>4
<1>9. f \in Bijection(S, T)
  BY <1>6, <1>7, <1>8 DEF Bijection, Injection, Surjection, IsInjective
<1>10. IsFiniteSet(S)
  BY SubsetFinite DEF EdgeInv
<1> HIDE DEF S, T
<1>11. Cardinality(T) = Cardinality(S)
  BY <1>9, <1>10, FS_Bijection DEF ExistsBijection
<1> QED BY <1>11 DEF EdgesTo, S, T

-----------------------------------------------------------------------------
(***************************************************************************)
(* Edits.                                                                  *)
(***************************************************************************)
LEMMA AddPredStep ==
  ASSUME DInv, NEW u \in Nodes, NEW n \in Nodes, NEW d \in Deps, AddPred(u, n, d)
  PROVE  DInv'
<1> DEFINE by(x) == IF SDep(n, d) \notin preds[u] THEN x ELSE 0
<1>1. PICK e \in SDeps : e = SDep(n, d)
  BY DEF SDeps
<1>2. PICK m \in SDeps : m = SDep(u, d)
  BY DEF SDeps
<1>3. /\ Mirrored(u, e) = m /\ Node(e) = n /\ Node(m) = u /\ Kind(m) = Kind(e)
      /\ Data(m) = Data(e) /\ (e \notin preds[u] <=> m \notin succs[n])
  BY <1>1, <1>2, SDepFields DEF DInv, EdgeInv, Data
<1>4. /\ n \notin scheduled /\ scheduled' = scheduled
      /\ preds' = [preds EXCEPT ![u] = @ \cup {e}]
      /\ succs' = [succs EXCEPT ![n] = @ \cup {m}]
      /\ numPreds' = [numPreds EXCEPT ![u] = @ + by(Data(e))]
      /\ numSuccs' = [numSuccs EXCEPT ![n] = @ + by(Data(e))]
      /\ numPredsLeft' = [numPredsLeft EXCEPT ![u] = @ + by(Left(n))]
      /\ numSuccsLeft' = [numSuccsLeft EXCEPT ![n] = @ + by(Left(u))]
  BY <1>1, <1>3 DEF AddPred
<1>5. /\ preds \in [Nodes -> SUBSET SDeps] /\ succs \in [Nodes -> SUBSET SDeps]
      /\ IsFiniteSet(preds[u]) /\ IsFiniteSet(succs[n])
  BY DEF DInv, EdgeInv
<1>6. /\ preds'[u] = preds[u] \cup {e} /\ \A w \in Nodes : w # u => preds'[w] = preds[w]
      /\ succs'[n] = succs[n] \cup {m} /\ \A w \in Nodes : w # n => succs'[w] = succs[w]
  BY <1>4, <1>5
<1>7. EdgeInv'
  <2>1. preds' \in [Nodes -> SUBSET SDeps] /\ succs' \in [Nodes -> SUBSET SDeps]
    BY <1>4, <1>5
  <2>2. \A w \in Nodes : IsFiniteSet(preds'[w]) /\ IsFiniteSet(succs'[w])
    <3>1. IsFiniteSet(preds[u] \cup {e}) /\ IsFiniteSet(succs[n] \cup {m})
      BY <1>5, FS_AddElement
    <3> QED BY <1>6, <3>1 DEF DInv, EdgeInv
  <2>3. ASSUME NEW w \in Nodes, NEW v \in Nodes, NEW c \in Deps
        PROVE  SDep(v, c) \in preds'[w] <=> SDep(w, c) \in succs'[v]
    <3>1. SDep(v, c) \in preds[w] <=> SDep(w, c) \in succs[v]
      BY DEF DInv, EdgeInv
    <3>2. SDep(v, c) = e <=> v = n /\ c = d
      BY <1>1, SDepFields
    <3>3. SDep(w, c) = m <=> w = u /\ c = d
      BY <1>2, SDepFields
    <3> QED BY <1>6, <3>1, <3>2, <3>3
  <2> QED BY <2>1, <2>2, <2>3 DEF EdgeInv
<1>8. /\ DOMAIN numPreds' = Nodes /\ DOMAIN numSuccs' = Nodes
      /\ DOMAIN numPredsLeft' = Nodes /\ DOMAIN numSuccsLeft' = Nodes
  BY <1>4 DEF DInv, CountInv
<1>9. ASSUME NEW w \in Nodes
      PROVE  /\ numPreds'[w] = Cardinality(DataIn(preds'[w]))
             /\ numSuccs'[w] = Cardinality(DataIn(succs'[w]))
             /\ numPredsLeft'[w] = Cardinality(preds'[w])
             /\ numSuccsLeft'[w] = Cardinality(WaitingIn(succs'[w]))
  <2>1. Left(n) = 1
    BY <1>4 DEF Left
  <2>2. CASE w = u
    <3>1. Cardinality(preds[u] \cup {e}) = Cardinality(preds[u]) + by(1)
      BY <1>1, <1>5, CountAdded
    <3>2. Cardinality(DataIn(preds[u] \cup {e})) = Cardinality(DataIn(preds[u])) + by(Data(e))
      BY <1>1, <1>5, CountAdded
    <3>3. /\ numPreds'[u] = Cardinality(DataIn(preds'[u]))
          /\ numPredsLeft'[u] = Cardinality(preds'[u])
      BY <1>4, <1>6, <2>1, <3>1, <3>2 DEF DInv, CountInv
    <3> QED BY <2>2, <3>3, <1>4, <1>6 DEF DInv, CountInv, AddPred
  <2>3. CASE w = n
    <3>1. Cardinality(DataIn(succs[n] \cup {m})) = Cardinality(DataIn(succs[n])) + by(Data(e))
      BY <1>1, <1>3, <1>5, CountAdded
    <3>2. Cardinality(WaitingIn(succs[n] \cup {m})) = Cardinality(WaitingIn(succs[n])) + by(Left(u))
      BY <1>1, <1>3, <1>5, CountAdded
    <3>3. /\ numSuccs'[n] = Cardinality(DataIn(succs'[n]))
          /\ numSuccsLeft'[n] = Cardinality(WaitingIn(succs'[n]))
      BY <1>4, <1>6, <3>1, <3>2 DEF DInv, CountInv
    <3> QED BY <2>3, <3>3, <1>4, <1>6 DEF DInv, CountInv, AddPred
  <2>4. CASE w # u /\ w # n
    BY <1>4, <1>6, <2>4 DEF DInv, CountInv
  <2> QED BY <2>2, <2>3, <2>4
<1>10. CountInv'
  <2>1. \A w \in Nodes : WaitingIn(succs[w])' = WaitingIn(succs'[w])
    BY <1>4 DEF WaitingIn
  <2>2. \A w \in Nodes : /\ DataIn(succs[w])' = DataIn(succs'[w])
                         /\ DataIn(preds[w])' = DataIn(preds'[w])
    BY DEF DataIn
  <2> QED BY <1>8, <1>9, <2>1, <2>2 DEF CountInv
<1> QED BY <1>7, <1>10 DEF DInv

LEMMA RemovePredStep ==
  ASSUME DInv, NEW u \in Nodes, NEW e \in preds[u], RemovePred(u, e)
  PROVE  DInv'
<1>1. PICK n \in Nodes, d \in Deps : e = SDep(n, d) /\ n = Node(e)
  BY SDepOf DEF DInv, EdgeInv
<1>2. PICK m \in SDeps : m = SDep(u, d)
  BY DEF SDeps
<1>3. /\ Mirrored(u, e) = m /\ Node(m) = u /\ Data(m) = Data(e) /\ m \in succs[n]
  BY <1>1, <1>2, SDepFields DEF DInv, EdgeInv, Data
<1>4. /\ n \notin scheduled /\ scheduled' = scheduled
      /\ preds' = [preds EXCEPT ![u] = @ \ {e}]
      /\ succs' = [succs EXCEPT ![n] = @ \ {m}]
      /\ numPreds' = [numPreds EXCEPT ![u] = @ - Data(e)]
      /\ numSuccs' = [numSuccs EXCEPT ![n] = @ - Data(e)]
      /\ numPredsLeft' = [numPredsLeft EXCEPT ![u] = @ - Left(n)]
      /\ numSuccsLeft' = [numSuccsLeft EXCEPT ![n] = @ - Left(u)]
  BY <1>1, <1>3 DEF RemovePred
<1>5. /\ preds \in [Nodes -> SUBSET SDeps] /\ succs \in [Nodes -> SUBSET SDeps]
      /\ IsFiniteSet(preds[u]) /\ IsFiniteSet(succs[n])
  BY DEF DInv, EdgeInv
<1>6. /\ preds'[u] = preds[u] \ {e} /\ \A w \in Nodes : w # u => preds'[w] = preds[w]
      /\ succs'[n] = succs[n] \ {m} /\ \A w \in Nodes : w # n => succs'[w] = succs[w]
  BY <1>4, <1>5
<1>7. EdgeInv'
  <2>1. preds' \in [Nodes -> SUBSET SDeps] /\ succs' \in [Nodes -> SUBSET SDeps]
    BY <1>4, <1>5
  <2>2. \A w \in Nodes : IsFiniteSet(preds'[w]) /\ IsFiniteSet(succs'[w])
    <3>1. IsFiniteSet(preds[u] \ {e}) /\ IsFiniteSet(succs[n] \ {m})
      BY <1>5, FS_RemoveElement
    <3> QED BY <1>6, <3>1 DEF DInv, EdgeInv
  <2>3. ASSUME NEW w \in Nodes, NEW v \in Nodes, NEW c \in Deps
        PROVE  SDep(v, c) \in preds'[w] <=> SDep(w, c) \in succs'[v]
    <3>1. SDep(v, c) \in preds[w] <=> SDep(w, c) \in succs[v]
      BY DEF DInv, EdgeInv
    <3>2. SDep(v, c) = e <=> v = n /\ c = d
      BY <1>1, SDepFields
    <3>3. SDep(w, c) = m <=> w = u /\ c = d
      BY <1>2, SDepFields
    <3> QED BY <1>6, <3>1, <3>2, <3>3
  <2> QED BY <2>1, <2>2, <2>3 DEF EdgeInv
<1>8. /\ DOMAIN numPreds' = Nodes /\ DOMAIN numSuccs' = Nodes
      /\ DOMAIN numPredsLeft' = Nodes /\ DOMAIN numSuccsLeft' = Nodes
  BY <1>4 DEF DInv, CountInv
<1>9. ASSUME NEW w \in Nodes
      PROVE  /\ numPreds'[w] = Cardinality(DataIn(preds'[w]))
             /\ numPredsLeft'[w] = Cardinality(preds'[w])
  <2>1. Left(n) = 1
    BY <1>4 DEF Left
  <2>2. CASE w = u
    <3>1. /\ Cardinality(preds[u] \ {e}) = Cardinality(preds[u]) - 1
          /\ Cardinality(DataIn(preds[u] \ {e})) = Cardinality(DataIn(preds[u])) - Data(e)
      BY <1>5, CountRemoved
    <3> QED BY <1>4, <1>6, <2>1, <2>2, <3>1 DEF DInv, CountInv
  <2>3. CASE w # u
    BY <1>4, <1>6, <2>3 DEF DInv, CountInv
  <2> QED BY <2>2, <2>3
<1>10. ASSUME NEW w \in Nodes
       PROVE  /\ numSuccs'[w] = Cardinality(DataIn(succs'[w]))
              /\ numSuccsLeft'[w] = Cardinality(WaitingIn(succs'[w]))
  <2>1. CASE w = n
    <3>1. /\ Cardinality(DataIn(succs[n] \ {m})) = Cardinality(DataIn(succs[n])) - Data(e)
          /\ Cardinality(WaitingIn(succs[n] \ {m})) = Cardinality(WaitingIn(succs[n])) - Left(u)
      BY <1>3, <1>5, CountRemoved
    <3> QED BY <1>4, <1>6, <2>1, <3>1 DEF DInv, CountInv
  <2>2. CASE w # n
    BY <1>4, <1>6, <2>2 DEF DInv, CountInv
  <2> QED BY <2>1, <2>2
<1>11. CountInv'
  <2>1. \A w \in Nodes : WaitingIn(succs[w])' = WaitingIn(succs'[w])
    BY <1>4 DEF WaitingIn
  <2>2. \A w \in Nodes : /\ DataIn(succs[w])' = DataIn(succs'[w])
                         /\ DataIn(preds[w])' = DataIn(preds'[w])
    BY DEF DataIn
  <2> QED BY <1>8, <1>9, <1>10, <2>1, <2>2 DEF CountInv
<1> QED BY <1>7, <1>11 DEF DInv

-----------------------------------------------------------------------------
(***************************************************************************)
(* Scheduling bottom-up.                                                   *)
(***************************************************************************)
\* When u is scheduled, or unscheduled, what a node still waits for changes by
\* its edges to u.
LEMMA WaitingWithout ==
  ASSUME EdgeInv, NEW u \in Nodes, NEW n \in Nodes, NEW sch, u \notin sch
  PROVE  LET before == {e \in succs[n] : Node(e) \notin sch}
             after  == {e \in succs[n] : Node(e) \notin sch \cup {u}}
         IN  /\ Cardinality(before) = Cardinality(after) + EdgesTo(u, n)
             /\ Cardinality(after) \in Nat /\ EdgesTo(u, n) \in Nat
<1> DEFINE before == {e \in succs[n] : Node(e) \notin sch}
           after  == {e \in succs[n] : Node(e) \notin sch \cup {u}}
           toU    == {e \in succs[n] : Node(e) = u}
<1>1. IsFiniteSet(after) /\ IsFiniteSet(toU)
  BY SubsetFinite DEF EdgeInv
<1>2. before = after \cup toU /\ after \cap toU = {}
  OBVIOUS
<1>3. EdgesTo(u, n) = Cardinality(toU)
  BY EdgesMatch
<1> HIDE DEF before, after, toU
<1>4. /\ Cardinality(after \cup toU) =
           Cardinality(after) + Cardinality(toU) - Cardinality(after \cap toU)
      /\ Cardinality(after \cap toU) = 0
      /\ Cardinality(after) \in Nat /\ Cardinality(toU) \in Nat
  BY <1>1, <1>2, FS_Union, FS_EmptySet, FS_CardinalityType
<1>5. Cardinality(before) = Cardinality(after) + EdgesTo(u, n)
  BY <1>2, <1>3, <1>4
<1> QED BY <1>3, <1>4, <1>5 DEF before, after

\* Neither changes the edges, nor the counters but numSuccsLeft.
LEMMA OnlyLeftChanges ==
  ASSUME DInv, UNCHANGED <<preds, succs, numPreds, numSuccs, numPredsLeft>>,
         DOMAIN numSuccsLeft' = Nodes,
         \A n \in Nodes : numSuccsLeft'[n] = Cardinality(WaitingIn(succs[n])')
  PROVE  DInv'
BY DEF DInv, EdgeInv, CountInv, DataIn

LEMMA ScheduleStep ==
  ASSUME DInv, NEW u \in Nodes, NEW cycle, ScheduleNodeBottomUp(u, cycle)
  PROVE  DInv'
<1>1. /\ u \notin scheduled /\ scheduled' = scheduled \cup {u}
      /\ numSuccsLeft' = [n \in Nodes |-> numSuccsLeft[n] - EdgesTo(u, n)]
      /\ UNCHANGED <<preds, succs, numPreds, numSuccs, numPredsLeft>>
  BY DEF ScheduleNodeBottomUp
<1>2. ASSUME NEW n \in Nodes
      PROVE  numSuccsLeft'[n] = Cardinality(WaitingIn(succs[n])')
  <2> DEFINE after == {e \in succs[n] : Node(e) \notin scheduled \cup {u}}
  <2>1. /\ Cardinality(WaitingIn(succs[n])) = Cardinality(after) + EdgesTo(u, n)
        /\ Cardinality(after) \in Nat /\ EdgesTo(u, n) \in Nat
    BY <1>1, WaitingWithout DEF DInv, WaitingIn
  <2>2. WaitingIn(succs[n])' = after
    BY <1>1 DEF WaitingIn
  <2>3. numSuccsLeft'[n] = Cardinality(WaitingIn(succs[n])) - EdgesTo(u, n)
    BY <1>1 DEF DInv, CountInv
  <2> HIDE DEF after
  <2> QED BY <2>1, <2>2, <2>3
<1> QED BY <1>1, <1>2, OnlyLeftChanges

LEMMA UnscheduleStep ==
  ASSUME DInv, NEW u \in Nodes, UnscheduleNodeBottomUp(u)
  PROVE  DInv'
<1>1. /\ u \in scheduled /\ scheduled' = scheduled \ {u}
      /\ numSuccsLeft' = [n \in Nodes |-> numSuccsLeft[n] + EdgesTo(u, n)]
      /\ UNCHANGED <<preds, succs, numPreds, numSuccs, numPredsLeft>>
  BY DEF UnscheduleNodeBottomUp
<1>2. ASSUME NEW n \in Nodes
      PROVE  numSuccsLeft'[n] = Cardinality(WaitingIn(succs[n])')
  <2> DEFINE sch    == scheduled \ {u}
             before == {e \in succs[n] : Node(e) \notin sch}
  <2>1. u \notin sch /\ sch \cup {u} = scheduled
    BY <1>1
  <2>2. Cardinality(before) =
          Cardinality({e \in succs[n] : Node(e) \notin sch \cup {u}}) + EdgesTo(u, n)
    BY <2>1, WaitingWithout DEF DInv
  <2>3. WaitingIn(succs[n])' = before
    BY <1>1 DEF WaitingIn
  <2>4. numSuccsLeft'[n] = Cardinality(WaitingIn(succs[n])) + EdgesTo(u, n)
    BY <1>1 DEF DInv, CountInv
  <2>5. WaitingIn(succs[n]) = {e \in succs[n] : Node(e) \notin sch \cup {u}}
    BY <2>1 DEF WaitingIn
  <2> HIDE DEF before, sch
  <2> QED BY <2>2, <2>3, <2>4, <2>5
<1> QED BY <1>1, <1>2, OnlyLeftChanges

-----------------------------------------------------------------------------
(***************************************************************************)
(* The theorems.                                                           *)
(***************************************************************************)
LEMMA InitDInv == Init => DInv
<1> SUFFICES ASSUME Init PROVE DInv
  OBVIOUS
<1>1. EdgeInv
  BY FS_EmptySet DEF Init, EdgeInv
<1>2. DataIn({}) = {} /\ WaitingIn({}) = {} /\ Cardinality({}) = 0
  BY FS_EmptySet DEF DataIn, WaitingIn
<1>3. CountInv
  BY <1>2 DEF Init, CountInv
<1> QED BY <1>1, <1>3 DEF DInv

\* The cached lengths do not matter.
LEMMA NoEdit ==
  ASSUME DInv, UNCHANGED <<preds, succs, countVars>>
  PROVE  DInv'
BY DEF DInv, EdgeInv, CountInv, DataIn, WaitingIn, countVars

LEMMA NextDInv == DInv /\ [Next]_vars => DInv'
<1> SUFFICES ASSUME DInv, [Next]_vars PROVE DInv'
  OBVIOUS
<1>1. CASE UNCHANGED vars
  BY <1>1, NoEdit DEF vars
<1>2. ASSUME NEW u \in Nodes, NEW n \in Nodes, NEW d \in Deps, AddPred(u, n, d)
      PROVE  DInv'
  BY <1>2, AddPredStep
<1>3. ASSUME NEW u \in Nodes, NEW e \in preds[u], RemovePred(u, e)
      PROVE  DInv'
  BY <1>3, RemovePredStep
<1>4. ASSUME NEW u \in Nodes, GetDepth(u) \/ GetHeight(u)
      PROVE  DInv'
  BY <1>4, NoEdit DEF GetDepth, GetHeight
<1>5. ASSUME NEW u \in Nodes, NEW x, SetDepthToAtLeast(u, x) \/ SetHeightToAtLeast(u, x)
      PROVE  DInv'
  BY <1>5, NoEdit DEF SetDepthToAtLeast, SetHeightToAtLeast
<1>6. ASSUME NEW u \in Nodes, NEW x, ScheduleNodeBottomUp(u, x)
      PROVE  DInv'
  BY <1>6, ScheduleStep
<1>7. ASSUME NEW u \in Nodes, UnscheduleNodeBottomUp(u)
      PROVE  DInv'
  BY <1>7, UnscheduleStep
<1> QED BY <1>1, <1>2, <1>3, <1>4, <1>5, <1>6, <1>7 DEF Next

\* In every reachable state the lists are finite and mirror each other, and the counters
\* say what they say.
THEOREM EdgeInvariance == Spec => []DInv
<1> QED BY InitDInv, NextDInv, PTL DEF Spec

\* addPred, removePred and the bottom-up schedulers, in any order, keep NumPreds,
\* NumSuccs, NumPredsLeft and NumSuccsLeft in step with the edges at both ends.
THEOREM CountersAreExact == Spec => []CountersExact
<1>1. DInv => CountersExact
  BY DEF DInv, EdgeInv, CountInv, CountersExact, DataIn, WaitingIn
<1> QED BY <1>1, EdgeInvariance, PTL

-----------------------------------------------------------------------------
(***************************************************************************)
(* The cached lengths: depth along preds, height along succs.  A node that *)
(* is current has only current neighbours and the longest length through   *)
(* them; nothing is imposed on one that is not.                            *)
(***************************************************************************)
UpToDate(in, value, floor, u) ==
  /\ \A e \in in[u] : value[Node(e)] # Dirty
  /\ IsLargest(value[u], Through(in, value, floor, u))

Cached(in, value, floor) ==
  /\ value \in [Nodes -> Nat \cup {Dirty}]
  /\ floor \in [Nodes -> Nat]
  /\ \A u \in Nodes :
       /\ value[u] = Dirty => floor[u] = 0
       /\ value[u] # Dirty => UpToDate(in, value, floor, u)

Edges(in) == \A u \in Nodes : in[u] \subseteq SDeps
Mirrors(in, out) == \A u \in Nodes : \A e \in in[u] : \E f \in out[Node(e)] : Node(f) = u

LengthInv ==
  /\ Acyclic(preds)
  /\ Cached(preds, depth, depthFloor)
  /\ Cached(succs, height, heightFloor)

-----------------------------------------------------------------------------
LEMMA EdgeParts ==
  ASSUME NEW e \in SDeps
  PROVE  Node(e) \in Nodes /\ Latency(e) \in Nat
<1>1. PICK n \in Nodes, d \in Deps : e = SDep(n, d)
  BY DEF SDeps
<1>2. d[2] \in Nat
  BY DAGAssumption
<1> QED BY <1>1, <1>2 DEF SDep, Node, Latency

LEMMA BothMirror ==
  ASSUME NEW in, NEW out,
         in \in [Nodes -> SUBSET SDeps], out \in [Nodes -> SUBSET SDeps],
         \A u, n \in Nodes : \A d \in Deps : SDep(n, d) \in in[u] <=> SDep(u, d) \in out[n]
  PROVE  Edges(in) /\ Edges(out) /\ Mirrors(in, out) /\ Mirrors(out, in)
<1>1. Edges(in) /\ Edges(out)
  BY DEF Edges
<1>2. Mirrors(in, out)
  <2> SUFFICES ASSUME NEW u \in Nodes, NEW e \in in[u]
               PROVE  \E f \in out[Node(e)] : Node(f) = u
    BY DEF Mirrors
  <2>1. PICK n \in Nodes, d \in Deps : e = SDep(n, d) /\ n = Node(e)
    BY <1>1, SDepOf DEF Edges
  <2>2. SDep(u, d) \in out[n] /\ Node(SDep(u, d)) = u
    BY <2>1, SDepFields
  <2> QED BY <2>1, <2>2
<1>3. Mirrors(out, in)
  <2> SUFFICES ASSUME NEW u \in Nodes, NEW e \in out[u]
               PROVE  \E f \in in[Node(e)] : Node(f) = u
    BY DEF Mirrors
  <2>1. PICK n \in Nodes, d \in Deps : e = SDep(n, d) /\ n = Node(e)
    BY <1>1, SDepOf DEF Edges
  <2>2. SDep(u, d) \in in[n] /\ Node(SDep(u, d)) = u
    BY <2>1, SDepFields
  <2> QED BY <2>1, <2>2
<1> QED BY <1>1, <1>2, <1>3

\* A graph without cycles has none in the other direction.
LEMMA ReverseAcyclic ==
  ASSUME NEW in, NEW out, Acyclic(in), Edges(in), Edges(out), Mirrors(out, in)
  PROVE  Acyclic(out)
<1>1. PICK N \in Nat : N = Cardinality(Nodes)
  BY NodesAssumption, FS_CardinalityType
<1>2. PICK rank \in [Nodes -> 0..(N - 1)] :
        \A u \in Nodes : \A e \in in[u] : rank[Node(e)] < rank[u]
  BY <1>1 DEF Acyclic
<1>3. PICK back : back = [u \in Nodes |-> N - 1 - rank[u]]
  OBVIOUS
<1>4. back \in [Nodes -> 0..(N - 1)]
  BY <1>2, <1>3
<1>5. ASSUME NEW u \in Nodes, NEW e \in out[u] PROVE back[Node(e)] < back[u]
  <2>1. Node(e) \in Nodes
    BY EdgeParts DEF Edges
  <2>2. PICK f \in in[Node(e)] : Node(f) = u
    BY DEF Mirrors
  <2>3. rank[u] < rank[Node(e)]
    BY <1>2, <2>1, <2>2
  <2> QED BY <1>2, <1>3, <2>1, <2>3
<1> QED BY <1>1, <1>4, <1>5 DEF Acyclic

LEMMA FewerEdgesAcyclic ==
  ASSUME NEW in, NEW part, Acyclic(in), \A u \in Nodes : part[u] \subseteq in[u]
  PROVE  Acyclic(part)
BY DEF Acyclic

-----------------------------------------------------------------------------
(***************************************************************************)
(* Walks over neighbours.                                                  *)
(***************************************************************************)
LEMMA ReachedIsClosed ==
  ASSUME NEW u \in Nodes, NEW out, Edges(out), NEW M, NEW R, R = Reached(u, out, M)
  PROVE  /\ u \in R /\ R \subseteq Nodes /\ Spreads(R, out, M)
         /\ \A S \in SUBSET Nodes : u \in S /\ Spreads(S, out, M) => R \subseteq S
<1>1. u \in R /\ R \subseteq Nodes
  BY DEF Reached
<1>2. \A S \in SUBSET Nodes : u \in S /\ Spreads(S, out, M) => R \subseteq S
  BY DEF Reached
<1>3. ASSUME NEW m \in R, NEW e \in out[m], Node(e) \in M PROVE Node(e) \in R
  <2>1. Node(e) \in Nodes
    BY <1>1, EdgeParts DEF Edges
  <2>2. ASSUME NEW S \in SUBSET Nodes, u \in S, Spreads(S, out, M) PROVE Node(e) \in S
    BY <1>2, <1>3, <2>2 DEF Spreads
  <2> QED BY <2>1, <2>2 DEF Reached
<1> QED BY <1>1, <1>2, <1>3 DEF Spreads

\* What setDepthDirty marks: the node, and with a marked node all current nodes it
\* leads to.
LEMMA DirtiedIsClosed ==
  ASSUME NEW in, NEW out, Edges(in), Edges(out), Mirrors(in, out), NEW value, NEW u \in Nodes,
         NEW S, S = Dirtied(u, out, value)
  PROVE  /\ S \subseteq Nodes /\ (value[u] # Dirty => u \in S)
         /\ \A m \in Nodes : \A e \in in[m] :
              value[m] # Dirty /\ m \notin S => Node(e) \notin S
<1>1. CASE value[u] = Dirty
  BY <1>1 DEF Dirtied
<1>2. CASE value[u] # Dirty
  <2>1. S = Reached(u, out, Current(value))
    BY <1>2 DEF Dirtied
  <2>2. u \in S /\ S \subseteq Nodes /\ Spreads(S, out, Current(value))
    BY <2>1, ReachedIsClosed
  <2>3. ASSUME NEW m \in Nodes, NEW e \in in[m], value[m] # Dirty, Node(e) \in S
        PROVE  m \in S
    <3>1. PICK f \in out[Node(e)] : Node(f) = m
      BY DEF Mirrors
    <3> QED BY <2>2, <2>3, <3>1 DEF Spreads, Current
  <2> QED BY <2>2, <2>3
<1> QED BY <1>1, <1>2

\* Below a node there is no node it depends on.
LEMMA DirtiedIsBelow ==
  ASSUME NEW in, NEW out, Edges(in), Edges(out), Mirrors(out, in), Acyclic(in), NEW value,
         NEW u \in Nodes, NEW e \in in[u]
  PROVE  Node(e) \notin Dirtied(u, out, value)
<1>1. PICK N \in Nat : N = Cardinality(Nodes)
  BY NodesAssumption, FS_CardinalityType
<1>2. PICK rank \in [Nodes -> 0..(N - 1)] :
        \A m \in Nodes : \A f \in in[m] : rank[Node(f)] < rank[m]
  BY <1>1 DEF Acyclic
<1>3. PICK S : S = {m \in Nodes : m = u \/ rank[u] < rank[m]}
  OBVIOUS
<1>4. \A M : Spreads(S, out, M)
  <2> SUFFICES ASSUME NEW m \in S, NEW f \in out[m] PROVE Node(f) \in S
    BY DEF Spreads
  <2>1. m \in Nodes /\ Node(f) \in Nodes
    BY <1>3, EdgeParts DEF Edges
  <2>2. PICK g \in in[Node(f)] : Node(g) = m
    BY <2>1 DEF Mirrors
  <2>3. rank[m] < rank[Node(f)] /\ rank[m] \in Int /\ rank[u] \in Int /\ rank[Node(f)] \in Int
    BY <1>2, <2>1, <2>2
  <2> QED BY <1>3, <2>1, <2>3
<1>5. Dirtied(u, out, value) \subseteq S
  BY <1>3, <1>4, ReachedIsClosed DEF Dirtied
<1>6. Node(e) \in Nodes
  BY EdgeParts DEF Edges
<1>7. rank[Node(e)] < rank[u] /\ rank[Node(e)] \in Int /\ rank[u] \in Int
  BY <1>2, <1>6
<1> QED BY <1>3, <1>5, <1>7

\* What is left out of the marking keeps what it had.
LEMMA OthersUpToDate ==
  ASSUME NEW in, NEW new, Edges(new), NEW value, NEW floor, Cached(in, value, floor),
         NEW u \in Nodes, \A m \in Nodes : m # u => new[m] = in[m],
         NEW S, \A m \in Nodes : \A e \in new[m] :
                  value[m] # Dirty /\ m \notin S => Node(e) \notin S,
         NEW v, NEW f, \A m \in Nodes : m \notin S => v[m] = value[m] /\ f[m] = floor[m],
         NEW m \in Nodes, m # u, m \notin S, value[m] # Dirty
  PROVE  v[m] # Dirty /\ UpToDate(new, v, f, m)
<1>1. UpToDate(in, value, floor, m) /\ new[m] = in[m]
  BY DEF Cached
<1>2. \A e \in new[m] : Node(e) \in Nodes /\ Node(e) \notin S
  BY EdgeParts DEF Edges
<1>3. \A e \in new[m] : v[Node(e)] = value[Node(e)]
  BY <1>2
<1>4. Through(new, v, f, m) = Through(in, value, floor, m)
  BY <1>1, <1>3 DEF Through
<1> QED BY <1>1, <1>3, <1>4 DEF UpToDate

\* setDepthDirty(u) after an edit of the edges that u depends on.
LEMMA DirtyKeepsCached ==
  ASSUME NEW in, NEW new, NEW out, Edges(new), Edges(out), Mirrors(new, out),
         NEW value, NEW floor, Cached(in, value, floor),
         NEW u \in Nodes, \A m \in Nodes : m # u => new[m] = in[m],
         NEW v, v = Reset(value, Dirtied(u, out, value), Dirty),
         NEW f, f = Reset(floor, Dirtied(u, out, value), 0)
  PROVE  Cached(new, v, f)
<1>1. PICK S : S = Dirtied(u, out, value)
  OBVIOUS
<1>2. /\ S \subseteq Nodes /\ (value[u] # Dirty => u \in S)
      /\ \A m \in Nodes : \A e \in new[m] :
           value[m] # Dirty /\ m \notin S => Node(e) \notin S
  BY <1>1, DirtiedIsClosed
<1>3. /\ v = [m \in Nodes |-> IF m \in S THEN Dirty ELSE value[m]]
      /\ f = [m \in Nodes |-> IF m \in S THEN 0 ELSE floor[m]]
  BY <1>1 DEF Reset
<1>4. v \in [Nodes -> Nat \cup {Dirty}] /\ f \in [Nodes -> Nat]
  BY <1>3 DEF Cached
<1>5. ASSUME NEW m \in Nodes, v[m] = Dirty PROVE f[m] = 0
  BY <1>3, <1>5 DEF Cached
<1>6. ASSUME NEW m \in Nodes, v[m] # Dirty PROVE UpToDate(new, v, f, m)
  <2>1. m \notin S /\ value[m] # Dirty /\ m # u
    BY <1>2, <1>3, <1>6
  <2>2. \A k \in Nodes : k \notin S => v[k] = value[k] /\ f[k] = floor[k]
    BY <1>3
  <2> QED BY <1>2, <2>1, <2>2, OthersUpToDate
<1> QED BY <1>4, <1>5, <1>6 DEF Cached

\* getDepth: what it computes is up to date, and what was stays.
LEMMA ComputedKeepsCached ==
  ASSUME NEW in, Edges(in), NEW value, NEW floor, Cached(in, value, floor),
         NEW u \in Nodes, NEW v \in Computed(u, in, value)
  PROVE  Cached(in, v, floor) /\ v[u] # Dirty
<1>1. PICK S : S = IF value[u] = Dirty THEN Reached(u, in, Nodes \ Current(value)) ELSE {}
  OBVIOUS
<1>2. PICK part \in [S -> Lengths] :
        /\ v = [m \in Nodes |-> IF m \in S THEN part[m] ELSE value[m]]
        /\ \A m \in S : IsLargest(v[m], PathsThrough(m, in, v))
  BY <1>1 DEF Computed
<1>3. S \subseteq Nodes /\ (value[u] = Dirty => u \in S) /\ Spreads(S, in, Nodes \ Current(value))
  BY <1>1, ReachedIsClosed DEF Spreads
<1>4. S \cap Current(value) = {}
  <2>1. CASE value[u] = Dirty
    <3>1. PICK D : D = Nodes \ Current(value)
      OBVIOUS
    <3>2. u \in D /\ D \in SUBSET Nodes /\ Spreads(D, in, D)
      BY <2>1, <3>1 DEF Current, Spreads
    <3>3. S \subseteq D
      BY <1>1, <2>1, <3>1, <3>2, ReachedIsClosed
    <3> QED BY <3>1, <3>3
  <2>2. CASE value[u] # Dirty
    BY <1>1, <2>2
  <2> QED BY <2>1, <2>2
<1>5. ASSUME NEW m \in S PROVE v[m] \in Nat /\ v[m] # Dirty
  <2>1. m \in Nodes /\ part[m] \in Nat
    BY <1>2, <1>3, DAGAssumption
  <2>2. v[m] = part[m]
    BY <1>2, <2>1
  <2> QED BY <2>1, <2>2 DEF Dirty
<1>6. \A m \in Nodes : m \notin S => v[m] = value[m]
  BY <1>2
<1>7. v \in [Nodes -> Nat \cup {Dirty}]
  BY <1>2, <1>5, <1>6 DEF Cached
<1>8. \A m \in Nodes : value[m] # Dirty => m \notin S /\ v[m] = value[m]
  BY <1>4, <1>6 DEF Current
<1>9. v[u] # Dirty
  BY <1>3, <1>5, <1>8
<1>10. ASSUME NEW m \in Nodes, v[m] = Dirty PROVE floor[m] = 0
  BY <1>5, <1>6, <1>10 DEF Cached
<1>11. ASSUME NEW m \in Nodes, v[m] # Dirty PROVE UpToDate(in, v, floor, m)
  <2>1. CASE m \in S
    <3>1. floor[m] = 0
      BY <1>8, <2>1 DEF Cached
    <3>2. \A e \in in[m] : Node(e) \in Nodes
      BY EdgeParts DEF Edges
    <3>3. \A e \in in[m] : v[Node(e)] # Dirty
      BY <1>3, <1>5, <1>8, <2>1, <3>2 DEF Spreads, Current
    <3>4. PathsThrough(m, in, v) = Through(in, v, floor, m)
      BY <3>1 DEF PathsThrough, Through
    <3> QED BY <1>2, <2>1, <3>3, <3>4 DEF UpToDate
  <2>2. CASE m \notin S
    <3>1. value[m] # Dirty /\ UpToDate(in, value, floor, m)
      BY <1>6, <1>11, <2>2 DEF Cached
    <3>2. \A e \in in[m] : Node(e) \in Nodes /\ value[Node(e)] # Dirty
      BY <3>1, EdgeParts DEF Edges, UpToDate
    <3>3. \A e \in in[m] : v[Node(e)] = value[Node(e)]
      BY <1>8, <3>2
    <3>4. Through(in, v, floor, m) = Through(in, value, floor, m)
      BY <3>3 DEF Through
    <3> QED BY <1>6, <2>2, <3>1, <3>2, <3>3, <3>4 DEF UpToDate
  <2> QED BY <2>1, <2>2
<1>12. floor \in [Nodes -> Nat]
  BY DEF Cached
<1> QED BY <1>7, <1>9, <1>10, <1>11, <1>12 DEF Cached

\* setDepthToAtLeast once the depth is computed.
LEMMA RaisedKeepsCached ==
  ASSUME NEW in, NEW out, Edges(in), Edges(out), Mirrors(in, out), Mirrors(out, in), Acyclic(in),
         NEW value, NEW floor, Cached(in, value, floor), NEW u \in Nodes, value[u] # Dirty,
         NEW x \in Nat,
         NEW v, v = Raised(u, x, out, value), NEW f, f = RaisedFloor(u, x, out, value, floor)
  PROVE  Cached(in, v, f)
<1>1. CASE x <= value[u]
  BY <1>1 DEF Raised, RaisedFloor
<1>2. CASE ~(x <= value[u])
  <2>1. PICK S : S = Dirtied(u, out, value)
    OBVIOUS
  <2>2. /\ S \subseteq Nodes /\ u \in S
        /\ \A m \in Nodes : \A e \in in[m] :
             value[m] # Dirty /\ m \notin S => Node(e) \notin S
    BY <2>1, DirtiedIsClosed
  <2>3. /\ v = [Reset(value, S, Dirty) EXCEPT ![u] = x]
        /\ f = [Reset(floor, S, 0) EXCEPT ![u] = x]
    BY <1>2, <2>1 DEF Raised, RaisedFloor
  <2>4. /\ DOMAIN v = Nodes /\ DOMAIN f = Nodes
        /\ \A m \in Nodes : /\ v[m] = IF m = u THEN x ELSE IF m \in S THEN Dirty ELSE value[m]
                            /\ f[m] = IF m = u THEN x ELSE IF m \in S THEN 0 ELSE floor[m]
    BY <2>3 DEF Reset
  <2>5. v \in [Nodes -> Nat \cup {Dirty}] /\ f \in [Nodes -> Nat]
    <3>1. v = [m \in Nodes |-> v[m]] /\ f = [m \in Nodes |-> f[m]]
      BY <2>3 DEF Reset
    <3>2. \A m \in Nodes : v[m] \in Nat \cup {Dirty} /\ f[m] \in Nat
      BY <2>4 DEF Cached
    <3> QED BY <3>1, <3>2
  <2>6. \A m \in Nodes : v[m] = Dirty => f[m] = 0
    BY <2>4 DEF Cached, Dirty
  <2>7. ASSUME NEW m \in Nodes, v[m] # Dirty, m # u PROVE UpToDate(in, v, f, m)
    <3>1. m \notin S /\ value[m] # Dirty
      BY <2>4, <2>7
    <3>2. \A k \in Nodes : k \notin S => v[k] = value[k] /\ f[k] = floor[k]
      BY <2>2, <2>4
    <3> QED BY <2>2, <2>7, <3>1, <3>2, OthersUpToDate
  <2>8. UpToDate(in, v, f, u)
    <3>1. UpToDate(in, value, floor, u) /\ value[u] \in Nat
      BY DEF Cached
    <3>2. \A e \in in[u] : Node(e) \in Nodes /\ Node(e) \notin S /\ Latency(e) \in Nat
      BY <2>1, DirtiedIsBelow, EdgeParts DEF Edges
    <3>3. \A e \in in[u] : v[Node(e)] = value[Node(e)] /\ v[Node(e)] # Dirty
      BY <2>2, <2>4, <3>1, <3>2 DEF UpToDate
    <3>4. \A e \in in[u] : /\ value[Node(e)] + Latency(e) \in Int
                           /\ value[Node(e)] + Latency(e) <= value[u]
      BY <3>1, <3>2, <3>3 DEF UpToDate, IsLargest, Through, Cached
    <3>5. v[u] = x /\ f[u] = x
      BY <2>4
    <3>6. IsLargest(x, Through(in, v, f, u))
      BY <1>2, <3>1, <3>3, <3>4, <3>5 DEF IsLargest, Through
    <3> QED BY <3>3, <3>5, <3>6 DEF UpToDate
  <2> QED BY <2>5, <2>6, <2>7, <2>8 DEF Cached
<1> QED BY <1>1, <1>2
-----------------------------------------------------------------------------
\* A cached length is the longest path: it needs no more edges than there are nodes
\* before it in an order along the edges.
LEMMA CachedIsLongest ==
  ASSUME NEW in, Edges(in), Acyclic(in), NEW value, NEW floor, Cached(in, value, floor),
         NEW u \in Nodes, value[u] # Dirty
  PROVE  value[u] = Longest(in, floor)[u]
<1>1. PICK N \in Nat : N = Cardinality(Nodes)
  BY NodesAssumption, FS_CardinalityType
<1>2. PICK rank \in [Nodes -> 0..(N - 1)] :
        \A m \in Nodes : \A e \in in[m] : rank[Node(e)] < rank[m]
  BY <1>1 DEF Acyclic
<1>3. PICK g : PathsOf(g, N, in, floor) /\ Longest(in, floor) = g[N]
  BY <1>1, LongestFollows
<1>4. PICK T : T = {i \in Nat : i <= N =>
                      \A m \in Nodes : value[m] # Dirty /\ rank[m] < i => g[i][m] = value[m]}
  OBVIOUS
<1>5. 0 \in T
  BY <1>2, <1>4
<1>6. ASSUME NEW i \in Nat, i \in T PROVE i + 1 \in T
  <2> SUFFICES ASSUME i + 1 <= N, NEW m \in Nodes, value[m] # Dirty, rank[m] < i + 1
               PROVE  g[i + 1][m] = value[m]
    BY <1>4
  <2>1. UpToDate(in, value, floor, m) /\ value[m] \in Nat /\ floor[m] \in Nat
    BY DEF Cached
  <2>2. ASSUME NEW e \in in[m]
        PROVE  /\ value[Node(e)] \in Nat /\ Latency(e) \in Nat
               /\ g[i][Node(e)] = value[Node(e)]
    <3>1. Node(e) \in Nodes /\ Latency(e) \in Nat /\ value[Node(e)] # Dirty
      BY <2>1, EdgeParts DEF Edges, UpToDate
    <3>2. rank[Node(e)] < i
      BY <1>2, <3>1
    <3> QED BY <1>4, <1>6, <3>1, <3>2 DEF Cached
  <2>3. PICK k \in 1..N : k = i + 1 /\ k - 1 = i
    OBVIOUS
  <2>4. Extends(g, k, in, floor)
    BY <1>3 DEF PathsOf
  <2>5. g[k][m] = Best({floor[m]} \cup {g[i][Node(e)] + Latency(e) : e \in in[m]})
    BY <2>3, <2>4 DEF Extends
  <2>6. {floor[m]} \cup {g[i][Node(e)] + Latency(e) : e \in in[m]} = Through(in, value, floor, m)
    BY <2>2 DEF Through
  <2>7. \A y \in Through(in, value, floor, m) : y \in Int
    BY <2>1, <2>2 DEF Through
  <2>8. Best(Through(in, value, floor, m)) = value[m]
    BY <2>1, <2>7, BestIs DEF UpToDate
  <2> QED BY <2>3, <2>5, <2>6, <2>8
<1>7. N \in T
  BY <1>5, <1>6, InductionInSet
<1>8. rank[u] < N
  BY <1>2
<1> QED BY <1>3, <1>4, <1>7, <1>8

-----------------------------------------------------------------------------
(***************************************************************************)
(* The steps.                                                              *)
(***************************************************************************)
\* Every edge has a latency, so every edit marks what depends on it.
NonZeroLatencies == \A d \in Deps : d[2] # 0

LEMMA EditKeepsLengths ==
  ASSUME EdgeInv, EdgeInv', LengthInv, Acyclic(preds'), NEW u \in Nodes, NEW n \in Nodes,
         \A m \in Nodes : m # u => preds'[m] = preds[m],
         \A m \in Nodes : m # n => succs'[m] = succs[m],
         SetDepthDirty(u, succs'), SetHeightDirty(n, preds')
  PROVE  LengthInv'
<1>1. /\ Edges(preds') /\ Edges(succs')
      /\ Mirrors(preds', succs') /\ Mirrors(succs', preds')
  BY BothMirror DEF EdgeInv
<1>2. Cached(preds', depth', depthFloor')
  BY <1>1, DirtyKeepsCached DEF LengthInv, SetDepthDirty
<1>3. Cached(succs', height', heightFloor')
  BY <1>1, DirtyKeepsCached DEF LengthInv, SetHeightDirty
<1> QED BY <1>2, <1>3 DEF LengthInv, Acyclic, Cached, UpToDate, Through

\* The edges stay, and each kind of length is kept or changes as allowed.
LEMMA LengthsChange ==
  ASSUME EdgeInv, LengthInv, UNCHANGED <<preds, succs>>,
         Cached(preds, depth', depthFloor'), Cached(succs, height', heightFloor')
  PROVE  LengthInv'
BY DEF LengthInv, Acyclic, Cached, UpToDate, Through

LEMMA AddPredKeepsLengths ==
  ASSUME NonZeroLatencies, DInv, LengthInv, NEW u \in Nodes, NEW n \in Nodes, NEW d \in Deps,
         AddPred(u, n, d)
  PROVE  LengthInv'
<1>1. EdgeInv /\ EdgeInv'
  BY AddPredStep DEF DInv
<1>2. ChangesPaths(SDep(n, d))
  BY DEF NonZeroLatencies, ChangesPaths, SDep, Latency
<1>3. PICK e \in SDeps, f \in SDeps : e = SDep(n, d) /\ f = SDep(u, d) /\ Mirrored(u, e) = f
  BY SDepFields DEF SDeps
<1>4. /\ preds' = [preds EXCEPT ![u] = @ \cup {e}]
      /\ succs' = [succs EXCEPT ![n] = @ \cup {f}]
      /\ Acyclic(preds')
  BY <1>3 DEF AddPred
<1>5. preds \in [Nodes -> SUBSET SDeps] /\ succs \in [Nodes -> SUBSET SDeps]
  BY <1>1 DEF EdgeInv
<1>6. CASE e \notin preds[u]
  <2>1. SetDepthDirty(u, succs') /\ SetHeightDirty(n, preds')
    BY <1>2, <1>3, <1>6 DEF AddPred
  <2> QED BY <1>1, <1>4, <1>5, <2>1, EditKeepsLengths
<1>7. CASE e \in preds[u]
  <2>1. f \in succs[n]
    BY <1>1, <1>3, <1>7 DEF EdgeInv
  <2>2. preds' = preds /\ succs' = succs
    BY <1>4, <1>5, <1>7, <2>1
  <2>3. UNCHANGED <<depthVars, heightVars>>
    BY <1>2, <1>3, <1>7 DEF AddPred
  <2> QED BY <1>1, <2>2, <2>3, LengthsChange DEF LengthInv, depthVars, heightVars
<1> QED BY <1>6, <1>7

LEMMA RemovePredKeepsLengths ==
  ASSUME NonZeroLatencies, DInv, LengthInv, NEW u \in Nodes, NEW e \in preds[u],
         RemovePred(u, e)
  PROVE  LengthInv'
<1>1. EdgeInv /\ EdgeInv'
  BY RemovePredStep DEF DInv
<1>2. PICK n \in Nodes, d \in Deps : e = SDep(n, d) /\ n = Node(e)
  BY <1>1, SDepOf DEF EdgeInv
<1>3. ChangesPaths(e)
  BY <1>2 DEF NonZeroLatencies, ChangesPaths, SDep, Latency
<1>4. /\ preds' = [preds EXCEPT ![u] = @ \ {e}]
      /\ succs' = [succs EXCEPT ![n] = @ \ {Mirrored(u, e)}]
      /\ SetDepthDirty(u, succs') /\ SetHeightDirty(n, preds')
  BY <1>2, <1>3 DEF RemovePred
<1>5. /\ \A m \in Nodes : m # u => preds'[m] = preds[m]
      /\ \A m \in Nodes : m # n => succs'[m] = succs[m]
      /\ \A m \in Nodes : preds'[m] \subseteq preds[m]
  BY <1>1, <1>4 DEF EdgeInv
<1>6. Acyclic(preds')
  BY <1>5, FewerEdgesAcyclic DEF LengthInv
<1> QED BY <1>1, <1>4, <1>5, <1>6, EditKeepsLengths

LEMMA QueriesKeepLengths ==
  ASSUME DInv, LengthInv, NEW u \in Nodes, GetDepth(u) \/ GetHeight(u)
  PROVE  LengthInv'
<1>1. EdgeInv /\ Edges(preds) /\ Edges(succs)
  BY BothMirror DEF DInv, EdgeInv
<1>2. CASE GetDepth(u)
  <2>1. /\ depth' \in Computed(u, preds, depth)
        /\ UNCHANGED <<preds, succs, depthFloor, height, heightFloor>>
    BY <1>2 DEF GetDepth, heightVars
  <2>2. Cached(preds, depth', depthFloor)
    BY <1>1, <2>1, ComputedKeepsCached DEF LengthInv
  <2> QED BY <1>1, <2>1, <2>2, LengthsChange DEF LengthInv
<1>3. CASE GetHeight(u)
  <2>1. /\ height' \in Computed(u, succs, height)
        /\ UNCHANGED <<preds, succs, heightFloor, depth, depthFloor>>
    BY <1>3 DEF GetHeight, depthVars
  <2>2. Cached(succs, height', heightFloor)
    BY <1>1, <2>1, ComputedKeepsCached DEF LengthInv
  <2> QED BY <1>1, <2>1, <2>2, LengthsChange DEF LengthInv
<1> QED BY <1>2, <1>3

LEMMA SuccsAcyclic ==
  ASSUME EdgeInv, LengthInv
  PROVE  Acyclic(succs)
BY BothMirror, ReverseAcyclic DEF LengthInv, EdgeInv

LEMMA DepthRaised ==
  ASSUME DInv, LengthInv, NEW u \in Nodes, NEW x \in Nat, SetDepthToAtLeast(u, x)
  PROVE  LengthInv'
<1>1. /\ EdgeInv /\ Edges(preds) /\ Edges(succs)
      /\ Mirrors(preds, succs) /\ Mirrors(succs, preds)
  BY BothMirror DEF DInv, EdgeInv
<1>2. PICK new \in Computed(u, preds, depth) :
        /\ depth' = Raised(u, x, succs, new)
        /\ depthFloor' = RaisedFloor(u, x, succs, new, depthFloor)
  BY DEF SetDepthToAtLeast
<1>3. Cached(preds, new, depthFloor) /\ new[u] # Dirty
  BY <1>1, ComputedKeepsCached DEF LengthInv
<1>4. Cached(preds, depth', depthFloor')
  BY <1>1, <1>2, <1>3, RaisedKeepsCached DEF LengthInv
<1> QED BY <1>1, <1>4, LengthsChange DEF LengthInv, SetDepthToAtLeast, heightVars

LEMMA HeightRaised ==
  ASSUME DInv, LengthInv, NEW u \in Nodes, NEW x \in Nat, NEW new \in Computed(u, succs, height),
         RaiseHeight(u, x, new), UNCHANGED <<preds, succs, depthVars>>
  PROVE  LengthInv'
<1>1. /\ EdgeInv /\ Edges(preds) /\ Edges(succs) /\ Acyclic(succs)
      /\ Mirrors(preds, succs) /\ Mirrors(succs, preds)
  BY BothMirror, SuccsAcyclic DEF DInv, EdgeInv
<1>2. Cached(succs, new, heightFloor) /\ new[u] # Dirty
  BY <1>1, ComputedKeepsCached DEF LengthInv
<1>3. Cached(succs, height', heightFloor')
  BY <1>1, <1>2, RaisedKeepsCached DEF LengthInv, RaiseHeight
<1> QED BY <1>1, <1>3, LengthsChange DEF LengthInv, depthVars

LEMMA UnscheduleKeepsLengths ==
  ASSUME DInv, LengthInv, NEW u \in Nodes, UnscheduleNodeBottomUp(u)
  PROVE  LengthInv'
<1>1. EdgeInv /\ Edges(preds) /\ Edges(succs) /\ Mirrors(succs, preds)
  BY BothMirror DEF DInv, EdgeInv
<1>2. SetHeightDirty(u, preds) /\ UNCHANGED <<preds, succs, depth, depthFloor>>
  BY DEF UnscheduleNodeBottomUp, depthVars
<1>3. Cached(succs, height', heightFloor')
  BY <1>1, <1>2, DirtyKeepsCached DEF LengthInv, SetHeightDirty
<1> QED BY <1>1, <1>2, <1>3, LengthsChange DEF LengthInv

LEMMA NextKeepsLengths ==
  ASSUME NonZeroLatencies, DInv, LengthInv, [Next]_vars
  PROVE  LengthInv'
<1>1. CASE UNCHANGED vars
  BY <1>1, LengthsChange DEF vars, depthVars, heightVars, LengthInv, DInv
<1>2. ASSUME NEW u \in Nodes, NEW n \in Nodes, NEW d \in Deps, AddPred(u, n, d)
      PROVE  LengthInv'
  BY <1>2, AddPredKeepsLengths
<1>3. ASSUME NEW u \in Nodes, NEW e \in preds[u], RemovePred(u, e)
      PROVE  LengthInv'
  BY <1>3, RemovePredKeepsLengths
<1>4. ASSUME NEW u \in Nodes, GetDepth(u) \/ GetHeight(u)
      PROVE  LengthInv'
  BY <1>4, QueriesKeepLengths
<1>5. ASSUME NEW u \in Nodes, NEW x \in Raises, SetDepthToAtLeast(u, x)
      PROVE  LengthInv'
  BY <1>5, DepthRaised, DAGAssumption
<1>6. ASSUME NEW u \in Nodes, NEW x \in Raises, SetHeightToAtLeast(u, x)
      PROVE  LengthInv'
  <2>1. PICK new \in Computed(u, succs, height) : RaiseHeight(u, x, new)
    BY <1>6 DEF SetHeightToAtLeast
  <2> QED BY <1>6, <2>1, HeightRaised, DAGAssumption DEF SetHeightToAtLeast
<1>7. ASSUME NEW u \in Nodes, NEW x \in Raises, ScheduleNodeBottomUp(u, x)
      PROVE  LengthInv'
  <2>1. PICK new \in Computed(u, succs, height) : RaiseHeight(u, x, new)
    BY <1>7 DEF ScheduleNodeBottomUp
  <2> QED BY <1>7, <2>1, HeightRaised, DAGAssumption DEF ScheduleNodeBottomUp
<1>8. ASSUME NEW u \in Nodes, UnscheduleNodeBottomUp(u)
      PROVE  LengthInv'
  BY <1>8, UnscheduleKeepsLengths
<1> QED BY <1>1, <1>2, <1>3, <1>4, <1>5, <1>6, <1>7, <1>8 DEF Next

LEMMA InitLengths == Init => LengthInv
<1> SUFFICES ASSUME Init PROVE LengthInv
  OBVIOUS
<1>1. PICK N \in Nat : N = Cardinality(Nodes) /\ (Nodes # {} => N > 0)
  BY NodesAssumption, FS_CardinalityType, FS_EmptySet
<1>2. Acyclic(preds)
  <2>1. PICK rank : rank = [u \in Nodes |-> 0]
    OBVIOUS
  <2>2. rank \in [Nodes -> 0..(N - 1)]
    BY <1>1, <2>1
  <2>3. \A u \in Nodes : preds[u] = {}
    BY DEF Init
  <2> QED BY <1>1, <2>2, <2>3 DEF Acyclic
<1>3. Cached(preds, depth, depthFloor) /\ Cached(succs, height, heightFloor)
  BY DEF Init, Cached
<1> QED BY <1>2, <1>3 DEF LengthInv

\* However edges are added and removed, lengths asked for and raised and nodes
\* scheduled and unscheduled, a depth or height that is current is the longest
\* path. The condition is needed: addPred marks nothing for an edge without latency,
\* although the depth of its source then counts.
THEOREM LengthsAreExact ==
  ASSUME NonZeroLatencies
  PROVE  Spec => []LengthsExact
<1>1. Init => DInv /\ LengthInv
  BY InitDInv, InitLengths
<1>2. DInv /\ LengthInv /\ [Next]_vars => (DInv /\ LengthInv)'
  BY NextDInv, NextKeepsLengths
<1>3. DInv /\ LengthInv => LengthsExact
  <2> SUFFICES ASSUME DInv, LengthInv, NEW u \in Nodes
               PROVE  /\ depth[u] # Dirty => depth[u] = Longest(preds, depthFloor)[u]
                      /\ height[u] # Dirty => height[u] = Longest(succs, heightFloor)[u]
    BY DEF LengthsExact
  <2>1. Edges(preds) /\ Edges(succs) /\ Acyclic(succs)
    BY BothMirror, SuccsAcyclic DEF DInv, EdgeInv
  <2> QED BY <2>1, CachedIsLongest DEF LengthInv
<1> QED BY <1>1, <1>2, <1>3, PTL DEF Spec

-----------------------------------------------------------------------------
(***************************************************************************)
(* The inductive invariant.  While a rebuild is going on, done are the     *)
(* nodes that have an index, and Node2Index of any other is the number of  *)
(* its edges to nodes that have none.                                      *)
(***************************************************************************)
Into(E, n, S) == {e \in E : From(e) = n /\ To(e) \in S}

Inverses(toIndex, toNode, N, I) ==
  /\ \A n \in N : toIndex[n] \in I /\ toNode[toIndex[n]] = n
  /\ \A i \in I : toNode[i] \in N /\ toIndex[toNode[i]] = i

Allocated(done, sz, E, toIndex, toNode, next, list) ==
  LET left == (0..(sz - 1)) \ done
  IN
  /\ done \subseteq 0..(sz - 1)
  /\ next = sz - Cardinality(done)
  /\ Inverses(toIndex, toNode, done, next..(sz - 1))
  /\ \A n \in left : toIndex[n] = Cardinality(Into(E, n, left))
  /\ list = {n \in left : Into(E, n, left) = {}}
  /\ \A e \in E : From(e) \in done => /\ To(e) \in done
                                      /\ toIndex[From(e)] < toIndex[To(e)]

Ordered(E, p, r, N) == Ranked(p, E) /\ Inverses(p, r, N, N)

GraphOK(sz, E, p, r) ==
  LET N == 0..(sz - 1)
  IN
  /\ sz \in 1..MaxNodes
  /\ E \subseteq N \X N \X Kinds /\ IsFiniteSet(E)
  /\ \E rank \in [N -> Slots] : Ranked(rank, E)
  /\ DOMAIN p = Slots /\ DOMAIN r = Slots

TInv ==
  /\ phase \in {"init", "allocate", "ready"}
  /\ GraphOK(size, edges, node2Index, index2Node)
  /\ phase = "allocate" =>
       \E done : Allocated(done, size, edges, node2Index, index2Node, id, workList)
  /\ phase = "ready" => Ordered(edges, node2Index, index2Node, 0..(size - 1))

-----------------------------------------------------------------------------
(***************************************************************************)
(* Shift, on indices: W are those of the nodes that move to the end of     *)
(* lb..ub.                                                                 *)
(***************************************************************************)
Below(W, k) == Cardinality({w \in W : w < k})

Moved(W, lb, ub, i) ==
  IF i \notin lb..ub THEN i
  ELSE IF i \in W THEN ub + 1 - Cardinality(W) + Below(W, i)
  ELSE i - Below(W, i)

Finite(W) == IsFiniteSet(W) /\ \A w \in W : w \in Int

\* What moves is below ub, which does not.
Region(W, lb, ub) == lb <= ub /\ \A w \in W : w \in Int /\ lb <= w /\ w < ub

LEMMA WithinInterval ==
  ASSUME NEW a \in Int, NEW b \in Int, a <= b, NEW S, \A x \in S : x \in Int /\ a <= x /\ x < b
  PROVE  Finite(S) /\ Cardinality(S) \in Nat /\ Cardinality(S) <= b - a
<1>1. PICK e \in Int : e = b - 1
  OBVIOUS
<1>2. IsFiniteSet(a..e) /\ Cardinality(a..e) = IF a > e THEN 0 ELSE e - a + 1
  BY FS_Interval
<1>3. S \in SUBSET (a..e)
  BY <1>1
<1>4. IsFiniteSet(S) /\ Cardinality(S) <= Cardinality(a..e) /\ Cardinality(S) \in Nat
  BY <1>2, <1>3, FS_Subset, FS_CardinalityType
<1> QED BY <1>1, <1>2, <1>4 DEF Finite

LEMMA BelowGrows ==
  ASSUME NEW W, Finite(W), NEW j \in Int, NEW k \in Int, j < k
  PROVE  /\ Below(W, j) \in Nat /\ Below(W, k) \in Nat
         /\ Below(W, j) <= Below(W, k)
         /\ j \in W => Below(W, j) < Below(W, k)
         /\ Below(W, k) <= Below(W, j) + (k - j)
         /\ j \notin W => Below(W, k) < Below(W, j) + (k - j)
<1>1. PICK L : L = {w \in W : w < j}
  OBVIOUS
<1>2. PICK M : M = {w \in W : j <= w /\ w < k}
  OBVIOUS
<1>3. PICK U : U = {w \in W : w < k}
  OBVIOUS
<1>4. IsFiniteSet(L) /\ IsFiniteSet(M) /\ IsFiniteSet(U)
  BY <1>1, <1>2, <1>3, FS_Subset DEF Finite
<1>5. U = L \cup M /\ L \cap M = {}
  BY <1>1, <1>2, <1>3 DEF Finite
<1>6. Cardinality(L) \in Nat /\ Cardinality(M) \in Nat /\ Cardinality(U) \in Nat
  BY <1>4, FS_CardinalityType
<1>7. Cardinality(U) = Cardinality(L) + Cardinality(M)
  <2>1. Cardinality(L \cup M) = Cardinality(L) + Cardinality(M) - Cardinality(L \cap M)
    BY <1>4, FS_Union
  <2> QED BY <1>5, <1>6, <2>1, FS_EmptySet
<1>8. Cardinality(M) <= k - j
  <2>1. \A x \in M : x \in Int /\ j <= x /\ x < k
    BY <1>2 DEF Finite
  <2> QED BY <2>1, WithinInterval
<1>9. ASSUME j \notin W PROVE Cardinality(M) <= k - j - 1
  <2>1. PICK i \in Int : i = j + 1
    OBVIOUS
  <2>2. \A x \in M : x \in Int /\ i <= x /\ x < k
    BY <1>2, <1>9, <2>1 DEF Finite
  <2>3. Cardinality(M) <= k - i
    BY <2>1, <2>2, WithinInterval
  <2> QED BY <1>6, <2>1, <2>3
<1>10. j \in W => Cardinality(M) > 0
  BY <1>2, <1>4, <1>6, FS_EmptySet
<1>11. Below(W, j) = Cardinality(L) /\ Below(W, k) = Cardinality(U)
  BY <1>1, <1>3 DEF Below
<1> QED BY <1>6, <1>7, <1>8, <1>9, <1>10, <1>11

LEMMA RegionIs ==
  ASSUME NEW lb \in Int, NEW ub \in Int, NEW W, Region(W, lb, ub)
  PROVE  /\ Finite(W) /\ Cardinality(W) \in Nat /\ Cardinality(W) <= ub - lb
         /\ Below(W, lb) = 0 /\ Below(W, ub) = Cardinality(W)
<1>1. Finite(W) /\ Cardinality(W) \in Nat /\ Cardinality(W) <= ub - lb
  <2>1. lb <= ub /\ \A x \in W : x \in Int /\ lb <= x /\ x < ub
    BY DEF Region
  <2> QED BY <2>1, WithinInterval
<1>2. {w \in W : w < lb} = {} /\ {w \in W : w < ub} = W
  BY DEF Region
<1> QED BY <1>1, <1>2, FS_EmptySet DEF Below

\* Shift permutes lb..ub, keeps the order among what moves and among what
\* stays, and puts the one after the other.
LEMMA MovedInRegion ==
  ASSUME NEW lb \in Int, NEW ub \in Int, NEW W, Region(W, lb, ub), NEW i \in lb..ub
  PROVE  /\ Moved(W, lb, ub, i) \in lb..ub
         /\ Cardinality(W) \in Nat
         /\ i \in W <=> Moved(W, lb, ub, i) > ub - Cardinality(W)
<1>1. Finite(W) /\ i \in Int /\ lb <= i /\ i <= ub
  BY RegionIs
<1>2. /\ Cardinality(W) \in Nat /\ Cardinality(W) <= ub - lb
      /\ Below(W, lb) = 0 /\ Below(W, ub) = Cardinality(W)
  BY RegionIs
<1>3. Below(W, i) \in Nat /\ Below(W, i) <= i - lb
  <2>1. CASE i = lb
    BY <1>1, <1>2, <2>1
  <2>2. CASE i # lb
    <3>1. lb < i
      BY <1>1, <2>2
    <3>2. Below(W, i) \in Nat /\ Below(W, i) <= Below(W, lb) + (i - lb)
      BY <1>1, <3>1, BelowGrows
    <3> QED BY <1>1, <1>2, <3>2
  <2> QED BY <2>1, <2>2
<1>4. CASE i \in W
  <2>1. i < ub
    BY <1>1, <1>4 DEF Region
  <2>2. Below(W, i) < Below(W, ub) /\ Below(W, ub) <= Below(W, i) + (ub - i)
    BY <1>1, <1>4, <2>1, BelowGrows
  <2>3. Moved(W, lb, ub, i) = ub + 1 - Cardinality(W) + Below(W, i)
    BY <1>4 DEF Moved
  <2> QED BY <1>1, <1>2, <1>3, <1>4, <2>2, <2>3
<1>5. CASE i \notin W
  <2>1. Moved(W, lb, ub, i) = i - Below(W, i)
    BY <1>5 DEF Moved
  <2>2. i - Below(W, i) <= ub - Cardinality(W)
    <3>1. CASE i = ub
      BY <1>1, <1>2, <3>1
    <3>2. CASE i # ub
      <4>1. i < ub
        BY <1>1, <3>2
      <4>2. Below(W, ub) < Below(W, i) + (ub - i)
        BY <1>1, <1>5, <4>1, BelowGrows
      <4> QED BY <1>1, <1>2, <1>3, <4>2
    <3> QED BY <3>1, <3>2
  <2> QED BY <1>1, <1>2, <1>3, <1>5, <2>1, <2>2
<1> QED BY <1>2, <1>4, <1>5

LEMMA MovedKeepsOrder ==
  ASSUME NEW lb \in Int, NEW ub \in Int, NEW W, Region(W, lb, ub),
         NEW i \in lb..ub, NEW j \in lb..ub,
         i < j, i \in W <=> j \in W
  PROVE  Moved(W, lb, ub, i) < Moved(W, lb, ub, j)
<1>1. Finite(W) /\ Cardinality(W) \in Nat /\ i \in Int /\ j \in Int
  BY RegionIs
<1>2. /\ Below(W, i) \in Nat /\ Below(W, j) \in Nat
      /\ i \in W => Below(W, i) < Below(W, j)
      /\ i \notin W => Below(W, j) < Below(W, i) + (j - i)
  BY <1>1, BelowGrows
<1>3. CASE i \in W
  BY <1>1, <1>2, <1>3 DEF Moved
<1>4. CASE i \notin W
  BY <1>1, <1>2, <1>4 DEF Moved
<1> QED BY <1>3, <1>4

LEMMA MovedInjective ==
  ASSUME NEW lb \in Int, NEW ub \in Int, NEW W, Region(W, lb, ub), NEW i \in Int, NEW j \in Int,
         Moved(W, lb, ub, i) = Moved(W, lb, ub, j)
  PROVE  i = j
<1>1. CASE i \in lb..ub /\ j \in lb..ub
  <2>1. Moved(W, lb, ub, i) \in Int /\ Moved(W, lb, ub, j) \in Int
    BY <1>1, MovedInRegion
  <2>2. i \in W <=> j \in W
    BY <1>1, MovedInRegion
  <2>3. ~(i < j) /\ ~(j < i)
    BY <1>1, <2>1, <2>2, MovedKeepsOrder
  <2> QED BY <2>3
<1>2. CASE i \notin lb..ub
  <2>1. Moved(W, lb, ub, i) = i /\ Moved(W, lb, ub, j) = i
    BY <1>2 DEF Moved
  <2>2. j \notin lb..ub
    BY <1>2, <2>1, MovedInRegion
  <2> QED BY <2>1, <2>2 DEF Moved
<1>3. CASE j \notin lb..ub
  <2>1. Moved(W, lb, ub, j) = j /\ Moved(W, lb, ub, i) = j
    BY <1>3 DEF Moved
  <2>2. i \notin lb..ub
    BY <1>3, <2>1, MovedInRegion
  <2> QED BY <2>1, <2>2 DEF Moved
<1> QED BY <1>1, <1>2, <1>3

-----------------------------------------------------------------------------
(***************************************************************************)
(* Shift, on nodes.                                                        *)
(***************************************************************************)
Numbers(p, N) ==
  /\ \A n \in N : p[n] \in N
  /\ \A n, m \in N : p[n] = p[m] => n = m

Image(p, S) == {p[n] : n \in S}

\* q has every node where Shift moves it, and t is the inverse of q that Shift fills in.
MovesTo(q, p, W, lb, ub, N) == \A n \in N : q[n] = Moved(W, lb, ub, p[n])

Refilled(t, r, q, lb, ub, N) ==
  \A i \in N : t[i] = IF i \in lb..ub THEN CHOOSE n \in N : q[n] = i ELSE r[i]

LEMMA ImageCount ==
  ASSUME NEW S, IsFiniteSet(S), NEW p, \A n, m \in S : p[n] = p[m] => n = m
  PROVE  IsFiniteSet(Image(p, S)) /\ Cardinality(Image(p, S)) = Cardinality(S)
<1>1. PICK T : T = {p[n] : n \in S} /\ T = Image(p, S)
  BY DEF Image
<1>2. PICK f : f = [n \in S |-> p[n]]
  OBVIOUS
<1>3. f \in [S -> T] /\ \A n \in S : f[n] = p[n]
  BY <1>1, <1>2
<1>4. \A t \in T : \E n \in S : f[n] = t
  BY <1>1, <1>3
<1>5. f \in Bijection(S, T)
  BY <1>3, <1>4 DEF Bijection, Injection, Surjection, IsInjective
<1>6. ExistsBijection(S, T)
  BY <1>5 DEF ExistsBijection
<1>7. IsFiniteSet(T) /\ Cardinality(T) = Cardinality(S)
  BY <1>6, FS_Bijection
<1> QED BY <1>1, <1>7

LEMMA UpTo ==
  ASSUME NEW sz \in Nat
  PROVE  IsFiniteSet(0..(sz - 1)) /\ Cardinality(0..(sz - 1)) = sz
<1>1. PICK e \in Int : e = sz - 1
  OBVIOUS
<1>2. IsFiniteSet(0..e) /\ Cardinality(0..e) = IF 0 > e THEN 0 ELSE e - 0 + 1
  BY FS_Interval
<1> QED BY <1>1, <1>2

LEMMA ShiftedIsMoved ==
  ASSUME size \in Nat, Numbers(node2Index, NodeNums),
         NEW V \in SUBSET NodeNums, NEW lb \in Int, NEW ub \in Int, NEW n \in NodeNums
  PROVE  Shifted(V, lb, ub, n) = Moved(Image(node2Index, V), lb, ub, node2Index[n])
<1>1. IsFiniteSet(V) /\ \A m, k \in V : node2Index[m] = node2Index[k] => m = k
  <2>1. IsFiniteSet(NodeNums)
    BY UpTo DEF NodeNums
  <2> QED BY <2>1, FS_Subset DEF Numbers
<1>2. PICK p, W : p = node2Index /\ W = Image(p, V)
  OBVIOUS
<1>3. Cardinality(W) = Cardinality(V)
  BY <1>1, <1>2, ImageCount
<1>4. Below(W, node2Index[n]) = Before(V, n)
  <2>1. PICK S : S = {m \in V : p[m] < p[n]}
    OBVIOUS
  <2>2. IsFiniteSet(S) /\ \A m, k \in S : p[m] = p[k] => m = k
    BY <1>1, <1>2, <2>1, FS_Subset
  <2>3. Cardinality(Image(p, S)) = Cardinality(S)
    BY <2>2, ImageCount
  <2>4. Image(p, S) = {w \in W : w < p[n]}
    BY <1>2, <2>1 DEF Image
  <2> QED BY <1>2, <2>1, <2>3, <2>4 DEF Below, Before
<1>5. node2Index[n] \in W <=> n \in V
  BY <1>2 DEF Numbers, Image
<1> QED BY <1>2, <1>3, <1>4, <1>5 DEF Shifted, Moved

Interval(N) ==
  /\ IsFiniteSet(N) /\ \A n \in N : n \in Int
  /\ \A i, j \in N : \A k \in i..j : k \in N

LEMMA NodeNumsInterval ==
  ASSUME size \in Nat
  PROVE  Interval(NodeNums)
<1>1. IsFiniteSet(NodeNums)
  BY UpTo DEF NodeNums
<1>2. /\ \A n \in NodeNums : n \in Int
      /\ \A i, j \in NodeNums : \A k \in i..j : k \in NodeNums
  BY DEF NodeNums
<1> QED BY <1>1, <1>2 DEF Interval

\* The new place of every node is an index, and no place has two nodes.
LEMMA MovedNumbers ==
  ASSUME NEW N, Interval(N), NEW p, Numbers(p, N), NEW lb \in N, NEW ub \in N,
         lb \in Int, ub \in Int, NEW W, Region(W, lb, ub),
         NEW q, MovesTo(q, p, W, lb, ub, N)
  PROVE  Numbers(q, N)
<1>1. ASSUME NEW n \in N PROVE q[n] \in N
  <2>1. p[n] \in N /\ q[n] = Moved(W, lb, ub, p[n])
    BY DEF Numbers, MovesTo
  <2>2. CASE p[n] \in lb..ub
    <3>1. Moved(W, lb, ub, p[n]) \in lb..ub
      BY <2>2, MovedInRegion
    <3> QED BY <2>1, <3>1 DEF Interval
  <2>3. CASE p[n] \notin lb..ub
    BY <2>1, <2>3 DEF Moved
  <2> QED BY <2>2, <2>3
<1>2. ASSUME NEW n \in N, NEW m \in N, q[n] = q[m] PROVE n = m
  <2>1. p[n] \in Int /\ p[m] \in Int /\ Moved(W, lb, ub, p[n]) = Moved(W, lb, ub, p[m])
    BY <1>2 DEF Numbers, Interval, MovesTo
  <2>2. p[n] = p[m]
    BY <2>1, MovedInjective
  <2> QED BY <2>2 DEF Numbers
<1> QED BY <1>1, <1>2 DEF Numbers

\* A numbering of the nodes by themselves leaves out none.
LEMMA NumbersAll ==
  ASSUME NEW N, IsFiniteSet(N), NEW q, Numbers(q, N), NEW i \in N
  PROVE  \E n \in N : q[n] = i
<1>1. PICK T : T = Image(q, N)
  OBVIOUS
<1>2. IsFiniteSet(T) /\ Cardinality(T) = Cardinality(N)
  BY <1>1, ImageCount DEF Numbers
<1>3. T \in SUBSET N
  BY <1>1 DEF Numbers, Image
<1>4. T = N
  BY <1>2, <1>3, FS_Subset
<1> QED BY <1>1, <1>4 DEF Image

\* Edges keep their direction: one into what moves comes from below it, and one out
\* of it leads into it or beyond ub.
LEMMA MovedRanks ==
  ASSUME NEW lb \in Int, NEW ub \in Int, NEW W, Region(W, lb, ub),
         NEW i \in Int, NEW j \in Int, i < j, i \in W => j \in W \/ ub < j
  PROVE  Moved(W, lb, ub, i) < Moved(W, lb, ub, j)
<1>1. CASE i \notin lb..ub \/ j \notin lb..ub
  <2>1. /\ i \in lb..ub => Moved(W, lb, ub, i) \in lb..ub
        /\ j \in lb..ub => Moved(W, lb, ub, j) \in lb..ub
    BY MovedInRegion
  <2>2. /\ i \notin lb..ub => Moved(W, lb, ub, i) = i
        /\ j \notin lb..ub => Moved(W, lb, ub, j) = j
    BY DEF Moved
  <2> QED BY <1>1, <2>1, <2>2
<1>2. CASE i \in lb..ub /\ j \in lb..ub /\ (i \in W <=> j \in W)
  BY <1>2, MovedKeepsOrder
<1>3. CASE i \in lb..ub /\ j \in lb..ub /\ i \notin W /\ j \in W
  <2>1. /\ Moved(W, lb, ub, i) \in lb..ub /\ Moved(W, lb, ub, j) \in lb..ub
        /\ Cardinality(W) \in Nat
        /\ ~(Moved(W, lb, ub, i) > ub - Cardinality(W))
        /\ Moved(W, lb, ub, j) > ub - Cardinality(W)
    BY <1>3, MovedInRegion
  <2> QED BY <2>1
<1> QED BY <1>1, <1>2, <1>3

-----------------------------------------------------------------------------
(***************************************************************************)
(* DFS.                                                                    *)
(***************************************************************************)
Extend(S, ub) ==
  S \cup {To(e) : e \in {f \in edges : From(f) \in S /\ InAffectedRegion(To(f), ub)}}

Closed(S, E, p, ub) == \A e \in E : From(e) \in S /\ p[To(e)] < ub => To(e) \in S

LEMMA Ends ==
  ASSUME NEW sz, NEW E, NEW p, NEW r, GraphOK(sz, E, p, r)
  PROVE  /\ sz \in Nat /\ sz > 0 /\ sz <= MaxNodes /\ 0..(sz - 1) \subseteq Slots
         /\ \A e \in E : From(e) \in 0..(sz - 1) /\ To(e) \in 0..(sz - 1)
<1>1. sz \in 1..MaxNodes /\ MaxNodes \in Nat
  BY TopologicalAssumption DEF GraphOK
<1>2. E \subseteq (0..(sz - 1)) \X (0..(sz - 1)) \X Kinds
  BY DEF GraphOK
<1>3. \A e \in E : From(e) \in 0..(sz - 1) /\ To(e) \in 0..(sz - 1)
  BY <1>2 DEF From, To
<1> QED BY <1>1, <1>3 DEF Slots

\* The rounds of the search.
Rounds(f, n, ub) ==
  DOMAIN f = Nat /\ f[0] = {n} /\ \A i \in Nat : f[i + 1] = Extend(f[i], ub)

LEMMA RoundsExist ==
  ASSUME \A e \in edges : To(e) \in NodeNums, NEW n \in NodeNums, NEW ub
  PROVE  \E f : Rounds(f, n, ub)
<1>1. PICK step : step = [S \in SUBSET NodeNums |-> Extend(S, ub)]
  OBVIOUS
<1>2. PICK f : Iteration(f, {n}, step)
  BY IterationExists
<1>3. \A S \in SUBSET NodeNums : Extend(S, ub) \in SUBSET NodeNums
  BY DEF Extend
<1>4. PICK T : T = {i \in Nat : f[i] \in SUBSET NodeNums}
  OBVIOUS
<1>5. 0 \in T
  BY <1>2, <1>4 DEF Iteration
<1>6. ASSUME NEW i \in Nat, i \in T PROVE i + 1 \in T
  <2>1. f[i] \in SUBSET NodeNums /\ f[i + 1] = step[f[i]]
    BY <1>2, <1>4, <1>6 DEF Iteration
  <2>2. f[i + 1] \in SUBSET NodeNums
    BY <1>1, <1>3, <2>1
  <2> QED BY <1>4, <2>2
<1>7. \A i \in Nat : f[i] \in SUBSET NodeNums
  BY <1>4, <1>5, <1>6, InductionInSet
<1>8. \A i \in Nat : f[i + 1] = Extend(f[i], ub)
  BY <1>1, <1>2, <1>7 DEF Iteration
<1>9. Rounds(f, n, ub)
  BY <1>2, <1>8 DEF Rounds, Iteration
<1> QED BY <1>9

LEMMA VisitedFollows ==
  ASSUME \A e \in edges : To(e) \in NodeNums, NEW n \in NodeNums, NEW ub
  PROVE  \E f : Rounds(f, n, ub) /\ Visited(n, ub) = f[size]
<1> DEFINE IsAfter(p) == p = [i \in Nat |-> IF i = 0 THEN {n} ELSE Extend(p[i - 1], ub)]
           After == CHOOSE p : IsAfter(p)
<1>1. Visited(n, ub) = After[size]
  BY DEF Visited, Extend
<1>2. \E p : IsAfter(p)
  <2>1. PICK f : Rounds(f, n, ub)
    BY RoundsExist
  <2>2. PICK p : p = [i \in Nat |-> f[i]]
    OBVIOUS
  <2>3. ASSUME NEW i \in Nat
        PROVE  f[i] = IF i = 0 THEN {n} ELSE Extend(p[i - 1], ub)
    <3>1. CASE i = 0
      BY <2>1, <3>1 DEF Rounds
    <3>2. CASE i # 0
      <4>1. PICK j \in Nat : i = j + 1 /\ i - 1 = j
        BY <3>2
      <4>2. p[i - 1] = f[j] /\ f[i] = Extend(f[j], ub)
        BY <2>1, <2>2, <4>1 DEF Rounds
      <4> QED BY <3>2, <4>2
    <3> QED BY <3>1, <3>2
  <2>4. IsAfter(p)
    BY <2>2, <2>3
  <2> HIDE DEF IsAfter
  <2> QED BY <2>4
<1> HIDE DEF IsAfter
<1>3. IsAfter(After)
  BY <1>2
<1> HIDE DEF After
<1>4. DOMAIN After = Nat /\ After[0] = {n}
  BY <1>3 DEF IsAfter
<1>5. ASSUME NEW i \in Nat PROVE After[i + 1] = Extend(After[i], ub)
  <2>1. PICK j \in Nat : j = i + 1 /\ j # 0 /\ j - 1 = i
    OBVIOUS
  <2>2. After[j] = Extend(After[j - 1], ub)
    BY <1>3, <2>1 DEF IsAfter
  <2> QED BY <2>1, <2>2
<1>6. Rounds(After, n, ub)
  BY <1>4, <1>5 DEF Rounds
<1> QED BY <1>1, <1>6

\* The search finds the least set that is closed under the edges within its bound:
\* each round but the last adds a node, and there are size of them.
LEMMA VisitedIs ==
  ASSUME size \in Nat, \A e \in edges : To(e) \in NodeNums, NEW n \in NodeNums, NEW ub,
         NEW V, V = Visited(n, ub)
  PROVE  /\ n \in V /\ V \subseteq NodeNums
         /\ Closed(V, edges, node2Index, ub)
         /\ \A S : n \in S /\ Closed(S, edges, node2Index, ub) => V \subseteq S
<1>1. PICK f : Rounds(f, n, ub) /\ V = f[size]
  BY VisitedFollows
<1>2. \A i \in Nat : f[i] \subseteq f[i + 1]
  BY <1>1 DEF Rounds, Extend
<1>3. \A i \in Nat : n \in f[i] /\ f[i] \subseteq NodeNums
  <2>1. PICK T : T = {i \in Nat : n \in f[i] /\ f[i] \subseteq NodeNums}
    OBVIOUS
  <2>2. 0 \in T
    BY <1>1, <2>1 DEF Rounds
  <2>3. ASSUME NEW i \in Nat, i \in T PROVE i + 1 \in T
    <3>1. n \in f[i] /\ f[i] \subseteq NodeNums /\ f[i + 1] = Extend(f[i], ub)
      BY <1>1, <2>1, <2>3 DEF Rounds
    <3>2. n \in f[i + 1] /\ f[i + 1] \subseteq NodeNums
      BY <3>1 DEF Extend
    <3> QED BY <2>1, <3>2
  <2> QED BY <2>1, <2>2, <2>3, InductionInSet
<1>4. IsFiniteSet(NodeNums) /\ Cardinality(NodeNums) = size
  BY UpTo DEF NodeNums
<1>5. \A i \in Nat : IsFiniteSet(f[i]) /\ Cardinality(f[i]) \in Nat /\ Cardinality(f[i]) <= size
  BY <1>3, <1>4, FS_Subset, FS_CardinalityType
<1>6. \A i \in Nat : f[i + 1] = f[i] \/ Cardinality(f[i]) > i
  <2>1. PICK T : T = {i \in Nat : f[i + 1] = f[i] \/ Cardinality(f[i]) > i}
    OBVIOUS
  <2>2. 0 \in T
    <3>1. Cardinality(f[0]) > 0
      BY <1>3, <1>5, FS_EmptySet
    <3> QED BY <2>1, <3>1
  <2>3. ASSUME NEW i \in Nat, i \in T PROVE i + 1 \in T
    <3>1. PICK j \in Nat : j = i + 1
      OBVIOUS
    <3>2. f[j] = Extend(f[i], ub) /\ f[j + 1] = Extend(f[j], ub)
      BY <1>1, <3>1 DEF Rounds
    <3>3. CASE f[j] = f[i]
      BY <2>1, <3>1, <3>2, <3>3
    <3>4. CASE f[j] # f[i]
      <4>1. Cardinality(f[i]) > i
        BY <2>1, <2>3, <3>1, <3>4
      <4>2. f[i] \in SUBSET f[j]
        BY <1>2, <3>1
      <4>3. Cardinality(f[i]) <= Cardinality(f[j]) /\ Cardinality(f[i]) # Cardinality(f[j])
        BY <1>5, <3>4, <4>2, FS_Subset
      <4>4. Cardinality(f[j]) > j
        BY <1>5, <3>1, <4>1, <4>3
      <4> QED BY <2>1, <3>1, <4>4
    <3> QED BY <3>3, <3>4
  <2> QED BY <2>1, <2>2, <2>3, InductionInSet
<1>7. V = Extend(V, ub)
  BY <1>1, <1>5, <1>6 DEF Rounds
<1>8. Closed(V, edges, node2Index, ub)
  BY <1>7 DEF Closed, Extend, InAffectedRegion
<1>9. ASSUME NEW S, n \in S, Closed(S, edges, node2Index, ub) PROVE V \subseteq S
  <2>1. PICK T : T = {i \in Nat : f[i] \subseteq S}
    OBVIOUS
  <2>2. 0 \in T
    BY <1>1, <1>9, <2>1 DEF Rounds
  <2>3. ASSUME NEW i \in Nat, i \in T PROVE i + 1 \in T
    <3>1. f[i] \subseteq S /\ f[i + 1] = Extend(f[i], ub)
      BY <1>1, <2>1, <2>3 DEF Rounds
    <3>2. f[i + 1] \subseteq S
      BY <1>9, <3>1 DEF Extend, Closed, InAffectedRegion
    <3> QED BY <2>1, <3>2
  <2> QED BY <1>1, <2>1, <2>2, <2>3, InductionInSet
<1> QED BY <1>1, <1>3, <1>8, <1>9

-----------------------------------------------------------------------------
(***************************************************************************)
(* AddPred.                                                                *)
(***************************************************************************)
LEMMA OrderNumbers ==
  ASSUME NEW E, NEW p, NEW r, NEW N, Ordered(E, p, r, N)
  PROVE  Numbers(p, N) /\ \A e \in E : p[From(e)] < p[To(e)]
<1>1. \A n \in N : p[n] \in N /\ r[p[n]] = n
  BY DEF Ordered, Inverses
<1>2. \A e \in E : p[From(e)] < p[To(e)]
  BY DEF Ordered, Ranked
<1> QED BY <1>1, <1>2 DEF Numbers

Searched(V, y, N, E, p, lb, ub) ==
  /\ y \in V /\ V \in SUBSET N
  /\ \A m \in V : lb <= p[m] /\ p[m] < ub
  /\ \A e \in E : From(e) \in V => To(e) \in V \/ ub < p[To(e)]

\* What the search from y finds when it does not meet x: the nodes that move.
LEMMA SearchStays ==
  ASSUME TInv, phase = "ready", NEW y \in NodeNums, NEW ub \in NodeNums,
         node2Index[y] < ub, ~HasLoop(y, ub), NEW V, V = Visited(y, ub)
  PROVE  Searched(V, y, NodeNums, edges, node2Index, node2Index[y], ub)
<1>1. /\ size \in Nat
      /\ \A e \in edges : From(e) \in NodeNums /\ To(e) \in NodeNums
  BY Ends DEF TInv, NodeNums
<1>2. /\ \A n \in NodeNums : node2Index[n] \in NodeNums
      /\ \A e \in edges : node2Index[From(e)] < node2Index[To(e)]
  <2>1. Ordered(edges, node2Index, index2Node, NodeNums)
    BY DEF TInv, NodeNums
  <2> QED BY <2>1, OrderNumbers DEF Numbers
<1>3. /\ y \in V /\ V \subseteq NodeNums /\ Closed(V, edges, node2Index, ub)
      /\ \A S : y \in S /\ Closed(S, edges, node2Index, ub) => V \subseteq S
  BY <1>1, VisitedIs
<1>4. PICK S : S = {m \in NodeNums : node2Index[y] <= node2Index[m] /\ node2Index[m] < ub}
  OBVIOUS
<1>5. y \in S
  BY <1>2, <1>4 DEF NodeNums
<1>6. ASSUME NEW e \in edges, From(e) \in S, node2Index[To(e)] < ub PROVE To(e) \in S
  <2>1. node2Index[From(e)] \in Int /\ node2Index[To(e)] \in Int /\ node2Index[y] \in Int
    BY <1>1, <1>2 DEF NodeNums
  <2> QED BY <1>1, <1>2, <1>4, <1>6, <2>1
<1>7. V \subseteq S
  BY <1>3, <1>5, <1>6 DEF Closed
<1>8. ASSUME NEW e \in edges, From(e) \in V PROVE To(e) \in V \/ ub < node2Index[To(e)]
  <2>1. node2Index[To(e)] # ub
    BY <1>8 DEF HasLoop
  <2>2. node2Index[To(e)] \in Int /\ ub \in Int
    BY <1>1, <1>2 DEF NodeNums
  <2>3. node2Index[To(e)] < ub => To(e) \in V
    BY <1>3, <1>8 DEF Closed
  <2> QED BY <2>1, <2>2, <2>3
<1> QED BY <1>3, <1>4, <1>7, <1>8 DEF Searched

EndsIn(E, N) == \A e \in E : From(e) \in N /\ To(e) \in N

Adds(F, E, x, y) == \A e \in F : e \in E \/ (From(e) = x /\ To(e) = y)

\* Shift keeps both arrays inverse to each other and the old edges in order, and puts
\* y behind x.
LEMMA ShiftOrders ==
  ASSUME NEW N, Interval(N), NEW E, EndsIn(E, N),
         NEW p, NEW r, Ordered(E, p, r, N), NEW x \in N, NEW y \in N,
         NEW lb, NEW ub, lb = p[y], ub = p[x], lb < ub,
         NEW V, Searched(V, y, N, E, p, lb, ub),
         NEW q, MovesTo(q, p, Image(p, V), lb, ub, N),
         NEW t, Refilled(t, r, q, lb, ub, N),
         NEW F, Adds(F, E, x, y)
  PROVE  Ordered(F, q, t, N)
<1> DEFINE W == Image(p, V)
<1>0. /\ y \in V /\ V \subseteq N /\ \A m \in V : lb <= p[m] /\ p[m] < ub
      /\ \A e \in E : From(e) \in V => To(e) \in V \/ ub < p[To(e)]
      /\ \A e \in E : From(e) \in N /\ To(e) \in N
      /\ \A e \in F : e \in E \/ (From(e) = x /\ To(e) = y)
  BY DEF Searched, EndsIn, Adds
<1>1. lb \in N /\ ub \in N
  BY DEF Ordered, Inverses
<1>2. Numbers(p, N) /\ \A e \in E : p[From(e)] < p[To(e)]
  BY OrderNumbers
<1>3. /\ \A n \in N : p[n] \in Int /\ p[n] \in N
      /\ lb \in Int /\ ub \in Int
  BY <1>1, <1>2 DEF Numbers, Interval
<1>4. Region(W, lb, ub)
  BY <1>0, <1>1, <1>3 DEF Region, Image
<1>5. \A n \in N : p[n] \in W <=> n \in V
  BY <1>0, <1>2 DEF Numbers, Image
<1>6. \A n \in N : q[n] = Moved(W, lb, ub, p[n])
  BY DEF MovesTo
<1> HIDE DEF W
<1>7. Numbers(q, N)
  BY <1>1, <1>2, <1>3, <1>4, MovedNumbers DEF W
<1>8. Ranked(q, F)
  <2> SUFFICES ASSUME NEW e \in F PROVE q[From(e)] < q[To(e)]
    BY DEF Ranked
  <2>1. CASE e \in E
    <3>1. /\ From(e) \in N /\ To(e) \in N /\ p[From(e)] < p[To(e)]
          /\ p[From(e)] \in W => p[To(e)] \in W \/ ub < p[To(e)]
      BY <1>0, <1>1, <1>2, <1>5, <2>1
    <3>2. Moved(W, lb, ub, p[From(e)]) < Moved(W, lb, ub, p[To(e)])
      BY <1>3, <1>4, <3>1, MovedRanks
    <3> QED BY <1>6, <3>1, <3>2
  <2>2. CASE From(e) = x /\ To(e) = y
    <3>1. p[x] \notin W /\ p[y] \in W
      BY <1>0, <1>3, <1>5
    <3>2. p[x] \in lb..ub /\ p[y] \in lb..ub
      BY <1>1, <1>3
    <3>3. /\ Moved(W, lb, ub, p[x]) \in lb..ub /\ Cardinality(W) \in Nat
          /\ ~(Moved(W, lb, ub, p[x]) > ub - Cardinality(W))
      BY <1>3, <1>4, <3>1, <3>2, MovedInRegion
    <3>4. Moved(W, lb, ub, p[y]) \in lb..ub /\ Moved(W, lb, ub, p[y]) > ub - Cardinality(W)
      BY <1>3, <1>4, <3>1, <3>2, MovedInRegion
    <3>5. Moved(W, lb, ub, p[x]) < Moved(W, lb, ub, p[y])
      BY <1>3, <3>3, <3>4
    <3> QED BY <1>6, <2>2, <3>5
  <2> QED BY <1>0, <2>1, <2>2
<1>9. ASSUME NEW i \in N PROVE t[i] \in N /\ q[t[i]] = i
  <2>1. CASE i \in lb..ub
    <3>1. t[i] = CHOOSE n \in N : q[n] = i
      BY <2>1 DEF Refilled
    <3>2. \E n \in N : q[n] = i
      BY <1>7, NumbersAll DEF Interval
    <3> QED BY <3>1, <3>2
  <2>2. CASE i \notin lb..ub
    <3>1. t[i] = r[i] /\ r[i] \in N /\ p[r[i]] = i
      BY <2>2 DEF Ordered, Inverses, Refilled
    <3>2. q[r[i]] = Moved(W, lb, ub, i)
      BY <1>6, <3>1
    <3>3. Moved(W, lb, ub, i) = i
      BY <2>2 DEF Moved
    <3> QED BY <3>1, <3>2, <3>3
  <2> QED BY <2>1, <2>2
<1>10. ASSUME NEW n \in N PROVE q[n] \in N /\ t[q[n]] = n
  <2>1. q[n] \in N
    BY <1>7 DEF Numbers
  <2>2. t[q[n]] \in N /\ q[t[q[n]]] = q[n]
    BY <1>9, <2>1
  <2> QED BY <1>7, <2>1, <2>2 DEF Numbers
<1> QED BY <1>8, <1>9, <1>10 DEF Ordered, Inverses

\* An order in the arrays is one along which the graph is ranked.
LEMMA OrderedOK ==
  ASSUME NEW sz, NEW E, NEW p, NEW r, GraphOK(sz, E, p, r),
         NEW F, F \subseteq (0..(sz - 1)) \X (0..(sz - 1)) \X Kinds, IsFiniteSet(F),
         NEW q, NEW t, DOMAIN q = Slots, DOMAIN t = Slots, Ordered(F, q, t, 0..(sz - 1))
  PROVE  GraphOK(sz, F, q, t)
<1>1. PICK N : N = 0..(sz - 1)
  OBVIOUS
<1>2. PICK rank : rank = [n \in N |-> q[n]]
  OBVIOUS
<1>3. N \subseteq Slots
  BY <1>1, Ends
<1>4. rank \in [N -> Slots]
  BY <1>1, <1>2, <1>3 DEF Ordered, Inverses
<1>5. \A e \in F : From(e) \in N /\ To(e) \in N
  BY <1>1 DEF From, To
<1>6. Ranked(rank, F)
  BY <1>1, <1>2, <1>5 DEF Ordered, Ranked
<1> QED BY <1>1, <1>4, <1>6 DEF GraphOK

LEMMA AddPredKeepsOrder ==
  ASSUME TInv, NEW x \in NodeNums, NEW y \in NodeNums, NEW k \in Kinds, TopoAddPred(x, y, k)
  PROVE  TInv'
<1>1. NodeNums = 0..(size - 1)
  BY DEF NodeNums
<1>2. /\ phase = "ready" /\ phase' = phase /\ size' = size
      /\ Ordered(edges, node2Index, index2Node, NodeNums)
      /\ GraphOK(size, edges, node2Index, index2Node)
  BY <1>1 DEF TInv, TopoAddPred
<1>3. /\ size \in Nat /\ NodeNums \subseteq Slots
      /\ \A e \in edges : From(e) \in NodeNums /\ To(e) \in NodeNums
  BY <1>1, <1>2, Ends
<1>4. /\ DOMAIN node2Index = Slots /\ DOMAIN index2Node = Slots
      /\ edges \subseteq NodeNums \X NodeNums \X Kinds /\ IsFiniteSet(edges)
  BY <1>1, <1>2 DEF GraphOK
<1>5. Interval(NodeNums) /\ Numbers(node2Index, NodeNums)
  BY <1>2, <1>3, NodeNumsInterval, OrderNumbers
<1>6. \A n \in NodeNums : node2Index[n] \in NodeNums /\ node2Index[n] \in Int
  BY <1>5 DEF Numbers, Interval
<1>7. PICK e : e = <<x, y, k>>
  OBVIOUS
<1>8. /\ edges' = edges \cup {e} /\ From(e) = x /\ To(e) = y
      /\ edges' \subseteq NodeNums \X NodeNums \X Kinds /\ IsFiniteSet(edges')
      /\ \A f \in edges' : f \in edges \/ (From(f) = x /\ To(f) = y)
  BY <1>4, <1>7, FS_AddElement DEF TopoAddPred, From, To
<1>9. CASE ~(node2Index[y] < node2Index[x])
  <2>1. node2Index[x] < node2Index[y]
    BY <1>5, <1>6, <1>9 DEF Numbers, TopoAddPred
  <2>2. UNCHANGED <<node2Index, index2Node>>
    BY <1>9 DEF TopoAddPred, MustShift
  <2>3. Ordered(edges', node2Index', index2Node', NodeNums)
    BY <1>2, <1>8, <2>1, <2>2 DEF Ordered, Ranked
  <2>4. GraphOK(size, edges', node2Index', index2Node')
    BY <1>1, <1>2, <1>4, <1>8, <2>2, <2>3, OrderedOK
  <2> QED BY <1>1, <1>2, <2>3, <2>4 DEF TInv
<1>10. CASE node2Index[y] < node2Index[x]
  <2>1. PICK lb \in NodeNums, ub \in NodeNums : lb = node2Index[y] /\ ub = node2Index[x]
    BY <1>6
  <2>2. lb < ub /\ lb \in Int /\ ub \in Int
    BY <1>6, <1>10, <2>1
  <2>3. ~HasLoop(y, ub)
    BY <1>10, <2>1 DEF TopoAddPred, IsReachable
  <2>4. PICK V : V = Visited(y, ub)
    OBVIOUS
  <2>5. Shift(V, lb, ub)
    BY <1>10, <2>1, <2>4 DEF TopoAddPred, MustShift
  <2>6. Searched(V, y, NodeNums, edges, node2Index, lb, ub)
    BY <1>2, <2>1, <2>2, <2>3, <2>4, SearchStays
  <2>7. V \in SUBSET NodeNums
    BY <2>6 DEF Searched
  <2>8. \A n \in NodeNums :
          Shifted(V, lb, ub, n) = Moved(Image(node2Index, V), lb, ub, node2Index[n])
    BY <1>3, <1>5, <2>2, <2>7, ShiftedIsMoved
  <2>9. PICK p, r : p = node2Index /\ r = index2Node
    OBVIOUS
  <2>10. PICK q, t : q = node2Index' /\ t = index2Node'
    OBVIOUS
  <2>11. DOMAIN q = Slots /\ DOMAIN t = Slots
    BY <2>5, <2>10 DEF Shift
  <2>12. \A n \in NodeNums : q[n] = Shifted(V, lb, ub, n)
    BY <1>3, <2>5, <2>10 DEF Shift
  <2>13. Refilled(t, r, q, lb, ub, NodeNums)
    <3> SUFFICES ASSUME NEW i \in NodeNums
                 PROVE  t[i] = IF i \in lb..ub THEN CHOOSE n \in NodeNums : q[n] = i ELSE r[i]
      BY DEF Refilled
    <3>1. t[i] = IF i \in lb..ub THEN CHOOSE n \in NodeNums : Shifted(V, lb, ub, n) = i
                 ELSE r[i]
      BY <1>3, <2>5, <2>9, <2>10 DEF Shift
    <3> QED BY <2>12, <3>1
  <2>14. PICK E, F : E = edges /\ F = edges'
    OBVIOUS
  <2>15. MovesTo(q, p, Image(p, V), lb, ub, NodeNums)
    BY <2>8, <2>9, <2>12 DEF MovesTo
  <2>16. /\ lb = p[y] /\ ub = p[x] /\ Searched(V, y, NodeNums, E, p, lb, ub)
         /\ EndsIn(E, NodeNums) /\ Adds(F, E, x, y) /\ Ordered(E, p, r, NodeNums)
    BY <1>2, <1>3, <1>8, <2>1, <2>6, <2>9, <2>14 DEF EndsIn, Adds
  <2>17. Ordered(F, q, t, NodeNums)
    BY <1>5, <2>2, <2>13, <2>15, <2>16, ShiftOrders
  <2>18. GraphOK(size, F, q, t)
    BY <1>1, <1>2, <1>8, <2>11, <2>14, <2>17, OrderedOK
  <2> QED BY <1>1, <1>2, <2>10, <2>14, <2>17, <2>18 DEF TInv
<1> QED BY <1>9, <1>10

-----------------------------------------------------------------------------
(***************************************************************************)
(* InitDAGTopologicalSorting.                                              *)
(***************************************************************************)
LEMMA IntoSplits ==
  ASSUME NEW E, IsFiniteSet(E), NEW m, NEW S, NEW n \in S
  PROVE  /\ IsFiniteSet(Into(E, m, S)) /\ IsFiniteSet(Into(E, m, {n}))
         /\ Cardinality(Into(E, m, {n})) \in Nat /\ Cardinality(Into(E, m, S)) \in Nat
         /\ Cardinality(Into(E, m, S \ {n})) \in Nat
         /\ Cardinality(Into(E, m, S \ {n}))
              = Cardinality(Into(E, m, S)) - Cardinality(Into(E, m, {n}))
<1>1. PICK A, B, C : A = Into(E, m, S) /\ B = Into(E, m, {n}) /\ C = Into(E, m, S \ {n})
  OBVIOUS
<1>2. A \subseteq E /\ B \subseteq E /\ C \subseteq E /\ A = B \cup C /\ B \cap C = {}
  BY <1>1 DEF Into
<1>3. /\ IsFiniteSet(A) /\ IsFiniteSet(B) /\ IsFiniteSet(C)
      /\ Cardinality(A) \in Nat /\ Cardinality(B) \in Nat /\ Cardinality(C) \in Nat
  BY <1>2, FS_Subset, FS_CardinalityType
<1>4. Cardinality(B \cup C) = Cardinality(B) + Cardinality(C) - Cardinality(B \cap C)
  BY <1>3, FS_Union
<1>5. Cardinality(A) = Cardinality(B) + Cardinality(C)
  BY <1>2, <1>3, <1>4, FS_EmptySet
<1> QED BY <1>1, <1>3, <1>5

\* q and list2 are what a round leaves of p and list when it gives n the index before next.
Round(n, E, N, p, next, list, q, list2) ==
  /\ \A m \in N : q[m] = IF m = n THEN next - 1 ELSE p[m] - Cardinality(Into(E, m, {n}))
  /\ list2 = (list \ {n}) \cup {m \in N : /\ Into(E, m, {n}) # {}
                                          /\ p[m] - Cardinality(Into(E, m, {n})) = 0}

\* There is an index for the node that a round takes.
Frees(next, sz, done, n) ==
  /\ next \in Int /\ next - 1 \in 0..(sz - 1)
  /\ next - 1 = sz - Cardinality(done \cup {n})

LEMMA FreeIndex ==
  ASSUME NEW sz \in Nat, NEW E, NEW done, NEW p, NEW r, NEW next, NEW list,
         Allocated(done, sz, E, p, r, next, list), NEW n \in list
  PROVE  Frees(next, sz, done, n)
<1>1. PICK N : N = 0..(sz - 1)
  OBVIOUS
<1>2. done \subseteq N /\ next = sz - Cardinality(done) /\ n \in N /\ n \notin done
  BY <1>1 DEF Allocated
<1>3. IsFiniteSet(N) /\ Cardinality(N) = sz
  BY <1>1, UpTo
<1>4. IsFiniteSet(done) /\ Cardinality(done) \in Nat
  BY <1>2, <1>3, FS_Subset, FS_CardinalityType
<1>5. Cardinality(done \cup {n}) = Cardinality(done) + 1
  BY <1>2, <1>4, FS_AddElement
<1>6. done \cup {n} \in SUBSET N
  BY <1>2
<1>7. Cardinality(done \cup {n}) <= Cardinality(N)
  BY <1>3, <1>6, FS_Subset
<1> QED BY <1>2, <1>3, <1>4, <1>5, <1>7 DEF Frees

LEMMA RoundAllocates ==
  ASSUME NEW sz \in Nat, NEW E, IsFiniteSet(E), EndsIn(E, 0..(sz - 1)), NEW done, NEW p, NEW r,
         NEW next, NEW list, Allocated(done, sz, E, p, r, next, list), NEW n \in list,
         NEW q, NEW list2, Round(n, E, 0..(sz - 1), p, next, list, q, list2),
         NEW t, t[next - 1] = n, \A i \in next..(sz - 1) : t[i] = r[i]
  PROVE  Allocated(done \cup {n}, sz, E, q, t, next - 1, list2)
<1>1. PICK N : N = 0..(sz - 1)
  OBVIOUS
<1>2. PICK left, more : left = N \ done /\ more = left \ {n}
  OBVIOUS
<1>3. /\ done \subseteq N /\ next = sz - Cardinality(done)
      /\ \A m \in left : p[m] = Cardinality(Into(E, m, left))
      /\ list = {m \in left : Into(E, m, left) = {}}
      /\ \A e \in E : From(e) \in done => To(e) \in done /\ p[From(e)] < p[To(e)]
      /\ Inverses(p, r, done, next..(sz - 1))
  BY <1>1, <1>2 DEF Allocated
<1>4. n \in left /\ n \in N /\ n \notin done /\ Into(E, n, left) = {}
  BY <1>2, <1>3
<1>6. next \in Int /\ next - 1 \in 0..(sz - 1) /\ next - 1 = sz - Cardinality(done \cup {n})
  <2>1. Frees(next, sz, done, n)
    BY FreeIndex
  <2> QED BY <2>1 DEF Frees
<1>7. ASSUME NEW m \in done PROVE Into(E, m, {n}) = {} /\ Cardinality(Into(E, m, {n})) = 0
  <2>1. Into(E, m, {n}) = {}
    BY <1>3, <1>4 DEF Into
  <2> QED BY <2>1, FS_EmptySet
<1>8. \A m \in done : p[m] \in next..(sz - 1) /\ p[m] \in Int /\ q[m] = p[m]
  <2> SUFFICES ASSUME NEW m \in done PROVE p[m] \in next..(sz - 1) /\ p[m] \in Int /\ q[m] = p[m]
    OBVIOUS
  <2>1. p[m] \in next..(sz - 1) /\ p[m] \in Int
    BY <1>3, <1>6 DEF Inverses
  <2>2. q[m] = p[m] - Cardinality(Into(E, m, {n}))
    BY <1>1, <1>3, <1>4 DEF Round
  <2>3. Cardinality(Into(E, m, {n})) = 0
    BY <1>7
  <2> QED BY <2>1, <2>2, <2>3
<1>9. q[n] = next - 1
  BY <1>1, <1>4 DEF Round
<1>10. \A m \in more : q[m] = Cardinality(Into(E, m, more))
  <2> SUFFICES ASSUME NEW m \in more PROVE q[m] = Cardinality(Into(E, m, more))
    OBVIOUS
  <2>1. q[m] = p[m] - Cardinality(Into(E, m, {n})) /\ p[m] = Cardinality(Into(E, m, left))
    BY <1>1, <1>2, <1>3 DEF Round
  <2> QED BY <1>2, <1>4, <2>1, IntoSplits
<1>11. Inverses(q, t, done \cup {n}, (next - 1)..(sz - 1))
  <2>1. ASSUME NEW m \in done \cup {n} PROVE q[m] \in (next - 1)..(sz - 1) /\ t[q[m]] = m
    <3>1. CASE m = n
      BY <1>6, <1>9, <3>1
    <3>2. CASE m # n
      <4>1. m \in done /\ r[p[m]] = m
        BY <1>3, <2>1, <3>2 DEF Inverses
      <4> QED BY <1>6, <1>8, <4>1
    <3> QED BY <3>1, <3>2
  <2>2. ASSUME NEW i \in (next - 1)..(sz - 1) PROVE t[i] \in done \cup {n} /\ q[t[i]] = i
    <3>1. CASE i = next - 1
      BY <1>9, <3>1
    <3>2. CASE i # next - 1
      <4>1. i \in next..(sz - 1)
        BY <1>6, <3>2
      <4>2. t[i] = r[i] /\ r[i] \in done /\ p[r[i]] = i
        BY <1>3, <4>1 DEF Inverses
      <4> QED BY <1>8, <4>2
    <3> QED BY <3>1, <3>2
  <2> QED BY <2>1, <2>2 DEF Inverses
<1>12. list2 = {m \in more : Into(E, m, more) = {}}
  <2>1. ASSUME NEW m \in N PROVE m \in list2 <=> m \in more /\ Into(E, m, more) = {}
    <3>1. m \in list2 <=> \/ m \in list /\ m # n
                          \/ /\ Into(E, m, {n}) # {}
                             /\ p[m] - Cardinality(Into(E, m, {n})) = 0
      BY <1>1, <2>1 DEF Round
    <3>2. CASE m = n
      <4>1. Into(E, m, {n}) = {}
        BY <1>4, <3>2 DEF Into
      <4> QED BY <1>2, <3>1, <3>2, <4>1
    <3>3. CASE m \in done
      BY <1>2, <1>3, <1>7, <3>1, <3>3
    <3>4. CASE m \in more
      <4>1. p[m] = Cardinality(Into(E, m, left))
        BY <1>2, <1>3, <3>4
      <4>2. /\ Cardinality(Into(E, m, {n})) \in Nat
            /\ IsFiniteSet(Into(E, m, more)) /\ Cardinality(Into(E, m, more)) \in Nat
            /\ Cardinality(Into(E, m, more)) = p[m] - Cardinality(Into(E, m, {n}))
        <5>1. Into(E, m, more) \in SUBSET E
          BY DEF Into
        <5>2. IsFiniteSet(Into(E, m, more))
          BY <5>1, FS_Subset
        <5>3. /\ Cardinality(Into(E, m, {n})) \in Nat
              /\ Cardinality(Into(E, m, left \ {n})) \in Nat
              /\ Cardinality(Into(E, m, left \ {n}))
                   = Cardinality(Into(E, m, left)) - Cardinality(Into(E, m, {n}))
          <6>1. n \in left
            BY <1>4
          <6> QED BY <6>1, IntoSplits
        <5> QED BY <1>2, <4>1, <5>2, <5>3
      <4>3. Cardinality(Into(E, m, more)) = 0 <=> Into(E, m, more) = {}
        BY <4>2, FS_EmptySet
      <4>4. Into(E, m, left) = Into(E, m, {n}) \cup Into(E, m, more)
        BY <1>2, <1>4 DEF Into
      <4>5. m \in list <=> Into(E, m, left) = {}
        BY <1>2, <1>3, <3>4
      <4> QED BY <1>2, <3>1, <3>4, <4>2, <4>3, <4>4, <4>5
    <3> QED BY <1>2, <2>1, <3>2, <3>3, <3>4
  <2>2. list2 \subseteq N
    BY <1>1, <1>2, <1>3 DEF Round
  <2> QED BY <1>2, <2>1, <2>2
<1>13. ASSUME NEW e \in E, From(e) \in done \cup {n}
       PROVE  To(e) \in done \cup {n} /\ q[From(e)] < q[To(e)]
  <2>1. CASE From(e) = n
    <3>1. To(e) \in N
      BY <1>1 DEF EndsIn
    <3>2. To(e) \in done
      BY <1>2, <1>4, <2>1, <3>1 DEF Into
    <3> QED BY <1>6, <1>8, <1>9, <2>1, <3>2
  <2>2. CASE From(e) # n
    <3>1. From(e) \in done /\ To(e) \in done /\ p[From(e)] < p[To(e)]
      BY <1>3, <1>13, <2>2
    <3> QED BY <1>8, <3>1
  <2> QED BY <2>1, <2>2
<1>14. N \ (done \cup {n}) = more /\ done \cup {n} \subseteq N
  BY <1>2, <1>3, <1>4
<1> QED BY <1>1, <1>6, <1>10, <1>11, <1>12, <1>13, <1>14 DEF Allocated

\* Without cycles some node has no edge to one that is left, so the work list is not
\* empty before all nodes have an index.
LEMMA NoneLeft ==
  ASSUME NEW sz, NEW E, NEW p, NEW r, GraphOK(sz, E, p, r),
         NEW done, NEW next, Allocated(done, sz, E, p, r, next, {})
  PROVE  Ordered(E, p, r, 0..(sz - 1))
<1>1. PICK N : N = 0..(sz - 1)
  OBVIOUS
<1>2. PICK rank \in [N -> Slots] : Ranked(rank, E)
  BY <1>1 DEF GraphOK
<1>3. /\ sz \in Nat /\ \A e \in E : From(e) \in N /\ To(e) \in N
  BY <1>1, Ends
<1>4. N \subseteq done
  <2> SUFFICES ASSUME N \ done # {} PROVE FALSE
    OBVIOUS
  <2>1. PICK T : T = {MaxNodes - rank[m] : m \in N \ done}
    OBVIOUS
  <2>2. \A m \in N : rank[m] \in Int /\ MaxNodes - rank[m] \in Nat
    BY <1>2, TopologicalAssumption DEF Slots
  <2>3. T \in SUBSET Nat /\ T # {}
    BY <2>1, <2>2
  <2>4. PICK least \in T : \A k \in T : least <= k
    BY <2>3, LeastNat
  <2>5. PICK m \in N \ done : least = MaxNodes - rank[m]
    BY <2>1
  <2>6. \A k \in N \ done : rank[k] <= rank[m]
    <3> SUFFICES ASSUME NEW k \in N \ done PROVE rank[k] <= rank[m]
      OBVIOUS
    <3>1. MaxNodes - rank[m] <= MaxNodes - rank[k]
      BY <2>1, <2>4, <2>5
    <3> QED BY <2>2, <3>1, TopologicalAssumption
  <2>7. Into(E, m, N \ done) = {}
    <3> SUFFICES ASSUME NEW e \in E, From(e) = m, To(e) \in N \ done PROVE FALSE
      BY DEF Into
    <3>1. rank[m] < rank[To(e)] /\ rank[To(e)] <= rank[m]
      BY <1>2, <2>6 DEF Ranked
    <3> QED BY <2>2, <3>1
  <2> QED BY <1>1, <2>5, <2>7 DEF Allocated
<1>5. done = N /\ next = 0
  <2>1. done = N
    BY <1>1, <1>4 DEF Allocated
  <2>2. Cardinality(N) = sz
    BY <1>1, <1>3, UpTo
  <2> QED BY <1>3, <2>1, <2>2 DEF Allocated
<1>6. Inverses(p, r, N, N)
  BY <1>1, <1>5 DEF Allocated
<1>7. Ranked(p, E)
  BY <1>3, <1>5 DEF Ranked, Allocated
<1> QED BY <1>1, <1>6, <1>7 DEF Ordered
LEMMA CountDegreesStarts ==
  ASSUME TInv, CountDegrees
  PROVE  TInv'
<1>1. PICK N : N = 0..(size - 1) /\ N = NodeNums
  BY DEF NodeNums
<1>2. /\ GraphOK(size, edges, node2Index, index2Node)
      /\ phase' = "allocate" /\ size' = size /\ edges' = edges /\ index2Node' = index2Node
      /\ id' = size
  BY DEF TInv, CountDegrees
<1>3. size \in Nat /\ N \subseteq Slots /\ IsFiniteSet(edges)
  BY <1>1, <1>2, Ends DEF GraphOK
<1>4. PICK q : q = node2Index'
  OBVIOUS
<1>5. DOMAIN q = Slots
  BY <1>4 DEF CountDegrees
<1>6. ASSUME NEW n \in N
      PROVE  /\ Degree(n) = Cardinality(Into(edges, n, N)) /\ q[n] = Degree(n)
             /\ Degree(n) = 0 <=> Into(edges, n, N) = {}
  <2>1. Into(edges, n, N) \in SUBSET edges
    BY DEF Into
  <2>2. IsFiniteSet(Into(edges, n, N))
    BY <1>3, <2>1, FS_Subset
  <2>3. Degree(n) = Cardinality(Into(edges, n, N))
    BY <1>1 DEF Degree, EdgesInto, Into
  <2>4. q[n] = Degree(n)
    BY <1>1, <1>3, <1>4, <1>6 DEF CountDegrees
  <2> QED BY <2>2, <2>3, <2>4, FS_EmptySet
<1>7. workList' = {n \in N : Into(edges, n, N) = {}}
  BY <1>1, <1>6 DEF CountDegrees
<1>8. Allocated({}, size, edges, q, index2Node, size, workList')
  <2>1. N \ {} = N /\ size = size - Cardinality({})
    BY <1>3, FS_EmptySet
  <2>2. Inverses(q, index2Node, {}, size..(size - 1))
    BY <1>3 DEF Inverses
  <2> QED BY <1>1, <1>6, <1>7, <2>1, <2>2 DEF Allocated
<1>9. GraphOK(size, edges, q, index2Node)
  BY <1>2, <1>5 DEF GraphOK
<1> QED BY <1>2, <1>4, <1>8, <1>9 DEF TInv

LEMMA AllocateNextKeeps ==
  ASSUME TInv, NEW n \in workList, AllocateNext(n)
  PROVE  TInv'
<1>1. PICK N : N = 0..(size - 1) /\ N = NodeNums
  BY DEF NodeNums
<1>2. /\ GraphOK(size, edges, node2Index, index2Node)
      /\ phase = "allocate" /\ phase' = phase /\ size' = size /\ edges' = edges /\ id' = id - 1
  BY DEF TInv, AllocateNext
<1>3. PICK done : Allocated(done, size, edges, node2Index, index2Node, id, workList)
  BY <1>2 DEF TInv
<1>4. /\ size \in Nat /\ N \subseteq Slots /\ IsFiniteSet(edges) /\ EndsIn(edges, N)
      /\ DOMAIN node2Index = Slots /\ DOMAIN index2Node = Slots
  BY <1>1, <1>2, Ends DEF GraphOK, EndsIn
<1>5. id \in Int /\ id - 1 \in N
  BY <1>1, <1>3, <1>4, FreeIndex DEF Frees
<1>6. PICK q, t, list2 : q = node2Index' /\ t = index2Node' /\ list2 = workList'
  OBVIOUS
<1>7. DOMAIN q = Slots /\ DOMAIN t = Slots
  BY <1>4, <1>6 DEF AllocateNext
<1>8. t[id - 1] = n /\ \A i \in id..(size - 1) : t[i] = index2Node[i]
  <2>1. t = [index2Node EXCEPT ![id - 1] = n]
    BY <1>6 DEF AllocateNext
  <2>2. \A i \in id..(size - 1) : i # id - 1
    BY <1>4, <1>5
  <2>3. \A i \in id..(size - 1) : i \in N
    BY <1>1, <1>4, <1>5
  <2> QED BY <1>4, <1>5, <2>1, <2>2, <2>3
<1>9. Round(n, edges, N, node2Index, id, workList, q, list2)
  <2>1. \A m \in N : EdgesInto(m, {n}) = Into(edges, m, {n})
    BY DEF EdgesInto, Into
  <2>2. ASSUME NEW m \in N
        PROVE  q[m] = IF m = n THEN id - 1 ELSE node2Index[m] - Cardinality(Into(edges, m, {n}))
    BY <1>1, <1>4, <1>6, <2>1, <2>2 DEF AllocateNext, DegreeLeft
  <2>3. \A m \in N : DegreeLeft(m, n) = node2Index[m] - Cardinality(Into(edges, m, {n}))
    BY <2>1 DEF DegreeLeft
  <2>4. list2 = (workList \ {n}) \cup
                  {m \in N : EdgesInto(m, {n}) # {} /\ DegreeLeft(m, n) = 0}
    BY <1>1, <1>6 DEF AllocateNext
  <2>5. list2 = (workList \ {n}) \cup
                  {m \in N : /\ Into(edges, m, {n}) # {}
                             /\ node2Index[m] - Cardinality(Into(edges, m, {n})) = 0}
    BY <2>1, <2>3, <2>4
  <2> QED BY <2>2, <2>5 DEF Round
<1>10. Allocated(done \cup {n}, size, edges, q, t, id - 1, list2)
  BY <1>1, <1>3, <1>4, <1>8, <1>9, RoundAllocates
<1>11. GraphOK(size, edges, q, t)
  BY <1>2, <1>7 DEF GraphOK
<1> QED BY <1>2, <1>6, <1>10, <1>11 DEF TInv

LEMMA InitDoneOrders ==
  ASSUME TInv, InitDone
  PROVE  TInv'
<1>1. /\ GraphOK(size, edges, node2Index, index2Node)
      /\ phase = "allocate" /\ phase' = "ready" /\ workList = {}
      /\ UNCHANGED <<size, edges, node2Index, index2Node>>
  BY DEF TInv, InitDone
<1>2. PICK done : Allocated(done, size, edges, node2Index, index2Node, id, {})
  BY <1>1 DEF TInv
<1>3. Ordered(edges, node2Index, index2Node, 0..(size - 1))
  BY <1>1, <1>2, NoneLeft
<1> QED BY <1>1, <1>3 DEF TInv

-----------------------------------------------------------------------------
(***************************************************************************)
(* The other edits.                                                        *)
(***************************************************************************)
LEMMA RemovePredKeepsOrder ==
  ASSUME TInv, NEW e \in edges, TopoRemovePred(e)
  PROVE  TInv'
<1>1. PICK N : N = 0..(size - 1)
  OBVIOUS
<1>2. /\ GraphOK(size, edges, node2Index, index2Node)
      /\ phase = "ready" /\ Ordered(edges, node2Index, index2Node, N)
      /\ edges' = edges \ {e}
      /\ UNCHANGED <<size, phase, node2Index, index2Node>>
  BY <1>1 DEF TInv, TopoRemovePred
<1>3. PICK F : F = edges'
  OBVIOUS
<1>4. F \in SUBSET edges /\ IsFiniteSet(edges) /\ edges \subseteq N \X N \X Kinds
  BY <1>1, <1>2, <1>3 DEF GraphOK
<1>5. IsFiniteSet(F) /\ F \subseteq N \X N \X Kinds
  BY <1>4, FS_Subset
<1>6. Ordered(F, node2Index, index2Node, N)
  BY <1>2, <1>4 DEF Ordered, Ranked
<1>7. GraphOK(size, F, node2Index, index2Node)
  <2>1. DOMAIN node2Index = Slots /\ DOMAIN index2Node = Slots
    BY <1>2 DEF GraphOK
  <2> QED BY <1>1, <1>2, <1>5, <1>6, <2>1, OrderedOK
<1> QED BY <1>1, <1>2, <1>3, <1>6, <1>7 DEF TInv

\* The new node has no edges, so any rank will do for it.
LEMMA CreateNodeKeeps ==
  ASSUME TInv, CreateNode
  PROVE  TInv'
<1>1. PICK N, M : N = 0..(size - 1) /\ M = 0..size
  OBVIOUS
<1>2. /\ GraphOK(size, edges, node2Index, index2Node)
      /\ phase' = "init" /\ size' = size + 1 /\ size < MaxNodes
      /\ UNCHANGED <<edges, node2Index, index2Node>>
  BY DEF TInv, CreateNode
<1>3. /\ size \in Nat /\ N \subseteq M /\ 0 \in Slots /\ size + 1 \in 1..MaxNodes
      /\ \A e \in edges : From(e) \in N /\ To(e) \in N
  <2>1. /\ size \in Nat /\ size > 0 /\ 0..(size - 1) \subseteq Slots
        /\ \A e \in edges : From(e) \in N /\ To(e) \in N
    BY <1>1, <1>2, Ends
  <2> QED BY <1>1, <1>2, <2>1, TopologicalAssumption
<1>4. PICK rank \in [N -> Slots] : Ranked(rank, edges)
  BY <1>1, <1>2 DEF GraphOK
<1>5. PICK wider : wider = [n \in M |-> IF n \in N THEN rank[n] ELSE 0]
  OBVIOUS
<1>6. wider \in [M -> Slots]
  BY <1>3, <1>4, <1>5
<1>7. Ranked(wider, edges)
  BY <1>3, <1>4, <1>5 DEF Ranked
<1>8. edges \subseteq M \X M \X Kinds /\ IsFiniteSet(edges)
  BY <1>1, <1>2, <1>3 DEF GraphOK
<1>9. M = 0..(size' - 1) /\ size' \in 1..MaxNodes
  BY <1>1, <1>2, <1>3
<1>10. GraphOK(size', edges', node2Index', index2Node')
  BY <1>2, <1>6, <1>7, <1>8, <1>9 DEF GraphOK
<1> QED BY <1>2, <1>10 DEF TInv

LEMMA InitOK ==
  ASSUME TopoInit
  PROVE  TInv
<1>1. PICK N : N = 0..(size - 1) /\ N = NodeNums
  BY DEF NodeNums
<1>2. size \in 1..MaxNodes /\ size \in Nat
  BY TopologicalAssumption DEF TopoInit
<1>3. IsFiniteSet(N)
  BY <1>1, <1>2, UpTo
<1>4. PICK P, Q, T : P = N \X N /\ Q = P \X Kinds /\ T = N \X N \X Kinds
  OBVIOUS
<1>5. IsFiniteSet(Q)
  BY <1>3, <1>4, FS_Product, TopologicalAssumption
<1>6. PICK f : f = [w \in Q |-> <<w[1][1], w[1][2], w[2]>>]
  OBVIOUS
<1>7. f \in Surjection(Q, T)
  <2>1. f \in [Q -> T]
    BY <1>4, <1>6
  <2>2. \A e \in T : \E w \in Q : f[w] = e
    <3> SUFFICES ASSUME NEW e \in T PROVE \E w \in Q : f[w] = e
      OBVIOUS
    <3>1. PICK w : w = << <<e[1], e[2]>>, e[3] >>
      OBVIOUS
    <3>2. w \in Q /\ f[w] = e
      BY <1>4, <1>6, <3>1
    <3> QED BY <3>2
  <2> QED BY <2>1, <2>2 DEF Surjection
<1>8. IsFiniteSet(T)
  BY <1>5, <1>7, FS_Surjection
<1>9. edges \in SUBSET T
  BY <1>1, <1>4 DEF TopoInit
<1>10. IsFiniteSet(edges)
  BY <1>8, <1>9, FS_Subset
<1>11. /\ phase = "init" /\ DOMAIN node2Index = Slots /\ DOMAIN index2Node = Slots
       /\ \E rank \in [N -> Slots] : Ranked(rank, edges)
  BY <1>1 DEF TopoInit
<1>12. GraphOK(size, edges, node2Index, index2Node)
  BY <1>1, <1>2, <1>4, <1>9, <1>10, <1>11 DEF GraphOK
<1> QED BY <1>11, <1>12 DEF TInv

\* The invariant of the rebuild and of the order it leaves.
THEOREM TopoInvariance == TopoSpec => []TInv
<1>1. TopoInit => TInv
  BY InitOK
<1>2. TInv /\ [TopoNext]_topoVars => TInv'
  <2> SUFFICES ASSUME TInv, [TopoNext]_topoVars PROVE TInv'
    OBVIOUS
  <2>1. CASE CountDegrees
    BY <2>1, CountDegreesStarts
  <2>2. CASE \E n \in workList : AllocateNext(n)
    BY <2>2, AllocateNextKeeps
  <2>3. CASE InitDone
    BY <2>3, InitDoneOrders
  <2>4. CASE \E x, y \in NodeNums, k \in Kinds : TopoAddPred(x, y, k)
    BY <2>4, AddPredKeepsOrder
  <2>5. CASE \E e \in edges : TopoRemovePred(e)
    BY <2>5, RemovePredKeepsOrder
  <2>6. CASE CreateNode
    BY <2>6, CreateNodeKeeps
  <2>7. CASE UNCHANGED topoVars
    BY <2>7 DEF topoVars, TInv
  <2> QED BY <2>1, <2>2, <2>3, <2>4, <2>5, <2>6, <2>7 DEF TopoNext
<1> QED BY <1>1, <1>2, PTL DEF TopoSpec

\* After any sequence of insertions, deletions and rebuilds every edge goes up in the
\* order, and Node2Index and Index2Node are inverse to each other.
THEOREM OrderIsTopological == TopoSpec => []TopologicalOrder
<1>1. TInv => TopologicalOrder
  BY DEF TInv, TopologicalOrder, Ordered, Inverses, NodeNums
<1> QED BY <1>1, TopoInvariance, PTL

-----------------------------------------------------------------------------
(***************************************************************************)
(* The graph stays one without cycles.                                     *)
(***************************************************************************)
LEMMA GraphIsAcyclic ==
  ASSUME NEW sz, NEW E, NEW p, NEW r, GraphOK(sz, E, p, r)
  PROVE  /\ sz \in 1..MaxNodes
         /\ E \subseteq (0..(sz - 1)) \X (0..(sz - 1)) \X Kinds
         /\ Graph!Acyclic(0..(sz - 1), E)
BY DEF GraphOK, Graph!Acyclic, Ranked, From, To, Slots

LEMMA EditsAreSteps ==
  ASSUME TInv, TInv', TopoNext
  PROVE  Graph!Next \/ UNCHANGED <<size, edges>>
<1>1. /\ GraphOK(size, edges, node2Index, index2Node)
      /\ GraphOK(size', edges', node2Index', index2Node')
  BY DEF TInv
<1>2. CASE CountDegrees \/ (\E n \in workList : AllocateNext(n)) \/ InitDone
  BY <1>2 DEF CountDegrees, AllocateNext, InitDone
<1>3. ASSUME NEW x \in NodeNums, NEW y \in NodeNums, NEW k \in Kinds, TopoAddPred(x, y, k)
      PROVE  Graph!Next
  <2>1. edges' = edges \cup {<<x, y, k>>} /\ size' = size
    BY <1>3 DEF TopoAddPred
  <2>2. Graph!Acyclic(NodeNums, edges')
    BY <1>1, <2>1, GraphIsAcyclic DEF NodeNums
  <2>3. Graph!Insert(x, y, k)
    BY <2>1, <2>2 DEF Graph!Insert, Graph!NodeNums, NodeNums
  <2> QED BY <2>3 DEF Graph!Next, Graph!NodeNums, NodeNums
<1>4. ASSUME NEW e \in edges, TopoRemovePred(e) PROVE Graph!Next
  <2>1. Graph!Remove(e)
    BY <1>4 DEF TopoRemovePred, Graph!Remove
  <2> QED BY <2>1 DEF Graph!Next
<1>5. CASE CreateNode
  BY <1>5 DEF CreateNode, Graph!Next, Graph!Grow
<1> QED BY <1>2, <1>3, <1>4, <1>5 DEF TopoNext

\* Whatever the scheduler inserts after asking IsReachable, no edge closes a cycle:
\* the order implements AcyclicGraph.
THEOREM EditsKeepAcyclic == TopoSpec => StaysAcyclic
<1>1. TInv => Graph!Acyclic(NodeNums, edges)
  BY GraphIsAcyclic DEF TInv, NodeNums
<1>2. TopoInit => Graph!Init
  <2> SUFFICES ASSUME TopoInit PROVE Graph!Init
    OBVIOUS
  <2>1. GraphOK(size, edges, node2Index, index2Node)
    BY InitOK DEF TInv
  <2> QED BY <2>1, GraphIsAcyclic DEF Graph!Init, Graph!NodeNums, NodeNums
<1>3. TInv /\ TInv' /\ [TopoNext]_topoVars => [Graph!Next]_<<size, edges>>
  BY EditsAreSteps DEF topoVars
<1> QED BY <1>2, <1>3, TopoInvariance, PTL DEF TopoSpec, StaysAcyclic, Graph!Spec

-----------------------------------------------------------------------------
(***************************************************************************)
(* IsReachable.  PathStep and Firsts are those of Paths; the rounds are    *)
(* numbered by how much longer a path may be.                              *)
(***************************************************************************)
PathStep(P) ==
  P \cup {<<From(q[1]), q[2][2]>> : q \in {q \in edges \X P : To(q[1]) = q[2][1]}}

Firsts == {<<From(e), To(e)>> : e \in edges}

Longer(f) == f[0] = Firsts /\ \A i \in Nat : i < MaxNodes => f[i + 1] = PathStep(f[i])

Pairs == NodeNums \X NodeNums

\* What can be led to from where P leads to can be led to one edge earlier.
Prepends(P) == \A e \in edges : \A w \in P : w[1] = To(e) => <<From(e), w[2]>> \in P

LEMMA PairIs ==
  ASSUME NEW x, NEW y
  PROVE  \E w : w = <<x, y>> /\ w[1] = x /\ w[2] = y
<1>1. PICK w : w = <<x, y>>
  OBVIOUS
<1>2. w[1] = x /\ w[2] = y
  BY <1>1
<1> QED BY <1>1, <1>2

LEMMA PathStepIs ==
  ASSUME NEW P \in SUBSET Pairs, \A e \in edges : From(e) \in NodeNums
  PROVE  /\ P \subseteq PathStep(P) /\ PathStep(P) \in SUBSET Pairs
         /\ \A e \in edges : \A w \in P : w[1] = To(e) => <<From(e), w[2]>> \in PathStep(P)
         /\ \A v \in PathStep(P) :
              v \in P \/ \E e \in edges : \E w \in P : w[1] = To(e) /\ v = <<From(e), w[2]>>
<1>1. ASSUME NEW e \in edges, NEW w \in P, w[1] = To(e) PROVE <<From(e), w[2]>> \in PathStep(P)
  <2>1. PICK q : q = <<e, w>>
    OBVIOUS
  <2>2. q \in edges \X P /\ q[1] = e /\ q[2] = w
    BY <2>1
  <2> QED BY <1>1, <2>2 DEF PathStep
<1>2. ASSUME NEW v \in PathStep(P), v \notin P
      PROVE  \E e \in edges : \E w \in P : w[1] = To(e) /\ v = <<From(e), w[2]>>
  <2>1. PICK q \in edges \X P : To(q[1]) = q[2][1] /\ v = <<From(q[1]), q[2][2]>>
    BY <1>2 DEF PathStep
  <2>2. PICK e, w : e = q[1] /\ w = q[2]
    OBVIOUS
  <2>3. e \in edges /\ w \in P
    BY <2>2
  <2> QED BY <2>1, <2>2, <2>3
<1>3. P \subseteq PathStep(P)
  BY DEF PathStep
<1>4. ASSUME NEW v \in PathStep(P) PROVE v \in Pairs
  <2>1. CASE v \in P
    BY <2>1
  <2>2. CASE v \notin P
    <3>1. PICK e \in edges, w \in P : v = <<From(e), w[2]>>
      BY <1>2, <2>2
    <3>2. w \in NodeNums \X NodeNums
      BY DEF Pairs
    <3> QED BY <3>1, <3>2 DEF Pairs
  <2> QED BY <2>1, <2>2
<1> QED BY <1>1, <1>2, <1>3, <1>4

LEMMA FirstsArePairs ==
  ASSUME \A e \in edges : From(e) \in NodeNums /\ To(e) \in NodeNums
  PROVE  Firsts \in SUBSET Pairs
BY DEF Firsts, Pairs

LEMMA PathsFollow ==
  ASSUME \A e \in edges : From(e) \in NodeNums /\ To(e) \in NodeNums
  PROVE  \E f : Longer(f) /\ Paths = f[MaxNodes]
<1>0. MaxNodes \in Nat
  BY TopologicalAssumption
<1> DEFINE IsReach(p) == p = [i \in 0..MaxNodes |-> IF i = 0 THEN Firsts ELSE PathStep(p[i - 1])]
           Reach == CHOOSE p : IsReach(p)
<1>1. Paths = Reach[MaxNodes]
  BY DEF Paths, Firsts, PathStep
<1>2. \E p : IsReach(p)
  <2>1. PICK step : step = [P \in SUBSET Pairs |-> PathStep(P)]
    OBVIOUS
  <2>2. PICK f : Iteration(f, Firsts, step)
    BY IterationExists
  <2>3. PICK T : T = {i \in Nat : f[i] \in SUBSET Pairs}
    OBVIOUS
  <2>4. 0 \in T
    BY <2>2, <2>3, FirstsArePairs DEF Iteration
  <2>5. ASSUME NEW i \in Nat, i \in T PROVE i + 1 \in T
    <3>1. f[i] \in SUBSET Pairs /\ f[i + 1] = step[f[i]]
      BY <2>2, <2>3, <2>5 DEF Iteration
    <3>2. f[i + 1] \in SUBSET Pairs
      BY <2>1, <3>1, PathStepIs
    <3> QED BY <2>3, <3>2
  <2>6. \A i \in Nat : f[i] \in SUBSET Pairs
    BY <2>3, <2>4, <2>5, InductionInSet
  <2>7. \A i \in Nat : f[i + 1] = PathStep(f[i])
    BY <2>1, <2>2, <2>6 DEF Iteration
  <2>8. PICK p : p = [i \in 0..MaxNodes |-> f[i]]
    OBVIOUS
  <2>9. ASSUME NEW i \in 0..MaxNodes
        PROVE  f[i] = IF i = 0 THEN Firsts ELSE PathStep(p[i - 1])
    <3>1. CASE i = 0
      BY <2>2, <3>1 DEF Iteration
    <3>2. CASE i # 0
      <4>1. PICK j \in Nat : i = j + 1 /\ i - 1 = j /\ j \in 0..MaxNodes
        BY <1>0, <3>2
      <4>2. p[i - 1] = f[j] /\ f[i] = PathStep(f[j])
        BY <2>7, <2>8, <4>1
      <4> QED BY <3>2, <4>2
    <3> QED BY <3>1, <3>2
  <2>10. IsReach(p)
    BY <2>8, <2>9
  <2> HIDE DEF IsReach
  <2> QED BY <2>10
<1> HIDE DEF IsReach
<1>3. IsReach(Reach)
  BY <1>2
<1> HIDE DEF Reach
<1>4. Reach[0] = Firsts
  BY <1>0, <1>3 DEF IsReach
<1>5. ASSUME NEW i \in Nat, i < MaxNodes PROVE Reach[i + 1] = PathStep(Reach[i])
  <2>1. PICK j \in 0..MaxNodes : j = i + 1 /\ j # 0 /\ j - 1 = i
    BY <1>0, <1>5
  <2>2. Reach[j] = PathStep(Reach[j - 1])
    BY <1>3, <2>1 DEF IsReach
  <2> QED BY <2>1, <2>2
<1>6. Longer(Reach)
  BY <1>4, <1>5 DEF Longer
<1> QED BY <1>1, <1>6

Rises(w) == node2Index[w[1]] < node2Index[w[2]]

\* Paths is the least set that has the edges and is closed under an edge in front: along
\* a path the indices rise, so there is none longer than the rounds allow for.
LEMMA PathsIs ==
  ASSUME size \in 1..MaxNodes, \A e \in edges : From(e) \in NodeNums /\ To(e) \in NodeNums,
         \A n \in NodeNums : node2Index[n] \in NodeNums,
         \A e \in edges : node2Index[From(e)] < node2Index[To(e)],
         NEW P, P = Paths
  PROVE  /\ P \in SUBSET Pairs /\ Firsts \subseteq P /\ Prepends(P)
         /\ \A w \in P : Rises(w)
         /\ \A R : Firsts \subseteq R /\ Prepends(R) => P \subseteq R
<1>0. /\ MaxNodes \in Nat /\ size \in Nat /\ size <= MaxNodes /\ MaxNodes > 0
      /\ \A n \in NodeNums : /\ node2Index[n] \in Nat /\ node2Index[n] < size
  BY TopologicalAssumption DEF NodeNums
<1>1. PICK f : Longer(f) /\ P = f[MaxNodes]
  BY PathsFollow
<1>2. /\ f[0] = Firsts
      /\ \A i \in Nat : i < MaxNodes => f[i + 1] = PathStep(f[i])
  BY <1>1 DEF Longer
<1>3. \A i \in Nat : i <= MaxNodes => f[i] \in SUBSET Pairs
  <2>1. PICK T : T = {i \in Nat : i <= MaxNodes => f[i] \in SUBSET Pairs}
    OBVIOUS
  <2>2. 0 \in T
    BY <1>2, <2>1, FirstsArePairs
  <2>3. ASSUME NEW i \in Nat, i \in T, i < MaxNodes PROVE i + 1 \in T
    <3>1. f[i] \in SUBSET Pairs /\ f[i + 1] = PathStep(f[i])
      BY <1>0, <1>2, <2>1, <2>3
    <3>2. f[i + 1] \in SUBSET Pairs
      BY <3>1, PathStepIs
    <3> QED BY <2>1, <3>2
  <2>4. ASSUME NEW i \in Nat, i \in T PROVE i + 1 \in T
    BY <1>0, <2>1, <2>3, <2>4
  <2> QED BY <2>1, <2>2, <2>4, InductionInSet
<1>4. ASSUME NEW i \in Nat, i < MaxNodes
      PROVE  /\ f[i] \in SUBSET Pairs /\ f[i] \subseteq f[i + 1]
             /\ \A e \in edges : \A w \in f[i] : w[1] = To(e) => <<From(e), w[2]>> \in f[i + 1]
             /\ \A v \in f[i + 1] :
                  \/ v \in f[i]
                  \/ \E e \in edges : \E w \in f[i] : w[1] = To(e) /\ v = <<From(e), w[2]>>
  <2>1. f[i] \in SUBSET Pairs /\ f[i + 1] = PathStep(f[i])
    BY <1>0, <1>2, <1>3, <1>4
  <2> QED BY <2>1, PathStepIs
<1>5. \A i \in Nat : i <= MaxNodes => Firsts \subseteq f[i]
  <2>1. PICK T : T = {i \in Nat : i <= MaxNodes => Firsts \subseteq f[i]}
    OBVIOUS
  <2>2. 0 \in T
    BY <1>2, <2>1
  <2>3. ASSUME NEW i \in Nat, i \in T PROVE i + 1 \in T
    <3>1. CASE i < MaxNodes
      BY <1>0, <1>4, <2>1, <2>3, <3>1
    <3>2. CASE ~(i < MaxNodes)
      BY <1>0, <2>1, <3>2
    <3> QED BY <3>1, <3>2
  <2> QED BY <2>1, <2>2, <2>3, InductionInSet
<1>6. \A w \in Firsts : Rises(w)
  BY DEF Firsts, Rises
<1>7. \A i \in Nat : i <= MaxNodes => \A w \in f[i] : Rises(w)
  <2>1. PICK T : T = {i \in Nat : i <= MaxNodes => \A w \in f[i] : Rises(w)}
    OBVIOUS
  <2>2. 0 \in T
    BY <1>2, <1>6, <2>1
  <2>3. ASSUME NEW i \in Nat, i \in T, i < MaxNodes, NEW v \in f[i + 1] PROVE Rises(v)
    <3>1. CASE v \in f[i]
      BY <1>0, <2>1, <2>3, <3>1
    <3>2. CASE v \notin f[i]
      <4>1. PICK e \in edges, w \in f[i] : w[1] = To(e) /\ v = <<From(e), w[2]>>
        BY <1>4, <2>3, <3>2
      <4>2. Rises(w) /\ v[1] = From(e) /\ v[2] = w[2] /\ w \in Pairs
        BY <1>0, <1>4, <2>1, <2>3, <4>1
      <4>3. /\ w[2] \in NodeNums /\ node2Index[To(e)] < node2Index[w[2]]
            /\ node2Index[From(e)] < node2Index[To(e)]
        BY <4>1, <4>2 DEF Rises, Pairs
      <4>4. node2Index[From(e)] < node2Index[w[2]]
        BY <1>0, <4>3
      <4> QED BY <4>2, <4>4 DEF Rises
    <3> QED BY <3>1, <3>2
  <2>4. ASSUME NEW i \in Nat, i \in T PROVE i + 1 \in T
    BY <1>0, <2>1, <2>3, <2>4
  <2> QED BY <2>1, <2>2, <2>4, InductionInSet
<1>8. \A j \in Nat : j <= MaxNodes =>
        \A w \in f[j] : \A i \in Nat :
           i <= MaxNodes /\ node2Index[w[2]] - node2Index[w[1]] <= i + 1 => w \in f[i]
  <2> DEFINE Short(j) ==
        \A w \in f[j] : \A i \in Nat :
           i <= MaxNodes /\ node2Index[w[2]] - node2Index[w[1]] <= i + 1 => w \in f[i]
  <2>1. PICK T : T = {j \in Nat : j <= MaxNodes => Short(j)}
    OBVIOUS
  <2>2. Short(0)
    BY <1>2, <1>5
  <2>3. ASSUME NEW j \in Nat, j < MaxNodes, Short(j) PROVE Short(j + 1)
    <3> SUFFICES ASSUME NEW v \in f[j + 1], NEW i \in Nat, i <= MaxNodes,
                        node2Index[v[2]] - node2Index[v[1]] <= i + 1
                 PROVE  v \in f[i]
      OBVIOUS
    <3>1. CASE v \in f[j]
      BY <2>3, <3>1
    <3>2. CASE v \notin f[j]
      <4>1. PICK e \in edges, w \in f[j] : w[1] = To(e) /\ v = <<From(e), w[2]>>
        BY <1>4, <2>3, <3>2
      <4>2. Rises(w) /\ v[1] = From(e) /\ v[2] = w[2] /\ w \in Pairs
        BY <1>0, <1>4, <1>7, <2>3, <4>1
      <4>3. /\ w[2] \in NodeNums /\ node2Index[To(e)] < node2Index[w[2]]
            /\ node2Index[From(e)] < node2Index[To(e)]
        BY <4>1, <4>2 DEF Rises, Pairs
      <4>4. /\ node2Index[w[2]] \in Nat /\ node2Index[To(e)] \in Nat
            /\ node2Index[From(e)] \in Nat
        BY <1>0, <4>3
      <4>5. PICK k \in Nat : i = k + 1
        <5>1. node2Index[w[2]] - node2Index[From(e)] <= i + 1
          BY <4>2
        <5>2. i # 0
          BY <4>3, <4>4, <5>1
        <5> QED BY <5>2
      <4>6. node2Index[w[2]] - node2Index[w[1]] <= k + 1 /\ k <= MaxNodes /\ k < MaxNodes
        BY <1>0, <4>1, <4>2, <4>3, <4>4, <4>5
      <4>7. w \in f[k]
        BY <2>3, <4>6
      <4>8. <<From(e), w[2]>> \in f[k + 1]
        BY <1>4, <4>1, <4>6, <4>7
      <4> QED BY <4>1, <4>5, <4>8
    <3> QED BY <3>1, <3>2
  <2> HIDE DEF Short
  <2>4. ASSUME NEW j \in Nat, j \in T PROVE j + 1 \in T
    BY <1>0, <2>1, <2>3, <2>4
  <2>5. \A j \in Nat : j <= MaxNodes => Short(j)
    BY <2>1, <2>2, <2>4, InductionInSet
  <2> QED BY <2>5 DEF Short
<1>9. PICK top \in Nat : MaxNodes = top + 1
  BY <1>0
<1>10. P \in SUBSET Pairs /\ Firsts \subseteq P /\ \A w \in P : Rises(w)
  BY <1>0, <1>1, <1>3, <1>5, <1>7
<1>11. ASSUME NEW w \in P PROVE w \in f[top]
  <2>1. w[1] \in NodeNums /\ w[2] \in NodeNums
    BY <1>10 DEF Pairs
  <2>2. node2Index[w[2]] - node2Index[w[1]] <= top + 1 /\ top <= MaxNodes
    BY <1>0, <1>9, <2>1
  <2> QED BY <1>0, <1>1, <1>8, <2>2
<1>12. ASSUME NEW e \in edges, NEW w \in P, w[1] = To(e) PROVE <<From(e), w[2]>> \in P
  <2>1. w \in f[top] /\ top < MaxNodes
    BY <1>9, <1>11
  <2>2. <<From(e), w[2]>> \in f[top + 1]
    BY <1>4, <1>12, <2>1
  <2> QED BY <1>1, <1>9, <2>2
<1>13. ASSUME NEW R, Firsts \subseteq R, Prepends(R) PROVE P \subseteq R
  <2>1. PICK T : T = {i \in Nat : i <= MaxNodes => f[i] \subseteq R}
    OBVIOUS
  <2>2. 0 \in T
    BY <1>2, <1>13, <2>1
  <2>3. ASSUME NEW i \in Nat, i < MaxNodes, f[i] \subseteq R PROVE f[i + 1] \subseteq R
    <3> SUFFICES ASSUME NEW v \in f[i + 1] PROVE v \in R
      OBVIOUS
    <3>1. CASE v \in f[i]
      BY <2>3, <3>1
    <3>2. CASE v \notin f[i]
      <4>1. PICK e \in edges, w \in f[i] : w[1] = To(e) /\ v = <<From(e), w[2]>>
        BY <1>4, <2>3, <3>2
      <4>2. w \in R
        BY <2>3
      <4> QED BY <1>13, <4>1, <4>2 DEF Prepends
    <3> QED BY <3>1, <3>2
  <2>4. ASSUME NEW i \in Nat, i \in T PROVE i + 1 \in T
    BY <1>0, <2>1, <2>3, <2>4
  <2>5. MaxNodes \in T
    BY <1>0, <2>2, <2>4, InductionInSet
  <2>6. f[MaxNodes] \subseteq R
    BY <1>0, <2>1, <2>5
  <2> QED BY <1>1, <2>6
<1> QED BY <1>10, <1>12, <1>13 DEF Prepends

\* So it is closed under an edge behind, too.
LEMMA PathsAppend ==
  ASSUME NEW P \in SUBSET Pairs, Firsts \subseteq P, Prepends(P),
         \A R : Firsts \subseteq R /\ Prepends(R) => P \subseteq R,
         NEW e \in edges, NEW w \in P, w[2] = From(e)
  PROVE  <<w[1], To(e)>> \in P
<1>1. PICK R : R = {v \in P : v[2] = From(e) => <<v[1], To(e)>> \in P}
  OBVIOUS
<1>2. Firsts \subseteq R
  <2> SUFFICES ASSUME NEW v \in Firsts PROVE v \in R
    OBVIOUS
  <2>1. PICK d \in edges : v = <<From(d), To(d)>> /\ v[1] = From(d) /\ v[2] = To(d)
    BY DEF Firsts
  <2>2. ASSUME To(d) = From(e) PROVE <<From(d), To(e)>> \in P
    <3>1. PICK u : u = <<From(e), To(e)>>
      OBVIOUS
    <3>2. u \in P /\ u[1] = From(e) /\ u[2] = To(e)
      BY <3>1 DEF Firsts
    <3> QED BY <2>2, <3>2 DEF Prepends
  <2> QED BY <1>1, <2>1, <2>2
<1>3. ASSUME NEW d \in edges, NEW v \in R, v[1] = To(d) PROVE <<From(d), v[2]>> \in R
  <2>1. PICK u : u = <<From(d), v[2]>> /\ u[1] = From(d) /\ u[2] = v[2]
    BY PairIs
  <2>2. u \in P
    BY <1>1, <1>3, <2>1 DEF Prepends
  <2>3. ASSUME v[2] = From(e) PROVE <<From(d), To(e)>> \in P
    <3>1. PICK x : x = <<v[1], To(e)>>
      OBVIOUS
    <3>2. x \in P /\ x[1] = To(d) /\ x[2] = To(e)
      BY <1>1, <1>3, <2>3, <3>1
    <3> QED BY <3>2 DEF Prepends
  <2> QED BY <1>1, <2>1, <2>2, <2>3
<1>4. P \subseteq R
  BY <1>2, <1>3 DEF Prepends
<1> QED BY <1>1, <1>4

\* Cut at the index of n, the search from target still meets n if a path leads there.
LEMMA SearchExact ==
  ASSUME TInv, phase = "ready", NEW n \in NodeNums, NEW target \in NodeNums,
         NEW P, P = Paths
  PROVE  IsReachable(n, target) <=> <<target, n>> \in P
<1>1. /\ size \in Nat /\ size \in 1..MaxNodes
      /\ \A e \in edges : From(e) \in NodeNums /\ To(e) \in NodeNums
  <2>1. GraphOK(size, edges, node2Index, index2Node)
    BY DEF TInv
  <2> QED BY <2>1, Ends DEF NodeNums, GraphOK
<1>2. /\ \A m \in NodeNums : node2Index[m] \in NodeNums /\ node2Index[m] \in Int
      /\ \A m, k \in NodeNums : node2Index[m] = node2Index[k] => m = k
      /\ \A e \in edges : node2Index[From(e)] < node2Index[To(e)]
  <2>1. Ordered(edges, node2Index, index2Node, NodeNums)
    BY DEF TInv, NodeNums
  <2>2. Numbers(node2Index, NodeNums) /\ \A e \in edges : node2Index[From(e)] < node2Index[To(e)]
    BY <2>1, OrderNumbers
  <2> QED BY <1>1, <2>2 DEF Numbers, NodeNums
<1>3. /\ P \in SUBSET Pairs /\ Firsts \subseteq P /\ Prepends(P)
      /\ \A w \in P : Rises(w)
      /\ \A R : Firsts \subseteq R /\ Prepends(R) => P \subseteq R
  BY <1>1, <1>2, PathsIs
<1>4. PICK ub, V : ub = node2Index[n] /\ V = Visited(target, ub)
  OBVIOUS
<1>5. /\ target \in V /\ V \subseteq NodeNums /\ Closed(V, edges, node2Index, ub)
      /\ \A S : target \in S /\ Closed(S, edges, node2Index, ub) => V \subseteq S
  BY <1>1, <1>4, VisitedIs
<1>6. HasLoop(target, ub) <=> \E e \in edges : From(e) \in V /\ node2Index[To(e)] = ub
  BY <1>4 DEF HasLoop
<1>7. ASSUME NEW e \in edges, From(e) \in V, node2Index[To(e)] = ub
      PROVE  <<target, n>> \in P
  <2>1. PICK S : S = {m \in NodeNums : m = target \/ <<target, m>> \in P}
    OBVIOUS
  <2>2. ASSUME NEW d \in edges, From(d) \in S PROVE To(d) \in S
    <3>1. CASE From(d) = target
      BY <1>1, <1>3, <2>1, <3>1 DEF Firsts
    <3>2. CASE From(d) # target
      <4>1. PICK w : w = <<target, From(d)>> /\ w[1] = target /\ w[2] = From(d)
        BY PairIs
      <4>2. w \in P
        BY <2>1, <2>2, <3>2, <4>1
      <4>3. <<w[1], To(d)>> \in P
        BY <1>3, <4>1, <4>2, PathsAppend
      <4> QED BY <1>1, <2>1, <4>1, <4>3
    <3> QED BY <3>1, <3>2
  <2>3. V \subseteq S
    BY <1>5, <2>1, <2>2 DEF Closed
  <2>4. To(e) \in S /\ To(e) = n
    BY <1>1, <1>2, <1>4, <1>7, <2>2, <2>3
  <2>5. ASSUME n = target PROVE FALSE
    <3>1. From(e) \in S
      BY <1>7, <2>3
    <3>2. From(e) # target
      BY <1>2, <1>1, <2>4, <2>5
    <3>3. PICK w : w = <<target, From(e)>> /\ w[1] = target /\ w[2] = From(e)
      BY PairIs
    <3>4. w \in P /\ Rises(w)
      BY <1>3, <2>1, <3>1, <3>2, <3>3
    <3>5. /\ node2Index[target] < node2Index[From(e)]
          /\ node2Index[From(e)] < node2Index[target]
      BY <1>2, <2>4, <2>5, <3>3, <3>4 DEF Rises
    <3> QED BY <1>1, <1>2, <3>5
  <2> QED BY <2>1, <2>4, <2>5
<1>8. ASSUME <<target, n>> \in P PROVE HasLoop(target, ub)
  <2>1. PICK R : R = {w \in P : w[2] = n /\ w[1] \in V => HasLoop(target, ub)}
    OBVIOUS
  <2>2. Firsts \subseteq R
    <3> SUFFICES ASSUME NEW v \in Firsts PROVE v \in R
      OBVIOUS
    <3>1. PICK d \in edges : v = <<From(d), To(d)>> /\ v[1] = From(d) /\ v[2] = To(d)
      BY DEF Firsts
    <3> QED BY <1>3, <1>4, <1>6, <2>1, <3>1
  <2>3. ASSUME NEW d \in edges, NEW v \in R, v[1] = To(d) PROVE <<From(d), v[2]>> \in R
    <3>1. PICK u : u = <<From(d), v[2]>> /\ u[1] = From(d) /\ u[2] = v[2]
      BY PairIs
    <3>2. u \in P
      BY <1>3, <2>1, <2>3, <3>1 DEF Prepends
    <3>3. ASSUME v[2] = n, From(d) \in V PROVE HasLoop(target, ub)
      <4>1. node2Index[To(d)] < ub
        BY <1>3, <1>4, <2>1, <2>3, <3>3 DEF Rises
      <4>2. To(d) \in V
        BY <1>5, <3>3, <4>1 DEF Closed
      <4> QED BY <2>1, <2>3, <3>3, <4>2
    <3> QED BY <2>1, <3>1, <3>2, <3>3
  <2>4. P \subseteq R
    BY <1>3, <2>2, <2>3 DEF Prepends
  <2>5. PICK w : w = <<target, n>> /\ w[1] = target /\ w[2] = n
    BY PairIs
  <2> QED BY <1>5, <1>8, <2>1, <2>4, <2>5
<1>9. ASSUME <<target, n>> \in P PROVE node2Index[target] < node2Index[n]
  <2>1. PICK w : w = <<target, n>> /\ w[1] = target /\ w[2] = n
    BY PairIs
  <2> QED BY <1>3, <1>9, <2>1 DEF Rises
<1> QED BY <1>4, <1>6, <1>7, <1>8, <1>9 DEF IsReachable

\* IsReachable answers reachability exactly, in every state in which it may be asked.
THEOREM SearchIsExact == TopoSpec => []ReachableExact
<1>1. TInv => ReachableExact
  BY SearchExact DEF ReachableExact
<1> QED BY <1>1, TopoInvariance, PTL
=============================================================================
