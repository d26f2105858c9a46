-------------------------- MODULE BottomUpScheduler --------------------------
(***************************************************************************)
(* The bottom-up list scheduler of lib/CodeGen/SelectionDAG/               *)
(* ScheduleDAGRRList.cpp and what it does about a physical register that   *)
(* is too expensive to copy: it delays the nodes that would clobber a live *)
(* one, and when every ready node is delayed it unschedules the use,       *)
(* clones the def or copies the register away.                             *)
(*                                                                         *)
(* The register is the flags: CCR is the only class of X86, the one target *)
(* there is, with a negative copy cost, so a live register, its def and    *)
(* its cycle are one value each and an LRegs list has one member.  A node  *)
(* that reads the flags never writes them (what does both is glued into    *)
(* one unit).  Latencies are 1 (ForceUnitLatencies) and a round schedules  *)
(* one node, so no height exceeds the cycle; edges are only added at       *)
(* predecessors not yet scheduled, so the height of a scheduled node is    *)
(* the cycle it got.  The priority of the queue is left open, and so is a  *)
(* split-off load that is a node of the graph already.                     *)
(*                                                                         *)
(* An edge is <<d, u, kind>>: "data", "flags" (isAssignedRegDep), "order"  *)
(* or "artificial".  ready stands for isAvailable of the nodes that are    *)
(* not scheduled, the queue and NotReady.                                  *)
(***************************************************************************)
EXTENDS Integers, FiniteSets, SequencesExt

CONSTANTS
  SUnits,     \* numbers for SUnits, with room for clones and copies
  Size,      \* nodes of the selection DAG
  MaxEdges,  \* bound: edges between them
  Ways       \* how a live def may be repeated: "clone", "unfold" (it has a
             \* folded load) or "copy" (it is glued to another node)

ASSUME GraphAssumption ==
  /\ Size \in Nat \ {0} /\ 1..Size \subseteq SUnits
  /\ SUnits \subseteq Nat /\ MaxEdges \in Nat
  /\ Ways \subseteq {"clone", "unfold", "copy"}

VARIABLES
  edges,        \* Preds and Succs
  writers,      \* nodes with the flags among their implicit defs
  way,
  origin,       \* history: what of the graph a node stands for: OrigNode, None
                \* for a copy, -d for the load split off d
  Sequence,     \* the schedule, its last node first
  height,       \* getHeight() of the scheduled nodes
  liveDef,      \* LiveRegDefs
  liveCycle,    \* LiveRegCycles
  ready,
  CurCycle,
  built         \* history: what BuildSchedGraph built

roundVars == <<edges, writers, way, origin, Sequence, height, liveDef, liveCycle,
               ready, CurCycle, built>>

NoUnit == 0

PredsIn(u, E) == {d \in SUnits : \E e \in E : e[1] = d /\ e[2] = u}
SuccsIn(d, E) == {u \in SUnits : \E e \in E : e[1] = d /\ e[2] = u}
FlagsPreds(u, E) == {d \in PredsIn(u, E) : <<d, u, "flags">> \in E}
FlagsSuccs(d, E) == {u \in SuccsIn(d, E) : <<d, u, "flags">> \in E}

placed == ToSet(Sequence)
Numbered == DOMAIN origin
\* A number for the i-th node created in a round.
Fresh(i) == Cardinality(Numbered) + i

\* IsReachable(u, d): the nodes that reach d, d among them.
Above(S, E) ==
  LET closed == {T \in SUBSET Numbered : S \subseteq T /\ \A e \in E : e[2] \in T => e[1] \in T}
  IN  {d \in Numbered : \A T \in closed : d \in T}

WillCreateCycle(try, old) ==
  ({try} \cup FlagsPreds(try, edges)) \cap Above({old}, edges) # {}

(***************************************************************************)
(* What BuildSchedGraph gives: numbers go up along the edges, the last node *)
(* is the root, which every node reaches.                                  *)
(***************************************************************************)
GraphNodes == 1..Size
Shapes ==
  {E \in SUBSET {p \in GraphNodes \X GraphNodes : p[1] < p[2]} :
     /\ Cardinality(E) <= MaxEdges
     /\ \A d \in GraphNodes \ {Size} : \E u \in GraphNodes : <<d, u>> \in E}

\* CheckForPhysRegDependency: a node reads the flags of one def, if any.
ReadsOf(E) ==
  {F \in SUBSET E : F # {} /\ \A f, g \in F : (f[2] = g[2] => f = g) /\ f[1] # g[2]}

WritersOf(F) ==
  {W \in SUBSET (GraphNodes \ {f[2] : f \in F}) : \A f \in F : f[1] \in W}

\* A def with a folded load also has chain edges.
ChainsOf(E, F, w) ==
  IF w = "unfold"
    THEN SUBSET {e \in E \ F : \E f \in F : f[1] \in {e[1], e[2]}}
    ELSE {{}}

KindOf(e, F, C) == CASE e \in F -> "flags" [] e \in C -> "order" [] OTHER -> "data"

BeginRounds ==
  \E E \in Shapes, w \in Ways :
  \E F \in ReadsOf(E) :
  \E C \in ChainsOf(E, F, w), W \in WritersOf(F) :
     /\ edges = {<<e[1], e[2], KindOf(e, F, C)>> : e \in E}
     /\ writers = W /\ way = [u \in GraphNodes |-> w]
     /\ origin = [u \in GraphNodes |-> u]
     /\ Sequence = <<>> /\ height = [u \in SUnits |-> 0]
     /\ liveDef = NoUnit /\ liveCycle = 0
     /\ ready = {Size}
     /\ CurCycle = 0
     /\ built = edges

\* Fault: only what the node writes itself is looked at.
DelayForLiveRegsOwn(u) == liveDef \notin {NoUnit, u} /\ u \in writers

DelayForLiveRegs(u) ==
  /\ liveDef # NoUnit
  /\ \/ \E d \in FlagsPreds(u, edges) : d # liveDef
     \/ u \in writers /\ u # liveDef

(***************************************************************************)
(* ScheduleNodeBottomUp and UnscheduleNodeBottomUp, on [ready, def, since]: *)
(* the ready nodes, LiveRegDefs and LiveRegCycles.                         *)
(***************************************************************************)
\* ReleasePredecessors: a read in cycle c makes the flags live.
Read(r, u, c, E) ==
  LET D == FlagsPreds(u, E) IN
  IF r.def # NoUnit \/ D = {} THEN r
  ELSE [r EXCEPT !.def = CHOOSE d \in D : TRUE, !.since = c]

\* The def is scheduled: the flags are not live above it.
Written(r, u, E) ==
  IF \E s \in FlagsSuccs(u, E) : height[s] = r.since
    THEN [r EXCEPT !.def = NoUnit, !.since = 0]
    ELSE r

\* Predecessors whose last successor u is.
LastPreds(u, S, E) == {p \in PredsIn(u, E) : SuccsIn(p, E) \subseteq S \cup {u}}

\* CapturePred for each predecessor, then the flags: not live before their
\* first use, live again above a def.
Unscheduled(r, u) ==
  LET q == IF FlagsPreds(u, edges) # {} /\ height[u] = r.since
             THEN [r EXCEPT !.def = NoUnit, !.since = 0] ELSE r
      cycles == {height[s] : s \in {s \in FlagsSuccs(u, edges) : height[s] < q.since}}
  IN  [ready |-> (q.ready \ PredsIn(u, edges)) \cup {u},
       def   |-> IF q.def = NoUnit /\ FlagsSuccs(u, edges) # {} THEN u ELSE q.def,
       since |-> IF cycles = {} THEN q.since
                 ELSE CHOOSE c \in cycles : \A x \in cycles : c <= x]

State == [ready |-> ready, def |-> liveDef, since |-> liveCycle]

\* ScheduleNodeBottomUp(u, c) after the sequence seq and the changes r, E.
ScheduleNode(u, c, seq, r, E) ==
  LET q == Written(Read(r, u, c, E), u, E) IN
  /\ Sequence' = Append(seq, u)
  /\ height' = [height EXCEPT ![u] = c]
  /\ ready' = (q.ready \ {u}) \cup LastPreds(u, ToSet(seq), E)
  /\ liveDef' = q.def /\ liveCycle' = q.since
  /\ edges' = E
  /\ CurCycle' = c + 1

(***************************************************************************)
(* The rounds of ListScheduleBottomUp.                                     *)
(***************************************************************************)
ScheduleReady(u) ==
  /\ u \in ready /\ ~DelayForLiveRegs(u)
  /\ ScheduleNode(u, CurCycle, Sequence, State, edges)
  /\ UNCHANGED <<writers, way, origin, built>>

AllDelayed == ready # {} /\ \A u \in ready : DelayForLiveRegs(u)

OldSU == Sequence[liveCycle + 1]
Resolvable(try) == ~WillCreateCycle(try, OldSU)

\* All from the first use of the flags on is unscheduled.
BacktrackBottomUp ==
  FoldLeft(Unscheduled, State, Reverse(SubSeq(Sequence, liveCycle + 1, Len(Sequence))))

\* Fault: the old use is not held back.
BacktrackFreely(try) ==
  LET left == BacktrackBottomUp
      E == edges
  IN
  /\ AllDelayed /\ try \in ready /\ Resolvable(try)
  /\ \E u \in (IF try \in left.ready THEN {try} ELSE left.ready \ ready) :
       ScheduleNode(u, liveCycle, SubSeq(Sequence, 1, liveCycle), left, E)
  /\ UNCHANGED <<writers, way, origin, built>>

\* Back to the cycle of the first use, which try must then come below.  If a
\* successor of try was unscheduled, another node of the queue is taken,
\* without a second look at the flags.
Backtrack(try) ==
  LET r == BacktrackBottomUp
      E == edges \cup {<<OldSU, try, "artificial">>}
      left == [r EXCEPT !.ready = @ \ {OldSU}]
  IN
  /\ AllDelayed /\ try \in ready /\ Resolvable(try)
  /\ \E u \in (IF try \in left.ready THEN {try} ELSE left.ready \ ready) :
       ScheduleNode(u, liveCycle, SubSeq(Sequence, 1, liveCycle), left, E)
  /\ UNCHANGED <<writers, way, origin, built>>

\* The edges from d to what is scheduled, artificial ones aside.
MovedSuccs(d, E) == {e \in E : e[1] = d /\ e[3] # "artificial" /\ e[2] \in placed}

\* CopyAndMoveSuccessors without a load: n gets the predecessors of d and the
\* scheduled successors.
Cloned(d, n, E) ==
  (E \ MovedSuccs(d, E))
    \cup {<<n, e[2], e[3]>> : e \in MovedSuccs(d, E)}
    \cup {<<e[1], n, e[3]>> : e \in {e \in E : e[2] = d /\ e[3] # "artificial"}}

Control(e) == e[3] \in {"order", "artificial"}

\* Fault: the chain above the load is lost.
UnfoldedLoose(d, m, n, A, E) ==
  {e \in E : d \notin {e[1], e[2]}}
    \cup {<<e[1], IF e[1] \in A THEN m ELSE n, e[3]>> :
             e \in {e \in E : e[2] = d /\ ~Control(e)}}
    \cup {<<IF Control(e) THEN m ELSE n, e[2], e[3]>> : e \in {e \in E : e[1] = d}}
    \cup {<<m, n, "data">>}

\* The load m is split off d, the rest is n: m gets the chain and the operands
\* in A, n the others and the successors that use values.
Unfolded(d, m, n, A, E) ==
  {e \in E : d \notin {e[1], e[2]}}
    \cup {<<e[1], IF Control(e) \/ e[1] \in A THEN m ELSE n, e[3]>> :
             e \in {e \in E : e[2] = d}}
    \cup {<<IF Control(e) THEN m ELSE n, e[2], e[3]>> : e \in {e \in E : e[1] = d}}
    \cup {<<m, n, "data">>}

\* InsertCopiesAndMoveSuccs: the flags go through m and come back in n, and try
\* comes after m.
Copied(d, m, n, try, E) ==
  (E \ MovedSuccs(d, E))
    \cup {<<n, e[2], e[3]>> : e \in MovedSuccs(d, E)}
    \cup {<<d, m, "flags">>, <<m, n, "data">>, <<m, try, "artificial">>}

\* The round ends with new, the def that holds from here on, and try above it.
Resolve(try, new, E) ==
  ScheduleNode(new, CurCycle, Sequence,
               [ready |-> ready \ {try}, def |-> new, since |-> liveCycle],
               E \cup {<<try, new, "artificial">>})

Stuck(try) ==
  /\ AllDelayed /\ try \in ready /\ \A u \in ready : ~Resolvable(u)

\* Adds the nodes S, of which W write the flags; they stand for what from says.
Create(S, W, from) ==
  /\ S \subseteq SUnits
  /\ writers' = writers \cup W
  /\ origin' = [u \in Numbered \cup S |-> IF u \in S THEN from[u] ELSE origin[u]]
  /\ way' = [u \in Numbered \cup S |-> IF u \in S THEN "clone" ELSE way[u]]
  /\ UNCHANGED built

Clone(try) ==
  /\ Stuck(try) /\ way[liveDef] = "clone"
  /\ LET n == Fresh(1) IN
     /\ Create({n}, {n}, [u \in {n} |-> origin[liveDef]])
     /\ Resolve(try, n, Cloned(liveDef, n, edges))

\* The rest is cloned in turn if a successor of it is not scheduled.
Unfold(try) ==
  /\ Stuck(try) /\ way[liveDef] = "unfold"
  /\ LET m == Fresh(1)  n == Fresh(2)  k == Fresh(3) IN
     \E A \in SUBSET PredsIn(liveDef, edges) :
       LET E == Unfolded(liveDef, m, n, A, edges)
           whole == SuccsIn(n, E) \subseteq placed
           new == IF whole THEN {m, n} ELSE {m, n, k}
       IN
       /\ \A d \in A : <<d, liveDef, "data">> \in edges
       /\ Create(new, new \ {m},
                 [u \in new |-> IF u = m THEN -origin[liveDef] ELSE origin[liveDef]])
       /\ IF whole THEN Resolve(try, n, E) ELSE Resolve(try, k, Cloned(n, k, E))

Copy(try) ==
  /\ Stuck(try) /\ way[liveDef] = "copy"
  /\ LET m == Fresh(1)  n == Fresh(2) IN
     /\ Create({m, n}, {}, [u \in {m, n} |-> NoUnit])
     /\ Resolve(try, n, Copied(liveDef, m, n, try, edges))

Done == ready = {} /\ UNCHANGED roundVars

RoundNext ==
  \/ \E u \in SUnits :
       ScheduleReady(u) \/ Backtrack(u) \/ Clone(u) \/ Unfold(u) \/ Copy(u)
  \/ Done

RoundSpec == BeginRounds /\ [][RoundNext]_roundVars /\ WF_roundVars(RoundNext)

(***************************************************************************)
(* Properties.                                                             *)
(***************************************************************************)
\* A copy back into the flags writes them, too.
WritesFlags(u) == u \in writers \/ (origin[u] = NoUnit /\ FlagsSuccs(u, edges) # {})

\* Between the use of the flags and their def nothing else writes them,
\* whatever was delayed, unscheduled, cloned or copied on the way, and though
\* the node taken after backtracking is not looked at again.
FlagsIntact ==
  \A i, j \in DOMAIN Sequence :
     \A e \in edges :
        e[3] = "flags" /\ e[2] = Sequence[i] /\ i < j
          /\ WritesFlags(Sequence[j]) /\ Sequence[j] # e[1]
        => \E k \in (i + 1)..(j - 1) : Sequence[k] = e[1]

Stands(o, kind) ==
  {u \in placed : origin[u] = o \/ (kind = "order" /\ origin[u] = -o)}
ComesAbove(d, u) == \E i, j \in DOMAIN Sequence : i < j /\ Sequence[i] = u /\ Sequence[j] = d

\* Every edge goes up the schedule, whatever was taken back and released again.
\* At the end each node of the original graph is there, itself or as clones,
\* and whatever stands for a node comes after something that stands for each
\* of its predecessors: no clone or copy loses a value or an order.
OrderKept ==
  /\ \A e \in edges : e[1] \in placed => ComesAbove(e[1], e[2])
  /\ ready = {} => \A e \in built :
       /\ Stands(e[2], e[3]) # {}
       /\ \A u \in Stands(e[2], e[3]) : \E d \in Stands(e[1], e[3]) : ComesAbove(d, u)

\* Backtracking, cloning and copying come to an end.
RoundsEnd == <>(ready = {})
=============================================================================
