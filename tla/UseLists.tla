------------------------------ MODULE UseLists ------------------------------
(***************************************************************************)
(* Use lists: every operand of a User is a Use, and the Uses of a Value are  *)
(* chained through Next and Prev (include/llvm/Use.h, lib/VMCore/Use.cpp).   *)
(* Uses are in arrays that PHI nodes and switches replace when they grow     *)
(* (lib/VMCore/Instructions.cpp).                                           *)
(*                                                                         *)
(* A PHI and a switch have entries of two operands that are always handled   *)
(* alike: the model keeps one Use of each entry, and counts entries.         *)
(***************************************************************************)
EXTENDS Naturals, Sequences, SequencesExt, FiniteSets

CONSTANTS
  Phi, Switch,   \* the Users whose Uses are hung off
  Binary,        \* the Users with two Uses of their own
  Value,
  Clonable,      \* Users that may be copied
  MaxOperands,   \* bound on the operands of a User
  MaxUsers,      \* bound on the Users that exist at a time
  None

User == Phi \cup Switch \cup Binary

\* Two generations of arrays are enough: a pointer is into the array or not.
Generations == {0, 1}
Uses == User \X Generations \X (1..MaxOperands)

ASSUME UseListsAssumption ==
  /\ IsFiniteSet(User) /\ (Phi \cup Switch) \cap Binary = {} /\ Phi \cap Switch = {}
  /\ MaxOperands \in Nat /\ MaxOperands >= 2
  /\ None \notin Value \cup Generations \cup Uses \cup Seq(Value)

VARIABLES
  heap,              \* the Uses and the heads of the use lists
  Array,          \* the array OperandList points to, or None
  NumOperands,
  ReservedSpace,
  allocated,      \* how many Uses the array really has
  alive           \* the Users that exist

fields == <<Array, NumOperands, ReservedSpace, allocated, alive>>
useVars == <<heap, fields>>

UseAt(u, i) == <<u, Array[u], i>>

\* Where a Prev may point: at the head of a list, or at the Next of a Use.
Head_(v) == <<"UseList", v>>
Next_(x) == <<"Next", x>>

UseInit ==
  /\ heap = [val  |-> [x \in Uses |-> None], next |-> [x \in Uses |-> None],
          prev |-> [x \in Uses |-> None], head |-> [v \in Value |-> None]]
  /\ Array = [u \in User |-> None]
  /\ NumOperands = [u \in User |-> 0]
  /\ ReservedSpace = [u \in User |-> 0]
  /\ allocated = [u \in User |-> 0]
  /\ alive = {}

-----------------------------------------------------------------------------
(***************************************************************************)
(* The lists. g is the state of all Uses; each operator gives the next one. *)
(***************************************************************************)
\* What a place points to becomes x.
Point(g, place, x) ==
  IF place[1] = "UseList" THEN [g EXCEPT !.head[place[2]] = x]
  ELSE [g EXCEPT !.next[place[2]] = x]

setPrev(g, x, place) == IF x = None THEN g ELSE [g EXCEPT !.prev[x] = place]

\* Value::addUse, Use::addToList; the Use already has the value v.
AddToList(g, x, v) ==
  LET first == g.head[v]
      chained == setPrev([g EXCEPT !.next[x] = first], first, Next_(x))
  IN  [setPrev(chained, x, Head_(v)) EXCEPT !.head[v] = x]

\* Use::removeFromList. What it leaves in Next and Prev is never read again.
RemoveFromList(g, x) ==
  [setPrev(Point(g, g.prev[x], g.next[x]), g.next[x], g.prev[x])
     EXCEPT !.next[x] = None, !.prev[x] = None]

Detach(g, x) == IF g.val[x] = None THEN g ELSE RemoveFromList(g, x)

Attach(g, x, v) ==
  IF v = None THEN [g EXCEPT !.val[x] = None] ELSE AddToList([g EXCEPT !.val[x] = v], x, v)

\* Use::set.
Set(g, x, v) == Attach(Detach(g, x), x, v)

\* Use::swap.
Swap(g, x, y) ==
  IF g.val[x] = g.val[y] THEN g
  ELSE Attach(Attach(Detach(Detach(g, x), y), x, g.val[y]), y, g.val[x])

\* The assignments of a sequence of pairs <<use, value>>, one after the other.
SetAll(g, pairs) == FoldLeft(LAMBDA f, p : Set(f, p[1], p[2]), g, pairs)

\* Use::zap with del, and the memory is given back: a Use that still has a
\* value leaves its list.
Zap(g, u, a, n) ==
  SetAll(g, [i \in 1..(IF n < MaxOperands THEN n ELSE MaxOperands) |->
               <<<<u, a, i>>, None>>])

\* Value::uncheckedReplaceAllUsesWith, for users that are no constants: until the
\* list is empty, which it is when every Use has left it.
Replaced(g, v, w) ==
  LET After[n \in 0..Cardinality(Uses)] ==
        IF n = 0 THEN g
        ELSE LET f == After[n - 1]
             IN  IF f.head[v] = None THEN f ELSE Set(f, f.head[v], w)
  IN  After[Cardinality(Uses)]

-----------------------------------------------------------------------------
Fresh(u) == IF Array[u] = None THEN 0 ELSE 1 - Array[u]

\* The entries a User asks for when it runs out: a PHI grows by 3/2 and has at
\* least 4 operands, a switch grows by 3.
Grown(u) ==
  LET e == NumOperands[u]
  IN  IF u \in Phi THEN (IF e < 2 THEN 2 ELSE (e * 3) \div 2) ELSE e * 3

\* Fault: the old array is freed without destroying its Uses.
MovedOnly(g, u) ==
  SetAll(g, [i \in 1..NumOperands[u] |->
               <<<<u, Fresh(u), i>>, g.val[UseAt(u, i)]>>])

\* The copy of the operands into an array of their own, and the end of the old
\* array: only the Uses in use are destroyed.
Moved(g, u) ==
  LET copied == SetAll(g, [i \in 1..NumOperands[u] |->
                             <<<<u, Fresh(u), i>>, g.val[UseAt(u, i)]>>])
  IN  IF Array[u] = None THEN copied ELSE Zap(copied, u, Array[u], NumOperands[u])

\* There is no room for one more operand.
Grows(u) == NumOperands[u] + 1 > ReservedSpace[u]

(***************************************************************************)
(* Operations of Users                                                     *)
(***************************************************************************)
Creatable(u) == u \notin alive /\ Cardinality(alive) < MaxUsers

\* A PHI without operands, a switch with the condition and its default.
Create(u) ==
  /\ u \in Phi \cup Switch /\ Creatable(u)
  /\ alive' = alive \cup {u}
  /\ IF u \in Phi
     THEN UNCHANGED <<heap, Array, NumOperands, ReservedSpace, allocated>>
     ELSE \E v \in Value, cases \in 0..1 :
            /\ heap' = Set(heap, <<u, 0, 1>>, v)
            /\ Array' = [Array EXCEPT ![u] = 0]
            /\ NumOperands' = [NumOperands EXCEPT ![u] = 1]
            /\ ReservedSpace' = [ReservedSpace EXCEPT ![u] = 1 + cases]
            /\ allocated' = [allocated EXCEPT ![u] = 1 + cases]

\* User::operator new, and the constructor of an instruction with two operands.
CreateBinary(u) ==
  /\ u \in Binary /\ Creatable(u)
  /\ alive' = alive \cup {u}
  /\ \E v, w \in Value :
       heap' = SetAll(heap, << <<<<u, 0, 1>>, v>>, <<<<u, 0, 2>>, w>> >>)
  /\ Array' = [Array EXCEPT ![u] = 0]
  /\ NumOperands' = [NumOperands EXCEPT ![u] = 2]
  /\ allocated' = [allocated EXCEPT ![u] = 2]
  /\ UNCHANGED ReservedSpace

\* The copy constructors. That of a switch leaves ReservedSpace as the memory
\* was.
Clone(u, w) ==
  /\ Creatable(u)
  /\ w \in alive \cap Clonable
  /\ {u, w} \subseteq Phi \/ {u, w} \subseteq Switch
  /\ NumOperands[w] > 0
  /\ alive' = alive \cup {u}
  /\ heap' = SetAll(heap, [i \in 1..NumOperands[w] |-> <<<<u, 0, i>>, heap.val[UseAt(w, i)]>>])
  /\ Array' = [Array EXCEPT ![u] = 0]
  /\ NumOperands' = [NumOperands EXCEPT ![u] = NumOperands[w]]
  /\ allocated' = [allocated EXCEPT ![u] = NumOperands[w]]
  /\ \E n \in IF u \in Phi THEN {NumOperands[w]} ELSE 0..MaxOperands :
       ReservedSpace' = [ReservedSpace EXCEPT ![u] = n]

\* ~PHINode, ~SwitchInst (dropHungoffUses) and ~User.
DestroyUser(u) ==
  /\ u \in alive
  /\ alive' = alive \ {u}
  /\ heap' = IF Array[u] = None THEN heap ELSE Zap(heap, u, Array[u], allocated[u])
  /\ Array' = [Array EXCEPT ![u] = None]
  /\ NumOperands' = [NumOperands EXCEPT ![u] = 0]
  /\ ReservedSpace' = [ReservedSpace EXCEPT ![u] = 0]
  /\ allocated' = [allocated EXCEPT ![u] = 0]

\* addIncoming, addCase.
Add(u, v) ==
  /\ u \in alive \cap (Phi \cup Switch)
  /\ NumOperands[u] < MaxOperands
  /\ IF Grows(u)
     THEN /\ heap' = Set(Moved(heap, u), <<u, Fresh(u), NumOperands[u] + 1>>, v)
          /\ Array' = [Array EXCEPT ![u] = Fresh(u)]
          /\ allocated' = [allocated EXCEPT ![u] = Grown(u)]
          /\ ReservedSpace' = [ReservedSpace EXCEPT ![u] = Grown(u)]
     ELSE /\ heap' = Set(heap, UseAt(u, NumOperands[u] + 1), v)
          /\ UNCHANGED <<Array, allocated, ReservedSpace>>
  /\ NumOperands' = [NumOperands EXCEPT ![u] = @ + 1]
  /\ UNCHANGED alive

\* What resizeOperands makes of ReservedSpace when n entries are asked for: 0
\* stands for more than there are. Its case for trimming is never reached,
\* since a number of operands is less than twice itself.
Resized(u, n) ==
  IF n = 0 THEN Grown(u)
  ELSE IF n * 2 > NumOperands[u] /\ ReservedSpace[u] < n THEN n
  ELSE ReservedSpace[u]

\* PHINode::reserveOperandSpace.
Reserve(u, n) ==
  /\ u \in alive \cap Phi
  /\ n = 0 \/ Resized(u, n) # ReservedSpace[u]
  /\ heap' = Moved(heap, u)
  /\ Array' = [Array EXCEPT ![u] = Fresh(u)]
  /\ allocated' = [allocated EXCEPT ![u] = Resized(u, n)]
  /\ ReservedSpace' = [ReservedSpace EXCEPT ![u] = Resized(u, n)]
  /\ UNCHANGED <<NumOperands, alive>>

\* Fault: the move goes from the last operand to the first.
ShiftedFromEnd(g, u, i) ==
  SetAll(g, [j \in 1..(NumOperands[u] - i) |->
               <<UseAt(u, NumOperands[u] - j), g.val[UseAt(u, NumOperands[u])]>>]
            \o << <<UseAt(u, NumOperands[u]), None>> >>)

\* Everything after operand i moves down, and the last Use loses its value.
Shifted(g, u, i) ==
  SetAll(g, [j \in 1..(NumOperands[u] - i) |->
               <<UseAt(u, i + j - 1), g.val[UseAt(u, i + j)]>>]
            \o << <<UseAt(u, NumOperands[u]), None>> >>)

\* removeIncomingValue (without DeletePHIIfEmpty), removeCase: the default
\* destination of a switch stays.
RemoveEntry(u, i) ==
  /\ u \in alive \cap (Phi \cup Switch)
  /\ i \in (IF u \in Switch THEN 2 ELSE 1)..NumOperands[u]
  /\ heap' = Shifted(heap, u, i)
  /\ NumOperands' = [NumOperands EXCEPT ![u] = @ - 1]
  /\ UNCHANGED <<Array, ReservedSpace, allocated, alive>>

\* User::setOperand.
SetOperand(u, i, v) ==
  /\ u \in alive
  /\ i \in 1..NumOperands[u]
  /\ heap' = Set(heap, UseAt(u, i), v)
  /\ UNCHANGED fields

\* BinaryOperator::swapOperands.
SwapOperands(u) ==
  /\ u \in alive \cap Binary
  /\ heap' = Swap(heap, UseAt(u, 1), UseAt(u, 2))
  /\ UNCHANGED fields

ReplaceAllUses(v, w) ==
  /\ v # w
  /\ heap' = Replaced(heap, v, w)
  /\ UNCHANGED fields

UseNext ==
  \/ \E u \in User :
       \/ Create(u) \/ CreateBinary(u) \/ DestroyUser(u) \/ SwapOperands(u)
       \/ \E w \in User : Clone(u, w)
       \/ \E v \in Value : Add(u, v)
       \/ \E n \in 0..MaxOperands : Reserve(u, n)
       \/ \E i \in 1..MaxOperands : RemoveEntry(u, i)
       \/ \E i \in 1..MaxOperands, v \in Value : SetOperand(u, i, v)
  \/ \E v, w \in Value : ReplaceAllUses(v, w)

UseSpec == UseInit /\ [][UseNext]_useVars

(***************************************************************************)
(* Properties                                                              *)
(***************************************************************************)
\* The uses a walk along the list of v meets.
ListOf(v) ==
  LET Met[n \in 0..(Cardinality(Uses) + 1)] ==
        IF n = 0 THEN <<>>
        ELSE LET l == Met[n - 1]
                 x == IF l = <<>> THEN heap.head[v] ELSE heap.next[Last(l)]
             IN  IF x = None THEN l ELSE Append(l, x)
  IN  Met[Cardinality(Uses) + 1]

\* The Uses of a User are the array that was allocated for it ("the Use objects
\* belonging to the same User form a contiguous array",
\* docs/ProgrammersManual.html:2687; assert "Growing didn't work!",
\* Instructions.cpp:2788).
WithinArray == \A u \in alive : NumOperands[u] <= allocated[u]

\* The list of a Value has each operand that refers to it, once, and nothing
\* else: no Use of an array that was freed (resizeOperands destroys the Uses in
\* use only), no Use behind the operands.  Prev of every Use in it is the place
\* that points to it, which is what removeFromList stores through.
ListsExact ==
  WithinArray /\ \A v \in Value :
    /\ IsInjective(ListOf(v))
    /\ ToSet(ListOf(v)) =
         UNION {{UseAt(u, i) : i \in {j \in 1..NumOperands[u] : heap.val[UseAt(u, j)] = v}}
                : u \in alive}
    /\ LET l == ListOf(v) IN
       \A k \in DOMAIN l :
          heap.prev[l[k]] = IF k = 1 THEN Head_(v) ELSE Next_(l[k - 1])

\* The operands of every User change as the operations say, wherever its Uses
\* are and however the lists are chained.
Operands == INSTANCE OperandLists WITH
  operands <- [u \in User |->
                 IF u \in alive THEN [i \in 1..NumOperands[u] |-> heap.val[UseAt(u, i)]]
                 ELSE None],
  NoUser <- None
OperandsKept == Operands!Spec
=============================================================================
