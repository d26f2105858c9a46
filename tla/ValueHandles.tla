---------------------------- MODULE ValueHandles ----------------------------
(***************************************************************************)
(* Value handles (include/llvm/Support/ValueHandle.h, lib/VMCore/          *)
(* Value.cpp): every Value that is watched has an intrusive list of        *)
(* handles, its head in a bucket of the context's DenseMap ValueHandles.   *)
(*                                                                         *)
(* A handle points back to the place that points to it: a bucket, which    *)
(* moves when the table reallocates, or the Next of another handle.  A     *)
(* Value that is deleted or replaced walks its list; a callback that runs  *)
(* then is client code and uses handles itself.                            *)
(***************************************************************************)
EXTENDS Naturals, Sequences, FiniteSets

CONSTANTS
  Handles,   \* addresses of ValueHandleBase objects
  Values,    \* the Values of a context
  Kinds,     \* the HandleBaseKinds: a subset of {"Assert", "Weak", "Callback"}
  MaxDepth,  \* bound: walks that callbacks may nest
  Nil        \* the null pointer

ASSUME HandlesAssumption ==
  /\ IsFiniteSet(Handles)
  /\ Nil \notin Handles \cup Values
  /\ Kinds \subseteq {"Assert", "Weak", "Callback"}
  /\ MaxDepth \in Nat \ {0}

VARIABLES
  kind,       \* HandleBaseKind of each handle
  exists,     \* the handles that are constructed
  vp,         \* VP
  next,       \* Next
  prev,       \* PrevPtr
  head,       \* the Values in the DenseMap and the handle in their bucket
  table,      \* which allocation the buckets are in
  hasHandle,  \* the Values with HasValueHandle
  dead,       \* the Values that are destroyed
  walks       \* the activations of ValueIsDeleted and ValueIsRAUWd, a stack

listVars == <<exists, vp, next, prev, head, table, hasHandle>>
vars == <<kind, listVars, dead, walks>>

Tables == {0, 1}

Bucket(v, t) == <<"bucket", v, t>>
NextOf(h)    == <<"next", h>>
Places == {Bucket(v, t) : v \in Values, t \in Tables} \cup {NextOf(h) : h \in Handles}

\* An activation of ValueIsDeleted(old) (to = Nil) or ValueIsRAUWd(old, to).
\* waiting is history: the handles that watched old at the call, still watch
\* it and have not been reached.
Frames == [at : {"step", "callback", "abort"}, old : Values,
           to : Values \cup {Nil}, this : Handles \cup {Nil},
           entry : Handles \cup {Nil}, waiting : SUBSET Handles]

Init ==
  /\ kind \in [Handles -> Kinds]
  /\ exists = {}
  /\ vp = [h \in Handles |-> Nil]
  /\ next = [h \in Handles |-> Nil]
  /\ prev = [h \in Handles |-> Nil]
  /\ head = [v \in Values |-> Nil]
  /\ table = 0
  /\ hasHandle = {} /\ dead = {}
  /\ walks = <<>>

(***************************************************************************)
(* The list operations, on a record s of the list variables.               *)
(***************************************************************************)
State == [vp |-> vp, next |-> next, prev |-> prev, head |-> head,
          table |-> table, has |-> hasHandle]

\* *place = h.  A place in a table that is gone is memory that was freed.
Store(s, place, h) ==
  IF place[1] = "next" THEN [s EXCEPT !.next[place[2]] = h]
  ELSE IF place[3] = s.table THEN [s EXCEPT !.head[place[2]] = h]
  ELSE s

Load(s, place) ==
  IF place[1] = "next" THEN s.next[place[2]] ELSE s.head[place[2]]

\* Next = *List; *List = this; and the handle behind gets a new PrevPtr.
AddToExistingUseList(s, h, place) ==
  LET behind == Load(s, place)
      linked == Store([s EXCEPT !.next[h] = behind, !.prev[h] = place], place, h)
  IN  IF behind = Nil THEN linked ELSE [linked EXCEPT !.prev[behind] = NextOf(h)]

\* Fault: reallocation goes unnoticed.
FixNoPrevPtrs(s) == s

\* After a reallocation the first handle of each list gets a new PrevPtr.
FixPrevPtrs(s) ==
  [s EXCEPT !.prev = [h \in Handles |->
     IF \E v \in Values : s.head[v] = h
       THEN Bucket(CHOOSE v \in Values : s.head[v] = h, s.table)
       ELSE s.prev[h]]]

\* The states AddToUseList may leave: inserting a key may move the buckets.
AddToUseList(s, h) ==
  LET v == s.vp[h] IN
  IF v \in s.has THEN {AddToExistingUseList(s, h, Bucket(v, s.table))}
  ELSE {LET moved == [s EXCEPT !.table = t, !.has = @ \cup {v}]
            added == AddToExistingUseList(moved, h, Bucket(v, t))
        IN  IF t = s.table THEN added ELSE FixPrevPtrs(added) : t \in Tables}

\* *PrevPtr = Next; and when the list is empty the key is erased.
RemoveFromUseList(s, h) ==
  LET place == s.prev[h]
      behind == s.next[h]
      unlinked == Store(s, place, behind)
  IN  IF behind # Nil THEN [unlinked EXCEPT !.prev[behind] = place]
      ELSE IF place = Bucket(s.vp[h], s.table)
        THEN [unlinked EXCEPT !.has = @ \ {s.vp[h]}]
      ELSE unlinked

Unwatch(s, h) == IF s.vp[h] # Nil THEN RemoveFromUseList(s, h) ELSE s

\* operator=(Value *RHS)
AssignValue(s, h, v) ==
  IF s.vp[h] = v THEN {s}
  ELSE LET moved == [Unwatch(s, h) EXCEPT !.vp[h] = v]
       IN  IF v = Nil THEN {moved} ELSE AddToUseList(moved, h)

\* operator=(const ValueHandleBase &RHS)
AssignHandle(s, h, rhs) ==
  IF s.vp[h] = s.vp[rhs] THEN s
  ELSE LET moved == [Unwatch(s, h) EXCEPT !.vp[h] = s.vp[rhs]]
       IN  IF s.vp[rhs] = Nil THEN moved
           ELSE AddToExistingUseList(moved, h, moved.prev[rhs])

Becomes(s) ==
  /\ vp' = s.vp /\ next' = s.next /\ prev' = s.prev
  /\ head' = s.head /\ table' = s.table /\ hasHandle' = s.has

Watching(v) == {h \in exists : vp[h] = v}

(***************************************************************************)
(* The client: code that owns handles, and callbacks while a walk waits    *)
(* for them.  What it must not do (ValueHandle.h, Value.cpp): watch a      *)
(* Value that is destroyed or being destroyed, or take away the handle a   *)
(* walk has already fetched as its next.                                   *)
(***************************************************************************)
Top == walks[Len(walks)]
ClientRuns == walks # <<>> => Top.at = "callback"
Walked(v) == \E i \in DOMAIN walks : walks[i].old = v

Watchable(v) ==
  /\ v \notin dead
  /\ \A i \in DOMAIN walks : walks[i].old = v => walks[i].to # Nil

Movable(h) ==
  /\ h \in exists
  /\ \A i \in DOMAIN walks : walks[i].entry # h

\* h left the list it was on: no walk has to notify it any more.
Forget(h) ==
  walks' = [i \in DOMAIN walks |-> [walks[i] EXCEPT !.waiting = @ \ {h}]]

\* ValueHandleBase(Kind) and ValueHandleBase(Kind, V)
Construct(h, v) ==
  /\ ClientRuns /\ h \notin exists
  /\ v # Nil => Watchable(v)
  /\ exists' = exists \cup {h}
  /\ LET made == [State EXCEPT !.vp[h] = v]
     IN  \E s \in IF v = Nil THEN {made} ELSE AddToUseList(made, h) : Becomes(s)
  /\ UNCHANGED <<kind, dead, walks>>

\* ValueHandleBase(Kind, const ValueHandleBase &RHS)
CopyConstruct(h, rhs) ==
  /\ ClientRuns /\ h \notin exists /\ rhs \in exists
  /\ kind[h] = kind[rhs]
  /\ vp[rhs] # Nil => Watchable(vp[rhs])
  /\ exists' = exists \cup {h}
  /\ LET made == [State EXCEPT !.vp[h] = vp[rhs]]
     IN  Becomes(IF vp[rhs] = Nil THEN made
                 ELSE AddToExistingUseList(made, h, prev[rhs]))
  /\ UNCHANGED <<kind, dead, walks>>

\* ~ValueHandleBase; the fields of an object that is gone count for nothing.
Destroy(h) ==
  /\ ClientRuns /\ Movable(h)
  /\ exists' = exists \ {h}
  /\ Becomes([Unwatch(State, h) EXCEPT !.vp[h] = Nil, !.next[h] = Nil, !.prev[h] = Nil])
  /\ Forget(h)
  /\ UNCHANGED <<kind, dead>>

Assign(h, v) ==
  /\ ClientRuns /\ Movable(h)
  /\ v # vp[h]
  /\ v # Nil => Watchable(v)
  /\ \E s \in AssignValue(State, h, v) : Becomes(s)
  /\ Forget(h)
  /\ UNCHANGED <<kind, exists, dead>>

AssignFrom(h, rhs) ==
  /\ ClientRuns /\ Movable(h) /\ rhs \in exists
  /\ kind[h] = kind[rhs] /\ vp[h] # vp[rhs]
  /\ vp[rhs] # Nil => Watchable(vp[rhs])
  /\ Becomes(AssignHandle(State, h, rhs))
  /\ Forget(h)
  /\ UNCHANGED <<kind, exists, dead>>

(***************************************************************************)
(* Values.                                                                 *)
(***************************************************************************)
Walk(v, new) ==
  /\ Len(walks) < MaxDepth
  /\ walks' = Append(walks, [at |-> "step", old |-> v, to |-> new, this |-> Nil,
                             entry |-> head[v], waiting |-> Watching(v)])
  /\ UNCHANGED dead

\* ~Value
DeleteValue(v) ==
  /\ ClientRuns /\ v \notin dead
  /\ \A i \in DOMAIN walks : v \notin {walks[i].old, walks[i].to}
  /\ IF v \in hasHandle THEN Walk(v, Nil) ELSE dead' = dead \cup {v} /\ UNCHANGED walks
  /\ UNCHANGED <<kind, listVars>>

\* uncheckedReplaceAllUsesWith
ReplaceAllUsesWith(v, new) ==
  /\ ClientRuns /\ v # new
  /\ v \notin dead /\ ~Walked(v) /\ Watchable(new)
  /\ v \in hasHandle /\ Walk(v, new)
  /\ UNCHANGED <<kind, listVars>>

\* A new Value at the address of one that is gone.
NewValue(v) ==
  /\ ClientRuns /\ v \in dead
  /\ dead' = dead \ {v}
  /\ UNCHANGED <<kind, listVars, walks>>

\* One turn of the while loop of ValueIsDeleted or ValueIsRAUWd.
Advance(at, this) ==
  walks' = [walks EXCEPT ![Len(walks)] =
              [Top EXCEPT !.at = at, !.this = this, !.entry = next[Top.entry],
                          !.waiting = @ \ {Top.entry}]]

AtHandle(k) ==
  walks # <<>> /\ Top.at = "step" /\ Top.entry # Nil /\ kind[Top.entry] = k

StepAssert ==
  /\ AtHandle("Assert")
  /\ Advance(IF Top.to = Nil THEN "abort" ELSE "step", Nil)
  /\ UNCHANGED <<kind, listVars, dead>>

\* Fault: a weak handle is left alone.
StepWeakStays ==
  /\ AtHandle("Weak")
  /\ Advance("step", Nil)
  /\ UNCHANGED <<kind, listVars, dead>>

\* Fault: Next is read when the handle is on its new list already.
StepWeakLate ==
  /\ AtHandle("Weak")
  /\ \E s \in AssignValue(State, Top.entry, Top.to) :
       /\ Becomes(s)
       /\ walks' = [walks EXCEPT ![Len(walks)] =
                      [@ EXCEPT !.entry = s.next[Top.entry],
                                !.waiting = @ \ {Top.entry}]]
  /\ UNCHANGED <<kind, exists, dead>>

StepWeak ==
  /\ AtHandle("Weak")
  /\ Advance("step", Nil)
  /\ \E s \in AssignValue(State, Top.entry, Top.to) : Becomes(s)
  /\ UNCHANGED <<kind, exists, dead>>

StepCallback ==
  /\ AtHandle("Callback")
  /\ Advance("callback", Top.entry)
  /\ UNCHANGED <<kind, listVars, dead>>

\* deleted() must have removed the reference to the Value that goes away.
CallbackReturn ==
  /\ walks # <<>> /\ Top.at = "callback"
  /\ Top.to = Nil => Top.this \notin Watching(Top.old)
  /\ walks' = [walks EXCEPT ![Len(walks)] = [@ EXCEPT !.at = "step", !.this = Nil]]
  /\ UNCHANGED <<kind, listVars, dead>>

Finish ==
  /\ walks # <<>> /\ Top.at = "step" /\ Top.entry = Nil
  /\ walks' = SubSeq(walks, 1, Len(walks) - 1)
  /\ dead' = IF Top.to = Nil THEN dead \cup {Top.old} ELSE dead
  /\ UNCHANGED <<kind, listVars>>

\* llvm_unreachable: the program is gone.
Aborted ==
  /\ walks # <<>> /\ Top.at = "abort"
  /\ UNCHANGED vars

Next ==
  \/ \E h \in Handles, v \in Values \cup {Nil} : Construct(h, v) \/ Assign(h, v)
  \/ \E h, rhs \in Handles : CopyConstruct(h, rhs) \/ AssignFrom(h, rhs)
  \/ \E h \in Handles : Destroy(h)
  \/ \E v \in Values : DeleteValue(v) \/ NewValue(v)
  \/ \E v, new \in Values : ReplaceAllUsesWith(v, new)
  \/ StepAssert \/ StepWeak \/ StepCallback \/ CallbackReturn \/ Finish \/ Aborted

Spec == Init /\ [][Next]_vars

(***************************************************************************)
(* Properties.                                                             *)
(***************************************************************************)
\* The handles from h on, following Next.
Chain(h) ==
  LET after[n \in 0..Cardinality(Handles)] ==
        IF n = 0 THEN h
        ELSE IF after[n - 1] = Nil THEN Nil ELSE next[after[n - 1]]
  IN  {after[n] : n \in DOMAIN after} \ {Nil}

\* The list in a Value's bucket has exactly the handles that watch it, and
\* HasValueHandle, which ~Value and RAUW rely on, says whether there are any;
\* every PrevPtr is a live place that holds the handle (the asserts "List
\* invariant broken"), however often the DenseMap has moved its buckets.
ListExact ==
  /\ \A v \in Values :
       /\ Chain(head[v]) = Watching(v)
       /\ v \in hasHandle <=> Watching(v) # {}
  /\ \A h \in exists : vp[h] # Nil =>
       /\ \/ prev[h] = Bucket(vp[h], table)
          \/ \E g \in Watching(vp[h]) : prev[h] = NextOf(g)
       /\ Load(State, prev[h]) = h

\* No handle outlives the Value it watches: whatever callbacks do while the
\* list is walked, ~Value ends with no handle on the Value.
NoDangling == \A v \in dead : Watching(v) = {}

\* What a walk has fetched as its next handle is still a handle of that list,
\* and every handle it has to notify is ahead of it.
WalkSafe ==
  \A i \in DOMAIN walks :
    /\ Chain(walks[i].entry) \subseteq Watching(walks[i].old)
    /\ walks[i].waiting \subseteq Chain(walks[i].entry)
=============================================================================
