--------------------------- MODULE Values_proofs ---------------------------
(***************************************************************************)
(* Proofs about what keeps track of a Value: the handles on it, for any    *)
(* handles, Values, kinds and depth of callbacks (ValueHandles), and the   *)
(* Uses of it, for any Users and bounds (UseLists and Waymarking).         *)
(***************************************************************************)
EXTENDS ValueHandles, MCUseLists, Recursion_proofs, SequenceTheorems

-----------------------------------------------------------------------------
(***************************************************************************)
(* The inductive invariant: the lists.  X are the handles on lists, in the *)
(* record s of list variables, and after[h] those behind h on its list.    *)
(***************************************************************************)
Fields(s) ==
  /\ s = [vp |-> s.vp, next |-> s.next, prev |-> s.prev, head |-> s.head,
          table |-> s.table, has |-> s.has]
  /\ DOMAIN s.vp = Handles /\ DOMAIN s.next = Handles /\ DOMAIN s.prev = Handles
  /\ DOMAIN s.head = Values /\ s.table \in Tables

\* The place that points to h, at the head of its list or behind another.
First(s, h) == s.prev[h] = Bucket(s.vp[h], s.table) /\ s.head[s.vp[h]] = h
Behind(s, g, h) == s.vp[g] = s.vp[h] /\ s.prev[h] = NextOf(g) /\ s.next[g] = h

HandleLinked(s, X, h) ==
  /\ s.vp[h] \in Values
  /\ First(s, h) \/ \E g \in X : Behind(s, g, h)
  /\ s.next[h] = Nil \/ (s.next[h] \in X /\ Behind(s, h, s.next[h]))

HeadLinked(s, X, v) ==
  IF v \in s.has THEN s.head[v] \in X /\ s.vp[s.head[v]] = v /\ First(s, s.head[v])
  ELSE s.head[v] = Nil /\ \A h \in X : s.vp[h] # v

Linked(s, X) ==
  /\ X \subseteq Handles
  /\ \A h \in X : HandleLinked(s, X, h)
  /\ \A v \in Values : HeadLinked(s, X, v)

Ordered(s, X, after) ==
  /\ DOMAIN after = Handles
  /\ \A h \in X :
       /\ \A k \in after[h] : k \in X /\ s.vp[k] = s.vp[h] /\ after[k] \subseteq after[h]
       /\ h \notin after[h]
       /\ s.next[h] # Nil => s.next[h] \in after[h]
       /\ \A k \in after[h] : s.next[h] # Nil /\ (k = s.next[h] \/ k \in after[s.next[h]])
       /\ h = s.head[s.vp[h]] \/ h \in after[s.head[s.vp[h]]]

List(s, X, after) == Fields(s) /\ Linked(s, X) /\ Ordered(s, X, after)

-----------------------------------------------------------------------------
(***************************************************************************)
(* The inductive invariant: the walks.                                     *)
(***************************************************************************)
On(s, X, v) == {h \in X : s.vp[h] = v}

\* What a walk waits for is ahead of it; a walk that deletes its Value has
\* dealt with all other handles, but for the one whose callback runs.
FrameOK(w, s, X, after) ==
  /\ w.entry = Nil \/ w.entry \in On(s, X, w.old)
  /\ w.waiting \subseteq On(s, X, w.old)
  /\ \A k \in w.waiting : w.entry # Nil /\ (k = w.entry \/ k \in after[w.entry])
  /\ w.to = Nil /\ w.at = "step" => On(s, X, w.old) \subseteq w.waiting
  /\ w.to = Nil /\ w.at = "callback" => On(s, X, w.old) \subseteq w.waiting \cup {w.this}

\* No two walks are on one Value, and no handle moves to a Value that is
\* destroyed or being destroyed.
Apart ==
  \A i \in DOMAIN walks :
    /\ walks[i].to # walks[i].old /\ walks[i].to \notin dead
    /\ \A j \in DOMAIN walks :
         /\ i # j => walks[i].old # walks[j].old
         /\ walks[i].to = Nil => walks[j].to # walks[i].old

Listed == {h \in exists : vp[h] # Nil}

TypeInv == exists \subseteq Handles /\ dead \subseteq Values /\ walks \in Seq(Frames)

ListInv(s, X, after) ==
  /\ s = State /\ X = Listed /\ List(s, X, after)
  /\ \A i \in DOMAIN walks : FrameOK(walks[i], s, X, after)
  /\ \A v \in dead : On(s, X, v) = {}

VInv == TypeInv /\ Apart /\ \E s, X, after : ListInv(s, X, after)

-----------------------------------------------------------------------------
(***************************************************************************)
(* The fields that the list operations change.                             *)
(***************************************************************************)
LEMMA Nils == Nil \notin Handles /\ Nil \notin Values
BY HandlesAssumption

LEMMA PlacesDiffer ==
  /\ \A v, t, h : Bucket(v, t) # NextOf(h)
  /\ \A v, t, w, u : Bucket(v, t) = Bucket(w, u) => v = w /\ t = u
  /\ \A g, h : NextOf(g) = NextOf(h) => g = h
BY DEF Bucket, NextOf

WithVp(s, h, x) == [s EXCEPT !.vp[h] = x]
VpSet(s, t, h, x) ==
  /\ Fields(t) /\ t.vp = [s.vp EXCEPT ![h] = x]
  /\ t.next = s.next /\ t.prev = s.prev /\ t.head = s.head /\ t.table = s.table /\ t.has = s.has

LEMMA SetVp ==
  ASSUME NEW s, Fields(s), NEW h, NEW x, NEW t, t = WithVp(s, h, x)
  PROVE  VpSet(s, t, h, x)
BY DEF Fields, WithVp, VpSet

WithNext(s, h, x) == [s EXCEPT !.next[h] = x]
NextSet(s, t, h, x) ==
  /\ Fields(t) /\ t.next = [s.next EXCEPT ![h] = x]
  /\ t.vp = s.vp /\ t.prev = s.prev /\ t.head = s.head /\ t.table = s.table /\ t.has = s.has

LEMMA SetNext ==
  ASSUME NEW s, Fields(s), NEW h, NEW x, NEW t, t = WithNext(s, h, x)
  PROVE  NextSet(s, t, h, x)
BY DEF Fields, WithNext, NextSet

WithPrev(s, h, x) == [s EXCEPT !.prev[h] = x]
PrevSet(s, t, h, x) ==
  /\ Fields(t) /\ t.prev = [s.prev EXCEPT ![h] = x]
  /\ t.vp = s.vp /\ t.next = s.next /\ t.head = s.head /\ t.table = s.table /\ t.has = s.has

LEMMA SetPrev ==
  ASSUME NEW s, Fields(s), NEW h, NEW x, NEW t, t = WithPrev(s, h, x)
  PROVE  PrevSet(s, t, h, x)
BY DEF Fields, WithPrev, PrevSet

WithHead(s, v, x) == [s EXCEPT !.head[v] = x]
HeadSet(s, t, v, x) ==
  /\ Fields(t) /\ t.head = [s.head EXCEPT ![v] = x]
  /\ t.vp = s.vp /\ t.next = s.next /\ t.prev = s.prev /\ t.table = s.table /\ t.has = s.has

LEMMA SetHead ==
  ASSUME NEW s, Fields(s), NEW v, NEW x, NEW t, t = WithHead(s, v, x)
  PROVE  HeadSet(s, t, v, x)
BY DEF Fields, WithHead, HeadSet

WithHas(s, x) == [s EXCEPT !.has = x]
HasSet(s, t, x) ==
  /\ Fields(t) /\ t.has = x
  /\ t.vp = s.vp /\ t.next = s.next /\ t.prev = s.prev /\ t.head = s.head /\ t.table = s.table

LEMMA SetHas ==
  ASSUME NEW s, Fields(s), NEW x, NEW t, t = WithHas(s, x)
  PROVE  HasSet(s, t, x)
BY DEF Fields, WithHas, HasSet

LEMMA PlaceAccess ==
  ASSUME NEW s, NEW x
  PROVE  /\ \A v, t : Load(s, Bucket(v, t)) = s.head[v]
         /\ \A g : Load(s, NextOf(g)) = s.next[g]
         /\ \A v : Store(s, Bucket(v, s.table), x) = WithHead(s, v, x)
         /\ \A g : Store(s, NextOf(g), x) = WithNext(s, g, x)
<1>1. /\ \A v, t : Load(s, Bucket(v, t)) = s.head[v]
      /\ \A g : Load(s, NextOf(g)) = s.next[g]
  BY DEF Load, Bucket, NextOf
<1>2. ASSUME NEW v PROVE Store(s, Bucket(v, s.table), x) = WithHead(s, v, x)
  BY DEF Store, Bucket, WithHead
<1>3. ASSUME NEW g PROVE Store(s, NextOf(g), x) = WithNext(s, g, x)
  BY DEF Store, NextOf, WithNext
<1> QED BY <1>1, <1>2, <1>3, Zenon

\* *PrevPtr = Next, at the head of a list.
LEMMA RemoveAtHead ==
  ASSUME NEW s, Fields(s), NEW h, s.prev[h] = Bucket(s.vp[h], s.table),
         NEW t, t = RemoveFromUseList(s, h)
  PROVE  /\ Fields(t) /\ t.vp = s.vp /\ t.table = s.table /\ t.next = s.next
         /\ t.head = [s.head EXCEPT ![s.vp[h]] = s.next[h]]
         /\ t.prev = IF s.next[h] = Nil THEN s.prev
                     ELSE [s.prev EXCEPT ![s.next[h]] = s.prev[h]]
         /\ t.has = IF s.next[h] = Nil THEN s.has \ {s.vp[h]} ELSE s.has
<1>1. PICK u : u = WithHead(s, s.vp[h], s.next[h])
  OBVIOUS
<1>2. u = Store(s, s.prev[h], s.next[h])
  BY <1>1, PlaceAccess, Zenon
<1>3. HeadSet(s, u, s.vp[h], s.next[h])
  BY <1>1, SetHead
<1>4. CASE s.next[h] = Nil
  <2>1. t = WithHas(u, u.has \ {s.vp[h]})
    BY <1>2, <1>4 DEF RemoveFromUseList, WithHas
  <2>2. HasSet(u, t, u.has \ {s.vp[h]})
    BY <1>3, <2>1, SetHas DEF HeadSet
  <2> QED BY <1>3, <1>4, <2>2 DEF HeadSet, HasSet
<1>5. CASE s.next[h] # Nil
  <2>1. t = WithPrev(u, s.next[h], s.prev[h])
    BY <1>2, <1>5 DEF RemoveFromUseList, WithPrev
  <2>2. PrevSet(u, t, s.next[h], s.prev[h])
    BY <1>3, <2>1, SetPrev DEF HeadSet
  <2> QED BY <1>3, <1>5, <2>2 DEF HeadSet, PrevSet
<1> QED BY <1>4, <1>5

\* *PrevPtr = Next, behind another handle.
LEMMA RemoveBehind ==
  ASSUME NEW s, Fields(s), NEW h, NEW g, s.prev[h] = NextOf(g),
         NEW t, t = RemoveFromUseList(s, h)
  PROVE  /\ Fields(t) /\ t.vp = s.vp /\ t.table = s.table /\ t.head = s.head /\ t.has = s.has
         /\ t.next = [s.next EXCEPT ![g] = s.next[h]]
         /\ t.prev = IF s.next[h] = Nil THEN s.prev
                     ELSE [s.prev EXCEPT ![s.next[h]] = s.prev[h]]
<1>1. PICK u : u = WithNext(s, g, s.next[h])
  OBVIOUS
<1>2. u = Store(s, s.prev[h], s.next[h])
  BY <1>1, PlaceAccess, Zenon
<1>3. NextSet(s, u, g, s.next[h])
  BY <1>1, SetNext
<1>4. CASE s.next[h] = Nil
  <2>1. t = u
    BY <1>2, <1>4, PlacesDiffer DEF RemoveFromUseList
  <2> QED BY <1>3, <1>4, <2>1 DEF NextSet
<1>5. CASE s.next[h] # Nil
  <2>1. t = WithPrev(u, s.next[h], s.prev[h])
    BY <1>2, <1>5 DEF RemoveFromUseList, WithPrev
  <2>2. PrevSet(u, t, s.next[h], s.prev[h])
    BY <1>3, <2>1, SetPrev DEF NextSet
  <2> QED BY <1>3, <1>5, <2>2 DEF NextSet, PrevSet
<1> QED BY <1>4, <1>5

\* Next = *List; *List = this, for a bucket.
LEMMA AddFirst ==
  ASSUME NEW s, Fields(s), NEW h, NEW v, NEW place, place = Bucket(v, s.table),
         NEW b, b = s.head[v], NEW t, t = AddToExistingUseList(s, h, place)
  PROVE  /\ Fields(t) /\ t.vp = s.vp /\ t.table = s.table /\ t.has = s.has
         /\ t.head = [s.head EXCEPT ![v] = h] /\ t.next = [s.next EXCEPT ![h] = b]
         /\ t.prev = IF b = Nil THEN [s.prev EXCEPT ![h] = place]
                     ELSE [[s.prev EXCEPT ![h] = place] EXCEPT ![b] = NextOf(h)]
<1>1. PICK m : m = WithNext(s, h, b)
  OBVIOUS
<1>2. PICK n : n = WithPrev(m, h, place)
  OBVIOUS
<1>3. PICK l : l = WithHead(n, v, h)
  OBVIOUS
<1>4. NextSet(s, m, h, b)
  BY <1>1, SetNext
<1>5. PrevSet(m, n, h, place)
  BY <1>2, <1>4, SetPrev DEF NextSet
<1>6. HeadSet(n, l, v, h)
  BY <1>3, <1>5, SetHead DEF PrevSet
<1>7. n = [s EXCEPT !.next[h] = b, !.prev[h] = place]
  BY <1>1, <1>2 DEF WithNext, WithPrev
<1>8. l = Store(n, place, h)
  <2>1. place = Bucket(v, n.table)
    BY <1>4, <1>5 DEF NextSet, PrevSet
  <2> QED BY <1>3, <2>1, PlaceAccess, Zenon
<1>9. t = IF b = Nil THEN l ELSE WithPrev(l, b, NextOf(h))
  <2>1. Load(s, place) = b
    BY PlaceAccess
  <2> QED BY <1>7, <1>8, <2>1 DEF AddToExistingUseList, WithPrev
<1>10. CASE b = Nil
  BY <1>4, <1>5, <1>6, <1>9, <1>10 DEF NextSet, PrevSet, HeadSet
<1>11. CASE b # Nil
  <2>1. PrevSet(l, t, b, NextOf(h))
    BY <1>6, <1>9, <1>11, SetPrev DEF HeadSet
  <2> QED BY <1>4, <1>5, <1>6, <1>11, <2>1 DEF NextSet, PrevSet, HeadSet
<1> QED BY <1>10, <1>11

\* Next = *List; *List = this, for the Next of another handle.
LEMMA AddBehind ==
  ASSUME NEW s, Fields(s), NEW h, NEW g, NEW place, place = NextOf(g),
         NEW b, b = s.next[g], NEW t, t = AddToExistingUseList(s, h, place)
  PROVE  /\ Fields(t) /\ t.vp = s.vp /\ t.table = s.table /\ t.has = s.has /\ t.head = s.head
         /\ t.next = [[s.next EXCEPT ![h] = b] EXCEPT ![g] = h]
         /\ t.prev = IF b = Nil THEN [s.prev EXCEPT ![h] = place]
                     ELSE [[s.prev EXCEPT ![h] = place] EXCEPT ![b] = NextOf(h)]
<1>1. PICK m : m = WithNext(s, h, b)
  OBVIOUS
<1>2. PICK n : n = WithPrev(m, h, place)
  OBVIOUS
<1>3. PICK l : l = WithNext(n, g, h)
  OBVIOUS
<1>4. NextSet(s, m, h, b)
  BY <1>1, SetNext
<1>5. PrevSet(m, n, h, place)
  BY <1>2, <1>4, SetPrev DEF NextSet
<1>6. NextSet(n, l, g, h)
  BY <1>3, <1>5, SetNext DEF PrevSet
<1>7. n = [s EXCEPT !.next[h] = b, !.prev[h] = place]
  BY <1>1, <1>2 DEF WithNext, WithPrev
<1>8. l = Store(n, place, h)
  <2>1. place = NextOf(g)
    BY <1>4, <1>5 DEF NextSet, PrevSet
  <2> QED BY <1>3, <2>1, PlaceAccess, Zenon
<1>9. t = IF b = Nil THEN l ELSE WithPrev(l, b, NextOf(h))
  <2>1. Load(s, place) = b
    BY PlaceAccess
  <2> QED BY <1>7, <1>8, <2>1 DEF AddToExistingUseList, WithPrev
<1>10. CASE b = Nil
  BY <1>4, <1>5, <1>6, <1>9, <1>10 DEF NextSet, PrevSet
<1>11. CASE b # Nil
  <2>1. PrevSet(l, t, b, NextOf(h))
    BY <1>6, <1>9, <1>11, SetPrev DEF NextSet
  <2> QED BY <1>4, <1>5, <1>6, <1>11, <2>1 DEF NextSet, PrevSet
<1> QED BY <1>10, <1>11

-----------------------------------------------------------------------------
(***************************************************************************)
(* What the operations do to the lists.                                    *)
(***************************************************************************)
\* No two handles have the same place.
LEMMA OnePlaceEach ==
  ASSUME NEW s, NEW X, Linked(s, X), NEW h \in X, NEW k \in X \ {h}
  PROVE  /\ ~(First(s, h) /\ First(s, k) /\ s.vp[h] = s.vp[k])
         /\ \A g : ~(Behind(s, g, h) /\ Behind(s, g, k))
         /\ \A g : ~(First(s, h) /\ Behind(s, g, h))
         /\ s.next[h] # k => ~Behind(s, h, k)
         /\ s.next[h] = k => Behind(s, h, k)
BY PlacesDiffer, Nils DEF Linked, HandleLinked, HeadLinked, First, Behind

LEMMA NotBoth ==
  ASSUME NEW s, NEW g, NEW h PROVE ~(First(s, h) /\ Behind(s, g, h))
<1> SUFFICES ASSUME First(s, h), Behind(s, g, h) PROVE FALSE
  OBVIOUS
<1>1. Bucket(s.vp[h], s.table) = NextOf(g)
  BY DEF First, Behind
<1> QED BY <1>1, PlacesDiffer, Zenon

LEMMA RemoveFirstKeeps ==
  ASSUME NEW s, NEW X, NEW after, List(s, X, after), NEW h \in X, First(s, h),
         NEW t, t = RemoveFromUseList(s, h)
  PROVE  List(t, X \ {h}, [k \in Handles |-> after[k] \ {h}]) /\ t.vp = s.vp
<1> DEFINE beyond == [k \in Handles |-> after[k] \ {h}]
<1>0. PICK Y : Y = X \ {h}
  OBVIOUS
<1>1. /\ Fields(s) /\ Linked(s, X) /\ Ordered(s, X, after) /\ X \subseteq Handles
      /\ s.vp[h] \in Values /\ s.head[s.vp[h]] = h /\ h \in Handles /\ h \in X
      /\ s.next[h] = Nil \/ (s.next[h] \in Y /\ Behind(s, h, s.next[h]) /\ s.next[h] \in Handles)
  BY <1>0 DEF List, Linked, HandleLinked, HeadLinked, Ordered, First
<1>2. /\ Fields(t) /\ t.vp = s.vp /\ t.table = s.table /\ t.next = s.next
      /\ t.head = [s.head EXCEPT ![s.vp[h]] = s.next[h]]
      /\ t.prev = IF s.next[h] = Nil THEN s.prev ELSE [s.prev EXCEPT ![s.next[h]] = s.prev[h]]
      /\ t.has = IF s.next[h] = Nil THEN s.has \ {s.vp[h]} ELSE s.has
  BY <1>0, <1>1, RemoveAtHead DEF First
<1>3. /\ \A k \in Handles : k # s.next[h] => t.prev[k] = s.prev[k]
      /\ s.next[h] # Nil => t.prev[s.next[h]] = s.prev[h]
      /\ t.head[s.vp[h]] = s.next[h]
      /\ \A v \in Values \ {s.vp[h]} : t.head[v] = s.head[v]
  BY <1>0, <1>1, <1>2, Nils DEF Fields
<1>4. \A k \in Y : /\ t.vp[k] \in Values
                   /\ t.next[k] = Nil \/ (t.next[k] \in Y /\ Behind(t, k, t.next[k]))
  <2> SUFFICES ASSUME NEW k \in Y
               PROVE  /\ t.vp[k] \in Values
                      /\ t.next[k] = Nil \/ (t.next[k] \in Y /\ Behind(t, k, t.next[k]))
    OBVIOUS
  <2>1. s.next[k] = Nil \/ (s.next[k] \in X /\ Behind(s, k, s.next[k]))
    BY <1>0, <1>1 DEF Linked, HandleLinked, HeadLinked
  <2>2. s.next[k] # h
    BY <1>0, <1>1, <2>1, PlacesDiffer, Nils DEF First, Behind
  <2>3. s.next[k] # Nil => s.next[k] # s.next[h]
    BY <1>0, <1>1, <2>1, PlacesDiffer DEF Behind
  <2> QED BY <1>0, <1>1, <1>2, <1>3, <2>1, <2>2, <2>3 DEF Linked, HandleLinked, HeadLinked, Behind
<1>5. \A k \in Y : First(t, k) \/ \E g \in Y : Behind(t, g, k)
  <2> SUFFICES ASSUME NEW k \in Y PROVE First(t, k) \/ \E g \in Y : Behind(t, g, k)
    OBVIOUS
  <2>1. CASE k = s.next[h]
    BY <1>0, <1>1, <1>2, <1>3, <2>1, Nils DEF First, Behind
  <2>2. CASE k # s.next[h]
    <3>1. CASE First(s, k)
      <4>1. s.vp[k] # s.vp[h] /\ s.vp[k] \in Values
        BY <1>0, <1>1, <3>1 DEF First, Linked, HandleLinked, HeadLinked
      <4> QED BY <1>0, <1>1, <1>2, <1>3, <2>2, <3>1, <4>1 DEF First
    <3>2. CASE \E g \in X : Behind(s, g, k)
      <4>1. PICK g \in X : Behind(s, g, k)
        BY <3>2
      <4>2. g # h
        BY <2>2, <4>1 DEF Behind
      <4> QED BY <1>0, <1>1, <1>2, <1>3, <2>2, <4>1, <4>2 DEF Behind
    <3> QED BY <1>0, <1>1, <3>1, <3>2 DEF Linked, HandleLinked, HeadLinked
  <2> QED BY <2>1, <2>2
<1>6. \A v \in Values :
        IF v \in t.has THEN t.head[v] \in Y /\ t.vp[t.head[v]] = v /\ First(t, t.head[v])
        ELSE t.head[v] = Nil /\ \A k \in Y : t.vp[k] # v
  <2> SUFFICES ASSUME NEW v \in Values
               PROVE  IF v \in t.has
                        THEN t.head[v] \in Y /\ t.vp[t.head[v]] = v /\ First(t, t.head[v])
                        ELSE t.head[v] = Nil /\ \A k \in Y : t.vp[k] # v
    OBVIOUS
  <2>1. IF v \in s.has THEN s.head[v] \in X /\ s.vp[s.head[v]] = v /\ First(s, s.head[v])
        ELSE s.head[v] = Nil /\ \A k \in X : s.vp[k] # v
    BY <1>0, <1>1 DEF Linked, HandleLinked, HeadLinked
  <2>2. CASE v # s.vp[h]
    <3>1. v \in t.has <=> v \in s.has
      BY <1>2, <2>2
    <3>2. v \in s.has => s.head[v] \in Y /\ s.head[v] # s.next[h]
      BY <1>0, <1>1, <2>1, <2>2, Nils DEF Behind
    <3> QED BY <1>0, <1>1, <1>2, <1>3, <2>1, <2>2, <3>1, <3>2 DEF First
  <2>3. CASE v = s.vp[h] /\ s.next[h] # Nil
    BY <1>0, <1>1, <1>2, <1>3, <2>1, <2>3 DEF First, Behind
  <2>4. CASE v = s.vp[h] /\ s.next[h] = Nil
    <3>1. \A k \in Y : s.vp[k] = s.vp[h] => k \in after[h]
      BY <1>0, <1>1 DEF Ordered
    <3>2. after[h] = {}
      BY <1>0, <1>1, <2>4 DEF Ordered
    <3> QED BY <1>0, <1>1, <1>2, <1>3, <2>4, <3>1, <3>2
  <2> QED BY <2>2, <2>3, <2>4
<1>7. Linked(t, Y)
  <2>1. ASSUME NEW k \in Y PROVE HandleLinked(t, Y, k)
    BY <1>4, <1>5 DEF HandleLinked
  <2>2. ASSUME NEW v \in Values PROVE HeadLinked(t, Y, v)
    BY <1>6 DEF HeadLinked
  <2> QED BY <1>0, <1>1, <2>1, <2>2 DEF Linked
<1>8. Ordered(t, Y, beyond)
  <2>1. DOMAIN beyond = Handles /\ \A k \in Handles : beyond[k] = after[k] \ {h}
    OBVIOUS
  <2> HIDE DEF beyond
  <2> SUFFICES ASSUME NEW k \in Y
               PROVE  /\ \A j \in beyond[k] :
                           j \in Y /\ t.vp[j] = t.vp[k] /\ beyond[j] \subseteq beyond[k]
                      /\ k \notin beyond[k]
                      /\ t.next[k] # Nil => t.next[k] \in beyond[k]
                      /\ \A j \in beyond[k] :
                           t.next[k] # Nil /\ (j = t.next[k] \/ j \in beyond[t.next[k]])
                      /\ k = t.head[t.vp[k]] \/ k \in beyond[t.head[t.vp[k]]]
    BY <2>1 DEF Ordered
  <2>2. /\ \A j \in after[k] : j \in X /\ s.vp[j] = s.vp[k] /\ after[j] \subseteq after[k]
        /\ k \notin after[k]
        /\ s.next[k] # Nil => s.next[k] \in after[k]
        /\ \A j \in after[k] : s.next[k] # Nil /\ (j = s.next[k] \/ j \in after[s.next[k]])
        /\ k = s.head[s.vp[k]] \/ k \in after[s.head[s.vp[k]]]
    BY <1>0, <1>1 DEF Ordered
  <2>3. s.next[k] = Nil \/ s.next[k] \in Y
    BY <1>0, <1>2, <1>4
  <2>4. /\ \A j \in beyond[k] : j \in Y /\ t.vp[j] = t.vp[k] /\ beyond[j] \subseteq beyond[k]
        /\ k \notin beyond[k]
        /\ t.next[k] # Nil => t.next[k] \in beyond[k]
        /\ \A j \in beyond[k] : t.next[k] # Nil /\ (j = t.next[k] \/ j \in beyond[t.next[k]])
    BY <1>0, <1>1, <1>2, <2>1, <2>2, <2>3
  <2>5. CASE s.vp[k] = s.vp[h]
    <3>1. k \in after[h]
      BY <1>0, <1>1, <2>2, <2>5
    <3>2. s.next[h] # Nil /\ (k = s.next[h] \/ k \in after[s.next[h]])
      BY <1>0, <1>1, <3>1 DEF Ordered
    <3> QED BY <1>0, <1>1, <1>2, <1>3, <2>1, <2>4, <2>5, <3>2
  <2>6. CASE s.vp[k] # s.vp[h]
    <3>1. s.vp[k] \in Values
      BY <1>0, <1>1 DEF Linked, HandleLinked, HeadLinked
    <3>2. t.head[t.vp[k]] = s.head[s.vp[k]]
      BY <1>2, <1>3, <2>6, <3>1
    <3>3. s.head[s.vp[k]] \in X
      BY <1>0, <1>1, <3>1 DEF Linked, HandleLinked, HeadLinked
    <3> QED BY <1>0, <1>1, <2>1, <2>2, <2>4, <3>2, <3>3
  <2> QED BY <2>5, <2>6
<1> QED BY <1>0, <1>2, <1>7, <1>8 DEF List

LEMMA RemoveBehindKeeps ==
  ASSUME NEW s, NEW X, NEW after, List(s, X, after), NEW h \in X, NEW g \in X, Behind(s, g, h),
         NEW t, t = RemoveFromUseList(s, h)
  PROVE  List(t, X \ {h}, [k \in Handles |-> after[k] \ {h}]) /\ t.vp = s.vp
<1> DEFINE beyond == [k \in Handles |-> after[k] \ {h}]
<1>0. PICK Y : Y = X \ {h}
  OBVIOUS
<1>1. /\ Fields(s) /\ Linked(s, X) /\ Ordered(s, X, after) /\ X \subseteq Handles
      /\ s.vp[h] \in Values /\ h \in Handles /\ g \in Handles
      /\ s.vp[g] = s.vp[h] /\ s.prev[h] = NextOf(g) /\ s.next[g] = h
      /\ s.next[h] = Nil \/ (s.next[h] \in X /\ Behind(s, h, s.next[h]) /\ s.next[h] \in Handles)
  BY <1>0 DEF List, Linked, HandleLinked, Behind
<1>2. /\ Fields(t) /\ t.vp = s.vp /\ t.table = s.table /\ t.head = s.head /\ t.has = s.has
      /\ t.next = [s.next EXCEPT ![g] = s.next[h]]
      /\ t.prev = IF s.next[h] = Nil THEN s.prev ELSE [s.prev EXCEPT ![s.next[h]] = s.prev[h]]
  BY <1>1, RemoveBehind
<1>3. /\ \A k \in Handles : k # s.next[h] => t.prev[k] = s.prev[k]
      /\ s.next[h] # Nil => t.prev[s.next[h]] = NextOf(g)
      /\ t.next[g] = s.next[h]
      /\ \A k \in Handles \ {g} : t.next[k] = s.next[k]
  BY <1>1, <1>2, Nils DEF Fields
<1>4. h \notin after[h] /\ h \in after[g] /\ g # h /\ s.next[h] # h
  <2>1. h \in after[g] /\ h \notin after[h] /\ (s.next[h] # Nil => s.next[h] \in after[h])
    BY <1>1, Nils DEF Ordered
  <2> QED BY <2>1, <1>1, Nils
<1>5. \A k \in Y : /\ t.vp[k] \in Values
                   /\ t.next[k] = Nil \/ (t.next[k] \in Y /\ Behind(t, k, t.next[k]))
  <2> SUFFICES ASSUME NEW k \in Y
               PROVE  /\ t.vp[k] \in Values
                      /\ t.next[k] = Nil \/ (t.next[k] \in Y /\ Behind(t, k, t.next[k]))
    OBVIOUS
  <2>1. s.vp[k] \in Values /\ (s.next[k] = Nil \/ (s.next[k] \in X /\ Behind(s, k, s.next[k])))
    BY <1>0, <1>1 DEF Linked, HandleLinked
  <2>2. CASE k = g
    BY <1>0, <1>1, <1>2, <1>3, <1>4, <2>1, <2>2 DEF Behind
  <2>3. CASE k # g
    <3>1. s.next[k] # h
      BY <1>1, <2>1, <2>3, PlacesDiffer, Nils DEF Behind
    <3>2. s.next[k] # Nil => s.next[k] # s.next[h]
      BY <1>0, <1>1, <2>1, PlacesDiffer DEF Behind
    <3> QED BY <1>0, <1>1, <1>2, <1>3, <2>1, <2>3, <3>1, <3>2 DEF Behind
  <2> QED BY <2>2, <2>3
<1>6. \A k \in Y : First(t, k) \/ \E e \in Y : Behind(t, e, k)
  <2> SUFFICES ASSUME NEW k \in Y PROVE First(t, k) \/ \E e \in Y : Behind(t, e, k)
    OBVIOUS
  <2>1. CASE k = s.next[h]
    BY <1>0, <1>1, <1>2, <1>3, <1>4, <2>1, Nils DEF Behind
  <2>2. CASE k # s.next[h]
    <3>1. CASE First(s, k)
      BY <1>0, <1>1, <1>2, <1>3, <2>2, <3>1 DEF First
    <3>2. CASE \E e \in X : Behind(s, e, k)
      <4>1. PICK e \in X : Behind(s, e, k)
        BY <3>2
      <4>2. e # h /\ e # g
        BY <1>0, <1>1, <2>2, <4>1 DEF Behind
      <4> QED BY <1>0, <1>1, <1>2, <1>3, <2>2, <4>1, <4>2 DEF Behind
    <3> QED BY <1>0, <1>1, <3>1, <3>2 DEF Linked, HandleLinked
  <2> QED BY <2>1, <2>2
<1>7. ASSUME NEW v \in Values PROVE HeadLinked(t, Y, v)
  <2>1. HeadLinked(s, X, v)
    BY <1>1 DEF Linked
  <2>2. v \in s.has => s.head[v] # h /\ s.head[v] # s.next[h]
    <3> SUFFICES ASSUME v \in s.has PROVE s.head[v] # h /\ s.head[v] # s.next[h]
      OBVIOUS
    <3>1. First(s, s.head[v]) /\ s.head[v] \in X
      BY <2>1 DEF HeadLinked
    <3> QED BY <1>1, <3>1, PlacesDiffer, Nils DEF First, Behind
  <2> QED BY <1>0, <1>1, <1>2, <1>3, <2>1, <2>2 DEF HeadLinked, First
<1>8. Linked(t, Y)
  <2>1. ASSUME NEW k \in Y PROVE HandleLinked(t, Y, k)
    BY <1>5, <1>6 DEF HandleLinked
  <2> QED BY <1>0, <1>1, <1>7, <2>1 DEF Linked
<1>9. Ordered(t, Y, beyond)
  <2>1. DOMAIN beyond = Handles /\ \A k \in Handles : beyond[k] = after[k] \ {h}
    OBVIOUS
  <2> HIDE DEF beyond
  <2> SUFFICES ASSUME NEW k \in Y
               PROVE  /\ \A j \in beyond[k] :
                           j \in Y /\ t.vp[j] = t.vp[k] /\ beyond[j] \subseteq beyond[k]
                      /\ k \notin beyond[k]
                      /\ t.next[k] # Nil => t.next[k] \in beyond[k]
                      /\ \A j \in beyond[k] :
                           t.next[k] # Nil /\ (j = t.next[k] \/ j \in beyond[t.next[k]])
                      /\ k = t.head[t.vp[k]] \/ k \in beyond[t.head[t.vp[k]]]
    BY <2>1 DEF Ordered
  <2>2. /\ \A j \in after[k] : j \in X /\ s.vp[j] = s.vp[k] /\ after[j] \subseteq after[k]
        /\ k \notin after[k]
        /\ s.next[k] # Nil => s.next[k] \in after[k]
        /\ \A j \in after[k] : s.next[k] # Nil /\ (j = s.next[k] \/ j \in after[s.next[k]])
        /\ k = s.head[s.vp[k]] \/ k \in after[s.head[s.vp[k]]]
    BY <1>0, <1>1 DEF Ordered
  <2>3. /\ s.vp[k] \in Values /\ s.head[s.vp[k]] \in X
        /\ s.next[k] = Nil \/ (s.next[k] \in X /\ Behind(s, k, s.next[k]))
    BY <1>0, <1>1 DEF Linked, HandleLinked, HeadLinked
  <2>4. /\ \A j \in beyond[k] : j \in Y /\ t.vp[j] = t.vp[k] /\ beyond[j] \subseteq beyond[k]
        /\ k \notin beyond[k]
        /\ k = t.head[t.vp[k]] \/ k \in beyond[t.head[t.vp[k]]]
    BY <1>0, <1>1, <1>2, <2>1, <2>2, <2>3
  <2>5. CASE k = g
    <3>1. \A j \in after[g] : j = h \/ j \in after[h]
      BY <1>1, <2>2, <2>5
    <3>2. /\ s.next[h] # Nil => s.next[h] \in after[h]
          /\ \A j \in after[h] : s.next[h] # Nil /\ (j = s.next[h] \/ j \in after[s.next[h]])
          /\ after[h] \subseteq after[g]
      BY <1>1, <1>4 DEF Ordered
    <3> QED BY <1>0, <1>1, <1>3, <1>4, <2>1, <2>4, <2>5, <3>1, <3>2
  <2>6. CASE k # g
    <3>1. s.next[k] # h /\ (s.next[k] # Nil => s.next[k] \in Handles)
      BY <1>1, <2>3, <2>6, PlacesDiffer, Nils DEF Behind
    <3> QED BY <1>0, <1>1, <1>3, <2>1, <2>2, <2>4, <2>6, <3>1
  <2> QED BY <2>5, <2>6
<1> QED BY <1>0, <1>2, <1>8, <1>9 DEF List

\* A handle leaves its list: the others keep their order.
LEMMA RemoveKeeps ==
  ASSUME NEW s, NEW X, NEW after, List(s, X, after), NEW h \in X,
         NEW t, t = RemoveFromUseList(s, h)
  PROVE  /\ List(t, X \ {h}, [k \in Handles |-> after[k] \ {h}])
         /\ t.vp = s.vp
<1>1. CASE First(s, h)
  BY <1>1, RemoveFirstKeeps
<1>2. CASE \E g \in X : Behind(s, g, h)
  BY <1>2, RemoveBehindKeeps
<1> QED BY <1>1, <1>2 DEF List, Linked, HandleLinked

\* What is not on a list is free to change.
Agree(s, t, X) ==
  /\ Fields(t) /\ t.head = s.head /\ t.table = s.table /\ t.has = s.has
  /\ \A k \in X : t.vp[k] = s.vp[k] /\ t.next[k] = s.next[k] /\ t.prev[k] = s.prev[k]

LEMMA AgreeKeeps ==
  ASSUME NEW s, NEW X, NEW after, List(s, X, after), NEW t, Agree(s, t, X)
  PROVE  List(t, X, after)
<1>1. /\ Linked(s, X) /\ Ordered(s, X, after) /\ X \subseteq Handles
      /\ Fields(t) /\ t.head = s.head /\ t.table = s.table /\ t.has = s.has
      /\ \A k \in X : t.vp[k] = s.vp[k] /\ t.next[k] = s.next[k] /\ t.prev[k] = s.prev[k]
  BY DEF List, Linked, Agree
<1>2. \A h \in X : First(s, h) => First(t, h)
  BY <1>1 DEF First
<1>3. \A g, h \in X : Behind(s, g, h) => Behind(t, g, h)
  BY <1>1 DEF Behind
<1>4. ASSUME NEW h \in X PROVE HandleLinked(t, X, h)
  BY <1>1, <1>2, <1>3 DEF Linked, HandleLinked
<1>5. ASSUME NEW v \in Values PROVE HeadLinked(t, X, v)
  BY <1>1, <1>2 DEF Linked, HeadLinked
<1>6. Ordered(t, X, after)
  <2>1. ASSUME NEW h \in X, NEW v \in Values
        PROVE  s.vp[h] \in Values /\ (s.head[s.vp[h]] = h \/ s.head[s.vp[h]] \in X)
    BY <1>1 DEF Linked, HandleLinked, HeadLinked
  <2>2. ASSUME NEW h \in X
        PROVE  \A k \in after[h] : k \in X /\ t.vp[k] = t.vp[h] /\ after[k] \subseteq after[h]
    BY <1>1 DEF Ordered
  <2>3. ASSUME NEW h \in X
        PROVE  /\ h \notin after[h]
               /\ t.next[h] # Nil => t.next[h] \in after[h]
               /\ \A k \in after[h] : t.next[h] # Nil /\ (k = t.next[h] \/ k \in after[t.next[h]])
               /\ h = t.head[t.vp[h]] \/ h \in after[t.head[t.vp[h]]]
    BY <1>1 DEF Ordered
  <2> QED BY <1>1, <2>2, <2>3 DEF Ordered
<1> QED BY <1>1, <1>4, <1>5, <1>6 DEF List, Linked

\* h is put before r, which is on a list.
Inserted(after, h, r) ==
  [k \in Handles |-> IF k = h THEN {r} \cup after[r]
                     ELSE IF r \in after[k] THEN after[k] \cup {h} ELSE after[k]]

PutBefore(s, t, X, h, r) ==
  /\ Fields(t) /\ t.vp = s.vp /\ t.table = s.table /\ t.has = s.has
  /\ t.next[h] = r /\ t.prev[h] = s.prev[r] /\ t.prev[r] = NextOf(h)
  /\ \A k \in X : t.next[k] = IF s.next[k] = r THEN h ELSE s.next[k]
  /\ \A k \in X \ {r} : t.prev[k] = s.prev[k]
  /\ \A v \in Values : t.head[v] = IF s.head[v] = r THEN h ELSE s.head[v]

LEMMA PutBeforeFirst ==
  ASSUME NEW s, NEW X, Fields(s), Linked(s, X), NEW r \in X, First(s, r), NEW h \in Handles \ X,
         NEW t, t = AddToExistingUseList(s, h, s.prev[r])
  PROVE  PutBefore(s, t, X, h, r)
<1>1. /\ r \in Handles /\ X \subseteq Handles /\ r # Nil /\ r # h /\ s.vp[r] \in Values
      /\ s.prev[r] = Bucket(s.vp[r], s.table) /\ s.head[s.vp[r]] = r
  BY Nils DEF Linked, HandleLinked, First
<1>2. PICK place, v : place = s.prev[r] /\ v = s.vp[r]
  OBVIOUS
<1>3. /\ place = Bucket(v, s.table) /\ r = s.head[v] /\ t = AddToExistingUseList(s, h, place)
  BY <1>1, <1>2
<1>4. /\ Fields(t) /\ t.vp = s.vp /\ t.table = s.table /\ t.has = s.has
      /\ t.head = [s.head EXCEPT ![v] = h] /\ t.next = [s.next EXCEPT ![h] = r]
      /\ t.prev = IF r = Nil THEN [s.prev EXCEPT ![h] = place]
                  ELSE [[s.prev EXCEPT ![h] = place] EXCEPT ![r] = NextOf(h)]
  BY <1>3, AddFirst
<1>5. \A k \in X : s.next[k] # r
  <2> SUFFICES ASSUME NEW k \in X, s.next[k] = r PROVE FALSE
    OBVIOUS
  <2>1. Behind(s, k, r)
    BY <1>1 DEF Linked, HandleLinked
  <2> QED BY <2>1, NotBoth
<1>6. \A w \in Values : s.head[w] = r => w = v
  BY <1>1, <1>2 DEF Linked, HeadLinked
<1>7. /\ t.next[h] = r /\ t.prev[h] = place /\ t.prev[r] = NextOf(h)
      /\ \A k \in X : t.next[k] = s.next[k]
      /\ \A k \in X \ {r} : t.prev[k] = s.prev[k]
  BY <1>1, <1>4 DEF Fields
<1>8. \A w \in Values : t.head[w] = IF s.head[w] = r THEN h ELSE s.head[w]
  BY <1>1, <1>2, <1>4, <1>6 DEF Fields
<1> QED BY <1>2, <1>4, <1>5, <1>7, <1>8 DEF PutBefore

LEMMA PutBeforeBehind ==
  ASSUME NEW s, NEW X, Fields(s), Linked(s, X), NEW r \in X, NEW g \in X, Behind(s, g, r),
         NEW h \in Handles \ X, NEW t, t = AddToExistingUseList(s, h, s.prev[r])
  PROVE  PutBefore(s, t, X, h, r)
<1>1. /\ r \in Handles /\ X \subseteq Handles /\ r # Nil /\ r # h /\ g \in Handles /\ g # h
      /\ s.prev[r] = NextOf(g) /\ s.next[g] = r
  BY Nils DEF Linked, Behind
<1>2. PICK place : place = s.prev[r]
  OBVIOUS
<1>3. place = NextOf(g) /\ r = s.next[g] /\ t = AddToExistingUseList(s, h, place)
  BY <1>1, <1>2
<1>4. /\ Fields(t) /\ t.vp = s.vp /\ t.table = s.table /\ t.has = s.has /\ t.head = s.head
      /\ t.next = [[s.next EXCEPT ![h] = r] EXCEPT ![g] = h]
      /\ t.prev = IF r = Nil THEN [s.prev EXCEPT ![h] = place]
                  ELSE [[s.prev EXCEPT ![h] = place] EXCEPT ![r] = NextOf(h)]
  BY <1>3, AddBehind
<1>5. \A k \in X : s.next[k] = r => k = g
  <2> SUFFICES ASSUME NEW k \in X, s.next[k] = r PROVE k = g
    OBVIOUS
  <2>1. Behind(s, k, r)
    BY <1>1 DEF Linked, HandleLinked
  <2> QED BY <1>1, <2>1, PlacesDiffer DEF Behind
<1>6. \A w \in Values : s.head[w] # r
  <2> SUFFICES ASSUME NEW w \in Values, s.head[w] = r PROVE FALSE
    OBVIOUS
  <2>1. First(s, r)
    BY <1>1 DEF Linked, HeadLinked
  <2> QED BY <2>1, NotBoth
<1>7. /\ t.next[h] = r /\ t.prev[h] = place /\ t.prev[r] = NextOf(h)
      /\ t.next[g] = h /\ \A k \in X \ {g} : t.next[k] = s.next[k]
      /\ \A k \in X \ {r} : t.prev[k] = s.prev[k]
  BY <1>1, <1>4 DEF Fields
<1> QED BY <1>1, <1>2, <1>4, <1>5, <1>6, <1>7 DEF PutBefore

LEMMA PutBeforeLinked ==
  ASSUME NEW s, NEW X, Linked(s, X), NEW r \in X, NEW h \in Handles \ X, s.vp[h] = s.vp[r],
         NEW t, PutBefore(s, t, X, h, r)
  PROVE  Linked(t, X \cup {h})
<1>0. PICK Y : Y = X \cup {h}
  OBVIOUS
<1>1. /\ r \in Handles /\ X \subseteq Handles /\ r # Nil /\ r # h /\ h # Nil /\ h \notin X
      /\ t.vp = s.vp /\ t.table = s.table /\ t.has = s.has
      /\ t.next[h] = r /\ t.prev[h] = s.prev[r] /\ t.prev[r] = NextOf(h)
      /\ s.vp[r] \in Values /\ s.vp[h] = s.vp[r]
      /\ \A k \in X : t.next[k] = IF s.next[k] = r THEN h ELSE s.next[k]
      /\ \A k \in X \ {r} : t.prev[k] = s.prev[k]
      /\ \A v \in Values : t.head[v] = IF s.head[v] = r THEN h ELSE s.head[v]
  BY Nils DEF Linked, HandleLinked, PutBefore
<1>2. Behind(t, h, r)
  BY <1>1 DEF Behind
<1>3. First(s, r) => First(t, h)
  BY <1>1 DEF First
<1>4. \A g \in X : Behind(s, g, r) => Behind(t, g, h)
  BY <1>1 DEF Behind
<1>5. ASSUME NEW k \in X, k # r, s.vp[k] \in Values, First(s, k) PROVE First(t, k)
  BY <1>1, <1>5 DEF First
<1>6. ASSUME NEW k \in X, k # r, NEW g \in X, Behind(s, g, k) PROVE Behind(t, g, k)
  BY <1>1, <1>6 DEF Behind
<1>7. ASSUME NEW k \in Y PROVE HandleLinked(t, Y, k)
  <2>1. CASE k = h
    <3>1. First(t, h) \/ \E g \in Y : Behind(t, g, h)
      BY <1>0, <1>3, <1>4 DEF Linked, HandleLinked
    <3> QED BY <1>0, <1>1, <1>2, <2>1, <3>1 DEF HandleLinked
  <2>2. CASE k \in X
    <3>1. HandleLinked(s, X, k)
      BY <2>2 DEF Linked
    <3>2. First(t, k) \/ \E g \in Y : Behind(t, g, k)
      <4>1. CASE k = r
        BY <1>0, <1>2, <4>1
      <4>2. CASE k # r
        BY <1>0, <1>5, <1>6, <2>2, <3>1, <4>2 DEF HandleLinked
      <4> QED BY <4>1, <4>2
    <3>3. t.next[k] = Nil \/ (t.next[k] \in Y /\ Behind(t, k, t.next[k]))
      <4>1. CASE s.next[k] = r
        BY <1>0, <1>1, <1>4, <2>2, <3>1, <4>1 DEF HandleLinked
      <4>2. CASE s.next[k] # r
        <5>1. t.next[k] = s.next[k]
          BY <1>1, <2>2, <4>2
        <5>2. CASE s.next[k] # Nil
          <6>1. s.next[k] \in X /\ Behind(s, k, s.next[k])
            BY <3>1, <5>2 DEF HandleLinked
          <6>2. Behind(t, k, s.next[k])
            BY <1>6, <2>2, <4>2, <6>1
          <6> QED BY <1>0, <5>1, <6>1, <6>2
        <5> QED BY <5>1, <5>2
      <4> QED BY <4>1, <4>2
    <3> QED BY <1>1, <3>1, <3>2, <3>3 DEF HandleLinked
  <2> QED BY <1>0, <2>1, <2>2
<1>8. ASSUME NEW v \in Values PROVE HeadLinked(t, Y, v)
  <2>1. HeadLinked(s, X, v)
    BY DEF Linked
  <2>2. CASE v \in s.has /\ s.head[v] = r
    BY <1>0, <1>1, <1>3, <2>1, <2>2 DEF HeadLinked
  <2>3. CASE v \in s.has /\ s.head[v] # r
    BY <1>0, <1>1, <1>5, <2>1, <2>3 DEF HeadLinked
  <2>4. CASE v \notin s.has
    BY <1>0, <1>1, <2>1, <2>4 DEF HeadLinked
  <2> QED BY <2>2, <2>3, <2>4
<1> QED BY <1>0, <1>1, <1>7, <1>8 DEF Linked

LEMMA PutBeforeOrdered ==
  ASSUME NEW s, NEW X, NEW after, Linked(s, X), Ordered(s, X, after),
         NEW r \in X, NEW h \in Handles \ X, s.vp[h] = s.vp[r],
         NEW t, PutBefore(s, t, X, h, r)
  PROVE  Ordered(t, X \cup {h}, Inserted(after, h, r))
<1>0. PICK Y, beyond : Y = X \cup {h} /\ beyond = Inserted(after, h, r)
  OBVIOUS
<1>1. /\ r \in Handles /\ X \subseteq Handles /\ r # Nil /\ r # h /\ h # Nil /\ h \notin X
      /\ t.vp = s.vp /\ t.next[h] = r
      /\ s.vp[r] \in Values /\ s.vp[h] = s.vp[r]
      /\ \A k \in X : t.next[k] = IF s.next[k] = r THEN h ELSE s.next[k]
      /\ \A v \in Values : t.head[v] = IF s.head[v] = r THEN h ELSE s.head[v]
  BY Nils DEF Linked, HandleLinked, PutBefore
<1>2. /\ DOMAIN beyond = Handles
      /\ \A j : j \in beyond[h] <=> j = r \/ j \in after[r]
      /\ \A k \in X : \A j : j \in beyond[k] <=> j \in after[k] \/ (j = h /\ r \in after[k])
  BY <1>0, <1>1 DEF Inserted
<1>3. \A k \in X :
        /\ \A j \in after[k] : j \in X /\ s.vp[j] = s.vp[k] /\ after[j] \subseteq after[k]
        /\ k \notin after[k]
        /\ s.next[k] # Nil => s.next[k] \in after[k]
        /\ \A j \in after[k] : s.next[k] # Nil /\ (j = s.next[k] \/ j \in after[s.next[k]])
        /\ k = s.head[s.vp[k]] \/ k \in after[s.head[s.vp[k]]]
  BY DEF Ordered
<1>4. \A k \in X : /\ s.vp[k] \in Values /\ s.head[s.vp[k]] \in X
                   /\ s.next[k] # Nil => s.next[k] \in X
  BY DEF Linked, HandleLinked, HeadLinked
<1>5. ASSUME NEW k \in Y
      PROVE  /\ \A j \in beyond[k] : j \in Y /\ t.vp[j] = t.vp[k] /\ beyond[j] \subseteq beyond[k]
             /\ k \notin beyond[k]
  <2>1. CASE k = h
    <3>1. \A i : i \in beyond[r] => i \in after[r]
      BY <1>2, <1>3
    <3>2. \A j \in after[r] : \A i : i \in beyond[j] => i \in after[r]
      BY <1>2, <1>3
    <3> QED BY <1>0, <1>1, <1>2, <1>3, <2>1, <3>1, <3>2
  <2>2. CASE k \in X
    <3>1. ASSUME NEW j \in beyond[k]
          PROVE  j \in Y /\ s.vp[j] = s.vp[k] /\ beyond[j] \subseteq beyond[k]
      <4>1. CASE j = h
        <5>1. r \in after[k]
          BY <1>1, <1>2, <1>3, <2>2, <3>1, <4>1
        <5> QED BY <1>0, <1>1, <1>2, <1>3, <2>2, <4>1, <5>1
      <4>2. CASE j # h
        <5>1. j \in after[k] /\ j \in X
          BY <1>2, <1>3, <2>2, <3>1, <4>2
        <5> QED BY <1>0, <1>2, <1>3, <2>2, <5>1
      <4> QED BY <4>1, <4>2
    <3>2. k \notin beyond[k]
      BY <1>1, <1>2, <1>3, <2>2
    <3> QED BY <1>1, <3>1, <3>2
  <2> QED BY <1>0, <2>1, <2>2
<1>6. ASSUME NEW k \in Y
      PROVE  /\ t.next[k] # Nil => t.next[k] \in beyond[k]
             /\ \A j \in beyond[k] : t.next[k] # Nil /\ (j = t.next[k] \/ j \in beyond[t.next[k]])
  <2>1. CASE k = h
    BY <1>1, <1>2, <1>3, <2>1
  <2>2. CASE k \in X /\ s.next[k] = r
    BY <1>1, <1>2, <1>3, <2>2
  <2>3. CASE k \in X /\ s.next[k] # r
    <3>1. t.next[k] = s.next[k]
      BY <1>1, <2>3
    <3>2. r \in after[k] => r \in after[s.next[k]] /\ s.next[k] \in X
      BY <1>3, <1>4, <2>3
    <3> QED BY <1>1, <1>2, <1>3, <1>4, <2>3, <3>1, <3>2
  <2> QED BY <1>0, <2>1, <2>2, <2>3
<1>7. ASSUME NEW k \in Y
      PROVE  k = t.head[t.vp[k]] \/ k \in beyond[t.head[t.vp[k]]]
  <2>1. CASE k = h
    <3>1. t.head[t.vp[k]] = IF s.head[s.vp[r]] = r THEN h ELSE s.head[s.vp[r]]
      BY <1>1, <2>1
    <3>2. s.head[s.vp[r]] \in X /\ (r = s.head[s.vp[r]] \/ r \in after[s.head[s.vp[r]]])
      BY <1>3, <1>4
    <3> QED BY <1>1, <1>2, <2>1, <3>1, <3>2
  <2>2. CASE k \in X
    <3>1. t.head[t.vp[k]] = IF s.head[s.vp[k]] = r THEN h ELSE s.head[s.vp[k]]
      BY <1>1, <1>4, <2>2
    <3>2. s.head[s.vp[k]] \in X /\ (k = s.head[s.vp[k]] \/ k \in after[s.head[s.vp[k]]])
      BY <1>3, <1>4, <2>2
    <3> QED BY <1>1, <1>2, <2>2, <3>1, <3>2
  <2> QED BY <1>0, <2>1, <2>2
<1>8. Ordered(t, Y, beyond)
  BY <1>2, <1>5, <1>6, <1>7 DEF Ordered
<1> QED BY <1>0, <1>8

\* A handle joins a list, before another.
LEMMA AddBeforeKeeps ==
  ASSUME NEW s, NEW X, NEW after, List(s, X, after), NEW r \in X,
         NEW h \in Handles \ X, s.vp[h] = s.vp[r],
         NEW t, t = AddToExistingUseList(s, h, s.prev[r])
  PROVE  List(t, X \cup {h}, Inserted(after, h, r)) /\ t.vp = s.vp
<1>1. Fields(s) /\ Linked(s, X) /\ Ordered(s, X, after)
  BY DEF List
<1>2. PutBefore(s, t, X, h, r)
  <2>1. CASE First(s, r)
    BY <1>1, <2>1, PutBeforeFirst
  <2>2. CASE \E g \in X : Behind(s, g, r)
    <3>1. PICK g \in X : Behind(s, g, r)
      BY <2>2
    <3> QED BY <1>1, <3>1, PutBeforeBehind
  <2> QED BY <1>1, <2>1, <2>2 DEF Linked, HandleLinked
<1>3. Linked(t, X \cup {h})
  BY <1>1, <1>2, PutBeforeLinked
<1>4. Ordered(t, X \cup {h}, Inserted(after, h, r))
  BY <1>1, <1>2, PutBeforeOrdered
<1> QED BY <1>2, <1>3, <1>4 DEF List, PutBefore

\* h is put in a bucket of its own.
Alone(after, h) == [k \in Handles |-> IF k = h THEN {} ELSE after[k]]

PutAlone(s, t, X, h) ==
  /\ Fields(t) /\ t.vp = s.vp /\ t.has = s.has \cup {s.vp[h]}
  /\ t.next[h] = Nil /\ t.prev[h] = Bucket(s.vp[h], t.table) /\ t.head[s.vp[h]] = h
  /\ \A v \in Values \ {s.vp[h]} : t.head[v] = s.head[v]
  /\ \A k \in X : t.next[k] = s.next[k]
  /\ \A k \in X : First(s, k) => t.prev[k] = Bucket(s.vp[k], t.table)
  /\ \A k \in X : ~First(s, k) => t.prev[k] = s.prev[k]

Inserting(s, v, tb) == [s EXCEPT !.table = tb, !.has = @ \cup {v}]

LEMMA TableMoves ==
  ASSUME NEW s, Fields(s), NEW v, NEW tb \in Tables, NEW m, m = Inserting(s, v, tb)
  PROVE  /\ Fields(m) /\ m.table = tb /\ m.has = s.has \cup {v}
         /\ m.vp = s.vp /\ m.next = s.next /\ m.prev = s.prev /\ m.head = s.head
BY DEF Fields, Inserting

LEMMA PrevPtrsFixed ==
  ASSUME NEW s, Fields(s), NEW t, t = FixPrevPtrs(s)
  PROVE  /\ Fields(t) /\ t.table = s.table /\ t.has = s.has
         /\ t.vp = s.vp /\ t.next = s.next /\ t.head = s.head
         /\ \A k \in Handles : (\A v \in Values : s.head[v] # k) => t.prev[k] = s.prev[k]
         /\ \A k \in Handles, v \in Values :
              s.head[v] = k /\ (\A w \in Values : s.head[w] = k => w = v)
                => t.prev[k] = Bucket(v, s.table)
<1>1. PICK fixed : fixed = [h \in Handles |->
                     IF \E v \in Values : s.head[v] = h
                       THEN Bucket(CHOOSE v \in Values : s.head[v] = h, s.table)
                       ELSE s.prev[h]]
  OBVIOUS
<1>2. t = [s EXCEPT !.prev = fixed]
  BY <1>1 DEF FixPrevPtrs
<1>3. /\ t.table = s.table /\ t.has = s.has /\ t.vp = s.vp /\ t.next = s.next
      /\ t.head = s.head /\ t.prev = fixed /\ DOMAIN fixed = Handles
      /\ t = [vp |-> t.vp, next |-> t.next, prev |-> t.prev, head |-> t.head,
              table |-> t.table, has |-> t.has]
  BY <1>1, <1>2 DEF Fields
<1>4. Fields(t)
  BY <1>3 DEF Fields
<1>5. ASSUME NEW k \in Handles, \A v \in Values : s.head[v] # k
      PROVE  t.prev[k] = s.prev[k]
  BY <1>1, <1>3, <1>5
<1>6. ASSUME NEW k \in Handles, NEW v \in Values, s.head[v] = k,
             \A w \in Values : s.head[w] = k => w = v
      PROVE  t.prev[k] = Bucket(v, s.table)
  <2>1. (CHOOSE w \in Values : s.head[w] = k) = v
    BY <1>6
  <2>2. fixed[k] = Bucket(CHOOSE w \in Values : s.head[w] = k, s.table)
    BY <1>1, <1>6
  <2> QED BY <1>3, <2>1, <2>2
<1> QED BY <1>3, <1>4, <1>5, <1>6

LEMMA AddAlone ==
  ASSUME NEW s, NEW X, Fields(s), Linked(s, X), NEW h \in Handles \ X, s.vp[h] \in Values,
         s.vp[h] \notin s.has, NEW t \in AddToUseList(s, h)
  PROVE  PutAlone(s, t, X, h)
<1>1. PICK v : v = s.vp[h]
  OBVIOUS
<1>2. /\ v \in Values /\ v \notin s.has /\ s.head[v] = Nil /\ h # Nil
      /\ \A k \in X : s.vp[k] \in Values \ {v}
      /\ \A w \in Values : s.head[w] # Nil =>
           s.head[w] \in X /\ s.vp[s.head[w]] = w /\ First(s, s.head[w])
  BY <1>1, Nils DEF Linked, HandleLinked, HeadLinked
<1>3. PICK tb \in Tables :
        t = LET added == AddToExistingUseList(Inserting(s, v, tb), h, Bucket(v, tb))
            IN  IF tb = s.table THEN added ELSE FixPrevPtrs(added)
  BY <1>1, <1>2 DEF AddToUseList, Inserting
<1>4. PICK m, place, b : m = Inserting(s, v, tb) /\ place = Bucket(v, tb) /\ b = Nil
  OBVIOUS
<1>5. PICK l : l = AddToExistingUseList(m, h, place)
  OBVIOUS
<1>6. /\ Fields(m) /\ m.table = tb /\ m.has = s.has \cup {v}
      /\ m.vp = s.vp /\ m.next = s.next /\ m.prev = s.prev /\ m.head = s.head
  BY <1>4, TableMoves
<1>7. /\ place = Bucket(v, m.table) /\ b = m.head[v]
  BY <1>2, <1>4, <1>6
<1>8. /\ Fields(l) /\ l.vp = m.vp /\ l.table = m.table /\ l.has = m.has
      /\ l.head = [m.head EXCEPT ![v] = h] /\ l.next = [m.next EXCEPT ![h] = b]
      /\ l.prev = IF b = Nil THEN [m.prev EXCEPT ![h] = place]
                  ELSE [[m.prev EXCEPT ![h] = place] EXCEPT ![b] = NextOf(h)]
  BY <1>5, <1>6, <1>7, AddFirst
<1>9. /\ Fields(l) /\ l.vp = s.vp /\ l.table = tb /\ l.has = s.has \cup {v}
      /\ l.next[h] = Nil /\ l.prev[h] = Bucket(v, tb) /\ l.head[v] = h
      /\ \A w \in Values \ {v} : l.head[w] = s.head[w]
      /\ \A k \in X : l.next[k] = s.next[k] /\ l.prev[k] = s.prev[k]
  BY <1>2, <1>4, <1>6, <1>8 DEF Fields, Linked
<1>10. t = IF tb = s.table THEN l ELSE FixPrevPtrs(l)
  BY <1>3, <1>4, <1>5
<1>11. CASE tb = s.table
  <2>1. t = l
    BY <1>10, <1>11
  <2>2. \A k \in X : First(s, k) => t.prev[k] = Bucket(s.vp[k], t.table)
    BY <1>9, <1>11, <2>1 DEF First
  <2> QED BY <1>1, <1>9, <2>1, <2>2 DEF PutAlone
<1>12. CASE tb # s.table
  <2>1. t = FixPrevPtrs(l)
    BY <1>10, <1>12
  <2>2. /\ Fields(t) /\ t.table = l.table /\ t.has = l.has
        /\ t.vp = l.vp /\ t.next = l.next /\ t.head = l.head
        /\ \A k \in Handles : (\A w \in Values : l.head[w] # k) => t.prev[k] = l.prev[k]
        /\ \A k \in Handles, u \in Values :
             l.head[u] = k /\ (\A w \in Values : l.head[w] = k => w = u)
               => t.prev[k] = Bucket(u, l.table)
    BY <1>9, <2>1, PrevPtrsFixed
  <2>3. X \subseteq Handles /\ h \in Handles /\ h \notin X
    BY DEF Linked
  <2>4. ASSUME NEW w \in Values, l.head[w] = h PROVE w = v
    BY <1>2, <1>9, <2>3, <2>4
  <2>5. t.prev[h] = Bucket(v, tb)
    BY <1>2, <1>9, <2>2, <2>3, <2>4
  <2>6. ASSUME NEW k \in X, First(s, k) PROVE t.prev[k] = Bucket(s.vp[k], t.table)
    <3>1. s.vp[k] \in Values \ {v} /\ s.head[s.vp[k]] = k
      BY <1>2, <2>6 DEF First
    <3>2. l.head[s.vp[k]] = k /\ \A w \in Values : l.head[w] = k => w = s.vp[k]
      BY <1>2, <1>9, <2>3, <3>1, Nils
    <3> QED BY <2>2, <2>3, <3>1, <3>2
  <2>7. ASSUME NEW k \in X, ~First(s, k) PROVE t.prev[k] = s.prev[k]
    <3>1. \A w \in Values : l.head[w] # k
      BY <1>2, <1>9, <2>3, <2>7, Nils
    <3> QED BY <1>9, <2>2, <2>3, <3>1
  <2> QED BY <1>1, <1>9, <2>2, <2>5, <2>6, <2>7 DEF PutAlone
<1> QED BY <1>11, <1>12

LEMMA PutAloneLinked ==
  ASSUME NEW s, NEW X, Linked(s, X), NEW h \in Handles \ X, s.vp[h] \in Values,
         s.vp[h] \notin s.has, NEW t, PutAlone(s, t, X, h)
  PROVE  Linked(t, X \cup {h})
<1>0. PICK Y, v : Y = X \cup {h} /\ v = s.vp[h]
  OBVIOUS
<1>1. /\ X \subseteq Handles /\ h # Nil /\ h \notin X /\ v \in Values /\ v \notin s.has
      /\ t.vp = s.vp /\ t.has = s.has \cup {v}
      /\ t.next[h] = Nil /\ t.prev[h] = Bucket(v, t.table) /\ t.head[v] = h
      /\ \A w \in Values \ {v} : t.head[w] = s.head[w]
      /\ \A k \in X : t.next[k] = s.next[k]
      /\ \A k \in X : First(s, k) => t.prev[k] = Bucket(s.vp[k], t.table)
      /\ \A k \in X : ~First(s, k) => t.prev[k] = s.prev[k]
      /\ \A k \in X : s.vp[k] \in Values \ {v}
  BY <1>0, Nils DEF Linked, HandleLinked, HeadLinked, PutAlone
<1>2. First(t, h)
  BY <1>0, <1>1 DEF First
<1>3. ASSUME NEW k \in X, First(s, k) PROVE First(t, k)
  <2>1. s.head[s.vp[k]] = k
    BY <1>3 DEF First
  <2> QED BY <1>1, <1>3, <2>1 DEF First
<1>4. ASSUME NEW k \in X, NEW g \in X, Behind(s, g, k) PROVE Behind(t, g, k)
  <2>1. ~First(s, k)
    BY <1>4, NotBoth
  <2> QED BY <1>1, <1>4, <2>1 DEF Behind
<1>5. ASSUME NEW k \in Y PROVE HandleLinked(t, Y, k)
  <2>1. CASE k = h
    BY <1>0, <1>1, <1>2, <2>1 DEF HandleLinked
  <2>2. CASE k \in X
    <3>1. HandleLinked(s, X, k)
      BY <2>2 DEF Linked
    <3>2. First(t, k) \/ \E g \in Y : Behind(t, g, k)
      BY <1>0, <1>3, <1>4, <2>2, <3>1 DEF HandleLinked
    <3>3. t.next[k] = Nil \/ (t.next[k] \in Y /\ Behind(t, k, t.next[k]))
      <4>1. t.next[k] = s.next[k]
        BY <1>1, <2>2
      <4>2. CASE s.next[k] # Nil
        <5>1. s.next[k] \in X /\ Behind(s, k, s.next[k])
          BY <3>1, <4>2 DEF HandleLinked
        <5>2. Behind(t, k, s.next[k])
          BY <1>4, <2>2, <5>1
        <5> QED BY <1>0, <4>1, <5>1, <5>2
      <4> QED BY <4>1, <4>2
    <3> QED BY <1>1, <2>2, <3>2, <3>3 DEF HandleLinked
  <2> QED BY <1>0, <2>1, <2>2
<1>6. ASSUME NEW w \in Values PROVE HeadLinked(t, Y, w)
  <2>1. HeadLinked(s, X, w)
    BY DEF Linked
  <2>2. CASE w = v
    BY <1>0, <1>1, <1>2, <2>2 DEF HeadLinked
  <2>3. CASE w # v
    BY <1>0, <1>1, <1>3, <2>1, <2>3 DEF HeadLinked
  <2> QED BY <2>2, <2>3
<1> QED BY <1>0, <1>1, <1>5, <1>6 DEF Linked

LEMMA PutAloneOrdered ==
  ASSUME NEW s, NEW X, NEW after, Linked(s, X), Ordered(s, X, after),
         NEW h \in Handles \ X, s.vp[h] \in Values, s.vp[h] \notin s.has,
         NEW t, PutAlone(s, t, X, h)
  PROVE  Ordered(t, X \cup {h}, Alone(after, h))
<1>0. PICK Y, v, beyond : Y = X \cup {h} /\ v = s.vp[h] /\ beyond = Alone(after, h)
  OBVIOUS
<1>1. /\ X \subseteq Handles /\ h # Nil /\ h \notin X /\ v \in Values
      /\ t.vp = s.vp /\ t.next[h] = Nil /\ t.head[v] = h
      /\ \A w \in Values \ {v} : t.head[w] = s.head[w]
      /\ \A k \in X : t.next[k] = s.next[k]
      /\ \A k \in X : s.vp[k] \in Values \ {v} /\ s.head[s.vp[k]] \in X
      /\ \A k \in X : s.next[k] # Nil => s.next[k] \in X
  BY <1>0, Nils DEF Linked, HandleLinked, HeadLinked, PutAlone
<1>2. /\ DOMAIN beyond = Handles /\ beyond[h] = {}
      /\ \A k \in X : beyond[k] = after[k]
  BY <1>0, <1>1 DEF Alone
<1>3. \A k \in X :
        /\ \A j \in after[k] : j \in X /\ s.vp[j] = s.vp[k] /\ after[j] \subseteq after[k]
        /\ k \notin after[k]
        /\ s.next[k] # Nil => s.next[k] \in after[k]
        /\ \A j \in after[k] : s.next[k] # Nil /\ (j = s.next[k] \/ j \in after[s.next[k]])
        /\ k = s.head[s.vp[k]] \/ k \in after[s.head[s.vp[k]]]
  BY DEF Ordered
<1>4. ASSUME NEW k \in Y
      PROVE  /\ \A j \in beyond[k] : j \in Y /\ t.vp[j] = t.vp[k] /\ beyond[j] \subseteq beyond[k]
             /\ k \notin beyond[k]
             /\ t.next[k] # Nil => t.next[k] \in beyond[k]
             /\ \A j \in beyond[k] : t.next[k] # Nil /\ (j = t.next[k] \/ j \in beyond[t.next[k]])
             /\ k = t.head[t.vp[k]] \/ k \in beyond[t.head[t.vp[k]]]
  <2>1. CASE k = h
    BY <1>0, <1>1, <1>2, <2>1
  <2>2. CASE k \in X
    <3>1. \A j \in beyond[k] : j \in Y /\ t.vp[j] = t.vp[k] /\ beyond[j] \subseteq beyond[k]
      BY <1>0, <1>1, <1>2, <1>3, <2>2
    <3>2. /\ k \notin beyond[k]
          /\ t.next[k] # Nil => t.next[k] \in beyond[k]
          /\ \A j \in beyond[k] : t.next[k] # Nil /\ (j = t.next[k] \/ j \in beyond[t.next[k]])
      BY <1>1, <1>2, <1>3, <2>2
    <3>3. k = t.head[t.vp[k]] \/ k \in beyond[t.head[t.vp[k]]]
      BY <1>1, <1>2, <1>3, <2>2
    <3> QED BY <3>1, <3>2, <3>3
  <2> QED BY <1>0, <2>1, <2>2
<1>5. Ordered(t, Y, beyond)
  BY <1>2, <1>4 DEF Ordered
<1> QED BY <1>0, <1>5

-----------------------------------------------------------------------------
(***************************************************************************)
(* What moving one handle does to the others.                              *)
(***************************************************************************)
\* From lists s, X, after to t, Y, beyond: the others stay, in their order.
Moves(s, X, after, t, Y, beyond, h) ==
  /\ List(t, Y, beyond) /\ Y \ {h} = X \ {h}
  /\ \A k \in Handles \ {h} : t.vp[k] = s.vp[k]
  /\ \A k \in X \ {h} : after[k] \ {h} \subseteq beyond[k]

LEMMA MovesTwice ==
  ASSUME NEW s, NEW X, NEW after, NEW u, NEW Z, NEW during, NEW t, NEW Y, NEW beyond, NEW h,
         Moves(s, X, after, u, Z, during, h), Moves(u, Z, during, t, Y, beyond, h)
  PROVE  Moves(s, X, after, t, Y, beyond, h)
BY DEF Moves

LEMMA AddsBefore ==
  ASSUME NEW s, NEW X, NEW after, List(s, X, after), NEW r \in X,
         NEW h \in Handles \ X, s.vp[h] = s.vp[r],
         NEW t, t = AddToExistingUseList(s, h, s.prev[r])
  PROVE  \E beyond : Moves(s, X, after, t, X \cup {h}, beyond, h) /\ t.vp = s.vp
<1>1. PICK beyond, Y : beyond = Inserted(after, h, r) /\ Y = X \cup {h}
  OBVIOUS
<1>2. List(t, Y, beyond) /\ t.vp = s.vp
  BY <1>1, AddBeforeKeeps
<1>3. \A k \in X \ {h} : after[k] \ {h} \subseteq beyond[k]
  <2>1. X \subseteq Handles
    BY DEF List, Linked
  <2> QED BY <1>1, <2>1 DEF Inserted
<1>4. Moves(s, X, after, t, Y, beyond, h)
  BY <1>1, <1>2, <1>3 DEF Moves
<1> QED BY <1>1, <1>2, <1>4

LEMMA AddsToUseList ==
  ASSUME NEW s, NEW X, NEW after, List(s, X, after), NEW h \in Handles \ X, s.vp[h] \in Values,
         NEW t \in AddToUseList(s, h)
  PROVE  \E beyond : Moves(s, X, after, t, X \cup {h}, beyond, h) /\ t.vp = s.vp
<1>1. Fields(s) /\ Linked(s, X) /\ Ordered(s, X, after) /\ X \subseteq Handles
  BY DEF List, Linked
<1>2. CASE s.vp[h] \in s.has
  <2>1. PICK r : r = s.head[s.vp[h]]
    OBVIOUS
  <2>2. r \in X /\ s.vp[r] = s.vp[h] /\ s.prev[r] = Bucket(s.vp[h], s.table)
    BY <1>1, <1>2, <2>1 DEF Linked, HeadLinked, First
  <2>3. t = AddToExistingUseList(s, h, s.prev[r])
    BY <1>2, <2>2 DEF AddToUseList
  <2> QED BY <2>2, <2>3, AddsBefore
<1>3. CASE s.vp[h] \notin s.has
  <2>1. PICK beyond, Y : beyond = Alone(after, h) /\ Y = X \cup {h}
    OBVIOUS
  <2>2. PutAlone(s, t, X, h)
    BY <1>1, <1>3, AddAlone
  <2>3. Linked(t, Y)
    BY <1>1, <1>3, <2>1, <2>2, PutAloneLinked
  <2>4. Ordered(t, Y, beyond)
    BY <1>1, <1>3, <2>1, <2>2, PutAloneOrdered
  <2>5. List(t, Y, beyond) /\ t.vp = s.vp
    BY <2>2, <2>3, <2>4 DEF List, PutAlone
  <2>6. \A k \in X \ {h} : after[k] \ {h} \subseteq beyond[k]
    BY <1>1, <2>1 DEF Alone
  <2>7. Moves(s, X, after, t, Y, beyond, h)
    BY <2>1, <2>5, <2>6 DEF Moves
  <2> QED BY <2>1, <2>5, <2>7
<1> QED BY <1>2, <1>3

LEMMA Unwatches ==
  ASSUME NEW s, NEW X, NEW after, List(s, X, after), NEW h \in Handles, s.vp[h] # Nil => h \in X,
         NEW t, t = Unwatch(s, h)
  PROVE  \E Y, beyond : /\ Moves(s, X, after, t, Y, beyond, h)
                        /\ h \notin Y /\ t.vp = s.vp
<1>1. CASE s.vp[h] # Nil
  <2>1. PICK beyond, Y : beyond = [k \in Handles |-> after[k] \ {h}] /\ Y = X \ {h}
    OBVIOUS
  <2>2. t = RemoveFromUseList(s, h)
    BY <1>1 DEF Unwatch
  <2>3. List(t, Y, beyond) /\ t.vp = s.vp
    BY <1>1, <2>1, <2>2, RemoveKeeps
  <2>4. \A k \in X \ {h} : after[k] \ {h} \subseteq beyond[k]
    BY <2>1 DEF List, Linked
  <2>5. Moves(s, X, after, t, Y, beyond, h)
    BY <2>1, <2>3, <2>4 DEF Moves
  <2> QED BY <2>1, <2>3, <2>5
<1>2. CASE s.vp[h] = Nil
  <2>1. h \notin X /\ t = s
    BY <1>2, Nils DEF List, Linked, HandleLinked, Unwatch
  <2>2. Moves(s, X, after, t, X, after, h)
    BY <2>1 DEF Moves
  <2> QED BY <2>1, <2>2
<1> QED BY <1>1, <1>2

LEMMA VpChanges ==
  ASSUME NEW s, NEW X, NEW after, List(s, X, after), NEW h \in Handles \ X, NEW x,
         NEW t, t = WithVp(s, h, x)
  PROVE  Moves(s, X, after, t, X, after, h) /\ t.vp[h] = x
<1>1. Fields(s) /\ X \subseteq Handles
  BY DEF List, Linked
<1>2. VpSet(s, t, h, x)
  BY <1>1, SetVp
<1>3. Agree(s, t, X)
  BY <1>1, <1>2 DEF Agree, VpSet, Fields
<1>4. List(t, X, after)
  BY <1>3, AgreeKeeps
<1>5. t.vp[h] = x /\ \A k \in Handles \ {h} : t.vp[k] = s.vp[k]
  BY <1>1, <1>2 DEF VpSet, Fields
<1> QED BY <1>4, <1>5 DEF Moves

\* Where a handle is after an operation on it.
Lands(s, X, after, t, h, v) ==
  \E Y, beyond : /\ Moves(s, X, after, t, Y, beyond, h) /\ t.vp[h] = v
                 /\ h \in Y <=> v # Nil

LEMMA ConstructLands ==
  ASSUME NEW s, NEW X, NEW after, List(s, X, after), NEW h \in Handles \ X,
         NEW v \in Values \cup {Nil}, NEW m, m = WithVp(s, h, v),
         NEW t \in IF v = Nil THEN {m} ELSE AddToUseList(m, h)
  PROVE  Lands(s, X, after, t, h, v)
<1>1. Moves(s, X, after, m, X, after, h) /\ m.vp[h] = v
  BY VpChanges
<1>2. CASE v = Nil
  BY <1>1, <1>2 DEF Lands
<1>3. CASE v # Nil
  <2>1. List(m, X, after) /\ m.vp[h] \in Values /\ t \in AddToUseList(m, h)
    BY <1>1, <1>3 DEF Moves
  <2>2. PICK beyond : Moves(m, X, after, t, X \cup {h}, beyond, h) /\ t.vp = m.vp
    BY <2>1, AddsToUseList
  <2>3. PICK Y : Y = X \cup {h}
    OBVIOUS
  <2>4. Moves(s, X, after, t, Y, beyond, h)
    BY <1>1, <2>2, <2>3, MovesTwice
  <2> QED BY <1>1, <1>3, <2>2, <2>3, <2>4 DEF Lands
<1> QED BY <1>2, <1>3

\* h gets the Value that r watches.
LEMMA CopyLands ==
  ASSUME NEW s, NEW X, NEW after, List(s, X, after), NEW h \in Handles \ X,
         NEW r, s.vp[r] = Nil \/ r \in X, NEW v, v = s.vp[r], NEW m, m = WithVp(s, h, v),
         NEW t, t = IF v = Nil THEN m ELSE AddToExistingUseList(m, h, m.prev[r])
  PROVE  Lands(s, X, after, t, h, v)
<1>1. Moves(s, X, after, m, X, after, h) /\ m.vp[h] = v
  BY VpChanges
<1>2. CASE v = Nil
  BY <1>1, <1>2 DEF Lands
<1>3. CASE v # Nil
  <2>1. r \in X /\ r # h /\ List(m, X, after) /\ m.vp[h] = m.vp[r]
    BY <1>1, <1>3 DEF Moves, List, Linked
  <2>2. t = AddToExistingUseList(m, h, m.prev[r])
    BY <1>3
  <2>3. PICK beyond : Moves(m, X, after, t, X \cup {h}, beyond, h) /\ t.vp = m.vp
    BY <2>1, <2>2, AddsBefore
  <2>4. PICK Y : Y = X \cup {h}
    OBVIOUS
  <2>5. Moves(s, X, after, t, Y, beyond, h)
    BY <1>1, <2>3, <2>4, MovesTwice
  <2> QED BY <1>1, <1>3, <2>3, <2>4, <2>5 DEF Lands
<1> QED BY <1>2, <1>3

LEMMA LandsLater ==
  ASSUME NEW s, NEW X, NEW after, NEW u, NEW Z, NEW during, NEW t, NEW h, NEW v,
         Moves(s, X, after, u, Z, during, h), Lands(u, Z, during, t, h, v)
  PROVE  Lands(s, X, after, t, h, v)
<1>1. PICK Y, beyond : /\ Moves(u, Z, during, t, Y, beyond, h) /\ t.vp[h] = v
                       /\ h \in Y <=> v # Nil
  BY DEF Lands
<1>2. Moves(s, X, after, t, Y, beyond, h)
  BY <1>1, MovesTwice
<1> QED BY <1>1, <1>2 DEF Lands

LEMMA AssignValueLands ==
  ASSUME NEW s, NEW X, NEW after, List(s, X, after), NEW h \in Handles,
         s.vp[h] # Nil => h \in X, NEW v \in Values \cup {Nil}, s.vp[h] # v,
         NEW t \in AssignValue(s, h, v)
  PROVE  Lands(s, X, after, t, h, v)
<1>1. PICK u : u = Unwatch(s, h)
  OBVIOUS
<1>2. PICK Z, during : Moves(s, X, after, u, Z, during, h) /\ h \notin Z /\ u.vp = s.vp
  BY <1>1, Unwatches
<1>3. PICK m : m = WithVp(u, h, v)
  OBVIOUS
<1>4. t \in IF v = Nil THEN {m} ELSE AddToUseList(m, h)
  BY <1>1, <1>3 DEF AssignValue, WithVp
<1>5. List(u, Z, during) /\ h \in Handles \ Z
  BY <1>2 DEF Moves
<1>6. Lands(u, Z, during, t, h, v)
  BY <1>3, <1>4, <1>5, ConstructLands
<1> QED BY <1>2, <1>6, LandsLater

LEMMA AssignHandleLands ==
  ASSUME NEW s, NEW X, NEW after, List(s, X, after), NEW h \in Handles,
         s.vp[h] # Nil => h \in X, NEW r, s.vp[r] = Nil \/ r \in X, s.vp[h] # s.vp[r],
         NEW t, t = AssignHandle(s, h, r)
  PROVE  Lands(s, X, after, t, h, s.vp[r])
<1>1. PICK u, v : u = Unwatch(s, h) /\ v = s.vp[r]
  OBVIOUS
<1>2. PICK Z, during : Moves(s, X, after, u, Z, during, h) /\ h \notin Z /\ u.vp = s.vp
  BY <1>1, Unwatches
<1>3. PICK m : m = WithVp(u, h, v)
  OBVIOUS
<1>4. t = IF v = Nil THEN m ELSE AddToExistingUseList(m, h, m.prev[r])
  BY <1>1, <1>3 DEF AssignHandle, WithVp
<1>5. List(u, Z, during) /\ h \in Handles \ Z /\ (u.vp[r] = Nil \/ r \in Z) /\ v = u.vp[r]
  BY <1>1, <1>2 DEF Moves
<1>6. Lands(u, Z, during, t, h, v)
  BY <1>3, <1>4, <1>5, CopyLands
<1>7. Lands(s, X, after, t, h, v)
  BY <1>2, <1>6, LandsLater
<1> QED BY <1>1, <1>7

LEMMA DestroyLands ==
  ASSUME NEW s, NEW X, NEW after, List(s, X, after), NEW h \in Handles, s.vp[h] # Nil => h \in X,
         NEW t, t = [Unwatch(s, h) EXCEPT !.vp[h] = Nil, !.next[h] = Nil, !.prev[h] = Nil]
  PROVE  Lands(s, X, after, t, h, Nil)
<1>1. PICK u : u = Unwatch(s, h)
  OBVIOUS
<1>2. PICK Z, during : Moves(s, X, after, u, Z, during, h) /\ h \notin Z /\ u.vp = s.vp
  BY <1>1, Unwatches
<1>3. PICK m : m = WithVp(u, h, Nil)
  OBVIOUS
<1>4. PICK n : n = WithNext(m, h, Nil)
  OBVIOUS
<1>5. t = WithPrev(n, h, Nil)
  BY <1>1, <1>3, <1>4 DEF WithVp, WithNext, WithPrev
<1>6. List(u, Z, during) /\ h \in Handles \ Z /\ Z \subseteq Handles
  BY <1>2 DEF Moves, List, Linked
<1>7. Moves(u, Z, during, m, Z, during, h) /\ m.vp[h] = Nil
  BY <1>3, <1>6, VpChanges
<1>8. Fields(m) /\ List(m, Z, during)
  BY <1>7 DEF Moves, List
<1>9. NextSet(m, n, h, Nil)
  BY <1>4, <1>8, SetNext
<1>10. PrevSet(n, t, h, Nil)
  BY <1>5, <1>9, SetPrev DEF NextSet
<1>11. Agree(m, t, Z) /\ t.vp = m.vp
  BY <1>6, <1>8, <1>9, <1>10 DEF Agree, NextSet, PrevSet, Fields
<1>12. List(t, Z, during)
  BY <1>8, <1>11, AgreeKeeps
<1>13. Moves(u, Z, during, t, Z, during, h)
  BY <1>7, <1>11, <1>12 DEF Moves
<1>14. Lands(u, Z, during, t, h, Nil)
  BY <1>2, <1>7, <1>11, <1>13 DEF Lands
<1> QED BY <1>2, <1>14, LandsLater

-----------------------------------------------------------------------------
(***************************************************************************)
(* What an operation does to the walks.                                     *)
(***************************************************************************)
\* A walk for which h is not the next handle does not notice that h moves.
LEMMA FrameStays ==
  ASSUME NEW s, NEW X, NEW after, NEW t, NEW Y, NEW beyond, NEW h,
         Moves(s, X, after, t, Y, beyond, h), X \subseteq Handles,
         NEW w, FrameOK(w, s, X, after), w.entry # h, w.to = Nil => h \notin On(t, Y, w.old),
         NEW x, x.at = w.at, x.old = w.old, x.to = w.to, x.this = w.this, x.entry = w.entry,
         x.waiting = w.waiting \ {h}
  PROVE  FrameOK(x, t, Y, beyond)
<1>1. /\ Y \ {h} = X \ {h} /\ \A k \in Handles \ {h} : t.vp[k] = s.vp[k]
      /\ \A k \in X \ {h} : after[k] \ {h} \subseteq beyond[k]
  BY DEF Moves
<1>2. \A k : k # h => (k \in On(t, Y, w.old) <=> k \in On(s, X, w.old))
  BY <1>1 DEF On
<1>3. /\ w.entry = Nil \/ w.entry \in On(s, X, w.old)
      /\ w.waiting \subseteq On(s, X, w.old)
      /\ \A k \in w.waiting : w.entry # Nil /\ (k = w.entry \/ k \in after[w.entry])
      /\ w.to = Nil /\ w.at = "step" => On(s, X, w.old) \subseteq w.waiting
      /\ w.to = Nil /\ w.at = "callback" => On(s, X, w.old) \subseteq w.waiting \cup {w.this}
  BY DEF FrameOK
<1>4. x.entry = Nil \/ x.entry \in On(t, Y, x.old)
  BY <1>2, <1>3
<1>5. x.waiting \subseteq On(t, Y, x.old)
  BY <1>2, <1>3
<1>6. \A k \in x.waiting : x.entry # Nil /\ (k = x.entry \/ k \in beyond[x.entry])
  BY <1>1, <1>3 DEF On
<1>7. /\ x.to = Nil /\ x.at = "step" => On(t, Y, x.old) \subseteq x.waiting
      /\ x.to = Nil /\ x.at = "callback" => On(t, Y, x.old) \subseteq x.waiting \cup {x.this}
  BY <1>2, <1>3
<1> QED BY <1>4, <1>5, <1>6, <1>7 DEF FrameOK

\* The handle that a walk has come to is behind it when its turn is over.
LEMMA FrameAdvances ==
  ASSUME NEW s, NEW X, NEW after, List(s, X, after),
         NEW w, FrameOK(w, s, X, after), w.entry # Nil, w.at = "step",
         NEW x, x.old = w.old, x.to = w.to, x.entry = s.next[w.entry],
         x.waiting = w.waiting \ {w.entry},
         \/ w.to # Nil \/ x.at = "abort" \/ (x.at = "callback" /\ x.this = w.entry)
  PROVE  FrameOK(x, s, X, after)
<1>1. /\ w.entry \in On(s, X, w.old) /\ w.waiting \subseteq On(s, X, w.old)
      /\ \A k \in w.waiting : k = w.entry \/ k \in after[w.entry]
      /\ w.to = Nil => On(s, X, w.old) \subseteq w.waiting
  BY DEF FrameOK
<1>2. /\ s.next[w.entry] = Nil \/ s.next[w.entry] \in On(s, X, w.old)
      /\ \A k \in after[w.entry] :
           s.next[w.entry] # Nil /\ (k = s.next[w.entry] \/ k \in after[s.next[w.entry]])
  BY <1>1 DEF List, Linked, HandleLinked, Ordered, Behind, On
<1>3. x.entry = Nil \/ x.entry \in On(s, X, x.old)
  BY <1>2
<1>4. x.waiting \subseteq On(s, X, x.old)
  BY <1>1
<1>5. \A k \in x.waiting : x.entry # Nil /\ (k = x.entry \/ k \in after[x.entry])
  BY <1>1, <1>2
<1>6. /\ x.to = Nil /\ x.at = "step" => On(s, X, x.old) \subseteq x.waiting
      /\ x.to = Nil /\ x.at = "callback" => On(s, X, x.old) \subseteq x.waiting \cup {x.this}
  BY <1>1
<1> QED BY <1>3, <1>4, <1>5, <1>6 DEF FrameOK

LEMMA FrameStarts ==
  ASSUME NEW s, NEW X, NEW after, List(s, X, after), NEW v \in Values, v \in s.has,
         NEW x, x.old = v, x.entry = s.head[v], x.waiting = On(s, X, v)
  PROVE  FrameOK(x, s, X, after)
<1>1. s.head[v] \in On(s, X, v) /\ s.head[v] # Nil
  BY Nils DEF List, Linked, HeadLinked, On
<1>2. \A k \in On(s, X, v) : k = s.head[v] \/ k \in after[s.head[v]]
  BY DEF List, Ordered, On
<1> QED BY <1>1, <1>2 DEF FrameOK

\* The record of the list variables after a step.
LEMMA StateAfter ==
  ASSUME NEW t, Fields(t), Becomes(t)
  PROVE  State' = t
BY DEF Fields, Becomes, State

LEMMA WatchingIsOn ==
  ASSUME TypeInv, NEW v \in Values
  PROVE  Watching(v) = On(State, Listed, v)
BY Nils DEF Watching, On, Listed, State

\* The part of the invariant that is about the lists, after h has moved.
Unnoticed(h, v) ==
  /\ v \notin dead
  /\ \A i \in DOMAIN walks : /\ walks[i].entry # h
                             /\ v = walks[i].old => walks[i].to # Nil

LEMMA DeadUnwatched ==
  ASSUME NEW s, NEW X, NEW after, X \subseteq Handles, NEW t, NEW Y, NEW beyond, NEW h,
         Moves(s, X, after, t, Y, beyond, h), NEW v, On(s, X, v) = {}, t.vp[h] # v
  PROVE  On(t, Y, v) = {}
BY DEF Moves, On

LEMMA ListedAfter ==
  ASSUME NEW s, NEW X, NEW after, s = State, X = Listed, X \subseteq Handles, NEW h \in Handles,
         NEW t, NEW Y, NEW beyond, Moves(s, X, after, t, Y, beyond, h), h \in Y <=> t.vp[h] # Nil,
         Becomes(t), t.vp[h] # Nil => h \in exists', exists' \subseteq Handles,
         exists' \ {h} = exists \ {h}
  PROVE  State' = t /\ Y = Listed'
<1>1. /\ Fields(t) /\ Y \subseteq Handles /\ Y \ {h} = X \ {h}
      /\ \A k \in Handles \ {h} : t.vp[k] = s.vp[k]
  BY DEF Moves, List, Linked
<1>2. State' = t
  BY <1>1, StateAfter
<1>3. vp' = t.vp /\ s.vp = vp
  BY DEF Becomes, State
<1>4. h \in Y <=> h \in Listed'
  BY <1>3 DEF Listed
<1>5. ASSUME NEW k \in Handles \ {h} PROVE k \in Y <=> k \in Listed'
  BY <1>1, <1>3 DEF Listed
<1>6. Listed' \subseteq Handles
  BY DEF Listed
<1>7. ASSUME NEW k PROVE k \in Y <=> k \in Listed'
  <2>1. CASE k \in Handles
    BY <1>4, <1>5, <2>1
  <2>2. CASE k \notin Handles
    BY <1>1, <1>6, <2>2
  <2> QED BY <2>1, <2>2
<1>8. Y \subseteq Listed' /\ Listed' \subseteq Y
  BY <1>7, Zenon
<1> QED BY <1>2, <1>8

LEMMA MoveKeepsLists ==
  ASSUME TypeInv, NEW s, NEW X, NEW after, ListInv(s, X, after), NEW h \in Handles,
         NEW v \in Values \cup {Nil}, v # Nil => Unnoticed(h, v),
         \A i \in DOMAIN walks : walks[i].entry # h,
         NEW t, Lands(s, X, after, t, h, v), Becomes(t),
         v # Nil => h \in exists', exists' \subseteq Handles,
         exists' \ {h} = exists \ {h}, dead' = dead,
         DOMAIN walks' = DOMAIN walks,
         \A i \in DOMAIN walks :
           /\ walks'[i].at = walks[i].at /\ walks'[i].old = walks[i].old
           /\ walks'[i].to = walks[i].to /\ walks'[i].this = walks[i].this
           /\ walks'[i].entry = walks[i].entry /\ walks'[i].waiting = walks[i].waiting \ {h}
  PROVE  \E Z, during : ListInv(t, Z, during)'
<1>1. /\ s = State /\ X = Listed /\ List(s, X, after) /\ X \subseteq Handles
      /\ \A i \in DOMAIN walks : FrameOK(walks[i], s, X, after)
      /\ \A u \in dead : On(s, X, u) = {}
  BY DEF ListInv, List, Linked
<1>2. PICK Y, beyond : /\ Moves(s, X, after, t, Y, beyond, h) /\ t.vp[h] = v
                       /\ h \in Y <=> v # Nil
  BY DEF Lands
<1>3. /\ List(t, Y, beyond) /\ Fields(t) /\ Y \subseteq Handles /\ Y \ {h} = X \ {h}
      /\ \A k \in Handles \ {h} : t.vp[k] = s.vp[k]
  BY <1>2 DEF Moves, List, Linked
<1>4. State' = t /\ Y = Listed'
  <2>1. /\ h \in Y <=> t.vp[h] # Nil
        /\ t.vp[h] # Nil => h \in exists'
    BY <1>2
  <2> QED BY <1>1, <1>2, <2>1, ListedAfter
<1>6. ASSUME NEW i \in DOMAIN walks PROVE FrameOK(walks'[i], t, Y, beyond)
  <2>1. walks[i].to = Nil => h \notin On(t, Y, walks[i].old)
    BY <1>2 DEF On, Unnoticed
  <2>2. PICK w, x : w = walks[i] /\ x = walks'[i]
    OBVIOUS
  <2>3. FrameOK(w, s, X, after) /\ w.entry # h /\ (w.to = Nil => h \notin On(t, Y, w.old))
    BY <1>1, <2>1, <2>2
  <2>4. /\ x.at = w.at /\ x.old = w.old /\ x.to = w.to /\ x.this = w.this
        /\ x.entry = w.entry /\ x.waiting = w.waiting \ {h}
    BY <2>2
  <2>5. FrameOK(x, t, Y, beyond)
    BY <1>1, <1>2, <2>3, <2>4, FrameStays
  <2> QED BY <2>2, <2>5
<1>7. ASSUME NEW u \in dead PROVE On(t, Y, u) = {}
  <2>1. u # v
    BY Nils DEF TypeInv, Unnoticed
  <2>2. X \subseteq Handles /\ On(s, X, u) = {} /\ t.vp[h] # u
    BY <1>1, <1>2, <2>1
  <2> QED BY <1>2, <2>2, DeadUnwatched
<1>8. ListInv(t, Y, beyond)'
  BY <1>3, <1>4, <1>6, <1>7 DEF ListInv
<1> QED BY <1>8

LEMMA ApartStays ==
  ASSUME Apart, dead' = dead, DOMAIN walks' = DOMAIN walks,
         \A i \in DOMAIN walks : walks'[i].old = walks[i].old /\ walks'[i].to = walks[i].to
  PROVE  Apart'
BY DEF Apart

LEMMA Forgotten ==
  ASSUME walks \in Seq(Frames), NEW h \in Handles, Forget(h)
  PROVE  /\ walks' \in Seq(Frames) /\ DOMAIN walks' = DOMAIN walks
         /\ \A i \in DOMAIN walks :
              /\ walks'[i].at = walks[i].at /\ walks'[i].old = walks[i].old
              /\ walks'[i].to = walks[i].to /\ walks'[i].this = walks[i].this
              /\ walks'[i].entry = walks[i].entry /\ walks'[i].waiting = walks[i].waiting \ {h}
<1>1. \A w \in Frames :
        LET x == [w EXCEPT !.waiting = @ \ {h}] IN
        /\ x \in Frames /\ x.at = w.at /\ x.old = w.old /\ x.to = w.to /\ x.this = w.this
        /\ x.entry = w.entry /\ x.waiting = w.waiting \ {h}
  BY DEF Frames
<1>2. /\ walks' = [i \in DOMAIN walks |-> [walks[i] EXCEPT !.waiting = @ \ {h}]]
      /\ \A i \in DOMAIN walks : walks[i] \in Frames
  BY DEF Forget
<1>3. \A i \in DOMAIN walks : walks'[i] \in Frames
  BY <1>1, <1>2
<1>4. PICK n \in Nat : DOMAIN walks = 1..n
  OBVIOUS
<1>5. walks' \in [1..n -> Frames]
  BY <1>2, <1>3, <1>4
<1>6. walks' \in Seq(Frames)
  BY <1>5, SeqDef
<1> QED BY <1>1, <1>2, <1>6

\* h leaves the list it is on, if any: no walk has to reach it.
Leaves(h) ==
  \/ Movable(h) /\ Forget(h)
  \/ h \notin exists /\ UNCHANGED walks

\* Client code that moves one handle keeps the invariant.
LEMMA ClientMoves ==
  ASSUME TypeInv, Apart, NEW s, NEW X, NEW after, ListInv(s, X, after),
         NEW h \in Handles, NEW v \in Values \cup {Nil}, v # Nil => Watchable(v),
         Leaves(h),
         NEW t, Lands(s, X, after, t, h, v), Becomes(t),
         v # Nil => h \in exists', exists' \subseteq Handles, exists' \ {h} = exists \ {h},
         dead' = dead
  PROVE  VInv'
<1>1. \A i \in DOMAIN walks : walks[i].waiting \subseteq exists
                              /\ (walks[i].entry = Nil \/ walks[i].entry \in exists)
  <2>1. X = Listed /\ \A i \in DOMAIN walks : FrameOK(walks[i], s, X, after)
    BY DEF ListInv
  <2> QED BY <2>1 DEF FrameOK, On, Listed
<1>2. /\ walks' \in Seq(Frames) /\ DOMAIN walks' = DOMAIN walks
      /\ \A i \in DOMAIN walks :
           /\ walks'[i].at = walks[i].at /\ walks'[i].old = walks[i].old
           /\ walks'[i].to = walks[i].to /\ walks'[i].this = walks[i].this
           /\ walks'[i].entry = walks[i].entry /\ walks'[i].waiting = walks[i].waiting \ {h}
  <2>1. CASE Forget(h)
    BY <2>1, Forgotten DEF TypeInv
  <2>2. CASE h \notin exists /\ UNCHANGED walks
    <3>1. walks' \in Seq(Frames) /\ DOMAIN walks' = DOMAIN walks
      BY <2>2 DEF TypeInv
    <3>2. \A i \in DOMAIN walks : walks[i].waiting = walks[i].waiting \ {h}
      BY <1>1, <2>2
    <3> QED BY <2>2, <3>1, <3>2
  <2> QED BY <2>1, <2>2 DEF Leaves
<1>3. \A i \in DOMAIN walks : walks[i].entry # h
  BY <1>1, Nils DEF Movable, Leaves
<1>4. v # Nil => Unnoticed(h, v)
  BY <1>3 DEF Watchable, Unnoticed
<1>5. \E Z, during : ListInv(t, Z, during)'
  BY <1>2, <1>3, <1>4, MoveKeepsLists
<1>6. Apart'
  BY <1>2, ApartStays
<1>7. TypeInv'
  BY <1>2 DEF TypeInv
<1> QED BY <1>5, <1>6, <1>7 DEF VInv

LEMMA ListKnown ==
  ASSUME TypeInv, NEW s, NEW X, NEW after, ListInv(s, X, after)
  PROVE  /\ s = State /\ List(s, X, after) /\ X \subseteq exists
         /\ \A h \in exists : vp[h] # Nil => h \in X /\ vp[h] \in Values
         /\ \A h \in Handles : h \in X <=> h \in exists /\ vp[h] # Nil
         /\ s.vp = vp /\ s.next = next /\ s.prev = prev /\ s.head = head /\ s.has = hasHandle
<1>1. s = State /\ X = Listed /\ List(s, X, after)
  BY DEF ListInv
<1>2. s.vp = vp /\ s.next = next /\ s.prev = prev /\ s.head = head /\ s.has = hasHandle
  BY <1>1 DEF State
<1>3. \A h \in X : s.vp[h] \in Values
  BY <1>1 DEF List, Linked, HandleLinked
<1> QED BY <1>1, <1>2, <1>3 DEF Listed

LEMMA ConstructKeeps ==
  ASSUME VInv, NEW h \in Handles, NEW v \in Values \cup {Nil}, Construct(h, v)
  PROVE  VInv'
<1>1. PICK s, X, after : ListInv(s, X, after)
  BY DEF VInv
<1>2. TypeInv /\ Apart
  BY DEF VInv
<1>3. /\ s = State /\ List(s, X, after) /\ h \in Handles \ X
  BY <1>1, <1>2, ListKnown DEF Construct
<1>4. PICK m : m = WithVp(s, h, v)
  OBVIOUS
<1>5. PICK t \in IF v = Nil THEN {m} ELSE AddToUseList(m, h) : Becomes(t)
  BY <1>3, <1>4 DEF Construct, WithVp
<1>6. Lands(s, X, after, t, h, v)
  BY <1>3, <1>4, ConstructLands
<1>7. /\ Leaves(h) /\ (v # Nil => Watchable(v))
      /\ h \in exists' /\ exists' \subseteq Handles /\ exists' \ {h} = exists \ {h}
      /\ dead' = dead
  BY <1>2 DEF Construct, TypeInv, Leaves
<1> QED BY <1>1, <1>2, <1>5, <1>6, <1>7, ClientMoves

LEMMA CopyConstructKeeps ==
  ASSUME VInv, NEW h \in Handles, NEW rhs \in Handles, CopyConstruct(h, rhs)
  PROVE  VInv'
<1>1. PICK s, X, after : ListInv(s, X, after)
  BY DEF VInv
<1>2. TypeInv /\ Apart
  BY DEF VInv
<1>3. /\ s = State /\ List(s, X, after) /\ h \in Handles \ X
      /\ s.vp[rhs] = Nil \/ rhs \in X
  BY <1>1, <1>2, ListKnown DEF CopyConstruct
<1>4. PICK v : v = vp[rhs]
  OBVIOUS
<1>5. v \in Values \cup {Nil} /\ v = s.vp[rhs]
  BY <1>1, <1>2, <1>4, ListKnown DEF CopyConstruct
<1>6. PICK m : m = WithVp(s, h, v)
  OBVIOUS
<1>7. PICK t : t = (IF v = Nil THEN m ELSE AddToExistingUseList(m, h, m.prev[rhs])) /\ Becomes(t)
  <2>1. m.prev = prev
    BY <1>1, <1>2, <1>6, ListKnown DEF WithVp, State
  <2> QED BY <1>3, <1>4, <1>6, <2>1 DEF CopyConstruct, WithVp
<1>8. Lands(s, X, after, t, h, v)
  BY <1>3, <1>5, <1>6, <1>7, CopyLands
<1>9. /\ Leaves(h) /\ (v # Nil => Watchable(v))
      /\ h \in exists' /\ exists' \subseteq Handles /\ exists' \ {h} = exists \ {h}
      /\ dead' = dead
  BY <1>2, <1>4 DEF CopyConstruct, TypeInv, Leaves
<1> QED BY <1>1, <1>2, <1>5, <1>7, <1>8, <1>9, ClientMoves

LEMMA DestroyKeeps ==
  ASSUME VInv, NEW h \in Handles, Destroy(h)
  PROVE  VInv'
<1>1. PICK s, X, after : ListInv(s, X, after)
  BY DEF VInv
<1>2. TypeInv /\ Apart
  BY DEF VInv
<1>3. s = State /\ List(s, X, after) /\ (s.vp[h] # Nil => h \in X)
  BY <1>1, <1>2, ListKnown DEF Destroy, Movable
<1>4. PICK t : /\ t = [Unwatch(s, h) EXCEPT !.vp[h] = Nil, !.next[h] = Nil, !.prev[h] = Nil]
               /\ Becomes(t)
  BY <1>3 DEF Destroy
<1>5. PICK v : v = Nil
  OBVIOUS
<1>6. Lands(s, X, after, t, h, v)
  BY <1>3, <1>4, <1>5, DestroyLands
<1>7. /\ Leaves(h) /\ v \in Values \cup {Nil} /\ v = Nil
      /\ exists' \subseteq Handles /\ exists' \ {h} = exists \ {h} /\ dead' = dead
  BY <1>2, <1>5 DEF Destroy, TypeInv, Leaves
<1> QED BY <1>1, <1>2, <1>4, <1>6, <1>7, ClientMoves

LEMMA AssignKeeps ==
  ASSUME VInv, NEW h \in Handles, NEW v \in Values \cup {Nil}, Assign(h, v)
  PROVE  VInv'
<1>1. PICK s, X, after : ListInv(s, X, after)
  BY DEF VInv
<1>2. TypeInv /\ Apart
  BY DEF VInv
<1>3. s = State /\ List(s, X, after) /\ (s.vp[h] # Nil => h \in X) /\ s.vp[h] # v
  BY <1>1, <1>2, ListKnown DEF Assign, Movable
<1>4. PICK t \in AssignValue(s, h, v) : Becomes(t)
  BY <1>3 DEF Assign
<1>5. Lands(s, X, after, t, h, v)
  BY <1>3, AssignValueLands
<1>6. /\ Leaves(h) /\ (v # Nil => Watchable(v)) /\ h \in exists'
      /\ exists' \subseteq Handles /\ exists' \ {h} = exists \ {h} /\ dead' = dead
  BY <1>2 DEF Assign, Movable, TypeInv, Leaves
<1> QED BY <1>1, <1>2, <1>4, <1>5, <1>6, ClientMoves

LEMMA AssignFromKeeps ==
  ASSUME VInv, NEW h \in Handles, NEW rhs \in Handles, AssignFrom(h, rhs)
  PROVE  VInv'
<1>1. PICK s, X, after : ListInv(s, X, after)
  BY DEF VInv
<1>2. TypeInv /\ Apart
  BY DEF VInv
<1>3. /\ s = State /\ List(s, X, after) /\ (s.vp[h] # Nil => h \in X)
      /\ s.vp[rhs] = Nil \/ rhs \in X
      /\ s.vp[h] # s.vp[rhs]
  BY <1>1, <1>2, ListKnown DEF AssignFrom, Movable
<1>4. PICK v : v = vp[rhs]
  OBVIOUS
<1>5. v \in Values \cup {Nil} /\ v = s.vp[rhs]
  BY <1>1, <1>2, <1>4, ListKnown DEF AssignFrom
<1>6. PICK t : t = AssignHandle(s, h, rhs) /\ Becomes(t)
  BY <1>3 DEF AssignFrom
<1>7. Lands(s, X, after, t, h, s.vp[rhs])
  BY <1>3, <1>6, AssignHandleLands
<1>8. Lands(s, X, after, t, h, v)
  BY <1>5, <1>7
<1>9. /\ Leaves(h) /\ (v # Nil => Watchable(v)) /\ h \in exists'
      /\ exists' \subseteq Handles /\ exists' \ {h} = exists \ {h} /\ dead' = dead
  BY <1>2, <1>4 DEF AssignFrom, Movable, TypeInv, Leaves
<1> QED BY <1>1, <1>2, <1>5, <1>6, <1>8, <1>9, ClientMoves

-----------------------------------------------------------------------------
(***************************************************************************)
(* The steps of a walk.                                                     *)
(***************************************************************************)
\* The activation on top of the stack is replaced by x.
LEMMA TopBecomes ==
  ASSUME walks \in Seq(Frames), walks # <<>>, NEW x \in Frames,
         walks' = [walks EXCEPT ![Len(walks)] = x]
  PROVE  /\ walks' \in Seq(Frames) /\ DOMAIN walks' = DOMAIN walks
         /\ Len(walks) \in DOMAIN walks /\ Top \in Frames /\ walks'[Len(walks)] = x
         /\ \A i \in DOMAIN walks : i # Len(walks) => walks'[i] = walks[i]
<1>1. Len(walks) \in 1..Len(walks) /\ DOMAIN walks = 1..Len(walks)
  OBVIOUS
<1>2. walks' \in Seq(Frames)
  BY <1>1, ExceptSeq
<1> QED BY <1>1, <1>2 DEF Top

\* What the top activation is after a turn of the loop.
Turned(at, this) ==
  [Top EXCEPT !.at = at, !.this = this, !.entry = next[Top.entry],
              !.waiting = @ \ {Top.entry}]

LEMMA TurnedFields ==
  ASSUME Top \in Frames, next[Top.entry] \in Handles \cup {Nil},
         NEW at \in {"step", "callback", "abort"}, NEW this \in Handles \cup {Nil}
  PROVE  /\ Turned(at, this) \in Frames /\ Turned(at, this).at = at
         /\ Turned(at, this).old = Top.old /\ Turned(at, this).to = Top.to
         /\ Turned(at, this).this = this /\ Turned(at, this).entry = next[Top.entry]
         /\ Turned(at, this).waiting = Top.waiting \ {Top.entry}
<1>1. PICK w, e, d : w = Top /\ e = next[Top.entry] /\ d = Top.entry
  OBVIOUS
<1>2. PICK x : x = [w EXCEPT !.at = at, !.this = this, !.entry = e, !.waiting = @ \ {d}]
  OBVIOUS
<1>3. w \in Frames /\ e \in Handles \cup {Nil}
  BY <1>1
<1>4. /\ x \in Frames /\ x.at = at /\ x.old = w.old /\ x.to = w.to /\ x.this = this
      /\ x.entry = e /\ x.waiting = w.waiting \ {d}
  BY <1>2, <1>3 DEF Frames
<1>5. x = Turned(at, this)
  BY <1>1, <1>2 DEF Turned
<1> QED BY <1>1, <1>4, <1>5

LEMMA Turns ==
  ASSUME TypeInv, NEW s, NEW X, NEW after, ListInv(s, X, after), walks # <<>>,
         Top.at = "step", Top.entry # Nil, NEW at \in {"step", "callback", "abort"},
         NEW this \in Handles \cup {Nil}, Advance(at, this)
  PROVE  /\ walks' \in Seq(Frames) /\ DOMAIN walks' = DOMAIN walks
         /\ Len(walks) \in DOMAIN walks /\ Top \in Frames
         /\ walks'[Len(walks)] = Turned(at, this)
         /\ \A i \in DOMAIN walks : i # Len(walks) => walks'[i] = walks[i]
         /\ Top.entry \in On(s, X, Top.old) /\ X \subseteq Handles
         /\ FrameOK(Top, s, X, after) /\ List(s, X, after) /\ s = State /\ X = Listed
         /\ s.next = next /\ s.vp = vp /\ next[Top.entry] \in Handles \cup {Nil}
<1>1. walks \in Seq(Frames) /\ Len(walks) \in DOMAIN walks /\ Top \in Frames
  BY DEF TypeInv, Top
<1>2. /\ FrameOK(Top, s, X, after) /\ List(s, X, after) /\ X \subseteq Handles
      /\ s = State /\ X = Listed /\ s.next = next /\ s.vp = vp
  BY <1>1 DEF ListInv, Top, List, Linked, State
<1>3. Top.entry \in On(s, X, Top.old)
  BY <1>2 DEF FrameOK
<1>4. next[Top.entry] \in Handles \cup {Nil}
  BY <1>2, <1>3 DEF List, Linked, HandleLinked, On
<1>5. Turned(at, this) \in Frames
  BY <1>1, <1>4, TurnedFields
<1>6. walks' = [walks EXCEPT ![Len(walks)] = Turned(at, this)]
  BY DEF Advance, Turned
<1> QED BY <1>1, <1>2, <1>3, <1>4, <1>5, <1>6, TopBecomes

\* A turn of the loop that leaves the lists alone.
LEMMA QuietTurn ==
  ASSUME VInv, walks # <<>>, Top.at = "step", Top.entry # Nil,
         NEW at \in {"step", "callback", "abort"}, NEW this \in Handles \cup {Nil},
         Advance(at, this), UNCHANGED <<listVars, dead>>,
         \/ Top.to # Nil \/ at = "abort" \/ (at = "callback" /\ this = Top.entry)
  PROVE  VInv'
<1>1. PICK s, X, after : ListInv(s, X, after)
  BY DEF VInv
<1>2. TypeInv /\ Apart
  BY DEF VInv
<1>3. /\ walks' \in Seq(Frames) /\ DOMAIN walks' = DOMAIN walks
      /\ Len(walks) \in DOMAIN walks /\ Top \in Frames
      /\ walks'[Len(walks)] = Turned(at, this)
      /\ \A i \in DOMAIN walks : i # Len(walks) => walks'[i] = walks[i]
      /\ Top.entry \in On(s, X, Top.old) /\ X \subseteq Handles
      /\ FrameOK(Top, s, X, after) /\ List(s, X, after) /\ s = State /\ X = Listed
      /\ s.next = next /\ s.vp = vp /\ next[Top.entry] \in Handles \cup {Nil}
  BY <1>1, <1>2, Turns
<1>4. FrameOK(Turned(at, this), s, X, after)
  <2>1. PICK w, x : w = Top /\ x = Turned(at, this)
    OBVIOUS
  <2>2. /\ x.old = w.old /\ x.to = w.to /\ x.entry = s.next[w.entry]
        /\ x.waiting = w.waiting \ {w.entry} /\ w.entry # Nil /\ w.at = "step"
        /\ \/ w.to # Nil \/ x.at = "abort" \/ (x.at = "callback" /\ x.this = w.entry)
    BY <1>3, <2>1, TurnedFields
  <2> QED BY <1>3, <2>1, <2>2, FrameAdvances
<1>5. \A i \in DOMAIN walks' : FrameOK(walks'[i], s, X, after)
  BY <1>1, <1>3, <1>4 DEF ListInv
<1>6. State' = State /\ Listed' = Listed
  BY DEF State, Listed, listVars
<1>7. ListInv(s, X, after)'
  BY <1>1, <1>3, <1>5, <1>6 DEF ListInv
<1>8. Apart'
  <2>1. Turned(at, this).old = Top.old /\ Turned(at, this).to = Top.to
    BY <1>3, TurnedFields
  <2> QED BY <1>2, <1>3, <2>1, ApartStays DEF Top
<1>9. TypeInv'
  BY <1>2, <1>3 DEF TypeInv, listVars
<1> QED BY <1>7, <1>8, <1>9 DEF VInv

LEMMA StepAssertKeeps ==
  ASSUME VInv, StepAssert PROVE VInv'
<1>1. PICK at : at = IF Top.to = Nil THEN "abort" ELSE "step"
  OBVIOUS
<1>2. /\ walks # <<>> /\ Top.at = "step" /\ Top.entry # Nil /\ Advance(at, Nil)
      /\ UNCHANGED <<listVars, dead>> /\ at \in {"step", "callback", "abort"}
      /\ Top.to # Nil \/ at = "abort"
  BY <1>1 DEF StepAssert, AtHandle
<1> QED BY <1>2, QuietTurn

LEMMA StepCallbackKeeps ==
  ASSUME VInv, StepCallback PROVE VInv'
<1>1. /\ walks # <<>> /\ Top.at = "step" /\ Top.entry # Nil /\ Advance("callback", Top.entry)
      /\ UNCHANGED <<listVars, dead>>
  BY DEF StepCallback, AtHandle
<1>2. Top.entry \in Handles
  <2>1. walks \in Seq(Frames)
    BY DEF VInv, TypeInv
  <2>2. Top \in Frames
    BY <1>1, <2>1 DEF Top
  <2> QED BY <1>1, <2>2 DEF Frames
<1> QED BY <1>1, <1>2, QuietTurn

LEMMA StepWeakKeeps ==
  ASSUME VInv, StepWeak PROVE VInv'
<1>1. PICK s, X, after : ListInv(s, X, after)
  BY DEF VInv
<1>2. TypeInv /\ Apart
  BY DEF VInv
<1>3. PICK n, h, v : n = Len(walks) /\ h = Top.entry /\ v = Top.to
  OBVIOUS
<1>4. /\ walks # <<>> /\ Top.at = "step" /\ Top.entry # Nil /\ Advance("step", Nil)
      /\ UNCHANGED <<kind, exists, dead>>
  BY DEF StepWeak, AtHandle
<1>5. /\ walks' \in Seq(Frames) /\ DOMAIN walks' = DOMAIN walks
      /\ n \in DOMAIN walks /\ Top \in Frames
      /\ walks'[n] = Turned("step", Nil)
      /\ \A i \in DOMAIN walks : i # n => walks'[i] = walks[i]
      /\ Top.entry \in On(s, X, Top.old) /\ X \subseteq Handles
      /\ FrameOK(Top, s, X, after) /\ List(s, X, after) /\ s = State /\ X = Listed
      /\ s.next = next /\ s.vp = vp /\ next[Top.entry] \in Handles \cup {Nil}
  BY <1>1, <1>2, <1>3, <1>4, Turns
<1>6. /\ Top = walks[n] /\ h \in X /\ h \in Handles /\ s.vp[h] = walks[n].old
      /\ v = walks[n].to /\ v \in Values \cup {Nil} /\ s.vp[h] # v /\ v \notin dead
      /\ \A i \in DOMAIN walks : walks[i].to = Nil => v # walks[i].old
      /\ \A i \in DOMAIN walks : i # n => walks[i].old # walks[n].old
  BY <1>2, <1>3, <1>5 DEF Top, On, Frames, Apart
<1>7. PICK t \in AssignValue(s, h, v) : Becomes(t)
  BY <1>3, <1>5 DEF StepWeak
<1>8. Lands(s, X, after, t, h, v)
  BY <1>5, <1>6, AssignValueLands
<1>9. PICK Y, beyond : /\ Moves(s, X, after, t, Y, beyond, h) /\ t.vp[h] = v
                       /\ h \in Y <=> v # Nil
  BY <1>8 DEF Lands
<1>10. State' = t /\ Y = Listed'
  <2>1. /\ h \in Y <=> t.vp[h] # Nil
        /\ h \in exists' /\ exists' \subseteq Handles /\ exists' \ {h} = exists \ {h}
    BY <1>2, <1>4, <1>5, <1>6, <1>9 DEF TypeInv, Listed
  <2> QED BY <1>5, <1>6, <1>7, <1>9, <2>1, ListedAfter
<1>11. ASSUME NEW i \in DOMAIN walks PROVE walks[i].to = Nil => h \notin On(t, Y, walks[i].old)
  BY <1>6, <1>9 DEF On
<1>12. ASSUME NEW i \in DOMAIN walks, i # n PROVE FrameOK(walks'[i], t, Y, beyond)
  <2>1. PICK w : w = walks[i]
    OBVIOUS
  <2>2. FrameOK(w, s, X, after) /\ (w.to = Nil => h \notin On(t, Y, w.old))
    BY <1>1, <1>11, <2>1 DEF ListInv
  <2>3. h \notin On(s, X, w.old) /\ h # Nil
    BY <1>6, <1>12, <2>1, Nils DEF On
  <2>4. w.entry # h /\ w.waiting = w.waiting \ {h}
    BY <2>2, <2>3 DEF FrameOK
  <2>5. FrameOK(w, t, Y, beyond)
    BY <1>5, <1>9, <2>2, <2>4, FrameStays
  <2> QED BY <1>5, <1>12, <2>1, <2>5
<1>13. FrameOK(walks'[n], t, Y, beyond)
  <2>1. PICK w, x, y : w = Top /\ x = Turned("callback", h) /\ y = Turned("step", Nil)
    OBVIOUS
  <2>2. /\ x.at = "callback" /\ x.old = w.old /\ x.to = w.to /\ x.this = h
         /\ x.entry = next[w.entry] /\ x.waiting = w.waiting \ {w.entry}
    BY <1>5, <1>6, <2>1, TurnedFields
  <2>3. /\ y.at = "step" /\ y.old = w.old /\ y.to = w.to
         /\ y.entry = next[w.entry] /\ y.waiting = w.waiting \ {w.entry}
    BY <1>5, <2>1, TurnedFields
  <2>4. /\ x.at = "callback" /\ x.old = w.old /\ x.to = w.to /\ x.this = w.entry
        /\ x.entry = s.next[w.entry] /\ x.waiting = w.waiting \ {w.entry}
        /\ y.at = "step" /\ y.old = x.old /\ y.to = x.to /\ y.entry = x.entry
        /\ y.waiting = x.waiting /\ w.entry = h /\ w.at = "step" /\ w.entry # Nil
    BY <1>3, <1>4, <1>5, <2>1, <2>2, <2>3
  <2>5. FrameOK(x, s, X, after)
    BY <1>5, <2>1, <2>4, FrameAdvances
  <2>6. x.entry # h
    BY <1>5, <1>6, <2>4, Nils DEF List, Ordered
  <2>7. x.to = Nil => h \notin On(t, Y, x.old)
    <3>1. x.to = walks[n].to /\ x.old = walks[n].old
      BY <1>6, <2>1, <2>4
    <3> QED BY <1>5, <1>11, <3>1
  <2>8. x.waiting = x.waiting \ {h}
    BY <2>4
  <2>9. FrameOK(x, t, Y, beyond)
    BY <1>5, <1>9, <2>5, <2>6, <2>7, <2>8, FrameStays
  <2>10. FrameOK(y, t, Y, beyond)
    BY <2>4, <2>7, <2>9 DEF FrameOK
  <2> QED BY <1>5, <2>1, <2>10
<1>14. ASSUME NEW u \in dead PROVE On(t, Y, u) = {}
  <2>1. On(s, X, u) = {} /\ t.vp[h] # u
    BY <1>1, <1>6, <1>9 DEF ListInv
  <2> QED BY <1>5, <1>9, <2>1, DeadUnwatched
<1>15. ListInv(t, Y, beyond)'
  <2>1. List(t, Y, beyond)
    BY <1>9 DEF Moves
  <2>2. \A i \in DOMAIN walks' : FrameOK(walks'[i], t, Y, beyond)
    BY <1>5, <1>12, <1>13
  <2>3. \A u \in dead' : On(t, Y, u) = {}
    BY <1>4, <1>14
  <2> QED BY <1>10, <2>1, <2>2, <2>3 DEF ListInv
<1>16. Apart'
  <2>1. Turned("step", Nil).old = walks[n].old /\ Turned("step", Nil).to = walks[n].to
    BY <1>5, <1>6, TurnedFields
  <2> QED BY <1>2, <1>4, <1>5, <2>1, ApartStays
<1>17. TypeInv'
  BY <1>2, <1>4, <1>5 DEF TypeInv
<1> QED BY <1>15, <1>16, <1>17 DEF VInv

LEMMA CallbackReturnKeeps ==
  ASSUME VInv, CallbackReturn PROVE VInv'
<1>1. PICK s, X, after : ListInv(s, X, after)
  BY DEF VInv
<1>2. TypeInv /\ Apart /\ walks \in Seq(Frames) /\ walks # <<>>
  BY DEF VInv, TypeInv, CallbackReturn
<1>3. PICK n, w : n = Len(walks) /\ w = Top
  OBVIOUS
<1>4. n \in DOMAIN walks /\ w = walks[n] /\ w \in Frames
  BY <1>2, <1>3 DEF Top
<1>5. PICK x : x = [w EXCEPT !.at = "step", !.this = Nil]
  OBVIOUS
<1>6. /\ x \in Frames /\ x.at = "step" /\ x.old = w.old /\ x.to = w.to
      /\ x.entry = w.entry /\ x.waiting = w.waiting
  BY <1>4, <1>5 DEF Frames
<1>7. walks' = [walks EXCEPT ![Len(walks)] = x] /\ UNCHANGED <<kind, listVars, dead>>
  BY <1>3, <1>4, <1>5 DEF CallbackReturn
<1>8. /\ walks' \in Seq(Frames) /\ DOMAIN walks' = DOMAIN walks /\ walks'[n] = x
      /\ \A i \in DOMAIN walks : i # n => walks'[i] = walks[i]
  BY <1>2, <1>3, <1>6, <1>7, TopBecomes
<1>9. FrameOK(w, s, X, after) /\ w.at = "callback" /\ w.old \in Values
      /\ (w.to = Nil => w.this \notin Watching(w.old))
  BY <1>1, <1>3, <1>4 DEF ListInv, CallbackReturn, Frames
<1>10. FrameOK(x, s, X, after)
  <2>1. Watching(w.old) = On(s, X, w.old)
    BY <1>1, <1>2, <1>9, WatchingIsOn DEF ListInv
  <2> QED BY <1>6, <1>9, <2>1 DEF FrameOK
<1>11. ListInv(s, X, after)'
  <2>1. \A i \in DOMAIN walks' : FrameOK(walks'[i], s, X, after)
    BY <1>1, <1>8, <1>10 DEF ListInv
  <2>2. State' = State /\ Listed' = Listed /\ dead' = dead
    BY <1>7 DEF State, Listed, listVars
  <2> QED BY <1>1, <2>1, <2>2 DEF ListInv
<1>12. Apart'
  BY <1>2, <1>4, <1>6, <1>7, <1>8, ApartStays
<1>13. TypeInv'
  BY <1>2, <1>7, <1>8 DEF TypeInv, listVars
<1> QED BY <1>11, <1>12, <1>13 DEF VInv

\* A walk that deletes its Value ends when no handle is on it.
LEMMA FinishKeeps ==
  ASSUME VInv, Finish PROVE VInv'
<1>1. PICK s, X, after : ListInv(s, X, after)
  BY DEF VInv
<1>2. /\ TypeInv /\ Apart /\ walks \in Seq(Frames) /\ walks # <<>> /\ dead \subseteq Values
      /\ UNCHANGED <<kind, listVars>>
  BY DEF VInv, TypeInv, Finish
<1>3. PICK n, w : n = Len(walks) /\ w = Top
  OBVIOUS
<1>4. n \in DOMAIN walks /\ w = walks[n] /\ w \in Frames /\ n \in Nat \ {0} /\ DOMAIN walks = 1..n
  BY <1>2, <1>3 DEF Top
<1>5. w.at = "step" /\ w.entry = Nil /\ w.old \in Values
      /\ dead' = (IF w.to = Nil THEN dead \cup {w.old} ELSE dead)
      /\ walks' = SubSeq(walks, 1, n - 1)
  BY <1>3, <1>4 DEF Finish, Frames
<1>6. /\ walks' \in Seq(Frames) /\ DOMAIN walks' = 1..(n - 1)
      /\ \A i \in 1..(n - 1) : walks'[i] = walks[i] /\ i \in DOMAIN walks /\ i # n
  <2>1. 1 \in Int /\ n - 1 \in Int /\ \A i \in 1..(n - 1) : walks[i] \in Frames
    BY <1>2, <1>4
  <2>2. /\ SubSeq(walks, 1, n - 1) \in Seq(Frames)
        /\ Len(SubSeq(walks, 1, n - 1)) = IF 1 <= n - 1 THEN n - 1 - 1 + 1 ELSE 0
        /\ \A i \in 1..(n - 1 - 1 + 1) : SubSeq(walks, 1, n - 1)[i] = walks[1 + i - 1]
    BY <2>1, SubSeqProperties
  <2> QED BY <1>4, <1>5, <2>2
<1>7. w.to = Nil => On(s, X, w.old) = {}
  <2>1. FrameOK(w, s, X, after)
    BY <1>1, <1>4 DEF ListInv
  <2> QED BY <1>5, <2>1 DEF FrameOK
<1>8. ListInv(s, X, after)'
  <2>1. \A i \in DOMAIN walks' : FrameOK(walks'[i], s, X, after)
    BY <1>1, <1>6 DEF ListInv
  <2>2. State' = State /\ Listed' = Listed
    BY <1>2 DEF State, Listed, listVars
  <2>3. \A v \in dead' : On(s, X, v) = {}
    BY <1>1, <1>5, <1>7 DEF ListInv
  <2> QED BY <1>1, <2>1, <2>2, <2>3 DEF ListInv
<1>9. Apart'
  <2>1. ASSUME NEW i \in 1..(n - 1)
        PROVE  /\ walks[i].to # walks[i].old /\ walks[i].to \notin dead
               /\ w.to = Nil => walks[i].to # w.old
               /\ \A j \in 1..(n - 1) : /\ i # j => walks[i].old # walks[j].old
                                        /\ walks[i].to = Nil => walks[j].to # walks[i].old
    BY <1>2, <1>4, <1>6 DEF Apart
  <2>2. \A i \in 1..(n - 1) : walks[i].to \notin dead'
    BY <1>5, <2>1
  <2> QED BY <1>6, <2>1, <2>2 DEF Apart
<1>10. TypeInv'
  BY <1>2, <1>5, <1>6 DEF TypeInv, listVars
<1> QED BY <1>8, <1>9, <1>10 DEF VInv

\* A walk starts on a Value that no other walk is on.
LEMMA WalkKeeps ==
  ASSUME VInv, NEW v \in Values, NEW new \in Values \cup {Nil}, Walk(v, new), v \in hasHandle,
         UNCHANGED <<kind, listVars>>, v # new, new \notin dead,
         \A i \in DOMAIN walks : /\ walks[i].old # v
                                 /\ new = Nil => walks[i].to # v
                                 /\ walks[i].to = Nil => walks[i].old # new
  PROVE  VInv'
<1>1. PICK s, X, after : ListInv(s, X, after)
  BY DEF VInv
<1>2. /\ TypeInv /\ Apart /\ walks \in Seq(Frames) /\ dead \subseteq Values /\ dead' = dead
      /\ exists \subseteq Handles
  BY DEF VInv, TypeInv, Walk
<1>3. PICK n, x : /\ n = Len(walks)
                  /\ x = [at |-> "step", old |-> v, to |-> new, this |-> Nil,
                          entry |-> head[v], waiting |-> Watching(v)]
  OBVIOUS
<1>4. /\ s = State /\ X = Listed /\ List(s, X, after) /\ s.head = head /\ s.has = hasHandle
      /\ On(s, X, v) = Watching(v) /\ X \subseteq Handles
  BY <1>1, <1>2, WatchingIsOn DEF ListInv, State, Listed
<1>5. FrameOK(x, s, X, after)
  BY <1>3, <1>4, FrameStarts
<1>6. x \in Frames
  <2>1. head[v] \in Handles \cup {Nil} /\ Watching(v) \in SUBSET Handles
    BY <1>2, <1>4 DEF List, Linked, HeadLinked, Watching
  <2> QED BY <1>3, <2>1 DEF Frames
<1>7. /\ walks' \in Seq(Frames) /\ DOMAIN walks' = 1..(n + 1) /\ DOMAIN walks = 1..n
      /\ n \in Nat /\ walks'[n + 1] = x /\ \A i \in 1..n : walks'[i] = walks[i]
  <2>1. walks' = Append(walks, x)
    BY <1>3 DEF Walk
  <2> QED BY <1>2, <1>3, <1>6, <2>1, AppendProperties
<1>8. ListInv(s, X, after)'
  <2>1. \A i \in DOMAIN walks' : FrameOK(walks'[i], s, X, after)
    BY <1>1, <1>5, <1>7 DEF ListInv
  <2>2. State' = State /\ Listed' = Listed
    BY DEF State, Listed, listVars
  <2> QED BY <1>1, <1>2, <2>1, <2>2 DEF ListInv
<1>9. Apart'
  <2>1. x.old = v /\ x.to = new
    BY <1>3
  <2>2. ASSUME NEW i \in 1..(n + 1)
        PROVE  walks'[i].to # walks'[i].old /\ walks'[i].to \notin dead
    BY <1>2, <1>7, <2>1 DEF Apart
  <2>3. ASSUME NEW i \in 1..(n + 1), NEW j \in 1..(n + 1), i # j
        PROVE  walks'[i].old # walks'[j].old
    <3>1. CASE i \in 1..n /\ j \in 1..n
      BY <1>2, <1>7, <2>3, <3>1 DEF Apart
    <3>2. CASE i = n + 1 \/ j = n + 1
      BY <1>7, <2>1, <2>3, <3>2
    <3> QED BY <1>7, <3>1, <3>2
  <2>4. ASSUME NEW i \in 1..(n + 1), NEW j \in 1..(n + 1), walks'[i].to = Nil
        PROVE  walks'[j].to # walks'[i].old
    <3>1. CASE i \in 1..n /\ j \in 1..n
      BY <1>2, <1>7, <2>4, <3>1 DEF Apart
    <3>2. CASE i = n + 1
      BY <1>7, <2>1, <2>4, <3>2
    <3>3. CASE i \in 1..n /\ j = n + 1
      BY <1>7, <2>1, <2>4, <3>3
    <3> QED BY <1>7, <3>1, <3>2, <3>3
  <2> QED BY <1>2, <1>7, <2>2, <2>3, <2>4 DEF Apart
<1>10. TypeInv'
  BY <1>2, <1>7 DEF TypeInv, listVars
<1> QED BY <1>8, <1>9, <1>10 DEF VInv

LEMMA DeleteValueKeeps ==
  ASSUME VInv, NEW v \in Values, DeleteValue(v) PROVE VInv'
<1>1. PICK s, X, after : ListInv(s, X, after)
  BY DEF VInv
<1>2. TypeInv /\ Apart /\ dead \subseteq Values /\ Nil \notin Values
  BY Nils DEF VInv, TypeInv
<1>3. /\ v \notin dead /\ UNCHANGED <<kind, listVars>>
      /\ \A i \in DOMAIN walks : walks[i].old # v /\ walks[i].to # v
  BY DEF DeleteValue
<1>4. CASE v \in hasHandle
  <2>1. Walk(v, Nil) /\ Nil \notin dead /\ v # Nil
    BY <1>2, <1>4 DEF DeleteValue
  <2>2. \A i \in DOMAIN walks : walks[i].to = Nil => walks[i].old # Nil
    BY <1>2 DEF Apart
  <2> QED BY <1>3, <1>4, <2>1, <2>2, WalkKeeps
<1>5. CASE v \notin hasHandle
  <2>1. dead' = dead \cup {v} /\ UNCHANGED walks
    BY <1>5 DEF DeleteValue
  <2>2. On(s, X, v) = {}
    BY <1>1, <1>5 DEF ListInv, List, Linked, HeadLinked, On, State
  <2>3. State' = State /\ Listed' = Listed
    BY <1>3 DEF State, Listed, listVars
  <2>4. ListInv(s, X, after)'
    BY <1>1, <2>1, <2>2, <2>3 DEF ListInv
  <2>5. Apart'
    BY <1>2, <1>3, <2>1 DEF Apart
  <2>6. TypeInv'
    BY <1>2, <1>3, <2>1 DEF TypeInv, listVars
  <2> QED BY <2>4, <2>5, <2>6 DEF VInv
<1> QED BY <1>4, <1>5

LEMMA ReplaceAllUsesWithKeeps ==
  ASSUME VInv, NEW v \in Values, NEW new \in Values, ReplaceAllUsesWith(v, new) PROVE VInv'
<1>1. /\ Walk(v, new) /\ v \in hasHandle /\ UNCHANGED <<kind, listVars>> /\ v # new
      /\ new \notin dead /\ new # Nil
      /\ \A i \in DOMAIN walks : walks[i].old # v /\ (walks[i].to = Nil => walks[i].old # new)
  BY Nils DEF ReplaceAllUsesWith, Watchable, Walked
<1> QED BY <1>1, WalkKeeps

LEMMA NewValueKeeps ==
  ASSUME VInv, NEW v \in Values, NewValue(v) PROVE VInv'
<1>1. PICK s, X, after : ListInv(s, X, after)
  BY DEF VInv
<1>2. dead' = dead \ {v} /\ UNCHANGED <<kind, listVars, walks>>
  BY DEF NewValue
<1>3. State' = State /\ Listed' = Listed
  BY <1>2 DEF State, Listed, listVars
<1>4. ListInv(s, X, after)'
  BY <1>1, <1>2, <1>3 DEF ListInv
<1>5. Apart' /\ TypeInv'
  BY <1>2 DEF VInv, Apart, TypeInv, listVars
<1> QED BY <1>4, <1>5 DEF VInv

-----------------------------------------------------------------------------
LEMMA InitHolds == Init => VInv
<1> SUFFICES ASSUME Init PROVE VInv
  OBVIOUS
<1>1. walks = <<>> /\ exists = {} /\ dead = {} /\ Listed = {}
  BY DEF Init, Listed
<1>2. TypeInv /\ Apart
  BY <1>1 DEF TypeInv, Apart
<1>3. PICK s, X, after : s = State /\ X = {} /\ after = [h \in Handles |-> {}]
  OBVIOUS
<1>4. Fields(s)
  BY <1>3 DEF Fields, State, Init, Tables
<1>5. Linked(s, X)
  BY <1>3 DEF Linked, HeadLinked, State, Init
<1>6. Ordered(s, X, after)
  BY <1>3 DEF Ordered
<1>7. ListInv(s, X, after)
  BY <1>1, <1>3, <1>4, <1>5, <1>6 DEF ListInv, List
<1> QED BY <1>2, <1>7 DEF VInv

LEMMA StepKeeps == VInv /\ [Next]_vars => VInv'
<1> SUFFICES ASSUME VInv, [Next]_vars PROVE VInv'
  OBVIOUS
<1>1. ASSUME NEW h \in Handles, NEW v \in Values \cup {Nil}, Construct(h, v) PROVE VInv'
  BY <1>1, ConstructKeeps
<1>2. ASSUME NEW h \in Handles, NEW v \in Values \cup {Nil}, Assign(h, v) PROVE VInv'
  BY <1>2, AssignKeeps
<1>3. ASSUME NEW h \in Handles, NEW rhs \in Handles, CopyConstruct(h, rhs) PROVE VInv'
  BY <1>3, CopyConstructKeeps
<1>4. ASSUME NEW h \in Handles, NEW rhs \in Handles, AssignFrom(h, rhs) PROVE VInv'
  BY <1>4, AssignFromKeeps
<1>5. ASSUME NEW h \in Handles, Destroy(h) PROVE VInv'
  BY <1>5, DestroyKeeps
<1>6. ASSUME NEW v \in Values, DeleteValue(v) PROVE VInv'
  BY <1>6, DeleteValueKeeps
<1>7. ASSUME NEW v \in Values, NewValue(v) PROVE VInv'
  BY <1>7, NewValueKeeps
<1>8. ASSUME NEW v \in Values, NEW new \in Values, ReplaceAllUsesWith(v, new) PROVE VInv'
  BY <1>8, ReplaceAllUsesWithKeeps
<1>9. CASE StepAssert
  BY <1>9, StepAssertKeeps
<1>10. CASE StepWeak
  BY <1>10, StepWeakKeeps
<1>11. CASE StepCallback
  BY <1>11, StepCallbackKeeps
<1>12. CASE CallbackReturn
  BY <1>12, CallbackReturnKeeps
<1>13. CASE Finish
  BY <1>13, FinishKeeps
<1>14. CASE UNCHANGED vars
  <2>1. State' = State /\ Listed' = Listed /\ UNCHANGED <<exists, dead, walks>>
    BY <1>14 DEF State, Listed, listVars, vars
  <2>2. PICK s, X, after : ListInv(s, X, after)
    BY DEF VInv
  <2>3. ListInv(s, X, after)'
    BY <2>1, <2>2 DEF ListInv
  <2>4. Apart' /\ TypeInv'
    BY <2>1 DEF VInv, Apart, TypeInv
  <2> QED BY <2>3, <2>4 DEF VInv
<1>15. CASE Aborted
  BY <1>14, <1>15 DEF Aborted
<1> QED BY <1>1, <1>2, <1>3, <1>4, <1>5, <1>6, <1>7, <1>8, <1>9, <1>10, <1>11, <1>12, <1>13,
           <1>14, <1>15 DEF Next

\* The invariant of the lists and the walks on them: whatever handles are
\* constructed, copied, assigned or destroyed, by callbacks during a walk as
\* well, each list stays linked both ways, the handles a walk has still to
\* reach stay ahead of the one it has fetched, and a walk of ~Value leaves no
\* other handle on its Value than the one whose callback runs
\* (ValueHandleBase::AddToUseList, RemoveFromUseList, ValueIsDeleted).
THEOREM VInvariance == Spec => []VInv
<1>1. Init => VInv
  BY InitHolds
<1>2. VInv /\ [Next]_vars => VInv'
  BY StepKeeps
<1> QED BY <1>1, <1>2, PTL DEF Spec

\* No handle outlives the Value it watches, for any number of handles and
\* Values and any depth of walks that callbacks start (ValueIsDeleted).
THEOREM NeverDangling == Spec => []NoDangling
<1>1. VInv => NoDangling
  <2> SUFFICES ASSUME VInv PROVE NoDangling
    OBVIOUS
  <2>1. PICK s, X, after : ListInv(s, X, after)
    BY DEF VInv
  <2>2. \A v \in dead : v \in Values /\ On(State, Listed, v) = {}
    BY <2>1 DEF VInv, TypeInv, ListInv
  <2> QED BY <2>2, WatchingIsOn DEF VInv, NoDangling
<1> QED BY <1>1, VInvariance, PTL

-----------------------------------------------------------------------------
(***************************************************************************)
(* What Chain collects.                                                     *)
(***************************************************************************)
\* Chain follows Next.
Follows(g, h) ==
  /\ DOMAIN g = 0..Cardinality(Handles) /\ g[0] = h
  /\ \A n \in 1..Cardinality(Handles) :
       g[n] = IF g[n - 1] = Nil THEN Nil ELSE next[g[n - 1]]

LEMMA ChainFollows ==
  ASSUME NEW h
  PROVE  \E g : Follows(g, h) /\ Chain(h) = {g[n] : n \in 0..Cardinality(Handles)} \ {Nil}
<1>1. PICK N : N = Cardinality(Handles) /\ N \in Nat
  BY FS_CardinalityType, HandlesAssumption
<1> DEFINE Is(g, m) == /\ DOMAIN g = 0..m /\ g[0] = h
                       /\ \A n \in 1..m : g[n] = IF g[n - 1] = Nil THEN Nil ELSE next[g[n - 1]]
<1>2. PICK T : T = {m \in Nat : \E g : Is(g, m)}
  OBVIOUS
<1>3. 0 \in T
  <2>1. PICK g : g = [n \in 0..0 |-> h]
    OBVIOUS
  <2>2. Is(g, 0)
    BY <2>1
  <2> QED BY <1>2, <2>2
<1>4. ASSUME NEW m \in Nat, m \in T PROVE m + 1 \in T
  <2>1. PICK g : Is(g, m)
    BY <1>2, <1>4
  <2>2. PICK f : f = [n \in 0..(m + 1) |-> IF n <= m THEN g[n]
                                            ELSE IF g[m] = Nil THEN Nil ELSE next[g[m]]]
    OBVIOUS
  <2>3. Is(f, m + 1)
    BY <2>1, <2>2
  <2> QED BY <1>2, <2>3
<1>5. N \in T
  BY <1>1, <1>3, <1>4, InductionInSet
<1>6. PICK f : Is(f, N)
  BY <1>2, <1>5
<1> DEFINE after == CHOOSE g : g = [n \in 0..N |->
                      IF n = 0 THEN h ELSE IF g[n - 1] = Nil THEN Nil ELSE next[g[n - 1]]]
<1>7. \E e : e = [n \in 0..N |->
                    IF n = 0 THEN h ELSE IF e[n - 1] = Nil THEN Nil ELSE next[e[n - 1]]]
  <2>1. PICK e : e = [n \in 0..N |-> f[n]]
    OBVIOUS
  <2>2. ASSUME NEW n \in 0..N
        PROVE  f[n] = IF n = 0 THEN h ELSE IF e[n - 1] = Nil THEN Nil ELSE next[e[n - 1]]
    <3>1. CASE n = 0
      BY <1>6, <3>1
    <3>2. CASE n # 0
      <4>1. n \in 1..N /\ n - 1 \in 0..N
        BY <1>1, <3>2
      <4>2. e[n - 1] = f[n - 1]
        BY <2>1, <4>1
      <4> QED BY <1>6, <3>2, <4>1, <4>2
    <3> QED BY <3>1, <3>2
  <2>3. e = [n \in 0..N |->
               IF n = 0 THEN h ELSE IF e[n - 1] = Nil THEN Nil ELSE next[e[n - 1]]]
    BY <2>1, <2>2
  <2> QED BY <2>3, Zenon
<1>8. after = [n \in 0..N |->
            IF n = 0 THEN h ELSE IF after[n - 1] = Nil THEN Nil ELSE next[after[n - 1]]]
  BY <1>7, Zenon
<1>9. Chain(h) = {after[n] : n \in DOMAIN after} \ {Nil}
  BY <1>1 DEF Chain
<1> HIDE DEF after
<1>10. DOMAIN after = 0..N
  BY <1>8
<1>11. Follows(after, h)
  BY <1>1, <1>8 DEF Follows
<1> QED BY <1>1, <1>9, <1>10, <1>11

LEMMA ChainOfNil == Chain(Nil) = {}
<1>1. PICK N : N = Cardinality(Handles) /\ N \in Nat
  BY FS_CardinalityType, HandlesAssumption
<1>2. PICK g : Follows(g, Nil) /\ Chain(Nil) = {g[n] : n \in 0..N} \ {Nil}
  BY <1>1, ChainFollows
<1>3. PICK T : T = {n \in Nat : n <= N => g[n] = Nil}
  OBVIOUS
<1>4. 0 \in T
  BY <1>2, <1>3 DEF Follows
<1>5. ASSUME NEW n \in Nat, n \in T PROVE n + 1 \in T
  BY <1>1, <1>2, <1>3, <1>5 DEF Follows
<1>6. \A n \in 0..N : g[n] = Nil
  BY <1>1, <1>3, <1>4, <1>5, InductionInSet
<1> QED BY <1>2, <1>6

\* From a handle on a list, Chain collects it and those behind it.
LEMMA ChainIsRest ==
  ASSUME NEW s, NEW X, NEW after, List(s, X, after), s.next = next, NEW h \in X
  PROVE  Chain(h) = {h} \cup after[h]
<1>1. PICK N : N = Cardinality(Handles) /\ N \in Nat
  BY FS_CardinalityType, HandlesAssumption
<1>2. PICK g : Follows(g, h) /\ Chain(h) = {g[n] : n \in 0..N} \ {Nil}
  BY <1>1, ChainFollows
<1>3. /\ DOMAIN g = 0..N /\ g[0] = h
      /\ \A n \in 1..N : g[n] = IF g[n - 1] = Nil THEN Nil ELSE next[g[n - 1]]
  BY <1>1, <1>2 DEF Follows
<1>4. /\ Nil \notin X /\ X \subseteq Handles
      /\ \A k \in X : /\ \A j \in after[k] : j \in X /\ after[j] \subseteq after[k]
                      /\ k \notin after[k]
                      /\ next[k] # Nil => next[k] \in after[k]
                      /\ \A j \in after[k] : next[k] # Nil /\ (j = next[k] \/ j \in after[next[k]])
  BY Nils DEF List, Linked, Ordered
<1>5. \A n \in 0..N : g[n] = Nil \/ g[n] \in {h} \cup after[h]
  <2>1. PICK T : T = {n \in Nat : n <= N => g[n] = Nil \/ g[n] \in {h} \cup after[h]}
    OBVIOUS
  <2>2. 0 \in T
    BY <1>3, <2>1
  <2>3. ASSUME NEW n \in Nat, n \in T PROVE n + 1 \in T
    <3> SUFFICES ASSUME n + 1 <= N PROVE g[n + 1] = Nil \/ g[n + 1] \in {h} \cup after[h]
      BY <2>1
    <3>1. n + 1 \in 1..N /\ g[n + 1] = IF g[n] = Nil THEN Nil ELSE next[g[n]]
      BY <1>1, <1>3
    <3>2. g[n] = Nil \/ g[n] \in {h} \cup after[h]
      BY <1>1, <2>1, <2>3
    <3> QED BY <1>4, <3>1, <3>2
  <2> QED BY <1>1, <2>1, <2>2, <2>3, InductionInSet
<1>6. ASSUME NEW k \in {h} \cup after[h], \A n \in 0..N : g[n] # k PROVE FALSE
  <2>1. \A n \in 0..N : g[n] \in X /\ k \in after[g[n]]
    <3>1. PICK T : T = {n \in Nat : n <= N => g[n] \in X /\ k \in after[g[n]]}
      OBVIOUS
    <3>2. 0 \in T
      BY <1>1, <1>3, <1>6, <3>1
    <3>3. ASSUME NEW n \in Nat, n \in T PROVE n + 1 \in T
      <4> SUFFICES ASSUME n + 1 <= N PROVE g[n + 1] \in X /\ k \in after[g[n + 1]]
        BY <3>1
      <4>1. /\ n + 1 \in 0..N /\ g[n + 1] = IF g[n] = Nil THEN Nil ELSE next[g[n]]
            /\ g[n] \in X /\ k \in after[g[n]] /\ g[n + 1] # k
        BY <1>1, <1>3, <1>6, <3>1, <3>3
      <4>2. next[g[n]] # Nil /\ (k = next[g[n]] \/ k \in after[next[g[n]]])
        BY <1>4, <4>1
      <4> QED BY <1>4, <4>1, <4>2
    <3> QED BY <1>1, <3>1, <3>2, <3>3, InductionInSet
  <2>2. \A n \in 0..N, m \in 0..N : m < n => g[n] \in after[g[m]]
    <3>1. PICK T : T = {n \in Nat : n <= N => \A m \in 0..N : m < n => g[n] \in after[g[m]]}
      OBVIOUS
    <3>2. 0 \in T
      BY <3>1
    <3>3. ASSUME NEW n \in Nat, n \in T PROVE n + 1 \in T
      <4> SUFFICES ASSUME n + 1 <= N, NEW m \in 0..N, m < n + 1 PROVE g[n + 1] \in after[g[m]]
        BY <3>1
      <4>1. n \in 0..N /\ n + 1 \in 0..N /\ n + 1 \in 1..N
        BY <1>1
      <4>2. g[n + 1] = next[g[n]] /\ g[n + 1] # Nil /\ g[n] \in X /\ g[m] \in X
        BY <1>3, <1>4, <2>1, <4>1
      <4>3. g[n + 1] \in after[g[n]]
        BY <1>4, <4>2
      <4>4. CASE m = n
        BY <4>3, <4>4
      <4>5. CASE m < n
        <5>1. g[n] \in after[g[m]]
          BY <3>1, <3>3, <4>1, <4>5
        <5> QED BY <1>4, <4>2, <4>3, <5>1
      <4> QED BY <4>4, <4>5, <4>1
    <3> QED BY <1>1, <3>1, <3>2, <3>3, InductionInSet
  <2>3. \A n \in 0..N, m \in 0..N : m # n => g[n] # g[m]
    <3> SUFFICES ASSUME NEW n \in 0..N, NEW m \in 0..N, m < n PROVE g[n] # g[m]
      BY <1>1
    <3> QED BY <1>4, <2>1, <2>2
  <2>4. PICK f : f = [n \in 0..N |-> g[n]]
    OBVIOUS
  <2>5. f \in [0..N -> Handles] /\ \A n, m \in 0..N : n # m => f[n] # f[m]
    BY <1>4, <2>1, <2>3, <2>4
  <2>6. IsFiniteSet(0..N) /\ Cardinality(0..N) = N + 1 /\ IsFiniteSet(Handles)
    BY <1>1, FS_Interval, HandlesAssumption
  <2>7. Cardinality(Handles) < Cardinality(0..N)
    BY <1>1, <2>6
  <2> QED BY <2>5, <2>6, <2>7, FS_PigeonHole
<1>7. \A k \in {h} \cup after[h] : k \in X /\ k # Nil
  BY <1>4
<1> QED BY <1>2, <1>5, <1>6, <1>7

-----------------------------------------------------------------------------
LEMMA InvListExact == VInv => ListExact
<1> SUFFICES ASSUME VInv PROVE ListExact
  OBVIOUS
<1>1. PICK s, X, after : ListInv(s, X, after)
  BY DEF VInv
<1>2. /\ s = State /\ X = Listed /\ List(s, X, after) /\ TypeInv
      /\ s.vp = vp /\ s.next = next /\ s.prev = prev /\ s.head = head
      /\ s.table = table /\ s.has = hasHandle
  BY <1>1 DEF ListInv, State, VInv
<1>3. ASSUME NEW v \in Values
      PROVE  Chain(head[v]) = Watching(v) /\ (v \in hasHandle <=> Watching(v) # {})
  <2>1. Watching(v) = On(s, X, v)
    BY <1>2, WatchingIsOn
  <2>2. HeadLinked(s, X, v)
    BY <1>2 DEF List, Linked
  <2>3. CASE v \in hasHandle
    <3>1. head[v] \in X /\ vp[head[v]] = v
      BY <1>2, <2>2, <2>3 DEF HeadLinked
    <3>2. Chain(head[v]) = {head[v]} \cup after[head[v]]
      BY <1>2, <3>1, ChainIsRest
    <3>3. \A k \in X : vp[k] = v <=> k = head[v] \/ k \in after[head[v]]
      BY <1>2, <3>1 DEF List, Ordered
    <3>4. \A k \in after[head[v]] : k \in X
      BY <1>2, <3>1 DEF List, Ordered
    <3> QED BY <1>2, <2>1, <2>3, <3>1, <3>2, <3>3, <3>4 DEF On
  <2>4. CASE v \notin hasHandle
    <3>1. head[v] = Nil /\ \A k \in X : vp[k] # v
      BY <1>2, <2>2, <2>4 DEF HeadLinked
    <3> QED BY <1>2, <2>1, <2>4, <3>1, ChainOfNil DEF On
  <2> QED BY <2>3, <2>4
<1>4. ASSUME NEW h \in exists, vp[h] # Nil
      PROVE  /\ \/ prev[h] = Bucket(vp[h], table)
                \/ \E g \in Watching(vp[h]) : prev[h] = NextOf(g)
             /\ Load(State, prev[h]) = h
  <2>1. h \in X
    BY <1>2, <1>4 DEF Listed
  <2>2. HandleLinked(s, X, h)
    BY <1>2, <2>1 DEF List, Linked
  <2>3. CASE First(s, h)
    BY <1>2, <2>3, PlaceAccess DEF First
  <2>4. CASE \E g \in X : Behind(s, g, h)
    <3>1. PICK g \in X : Behind(s, g, h)
      BY <2>4
    <3>2. g \in Watching(vp[h]) /\ prev[h] = NextOf(g) /\ next[g] = h
      BY <1>2, <3>1 DEF Behind, Watching, Listed
    <3> QED BY <1>2, <3>2, PlaceAccess
  <2> QED BY <2>2, <2>3, <2>4 DEF HandleLinked
<1> QED BY <1>3, <1>4 DEF ListExact

LEMMA InvWalkSafe == VInv => WalkSafe
<1> SUFFICES ASSUME VInv PROVE WalkSafe
  OBVIOUS
<1>1. PICK s, X, after : ListInv(s, X, after)
  BY DEF VInv
<1>2. s.next = next /\ s.vp = vp /\ s = State /\ X = Listed /\ List(s, X, after) /\ TypeInv
  BY <1>1 DEF ListInv, State, VInv
<1>3. ASSUME NEW i \in DOMAIN walks
      PROVE  /\ Chain(walks[i].entry) \subseteq Watching(walks[i].old)
             /\ walks[i].waiting \subseteq Chain(walks[i].entry)
  <2>1. PICK w : w = walks[i]
    OBVIOUS
  <2>2. /\ w.entry = Nil \/ w.entry \in On(s, X, w.old)
        /\ \A k \in w.waiting : w.entry # Nil /\ (k = w.entry \/ k \in after[w.entry])
    BY <1>1, <2>1 DEF ListInv, FrameOK
  <2>3. CASE w.entry = Nil
    BY <2>1, <2>2, <2>3, ChainOfNil
  <2>4. CASE w.entry \in On(s, X, w.old)
    <3>1. w.entry \in X /\ vp[w.entry] = w.old
      BY <1>2, <2>4 DEF On
    <3>2. Chain(w.entry) = {w.entry} \cup after[w.entry]
      BY <1>2, <3>1, ChainIsRest
    <3>3. \A k \in after[w.entry] : k \in X /\ vp[k] = w.old
      BY <1>2, <3>1 DEF List, Ordered
    <3>4. \A k \in X : k \in exists
      BY <1>2 DEF Listed
    <3> QED BY <2>1, <2>2, <3>1, <3>2, <3>3, <3>4 DEF Watching
  <2> QED BY <2>2, <2>3, <2>4
<1> QED BY <1>3 DEF WalkSafe

\* The list in a Value's bucket has exactly the handles that watch it, each
\* PrevPtr is the live place that holds its handle, through every insertion
\* that moves the buckets (AddToUseList, RemoveFromUseList).
THEOREM ListsAlwaysExact == Spec => []ListExact
BY InvListExact, VInvariance, PTL

\* What a walk has fetched as its next handle is on the walk's list, and every
\* handle it has to notify is ahead of it, whatever callbacks have done since
\* (ValueIsDeleted, ValueIsRAUWd).
THEOREM WalksSafe == Spec => []WalkSafe
BY InvWalkSafe, VInvariance, PTL

-----------------------------------------------------------------------------
(***************************************************************************)
(* Use lists: the inductive invariant.  l is the list of v in the state g  *)
(* of all Uses, n Uses long; the Uses in off are not on lists, although    *)
(* they may have a value, as between the two halves of Use::swap.          *)
(***************************************************************************)
UseFields(g) ==
  /\ g = [val |-> g.val, next |-> g.next, prev |-> g.prev, head |-> g.head]
  /\ g.val \in [Uses -> Value \cup {None}]
  /\ DOMAIN g.next = Uses /\ DOMAIN g.prev = Uses /\ DOMAIN g.head = Value

Chained(g, off, v, n, l) ==
  /\ n \in Nat /\ l \in [1..n -> Uses \ off]
  /\ \A i, j \in 1..n : l[i] = l[j] => i = j
  /\ g.head[v] = IF n = 0 THEN None ELSE l[1]
  /\ \A i \in 1..n :
       /\ g.val[l[i]] = v
       /\ g.next[l[i]] = IF i = n THEN None ELSE l[i + 1]
       /\ g.prev[l[i]] = IF i = 1 THEN Head_(v) ELSE Next_(l[i - 1])
  /\ \A x \in Uses \ off : g.val[x] = v => \E i \in 1..n : x = l[i]

AllChained(g, off) ==
  UseFields(g) /\ \A v \in Value : \E n, l : Chained(g, off, v, n, l)

-----------------------------------------------------------------------------
(***************************************************************************)
(* Use lists: what the operations do to the fields.                        *)
(***************************************************************************)
LEMMA NoneApart == None \notin Uses /\ None \notin Value
BY UseListsAssumption

LEMMA PlacesApart ==
  /\ \A v, x : Head_(v) # Next_(x)
  /\ \A v, w : Head_(v) = Head_(w) => v = w
  /\ \A x, y : Next_(x) = Next_(y) => x = y
BY DEF Head_, Next_

Without(f, x) == [f EXCEPT ![x] = None]
Linking(f, q, place) == IF q = None THEN f ELSE [f EXCEPT ![q] = place]

\* Use::removeFromList, for the first Use of a list and for another one.
LEMMA FirstLeaves ==
  ASSUME NEW g, UseFields(g), NEW x \in Uses, NEW v \in Value, g.prev[x] = Head_(v),
         NEW t, t = RemoveFromList(g, x)
  PROVE  /\ UseFields(t) /\ t.val = g.val
         /\ t.head = [g.head EXCEPT ![v] = g.next[x]]
         /\ t.next = Without(g.next, x)
         /\ t.prev = Without(Linking(g.prev, g.next[x], g.prev[x]), x)
<1>1. PICK q : q = g.next[x]
  OBVIOUS
<1>2. PICK a : a = [g EXCEPT !.head[v] = q]
  OBVIOUS
<1>3. /\ a = Point(g, g.prev[x], q)
      /\ UseFields(a) /\ a.val = g.val /\ a.next = g.next /\ a.prev = g.prev
      /\ a.head = [g.head EXCEPT ![v] = q]
  BY <1>1, <1>2 DEF UseFields, Point, Head_
<1>4. PICK b : b = setPrev(a, q, g.prev[x])
  OBVIOUS
<1>5. /\ UseFields(b) /\ b.val = a.val /\ b.next = a.next /\ b.head = a.head
      /\ b.prev = Linking(a.prev, q, g.prev[x])
  BY <1>3, <1>4 DEF UseFields, setPrev, Linking
<1>6. t = [b EXCEPT !.next[x] = None, !.prev[x] = None]
  BY <1>1, <1>3, <1>4 DEF RemoveFromList
<1>7. UseFields(t) /\ t.val = b.val /\ t.head = b.head
      /\ t.next = Without(b.next, x) /\ t.prev = Without(b.prev, x)
  BY <1>5, <1>6 DEF UseFields, Without
<1> QED BY <1>1, <1>3, <1>5, <1>7

LEMMA LaterLeaves ==
  ASSUME NEW g, UseFields(g), NEW x \in Uses, NEW p \in Uses, g.prev[x] = Next_(p),
         NEW t, t = RemoveFromList(g, x)
  PROVE  /\ UseFields(t) /\ t.val = g.val /\ t.head = g.head
         /\ t.next = Without([g.next EXCEPT ![p] = g.next[x]], x)
         /\ t.prev = Without(Linking(g.prev, g.next[x], g.prev[x]), x)
<1>1. PICK q : q = g.next[x]
  OBVIOUS
<1>2. PICK a : a = [g EXCEPT !.next[p] = q]
  OBVIOUS
<1>3. /\ a = Point(g, g.prev[x], q)
      /\ UseFields(a) /\ a.val = g.val /\ a.head = g.head /\ a.prev = g.prev
      /\ a.next = [g.next EXCEPT ![p] = q]
  BY <1>1, <1>2 DEF UseFields, Point, Next_
<1>4. PICK b : b = setPrev(a, q, g.prev[x])
  OBVIOUS
<1>5. /\ UseFields(b) /\ b.val = a.val /\ b.next = a.next /\ b.head = a.head
      /\ b.prev = Linking(a.prev, q, g.prev[x])
  BY <1>3, <1>4 DEF UseFields, setPrev, Linking
<1>6. t = [b EXCEPT !.next[x] = None, !.prev[x] = None]
  BY <1>1, <1>3, <1>4 DEF RemoveFromList
<1>7. UseFields(t) /\ t.val = b.val /\ t.head = b.head
      /\ t.next = Without(b.next, x) /\ t.prev = Without(b.prev, x)
  BY <1>5, <1>6 DEF UseFields, Without
<1> QED BY <1>1, <1>3, <1>5, <1>7

\* Value::addUse, which chains x in front of first.
LEMMA Enters ==
  ASSUME NEW g, UseFields(g), NEW x \in Uses, NEW v \in Value,
         NEW t, t = AddToList([g EXCEPT !.val[x] = v], x, v)
  PROVE  /\ UseFields(t) /\ t.val = [g.val EXCEPT ![x] = v]
         /\ t.head = [g.head EXCEPT ![v] = x]
         /\ t.next = [g.next EXCEPT ![x] = g.head[v]]
         /\ t.prev = [Linking(g.prev, g.head[v], Next_(x)) EXCEPT ![x] = Head_(v)]
<1>1. PICK first : first = g.head[v]
  OBVIOUS
<1>2. PICK a : a = [g EXCEPT !.val[x] = v]
  OBVIOUS
<1>3. UseFields(a) /\ a.val = [g.val EXCEPT ![x] = v] /\ a.next = g.next /\ a.prev = g.prev
      /\ a.head = g.head
  BY <1>2 DEF UseFields
<1>4. PICK b : b = [a EXCEPT !.next[x] = first]
  OBVIOUS
<1>5. UseFields(b) /\ b.val = a.val /\ b.next = [a.next EXCEPT ![x] = first]
      /\ b.prev = a.prev /\ b.head = a.head
  BY <1>3, <1>4 DEF UseFields
<1>6. PICK c : c = setPrev(b, first, Next_(x))
  OBVIOUS
<1>7. UseFields(c) /\ c.val = b.val /\ c.next = b.next /\ c.head = b.head
      /\ c.prev = Linking(b.prev, first, Next_(x))
  BY <1>5, <1>6 DEF UseFields, setPrev, Linking
<1>8. PICK d : d = setPrev(c, x, Head_(v))
  OBVIOUS
<1>9. UseFields(d) /\ d.val = c.val /\ d.next = c.next /\ d.head = c.head
      /\ d.prev = [c.prev EXCEPT ![x] = Head_(v)]
  BY <1>7, <1>8, NoneApart DEF UseFields, setPrev
<1>10. t = [d EXCEPT !.head[v] = x]
  BY <1>1, <1>2, <1>3, <1>4, <1>6, <1>8 DEF AddToList
<1>11. UseFields(t) /\ t.val = d.val /\ t.next = d.next /\ t.prev = d.prev
       /\ t.head = [d.head EXCEPT ![v] = x]
  BY <1>9, <1>10 DEF UseFields
<1> QED BY <1>1, <1>3, <1>5, <1>7, <1>9, <1>11

-----------------------------------------------------------------------------
(***************************************************************************)
(* Use lists: what the operations do to the lists.                         *)
(***************************************************************************)
\* The lists of other Values do not notice.
LEMMA OthersStay ==
  ASSUME NEW g, NEW t, NEW off, NEW out, NEW w, NEW n, NEW l, Chained(g, off, w, n, l),
         t.head[w] = g.head[w],
         \A i \in 1..n : /\ l[i] \notin out /\ t.val[l[i]] = g.val[l[i]]
                         /\ t.next[l[i]] = g.next[l[i]] /\ t.prev[l[i]] = g.prev[l[i]],
         \A x \in Uses \ out : t.val[x] = w => x \notin off /\ g.val[x] = w
  PROVE  Chained(t, out, w, n, l)
<1>1. l \in [1..n -> Uses \ out]
  BY DEF Chained
<1> QED BY <1>1 DEF Chained

LEMMA OtherLists ==
  ASSUME NEW g, NEW off, NEW v, NEW w, v # w,
         NEW n, NEW l, Chained(g, off, v, n, l), NEW m, NEW k, Chained(g, off, w, m, k)
  PROVE  \A i \in 1..n, j \in 1..m : l[i] # k[j]
<1>1. /\ \A i \in 1..n : g.val[l[i]] = v
      /\ \A j \in 1..m : g.val[k[j]] = w
  BY DEF Chained
<1> QED BY <1>1

\* The list l without its k-th Use.
Shorter(l, n, k) == [i \in 1..(n - 1) |-> IF i < k THEN l[i] ELSE l[i + 1]]

LEMMA ShorterIs ==
  ASSUME NEW n \in Nat, NEW l, NEW k \in 1..n, NEW m, m = Shorter(l, n, k)
  PROVE  /\ n - 1 \in Nat /\ DOMAIN m = 1..(n - 1) /\ m = [i \in 1..(n - 1) |-> m[i]]
         /\ \A i \in 1..(n - 1) : m[i] = IF i < k THEN l[i] ELSE l[i + 1]
BY DEF Shorter

\* g becomes t and v gets a list again; all else that l is not about stays.
Relisted(g, t, out, v, n, l, x) ==
  /\ UseFields(t) /\ \E m, f : Chained(t, out, v, m, f)
  /\ \A w \in Value \ {v} : t.head[w] = g.head[w]
  /\ \A y \in Uses : y # x /\ (\A i \in 1..n : y # l[i]) =>
       t.next[y] = g.next[y] /\ t.prev[y] = g.prev[y]

LEMMA ListShrinks ==
  ASSUME NEW g, NEW off, UseFields(g), NEW v \in Value, NEW n, NEW l, Chained(g, off, v, n, l),
         NEW x \in Uses \ off, g.val[x] = v, NEW t, t = RemoveFromList(g, x)
  PROVE  Relisted(g, t, off \cup {x}, v, n, l, x) /\ t.val = g.val
<1>0. n \in Nat /\ x \in Uses \ off /\ \A i \in 1..n : l[i] \in Uses \ off
  BY DEF Chained
<1> PICK k \in 1..n : x = l[k]
  BY DEF Chained
<1>1. /\ g.val[x] = v
      /\ g.next[x] = IF k = n THEN None ELSE l[k + 1]
      /\ g.prev[x] = IF k = 1 THEN Head_(v) ELSE Next_(l[k - 1])
  BY <1>0 DEF Chained
<1>2. PICK m : m = Shorter(l, n, k)
  OBVIOUS
<1>3. /\ n - 1 \in Nat /\ DOMAIN m = 1..(n - 1) /\ m = [i \in 1..(n - 1) |-> m[i]]
      /\ \A i \in 1..(n - 1) : m[i] = IF i < k THEN l[i] ELSE l[i + 1]
  BY <1>0, <1>2, ShorterIs
<1>4. \A i, j \in 1..n : l[i] = l[j] => i = j
  BY DEF Chained
<1>5. /\ UseFields(t) /\ t.val = g.val
      /\ t.head = IF k = 1 THEN [g.head EXCEPT ![v] = g.next[x]] ELSE g.head
      /\ t.next = Without(IF k = 1 THEN g.next ELSE [g.next EXCEPT ![l[k - 1]] = g.next[x]], x)
      /\ t.prev = Without(Linking(g.prev, g.next[x], g.prev[x]), x)
  <2>1. CASE k = 1
    BY <1>0, <1>1, <2>1, FirstLeaves
  <2>2. CASE k # 1
    <3>1. PICK p \in Uses : p = l[k - 1]
      <4>1. k - 1 \in 1..n
        BY <1>0, <2>2
      <4> QED BY <1>0, <4>1
    <3>2. g.prev[x] = Next_(p)
      BY <1>1, <2>2, <3>1
    <3>3. /\ UseFields(t) /\ t.val = g.val /\ t.head = g.head
          /\ t.next = Without([g.next EXCEPT ![p] = g.next[x]], x)
          /\ t.prev = Without(Linking(g.prev, g.next[x], g.prev[x]), x)
      BY <1>0, <3>2, LaterLeaves
    <3> QED BY <2>2, <3>1, <3>3
  <2> QED BY <2>1, <2>2
<1>6. \A i \in 1..n : i # k => l[i] # x
  BY <1>4
<1>7. \A i \in 1..n : i # k =>
        /\ t.next[l[i]] = IF i = k - 1 THEN g.next[x] ELSE g.next[l[i]]
        /\ t.prev[l[i]] = IF i = k + 1 THEN g.prev[x] ELSE g.prev[l[i]]
  <2> SUFFICES ASSUME NEW i \in 1..n, i # k
               PROVE  /\ t.next[l[i]] = IF i = k - 1 THEN g.next[x] ELSE g.next[l[i]]
                      /\ t.prev[l[i]] = IF i = k + 1 THEN g.prev[x] ELSE g.prev[l[i]]
    OBVIOUS
  <2>1. l[i] \in Uses /\ l[i] # x /\ DOMAIN g.next = Uses /\ DOMAIN g.prev = Uses /\ l[i] # None
    BY <1>0, <1>6, NoneApart DEF UseFields
  <2>2. i # k - 1 /\ k # 1 => l[i] # l[k - 1]
    <3>1. k # 1 => k - 1 \in 1..n
      BY <1>0
    <3> QED BY <1>4, <3>1
  <2>3. i # k + 1 /\ k # n => l[i] # l[k + 1]
    <3>1. k # n => k + 1 \in 1..n
      BY <1>0
    <3> QED BY <1>4, <3>1
  <2>4. t.next[l[i]] = IF i = k - 1 THEN g.next[x] ELSE g.next[l[i]]
    BY <1>0, <1>5, <2>1, <2>2 DEF Without
  <2>5. t.prev[l[i]] = IF i = k + 1 THEN g.prev[x] ELSE g.prev[l[i]]
    BY <1>0, <1>1, <1>5, <2>1, <2>3, NoneApart DEF Without, Linking
  <2> QED BY <2>4, <2>5
<1>8. ASSUME NEW y \in Uses, \A i \in 1..n : y # l[i]
      PROVE  t.next[y] = g.next[y] /\ t.prev[y] = g.prev[y]
  <2>1. /\ y # x /\ DOMAIN g.next = Uses /\ DOMAIN g.prev = Uses /\ y # None
        /\ k # 1 => y # l[k - 1]
        /\ k # n => y # l[k + 1]
    BY <1>0, <1>8, NoneApart DEF UseFields
  <2> QED BY <1>0, <1>1, <1>5, <1>8, <2>1, NoneApart DEF Without, Linking
<1>9. \A w \in Value \ {v} : t.head[w] = g.head[w]
  BY <1>5 DEF UseFields
<1>10. Chained(t, off \cup {x}, v, n - 1, m)
  <2>1. m \in [1..(n - 1) -> Uses \ (off \cup {x})]
    <3>1. ASSUME NEW i \in 1..(n - 1) PROVE m[i] \in Uses \ (off \cup {x})
      <4>1. \E j \in 1..n : j # k /\ m[i] = l[j]
        BY <1>0, <1>3
      <4> QED BY <1>0, <1>6, <4>1
    <3> QED BY <1>3, <3>1
  <2>2. \A i, j \in 1..(n - 1) : m[i] = m[j] => i = j
    BY <1>0, <1>3, <1>4
  <2>3. t.head[v] = IF n - 1 = 0 THEN None ELSE m[1]
    <3>1. g.head[v] = l[1] /\ DOMAIN g.head = Value
      BY <1>0 DEF Chained, UseFields
    <3> QED BY <1>0, <1>1, <1>3, <1>5, <3>1
  <2>4. ASSUME NEW i \in 1..(n - 1)
        PROVE  /\ t.val[m[i]] = v
               /\ t.next[m[i]] = IF i = n - 1 THEN None ELSE m[i + 1]
               /\ t.prev[m[i]] = IF i = 1 THEN Head_(v) ELSE Next_(m[i - 1])
    <3>1. \A j \in 1..n : /\ g.val[l[j]] = v
                          /\ g.next[l[j]] = IF j = n THEN None ELSE l[j + 1]
                          /\ g.prev[l[j]] = IF j = 1 THEN Head_(v) ELSE Next_(l[j - 1])
      BY DEF Chained
    <3>2. CASE i < k
      <4>1. i \in 1..n /\ i # k /\ m[i] = l[i]
        BY <1>0, <1>3, <3>2
      <4>2. t.prev[m[i]] = IF i = 1 THEN Head_(v) ELSE Next_(m[i - 1])
        <5>1. i # 1 => i - 1 \in 1..(n - 1) /\ i - 1 < k
          BY <1>0, <3>2
        <5>2. i # 1 => m[i - 1] = l[i - 1]
          BY <1>3, <5>1
        <5> QED BY <1>0, <1>7, <3>1, <3>2, <4>1, <5>2
      <4>3. t.next[m[i]] = IF i = n - 1 THEN None ELSE m[i + 1]
        <5>1. i # n - 1 => i + 1 \in 1..(n - 1) /\ i + 1 \in 1..n
          BY <1>0
        <5>2. i # n - 1 => m[i + 1] = IF i = k - 1 THEN l[k + 1] ELSE l[i + 1]
          BY <1>0, <1>3, <3>2, <5>1
        <5>3. t.next[l[i]] = IF i = k - 1 THEN g.next[x] ELSE g.next[l[i]]
          BY <1>7, <4>1
        <5>4. g.next[l[i]] = IF i = n THEN None ELSE l[i + 1]
          BY <3>1, <4>1
        <5>5. i = n - 1 /\ i # k - 1 => FALSE
          BY <1>0, <3>2
        <5>6. i = k - 1 => (i = n - 1 <=> k = n)
          BY <1>0
        <5> QED BY <1>0, <1>1, <4>1, <5>2, <5>3, <5>4, <5>5, <5>6
      <4> QED BY <1>5, <3>1, <4>1, <4>2, <4>3
    <3>3. CASE ~(i < k)
      <4>1. i + 1 \in 1..n /\ i + 1 # k /\ i + 1 # k - 1 /\ m[i] = l[i + 1]
        BY <1>0, <1>3, <3>3
      <4>2. t.prev[m[i]] = IF i = 1 THEN Head_(v) ELSE Next_(m[i - 1])
        <5>1. t.prev[l[i + 1]] = IF i + 1 = k + 1 THEN g.prev[x] ELSE g.prev[l[i + 1]]
          BY <1>7, <4>1
        <5>2. g.prev[l[i + 1]] = IF i + 1 = 1 THEN Head_(v) ELSE Next_(l[(i + 1) - 1])
          BY <3>1, <4>1
        <5>3. i + 1 # 1 /\ (i + 1) - 1 = i /\ (i + 1 = k + 1 <=> i = k)
          BY <1>0
        <5>4. i # 1 => i - 1 \in 1..(n - 1)
          BY <1>0
        <5>5. i # 1 => m[i - 1] = IF i = k THEN l[k - 1] ELSE l[i]
          BY <1>0, <1>3, <3>3, <5>4
        <5>6. i = 1 => i = k
          BY <1>0, <3>3
        <5> QED BY <1>1, <4>1, <5>1, <5>2, <5>3, <5>5, <5>6
      <4>3. t.next[m[i]] = IF i = n - 1 THEN None ELSE m[i + 1]
        <5>1. t.next[l[i + 1]] = g.next[l[i + 1]]
          BY <1>7, <4>1
        <5>2. g.next[l[i + 1]] = IF i + 1 = n THEN None ELSE l[(i + 1) + 1]
          BY <3>1, <4>1
        <5>3. i # n - 1 => i + 1 \in 1..(n - 1) /\ ~(i + 1 < k)
          BY <1>0, <3>3
        <5>4. i # n - 1 => m[i + 1] = l[(i + 1) + 1]
          BY <1>3, <5>3
        <5>5. i = n - 1 <=> i + 1 = n
          BY <1>0
        <5> QED BY <4>1, <5>1, <5>2, <5>4, <5>5
      <4> QED BY <1>5, <3>1, <4>1, <4>2, <4>3
    <3> QED BY <3>2, <3>3
  <2>5. ASSUME NEW y \in Uses \ (off \cup {x}), t.val[y] = v
        PROVE  \E i \in 1..(n - 1) : y = m[i]
    <3>1. PICK j \in 1..n : y = l[j]
      BY <1>5, <2>5 DEF Chained
    <3>2. j # k
      BY <2>5, <3>1
    <3>3. CASE j < k
      <4>1. j \in 1..(n - 1) /\ m[j] = l[j]
        BY <1>0, <1>3, <3>3
      <4> QED BY <3>1, <4>1
    <3>4. CASE ~(j < k)
      <4>1. j - 1 \in 1..(n - 1) /\ m[j - 1] = l[j]
        BY <1>0, <1>3, <3>2, <3>4
      <4> QED BY <3>1, <4>1
    <3> QED BY <3>3, <3>4
  <2> QED BY <1>3, <2>1, <2>2, <2>3, <2>4, <2>5 DEF Chained
<1> QED BY <1>2, <1>5, <1>8, <1>9, <1>10 DEF Relisted

\* Use::set, first half: x leaves the list it is on, if any.
LEMMA Detaches ==
  ASSUME NEW g, NEW off, AllChained(g, off), NEW x \in Uses \ off, NEW t, t = Detach(g, x)
  PROVE  AllChained(t, off \cup {x}) /\ t.val = g.val
<1>1. UseFields(g) /\ g.val[x] \in Value \cup {None}
  BY DEF AllChained, UseFields
<1>2. CASE g.val[x] = None
  <2>1. t = g
    BY <1>2 DEF Detach
  <2>2. ASSUME NEW w \in Value PROVE \E n, l : Chained(t, off \cup {x}, w, n, l)
    <3>1. PICK n, l : Chained(g, off, w, n, l)
      BY DEF AllChained
    <3>2. \A i \in 1..n : l[i] \in Uses \ off /\ g.val[l[i]] = w
      BY <3>1 DEF Chained
    <3>3. \A i \in 1..n : l[i] \notin off \cup {x}
      BY <1>2, <3>2, NoneApart
    <3>4. Chained(t, off \cup {x}, w, n, l)
      BY <2>1, <3>1, <3>3, OthersStay
    <3> QED BY <3>4
  <2> QED BY <1>1, <2>1, <2>2 DEF AllChained
<1>3. CASE g.val[x] # None
  <2>1. PICK v \in Value : v = g.val[x]
    BY <1>1, <1>3
  <2>2. PICK n, l : Chained(g, off, v, n, l)
    BY DEF AllChained
  <2>3. PICK k \in 1..n : x = l[k]
    BY <2>1, <2>2 DEF Chained
  <2>4. t = RemoveFromList(g, x)
    BY <1>3 DEF Detach
  <2>5. Relisted(g, t, off \cup {x}, v, n, l, x) /\ t.val = g.val
    BY <1>1, <2>1, <2>2, <2>4, ListShrinks
  <2>8. /\ UseFields(t) /\ \E m, f : Chained(t, off \cup {x}, v, m, f)
        /\ \A w \in Value \ {v} : t.head[w] = g.head[w]
        /\ \A y \in Uses : (\A i \in 1..n : y # l[i]) =>
             t.next[y] = g.next[y] /\ t.prev[y] = g.prev[y]
    BY <2>3, <2>5 DEF Relisted
  <2>6. ASSUME NEW w \in Value \ {v} PROVE \E m, k1 : Chained(t, off \cup {x}, w, m, k1)
    <3>1. PICK m, k1 : Chained(g, off, w, m, k1)
      BY DEF AllChained
    <3>2. \A i \in 1..m : k1[i] \in Uses \ off /\ \A j \in 1..n : k1[i] # l[j]
      <4>1. \A i \in 1..m : k1[i] \in Uses \ off
        BY <3>1 DEF Chained
      <4>2. \A i \in 1..m, j \in 1..n : k1[i] # l[j]
        BY <2>2, <2>6, <3>1, OtherLists
      <4> QED BY <4>1, <4>2
    <3>3. \A i \in 1..m : /\ k1[i] \notin off \cup {x} /\ t.val[k1[i]] = g.val[k1[i]]
                          /\ t.next[k1[i]] = g.next[k1[i]] /\ t.prev[k1[i]] = g.prev[k1[i]]
      BY <2>3, <2>5, <2>8, <3>2
    <3>4. \A y \in Uses \ (off \cup {x}) : t.val[y] = w => y \notin off /\ g.val[y] = w
      BY <2>5
    <3>5. t.head[w] = g.head[w]
      BY <2>6, <2>8
    <3>6. Chained(t, off \cup {x}, w, m, k1)
      BY <3>1, <3>3, <3>4, <3>5, OthersStay
    <3> QED BY <3>6
  <2>7. ASSUME NEW w \in Value PROVE \E m, k1 : Chained(t, off \cup {x}, w, m, k1)
    BY <2>6, <2>8
  <2> QED BY <2>5, <2>7, <2>8 DEF AllChained
<1> QED BY <1>2, <1>3

\* The list l behind x.
Longer(l, n, x) == [i \in 1..(n + 1) |-> IF i = 1 THEN x ELSE l[i - 1]]

LEMMA LongerIs ==
  ASSUME NEW n \in Nat, NEW l, NEW x, NEW m, m = Longer(l, n, x)
  PROVE  /\ n + 1 \in Nat /\ DOMAIN m = 1..(n + 1) /\ m = [i \in 1..(n + 1) |-> m[i]]
         /\ m[1] = x
         /\ \A i \in 1..n : i + 1 \in 1..(n + 1) /\ m[i + 1] = l[i]
         /\ \A i \in 1..(n + 1) : i = 1 \/ \E j \in 1..n : i = j + 1
<1>1. \A i \in 1..(n + 1) : i # 1 => i - 1 \in 1..n /\ i = (i - 1) + 1
  OBVIOUS
<1> QED BY <1>1 DEF Longer

LEMMA ListGrows ==
  ASSUME NEW g, NEW off, UseFields(g), NEW v \in Value, NEW n, NEW l, Chained(g, off, v, n, l),
         NEW x \in Uses, x \in off, NEW t, t = AddToList([g EXCEPT !.val[x] = v], x, v)
  PROVE  Relisted(g, t, off \ {x}, v, n, l, x) /\ t.val = [g.val EXCEPT ![x] = v]
<1>0. n \in Nat /\ \A i \in 1..n : l[i] \in Uses \ off /\ l[i] # x
  BY DEF Chained
<1>1. /\ DOMAIN g.val = Uses /\ DOMAIN g.next = Uses /\ DOMAIN g.prev = Uses
      /\ DOMAIN g.head = Value
  BY DEF UseFields
<1>2. PICK m : m = Longer(l, n, x)
  OBVIOUS
<1>3. /\ n + 1 \in Nat /\ DOMAIN m = 1..(n + 1) /\ m = [i \in 1..(n + 1) |-> m[i]]
      /\ m[1] = x
      /\ \A i \in 1..n : i + 1 \in 1..(n + 1) /\ m[i + 1] = l[i]
      /\ \A i \in 1..(n + 1) : i = 1 \/ \E j \in 1..n : i = j + 1
  BY <1>0, <1>2, LongerIs
<1>4. /\ UseFields(t) /\ t.val = [g.val EXCEPT ![x] = v]
      /\ t.head = [g.head EXCEPT ![v] = x]
      /\ t.next = [g.next EXCEPT ![x] = g.head[v]]
      /\ t.prev = [Linking(g.prev, g.head[v], Next_(x)) EXCEPT ![x] = Head_(v)]
  BY Enters
<1>5. /\ \A i, j \in 1..n : l[i] = l[j] => i = j
      /\ g.head[v] = IF n = 0 THEN None ELSE l[1]
      /\ \A i \in 1..n :
           /\ g.val[l[i]] = v
           /\ g.next[l[i]] = IF i = n THEN None ELSE l[i + 1]
           /\ g.prev[l[i]] = IF i = 1 THEN Head_(v) ELSE Next_(l[i - 1])
      /\ \A y \in Uses \ off : g.val[y] = v => \E i \in 1..n : y = l[i]
  BY DEF Chained
<1>6. n # 0 => 1 \in 1..n /\ l[1] \in Uses /\ l[1] # x /\ l[1] # None
  BY <1>0, NoneApart
<1>7. \A y \in Uses : y # x =>
        /\ t.next[y] = g.next[y]
        /\ t.prev[y] = IF n # 0 /\ y = l[1] THEN Next_(x) ELSE g.prev[y]
  BY <1>1, <1>4, <1>5, <1>6, NoneApart DEF Linking
<1>8. \A w \in Value \ {v} : t.head[w] = g.head[w]
  BY <1>1, <1>4
<1>9. Chained(t, off \ {x}, v, n + 1, m)
  <2>1. m \in [1..(n + 1) -> Uses \ (off \ {x})]
    <3>1. ASSUME NEW i \in 1..(n + 1) PROVE m[i] \in Uses \ (off \ {x})
      <4>1. CASE i = 1
        BY <1>3, <4>1
      <4>2. CASE i # 1
        <5>1. PICK j \in 1..n : i = j + 1
          BY <1>3, <4>2
        <5>2. m[i] = l[j]
          BY <1>3, <5>1
        <5> QED BY <1>0, <5>2
      <4> QED BY <4>1, <4>2
    <3> QED BY <1>3, <3>1
  <2>2. \A i, j \in 1..(n + 1) : m[i] = m[j] => i = j
    <3> SUFFICES ASSUME NEW i \in 1..(n + 1), NEW j \in 1..(n + 1), m[i] = m[j] PROVE i = j
      OBVIOUS
    <3>1. \A k \in 1..(n + 1) : k # 1 => \E a \in 1..n : k = a + 1 /\ m[k] = l[a] /\ l[a] # x
      <4> SUFFICES ASSUME NEW k \in 1..(n + 1), k # 1
                   PROVE  \E a \in 1..n : k = a + 1 /\ m[k] = l[a] /\ l[a] # x
        OBVIOUS
      <4>1. PICK a \in 1..n : k = a + 1
        BY <1>3
      <4>2. m[k] = l[a]
        BY <1>3, <4>1
      <4> QED BY <1>0, <4>1, <4>2
    <3>2. i = 1 <=> j = 1
      BY <1>3, <3>1
    <3>3. CASE i # 1
      <4>1. PICK a \in 1..n, b \in 1..n : i = a + 1 /\ m[i] = l[a] /\ j = b + 1 /\ m[j] = l[b]
        BY <3>1, <3>2, <3>3
      <4> QED BY <1>5, <4>1
    <3> QED BY <3>2, <3>3
  <2>3. t.head[v] = IF n + 1 = 0 THEN None ELSE m[1]
    BY <1>0, <1>1, <1>3, <1>4
  <2>4. ASSUME NEW i \in 1..(n + 1)
        PROVE  /\ t.val[m[i]] = v
               /\ t.next[m[i]] = IF i = n + 1 THEN None ELSE m[i + 1]
               /\ t.prev[m[i]] = IF i = 1 THEN Head_(v) ELSE Next_(m[i - 1])
    <3>1. CASE i = 1
      <4>1. t.val[x] = v /\ t.prev[x] = Head_(v) /\ t.next[x] = g.head[v]
        BY <1>1, <1>4 DEF Linking
      <4>2. n # 0 => m[1 + 1] = l[1]
        BY <1>3, <1>6
      <4>3. 1 = n + 1 <=> n = 0
        BY <1>0
      <4> QED BY <1>3, <1>5, <3>1, <4>1, <4>2, <4>3
    <3>2. CASE i # 1
      <4>1. PICK j \in 1..n : i = j + 1
        BY <1>3, <3>2
      <4>2. m[i] = l[j] /\ l[j] \in Uses /\ l[j] # x
        BY <1>0, <1>3, <4>1
      <4>3. t.val[m[i]] = v
        BY <1>1, <1>4, <1>5, <4>2
      <4>4. t.next[m[i]] = IF i = n + 1 THEN None ELSE m[i + 1]
        <5>1. j # n => j + 1 \in 1..n
          BY <1>0
        <5>2. j # n => m[(j + 1) + 1] = l[j + 1]
          BY <1>3, <5>1
        <5>3. j = n <=> i = n + 1
          BY <1>0, <4>1
        <5> QED BY <1>5, <1>7, <4>1, <4>2, <5>2, <5>3
      <4>5. t.prev[m[i]] = IF i = 1 THEN Head_(v) ELSE Next_(m[i - 1])
        <5>1. i - 1 = j
          BY <4>1
        <5>2. CASE j = 1
          <6>1. m[j] = x /\ t.prev[l[j]] = Next_(x)
            <7>1. l[j] = l[1] /\ n # 0 /\ m[1] = x
              BY <1>0, <1>3, <5>2
            <7> QED BY <1>7, <4>2, <5>2, <7>1
          <6> QED BY <3>2, <4>2, <5>1, <6>1
        <5>3. CASE j # 1
          <6>1. j - 1 \in 1..n /\ j = (j - 1) + 1 /\ 1 \in 1..n
            BY <1>0, <5>3
          <6>2. m[j] = l[j - 1]
            BY <1>3, <6>1
          <6>3. l[j] # l[1]
            BY <1>5, <5>3, <6>1
          <6> QED BY <1>5, <1>7, <3>2, <4>2, <5>1, <5>3, <6>2, <6>3
        <5> QED BY <5>2, <5>3
      <4> QED BY <4>3, <4>4, <4>5
    <3> QED BY <3>1, <3>2
  <2>5. ASSUME NEW y \in Uses \ (off \ {x}), t.val[y] = v
        PROVE  \E i \in 1..(n + 1) : y = m[i]
    <3>1. CASE y = x
      <4>1. 1 \in 1..(n + 1)
        BY <1>0
      <4> QED BY <1>3, <3>1, <4>1
    <3>2. CASE y # x
      <4>1. g.val[y] = v /\ y \in Uses \ off
        BY <1>1, <1>4, <2>5, <3>2
      <4>2. PICK j \in 1..n : y = l[j]
        BY <1>5, <4>1
      <4> QED BY <1>3, <4>2
    <3> QED BY <3>1, <3>2
  <2> QED BY <1>3, <2>1, <2>2, <2>3, <2>4, <2>5 DEF Chained
<1>10. \A y \in Uses : y # x /\ (\A i \in 1..n : y # l[i]) =>
         t.next[y] = g.next[y] /\ t.prev[y] = g.prev[y]
  BY <1>6, <1>7
<1> QED BY <1>2, <1>4, <1>8, <1>9, <1>10 DEF Relisted

\* Use::set, second half: x, which is on no list, enters that of v, if any.
LEMMA Attaches ==
  ASSUME NEW g, NEW off, AllChained(g, off), NEW x \in Uses, x \in off,
         NEW v \in Value \cup {None}, NEW t, t = Attach(g, x, v)
  PROVE  AllChained(t, off \ {x}) /\ t.val = [g.val EXCEPT ![x] = v]
<1>1. UseFields(g)
  BY DEF AllChained
<1>2. CASE v = None
  <2>1. t = [g EXCEPT !.val[x] = None]
    BY <1>2 DEF Attach
  <2>2. /\ UseFields(t) /\ t.val = [g.val EXCEPT ![x] = None] /\ t.next = g.next
        /\ t.prev = g.prev /\ t.head = g.head /\ DOMAIN g.val = Uses
    BY <1>1, <2>1 DEF UseFields
  <2>3. ASSUME NEW w \in Value PROVE \E n, l : Chained(t, off \ {x}, w, n, l)
    <3>1. PICK n, l : Chained(g, off, w, n, l)
      BY DEF AllChained
    <3>2. \A i \in 1..n : l[i] \in Uses \ off /\ l[i] # x
      BY <3>1 DEF Chained
    <3>3. \A i \in 1..n : /\ l[i] \notin off \ {x} /\ t.val[l[i]] = g.val[l[i]]
                          /\ t.next[l[i]] = g.next[l[i]] /\ t.prev[l[i]] = g.prev[l[i]]
      BY <2>2, <3>2
    <3>4. \A y \in Uses \ (off \ {x}) : t.val[y] = w => y \notin off /\ g.val[y] = w
      BY <2>2, NoneApart
    <3>5. t.head[w] = g.head[w]
      BY <2>2
    <3>6. Chained(t, off \ {x}, w, n, l)
      BY <3>1, <3>3, <3>4, <3>5, OthersStay
    <3> QED BY <3>6
  <2> QED BY <1>2, <2>2, <2>3 DEF AllChained
<1>3. CASE v # None
  <2>1. v \in Value
    BY <1>3
  <2>2. PICK n, l : Chained(g, off, v, n, l)
    BY <2>1 DEF AllChained
  <2>4. t = AddToList([g EXCEPT !.val[x] = v], x, v)
    BY <1>3 DEF Attach
  <2>5. Relisted(g, t, off \ {x}, v, n, l, x) /\ t.val = [g.val EXCEPT ![x] = v]
    BY <1>1, <2>1, <2>2, <2>4, ListGrows
  <2>8. /\ UseFields(t) /\ \E m, f : Chained(t, off \ {x}, v, m, f)
        /\ \A w \in Value \ {v} : t.head[w] = g.head[w]
        /\ \A y \in Uses : y # x /\ (\A i \in 1..n : y # l[i]) =>
             t.next[y] = g.next[y] /\ t.prev[y] = g.prev[y]
    BY <2>5 DEF Relisted
  <2>9. DOMAIN g.val = Uses
    BY <1>1 DEF UseFields
  <2>6. ASSUME NEW w \in Value \ {v} PROVE \E m, k1 : Chained(t, off \ {x}, w, m, k1)
    <3>1. PICK m, k1 : Chained(g, off, w, m, k1)
      BY DEF AllChained
    <3>2. \A i \in 1..m : k1[i] \in Uses \ off /\ k1[i] # x /\ \A j \in 1..n : k1[i] # l[j]
      <4>1. \A i \in 1..m : k1[i] \in Uses \ off
        BY <3>1 DEF Chained
      <4>2. \A i \in 1..m, j \in 1..n : k1[i] # l[j]
        BY <2>2, <2>6, <3>1, OtherLists
      <4> QED BY <4>1, <4>2
    <3>3. \A i \in 1..m : /\ k1[i] \notin off \ {x} /\ t.val[k1[i]] = g.val[k1[i]]
                          /\ t.next[k1[i]] = g.next[k1[i]] /\ t.prev[k1[i]] = g.prev[k1[i]]
      BY <2>5, <2>8, <2>9, <3>2
    <3>4. \A y \in Uses \ (off \ {x}) : t.val[y] = w => y \notin off /\ g.val[y] = w
      BY <2>5, <2>6, <2>9
    <3>5. t.head[w] = g.head[w]
      BY <2>6, <2>8
    <3>6. Chained(t, off \ {x}, w, m, k1)
      BY <3>1, <3>3, <3>4, <3>5, OthersStay
    <3> QED BY <3>6
  <2>7. ASSUME NEW w \in Value PROVE \E m, k1 : Chained(t, off \ {x}, w, m, k1)
    BY <2>6, <2>8
  <2> QED BY <2>5, <2>7, <2>8 DEF AllChained
<1> QED BY <1>2, <1>3

\* Every list is complete.
Good(g) == AllChained(g, {})

\* Use::set.
LEMMA Sets ==
  ASSUME NEW g, Good(g), NEW x \in Uses, NEW v \in Value \cup {None},
         NEW t, t = Set(g, x, v)
  PROVE  Good(t) /\ t.val = [g.val EXCEPT ![x] = v]
<1> DEFINE none == {}
<1>1. PICK a : a = Detach(g, x)
  OBVIOUS
<1>2. AllChained(g, none) /\ x \in Uses \ none
  BY DEF Good
<1> HIDE DEF none
<1>3. AllChained(a, none \cup {x}) /\ a.val = g.val
  BY <1>1, <1>2, Detaches
<1>4. PICK off : off = none \cup {x}
  OBVIOUS
<1>5. AllChained(a, off) /\ x \in off /\ t = Attach(a, x, v)
  BY <1>1, <1>3, <1>4 DEF Set
<1>6. AllChained(t, off \ {x}) /\ t.val = [a.val EXCEPT ![x] = v]
  BY <1>5, Attaches
<1>7. off \ {x} = {}
  BY <1>4 DEF none
<1> QED BY <1>3, <1>6, <1>7 DEF Good

\* Use::swap.
LEMMA Swaps ==
  ASSUME NEW g, Good(g), NEW x \in Uses, NEW y \in Uses, x # y, NEW t, t = Swap(g, x, y)
  PROVE  Good(t) /\ t.val = [g.val EXCEPT ![x] = g.val[y], ![y] = g.val[x]]
<1>0. /\ g.val \in [Uses -> Value \cup {None}]
      /\ g.val[x] \in Value \cup {None} /\ g.val[y] \in Value \cup {None}
  BY DEF Good, AllChained, UseFields
<1>1. CASE g.val[x] = g.val[y]
  <2>1. t = g
    BY <1>1 DEF Swap
  <2>2. g.val = [g.val EXCEPT ![x] = g.val[y], ![y] = g.val[x]]
    BY <1>0, <1>1
  <2> QED BY <2>1, <2>2
<1>2. CASE g.val[x] # g.val[y]
  <2> DEFINE none == {}
  <2>1. AllChained(g, none) /\ x \in Uses \ none
    BY DEF Good
  <2> HIDE DEF none
  <2>2. PICK a : a = Detach(g, x)
    OBVIOUS
  <2>3. AllChained(a, none \cup {x}) /\ a.val = g.val
    BY <2>1, <2>2, Detaches
  <2>4. PICK off : off = none \cup {x}
    OBVIOUS
  <2>5. AllChained(a, off) /\ y \in Uses \ off
    BY <2>3, <2>4 DEF none
  <2>6. PICK b : b = Detach(a, y)
    OBVIOUS
  <2>7. AllChained(b, off \cup {y}) /\ b.val = a.val
    BY <2>5, <2>6, Detaches
  <2>8. PICK two : two = off \cup {y}
    OBVIOUS
  <2>9. AllChained(b, two) /\ x \in two
    BY <2>4, <2>7, <2>8
  <2>10. PICK c : c = Attach(b, x, g.val[y])
    OBVIOUS
  <2>11. AllChained(c, two \ {x}) /\ c.val = [b.val EXCEPT ![x] = g.val[y]]
    BY <1>0, <2>9, <2>10, Attaches
  <2>12. PICK one : one = two \ {x}
    OBVIOUS
  <2>13. AllChained(c, one) /\ y \in one /\ t = Attach(c, y, g.val[x])
    BY <1>2, <2>2, <2>4, <2>6, <2>8, <2>10, <2>11, <2>12 DEF Swap, none
  <2>14. AllChained(t, one \ {y}) /\ t.val = [c.val EXCEPT ![y] = g.val[x]]
    BY <1>0, <2>13, Attaches
  <2>15. one \ {y} = {}
    BY <2>4, <2>8, <2>12 DEF none
  <2> QED BY <2>3, <2>7, <2>11, <2>14, <2>15 DEF Good
<1> QED BY <1>1, <1>2

-----------------------------------------------------------------------------
(***************************************************************************)
(* Use lists: a sequence of assignments is one assignment after another.   *)
(***************************************************************************)
Assigned(f, p) == Set(f, p[1], p[2])

LEMMA GreatestOf ==
  ASSUME NEW S, IsFiniteSet(S), S \in SUBSET Nat, S # {}
  PROVE  \E m \in S : \A k \in S : m >= k
<1>1. PICK F : F = {{k \in S : k >= m} : m \in S}
  OBVIOUS
<1>2. F \subseteq FiniteSubsetsOf(S) /\ F # {}
  <2>1. \A m \in S : {k \in S : k >= m} \in SUBSET S /\ IsFiniteSet({k \in S : k >= m})
    BY FS_Subset
  <2> QED BY <1>1, <2>1 DEF FiniteSubsetsOf
<1>3. PICK A \in F : \A B \in F : ~(<<B, A>> \in StrictSubsetOrdering(S))
  BY <1>2, FS_StrictSubsetOrderingWellFounded, WFMin
<1>4. PICK m \in S : A = {k \in S : k >= m}
  BY <1>1
<1>5. ASSUME NEW j \in S PROVE m >= j
  <2>1. SUFFICES ASSUME ~(m >= j) PROVE FALSE
    OBVIOUS
  <2>2. PICK B : B = {k \in S : k >= j}
    OBVIOUS
  <2>3. B \in F
    BY <1>1, <2>2
  <2>4. B \subseteq A /\ m \in A /\ m \notin B /\ A \in SUBSET S /\ B \in SUBSET S
    <3>1. m \in Nat /\ j \in Nat /\ j > m
      BY <2>1
    <3>2. \A k \in S : k >= j => k >= m
      BY <3>1
    <3>3. B \subseteq A /\ A \in SUBSET S /\ B \in SUBSET S
      BY <1>4, <2>2, <3>2
    <3>4. m >= m /\ ~(m >= j)
      BY <2>1, <3>1
    <3>5. m \in A /\ m \notin B
      BY <1>4, <2>2, <3>4
    <3> QED BY <3>3, <3>5
  <2> QED BY <1>3, <2>3, <2>4 DEF StrictSubsetOrdering
<1> QED BY <1>5

LEMMA MaxIs ==
  ASSUME NEW n \in Nat, NEW S \in SUBSET (1..n), S # {}
  PROVE  Max(S) \in S /\ \A k \in S : Max(S) >= k
<1>1. IsFiniteSet(S) /\ S \in SUBSET Nat
  <2>1. IsFiniteSet(1..n)
    BY FS_Interval
  <2>2. IsFiniteSet(S)
    BY <2>1, FS_Subset
  <2>3. 1..n \subseteq Nat
    OBVIOUS
  <2> QED BY <2>2, <2>3
<1>2. \E m \in S : \A k \in S : m >= k
  BY <1>1, GreatestOf
<1> QED BY <1>2 DEF Max

LeftFold(it, g, pairs, S) ==
  IF S = {} THEN g ELSE Assigned(it[S \ {Max(S)}], pairs[Max(S)])

LeftFolds(it, g, pairs, n) == \A S \in SUBSET (1..n) : it[S] = LeftFold(it, g, pairs, S)

LeftFoldsUpTo(it, g, pairs, n, m) ==
  \A S \in SUBSET (1..n) : Cardinality(S) <= m => it[S] = LeftFold(it, g, pairs, S)

LEMMA LeftFoldExists ==
  ASSUME NEW g, NEW pairs, NEW n \in Nat, NEW m \in Nat
  PROVE  \E it : LeftFoldsUpTo(it, g, pairs, n, m)
<1>1. PICK T : T = {k \in Nat : \E it : LeftFoldsUpTo(it, g, pairs, n, k)}
  OBVIOUS
<1>2. \A S \in SUBSET (1..n) : IsFiniteSet(S) /\ Cardinality(S) \in Nat
  <2>1. IsFiniteSet(1..n)
    BY FS_Interval
  <2> QED BY <2>1, FS_Subset, FS_CardinalityType
<1>3. 0 \in T
  <2>1. PICK it : it = [S \in SUBSET (1..n) |-> g]
    OBVIOUS
  <2>2. ASSUME NEW S \in SUBSET (1..n), Cardinality(S) <= 0
        PROVE  it[S] = LeftFold(it, g, pairs, S)
    <3>1. Cardinality(S) = 0
      BY <1>2, <2>2
    <3>2. S = {}
      BY <1>2, <3>1, FS_EmptySet
    <3> QED BY <2>1, <3>2 DEF LeftFold
  <2>3. LeftFoldsUpTo(it, g, pairs, n, 0)
    BY <2>2 DEF LeftFoldsUpTo
  <2> QED BY <1>1, <2>3
<1>4. ASSUME NEW k \in Nat, k \in T PROVE k + 1 \in T
  <2>1. PICK it : LeftFoldsUpTo(it, g, pairs, n, k)
    BY <1>1, <1>4
  <2>2. PICK grown : grown = [S \in SUBSET (1..n) |-> LeftFold(it, g, pairs, S)]
    OBVIOUS
  <2>3. ASSUME NEW S \in SUBSET (1..n), Cardinality(S) <= k + 1
        PROVE  grown[S] = LeftFold(grown, g, pairs, S)
    <3>1. CASE S = {}
      BY <2>2, <3>1 DEF LeftFold
    <3>2. CASE S # {}
      <4>1. PICK R \in SUBSET (1..n) : R = S \ {Max(S)}
        OBVIOUS
      <4>2. Cardinality(R) <= k
        <5>1. Max(S) \in S
          BY <3>2, MaxIs
        <5>2. Cardinality(S \ {Max(S)}) = Cardinality(S) - 1
          BY <1>2, <5>1, FS_RemoveElement
        <5> QED BY <1>2, <2>3, <4>1, <5>2
      <4>3. it[R] = grown[R]
        BY <2>1, <2>2, <4>2 DEF LeftFoldsUpTo
      <4>4. LeftFold(it, g, pairs, S) = LeftFold(grown, g, pairs, S)
        BY <4>1, <4>3 DEF LeftFold
      <4> QED BY <2>2, <4>4
    <3> QED BY <3>1, <3>2
  <2>4. LeftFoldsUpTo(grown, g, pairs, n, k + 1)
    BY <2>3 DEF LeftFoldsUpTo
  <2> QED BY <1>1, <2>4
<1> QED BY <1>1, <1>3, <1>4, InductionInSet

LEMMA SetAllFolds ==
  ASSUME NEW g, NEW n \in Nat, NEW pairs, DOMAIN pairs = 1..n
  PROVE  \E it : LeftFolds(it, g, pairs, n) /\ SetAll(g, pairs) = it[1..n]
<1> DEFINE IsFold(p) == p = [S \in SUBSET (1..n) |->
                               IF S = {} THEN g
                               ELSE Set(p[S \ {Max(S)}], pairs[Max(S)][1], pairs[Max(S)][2])]
           Fold == CHOOSE p : IsFold(p)
<1>1. SetAll(g, pairs) = Fold[1..n]
  BY DEF SetAll, FoldLeft, MapThenFoldSet
<1>2. \E p : IsFold(p)
  <2>1. IsFiniteSet(1..n) /\ Cardinality(1..n) \in Nat
    BY FS_Interval, FS_CardinalityType
  <2>2. PICK it : LeftFoldsUpTo(it, g, pairs, n, Cardinality(1..n))
    BY <2>1, LeftFoldExists
  <2>3. \A S \in SUBSET (1..n) : it[S] = LeftFold(it, g, pairs, S)
    BY <2>1, <2>2, FS_Subset DEF LeftFoldsUpTo
  <2>4. PICK p : p = [S \in SUBSET (1..n) |-> it[S]]
    OBVIOUS
  <2>5. ASSUME NEW S \in SUBSET (1..n)
        PROVE  it[S] = IF S = {} THEN g
                       ELSE Set(p[S \ {Max(S)}], pairs[Max(S)][1], pairs[Max(S)][2])
    <3>1. S \ {Max(S)} \in SUBSET (1..n)
      OBVIOUS
    <3>2. p[S \ {Max(S)}] = it[S \ {Max(S)}]
      BY <2>4, <3>1
    <3> QED BY <2>3, <3>2 DEF LeftFold, Assigned
  <2>6. IsFold(p)
    BY <2>4, <2>5
  <2> HIDE DEF IsFold
  <2> QED BY <2>6
<1> HIDE DEF IsFold
<1>3. IsFold(Fold)
  BY <1>2
<1> HIDE DEF Fold
<1>4. LeftFolds(Fold, g, pairs, n)
  BY <1>3 DEF IsFold, LeftFolds, LeftFold, Assigned
<1> QED BY <1>1, <1>4

\* run[i] is the state after i assignments.
Running(run, g, pairs, n) ==
  DOMAIN run = 0..n /\ run[0] = g /\ \A i \in 1..n : run[i] = Assigned(run[i - 1], pairs[i])

LEMMA SetAllRuns ==
  ASSUME NEW g, NEW n \in Nat, NEW pairs, DOMAIN pairs = 1..n
  PROVE  \E run : Running(run, g, pairs, n) /\ SetAll(g, pairs) = run[n]
<1>1. PICK it : LeftFolds(it, g, pairs, n) /\ SetAll(g, pairs) = it[1..n]
  BY SetAllFolds
<1>2. PICK run : run = [i \in 0..n |-> it[1..i]]
  OBVIOUS
<1>3. run[0] = g
  <2>1. 1..0 = {} /\ 1..0 \in SUBSET (1..n) /\ 0 \in 0..n
    OBVIOUS
  <2> QED BY <1>1, <1>2, <2>1 DEF LeftFolds, LeftFold
<1>4. ASSUME NEW i \in 1..n PROVE run[i] = Assigned(run[i - 1], pairs[i])
  <2>1. PICK S \in SUBSET (1..n) : S = 1..i
    OBVIOUS
  <2>2. S # {} /\ i \in S
    BY <2>1
  <2>3. Max(S) \in S /\ Max(S) >= i
    BY <2>2, MaxIs
  <2>4. Max(S) = i
    BY <2>1, <2>3
  <2>5. S \ {i} = 1..(i - 1) /\ i - 1 \in 0..n /\ i \in 0..n
    BY <2>1
  <2>6. it[S] = Assigned(it[S \ {i}], pairs[i])
    BY <1>1, <2>2, <2>4 DEF LeftFolds, LeftFold
  <2> QED BY <1>2, <2>1, <2>5, <2>6
<1>5. SetAll(g, pairs) = run[n]
  BY <1>1, <1>2
<1> QED BY <1>2, <1>3, <1>4, <1>5 DEF Running

\* The pairs assign a value to each of different Uses.
Assignment(pairs, n) ==
  /\ n \in Nat /\ DOMAIN pairs = 1..n
  /\ \A i \in 1..n : pairs[i][1] \in Uses /\ pairs[i][2] \in Value \cup {None}

LEMMA RunIsGood ==
  ASSUME NEW g, Good(g), NEW n \in Nat, NEW pairs, Assignment(pairs, n), NEW run,
         Running(run, g, pairs, n)
  PROVE  \A i \in 0..n : Good(run[i])
<1>1. PICK T : T = {i \in Nat : i <= n => Good(run[i])}
  OBVIOUS
<1>2. 0 \in T
  BY <1>1 DEF Running
<1>3. ASSUME NEW i \in Nat, i \in T PROVE i + 1 \in T
  <2>1. CASE i + 1 <= n
    <3>1. PICK j \in 1..n : j = i + 1
      BY <2>1
    <3>2. PICK f : f = run[i]
      OBVIOUS
    <3>3. Good(f) /\ j - 1 = i
      BY <1>1, <1>3, <3>1, <3>2
    <3>4. PICK x \in Uses, v \in Value \cup {None} : x = pairs[j][1] /\ v = pairs[j][2]
      BY DEF Assignment
    <3>5. PICK t : t = run[j] /\ t = Set(f, x, v)
      BY <3>2, <3>3, <3>4 DEF Running, Assigned
    <3>6. Good(t)
      BY <3>3, <3>5, Sets
    <3>7. Good(run[j])
      BY <3>5, <3>6
    <3>8. Good(run[i + 1])
      BY <3>1, <3>7
    <3> QED BY <1>1, <3>8
  <2>2. CASE ~(i + 1 <= n)
    BY <1>1, <2>2
  <2> QED BY <2>1, <2>2
<1>4. Nat \subseteq T
  BY <1>2, <1>3, InductionInSet
<1> QED BY <1>1, <1>4

\* What an assignment in place of i leaves in place: pairs later than it.
LEMMA RunAssigns ==
  ASSUME NEW g, Good(g), NEW n \in Nat, NEW pairs, Assignment(pairs, n), NEW run,
         Running(run, g, pairs, n), NEW x \in Uses
  PROVE  /\ (\A i \in 1..n : pairs[i][1] # x) => run[n].val[x] = g.val[x]
         /\ \A k \in 1..n : pairs[k][1] = x /\ (\A i \in 1..n : i > k => pairs[i][1] # x)
              => run[n].val[x] = pairs[k][2]
<1>1. \A i \in 1..n : /\ i - 1 \in 0..n
                      /\ run[i].val = [run[i - 1].val EXCEPT ![pairs[i][1]] = pairs[i][2]]
                      /\ DOMAIN run[i - 1].val = Uses /\ pairs[i][1] \in Uses
  <2> SUFFICES ASSUME NEW i \in 1..n
               PROVE  /\ i - 1 \in 0..n
                      /\ run[i].val = [run[i - 1].val EXCEPT ![pairs[i][1]] = pairs[i][2]]
                      /\ DOMAIN run[i - 1].val = Uses /\ pairs[i][1] \in Uses
    OBVIOUS
  <2>1. PICK f : f = run[i - 1]
    OBVIOUS
  <2>2. i - 1 \in 0..n /\ Good(f)
    <3>1. i - 1 \in 0..n
      OBVIOUS
    <3> QED BY <2>1, <3>1, RunIsGood
  <2>3. run[i] = Set(f, pairs[i][1], pairs[i][2])
    BY <2>1 DEF Running, Assigned
  <2>4. pairs[i][1] \in Uses /\ pairs[i][2] \in Value \cup {None}
    BY DEF Assignment
  <2>5. run[i].val = [f.val EXCEPT ![pairs[i][1]] = pairs[i][2]]
    BY <2>2, <2>3, <2>4, Sets
  <2>6. DOMAIN f.val = Uses
    BY <2>2 DEF Good, AllChained, UseFields
  <2> QED BY <2>1, <2>2, <2>4, <2>5, <2>6
<1>2. ASSUME \A i \in 1..n : pairs[i][1] # x PROVE run[n].val[x] = g.val[x]
  <2>1. PICK T : T = {i \in Nat : i <= n => run[i].val[x] = g.val[x]}
    OBVIOUS
  <2>2. 0 \in T
    BY <2>1 DEF Running
  <2>3. ASSUME NEW i \in Nat, i \in T PROVE i + 1 \in T
    <3>1. CASE i + 1 <= n
      <4>1. PICK j \in 1..n : j = i + 1
        BY <3>1
      <4>2. run[j].val[x] = run[j - 1].val[x] /\ j - 1 = i
        <5>1. PICK f : f = run[j - 1].val
          OBVIOUS
        <5>2. /\ run[j].val = [f EXCEPT ![pairs[j][1]] = pairs[j][2]]
              /\ DOMAIN f = Uses /\ pairs[j][1] # x
          BY <1>1, <1>2, <4>1, <5>1
        <5>3. run[j].val[x] = f[x]
          BY <5>2
        <5>4. j - 1 = i
          BY <4>1
        <5> QED BY <5>1, <5>3, <5>4
      <4> QED BY <2>1, <2>3, <3>1, <4>1, <4>2
    <3>2. CASE ~(i + 1 <= n)
      BY <2>1, <3>2
    <3> QED BY <3>1, <3>2
  <2>4. Nat \subseteq T
    BY <2>2, <2>3, InductionInSet
  <2> QED BY <2>1, <2>4
<1>3. ASSUME NEW k \in 1..n, pairs[k][1] = x, \A i \in 1..n : i > k => pairs[i][1] # x
      PROVE  run[n].val[x] = pairs[k][2]
  <2>1. PICK T : T = {i \in Nat : k <= i /\ i <= n => run[i].val[x] = pairs[k][2]}
    OBVIOUS
  <2>2. 0 \in T
    BY <2>1
  <2>3. ASSUME NEW i \in Nat, i \in T PROVE i + 1 \in T
    <3>1. CASE k <= i /\ i + 1 <= n
      <4>1. PICK j \in 1..n : j = i + 1 /\ j > k
        BY <3>1
      <4>2. run[j].val[x] = run[j - 1].val[x] /\ j - 1 = i
        <5>1. PICK f : f = run[j - 1].val
          OBVIOUS
        <5>2. /\ run[j].val = [f EXCEPT ![pairs[j][1]] = pairs[j][2]]
              /\ DOMAIN f = Uses /\ pairs[j][1] # x
          BY <1>1, <1>3, <4>1, <5>1
        <5>3. run[j].val[x] = f[x]
          BY <5>2
        <5>4. j - 1 = i
          BY <4>1
        <5> QED BY <5>1, <5>3, <5>4
      <4> QED BY <2>1, <2>3, <3>1, <4>1, <4>2
    <3>2. CASE k = i + 1 /\ i + 1 <= n
      <4>1. run[k].val[x] = pairs[k][2]
        <5>1. PICK f : f = run[k - 1].val
          OBVIOUS
        <5>2. run[k].val = [f EXCEPT ![x] = pairs[k][2]] /\ DOMAIN f = Uses
          BY <1>1, <1>3, <5>1
        <5> QED BY <5>2
      <4> QED BY <2>1, <3>2, <4>1
    <3>3. CASE ~(k <= i + 1 /\ i + 1 <= n)
      BY <2>1, <3>3
    <3> QED BY <3>1, <3>2, <3>3
  <2>4. Nat \subseteq T
    BY <2>2, <2>3, InductionInSet
  <2> QED BY <2>1, <2>4
<1> QED BY <1>2, <1>3

\* A Use has the value that was assigned to it last.
Results(g, t, pairs, n) ==
  \A x \in Uses :
    /\ (\A i \in 1..n : pairs[i][1] # x) => t.val[x] = g.val[x]
    /\ \A k \in 1..n : pairs[k][1] = x /\ (\A i \in 1..n : i > k => pairs[i][1] # x)
         => t.val[x] = pairs[k][2]

LEMMA AllSet ==
  ASSUME NEW g, Good(g), NEW n \in Nat, NEW pairs, Assignment(pairs, n),
         NEW t, t = SetAll(g, pairs)
  PROVE  Good(t) /\ Results(g, t, pairs, n)
<1>1. PICK run : Running(run, g, pairs, n) /\ SetAll(g, pairs) = run[n]
  BY SetAllRuns DEF Assignment
<1>2. \A i \in 0..n : Good(run[i])
  BY <1>1, RunIsGood
<1>3. Good(t)
  BY <1>1, <1>2
<1>4. ASSUME NEW x \in Uses
      PROVE  /\ (\A i \in 1..n : pairs[i][1] # x) => t.val[x] = g.val[x]
             /\ \A k \in 1..n : pairs[k][1] = x /\ (\A i \in 1..n : i > k => pairs[i][1] # x)
                  => t.val[x] = pairs[k][2]
  BY <1>1, RunAssigns
<1> QED BY <1>3, <1>4 DEF Results

-----------------------------------------------------------------------------
(***************************************************************************)
(* Use lists: Value::uncheckedReplaceAllUsesWith empties the list.         *)
(***************************************************************************)
LEMMA FinitelyManyUses == IsFiniteSet(Uses) /\ Cardinality(Uses) \in Nat
<1>1. IsFiniteSet(User) /\ MaxOperands \in Nat
  BY UseListsAssumption
<1>2. IsFiniteSet(Generations)
  <2>1. Generations = {0} \cup {1}
    BY DEF Generations
  <2>2. IsFiniteSet({0} \cup {1})
    BY FS_Singleton, FS_AddElement
  <2> QED BY <2>1, <2>2
<1>3. IsFiniteSet(1..MaxOperands)
  BY <1>1, FS_Interval
<1>4. PICK P : P = Generations \X (1..MaxOperands)
  OBVIOUS
<1>5. IsFiniteSet(P)
  BY <1>2, <1>3, <1>4, FS_Product
<1>6. IsFiniteSet(User \X P)
  BY <1>1, <1>5, FS_Product
<1>7. PICK f : f = [p \in User \X P |-> <<p[1], p[2][1], p[2][2]>>]
  OBVIOUS
<1>8. f \in Surjection(User \X P, Uses)
  <2>1. ASSUME NEW p \in User \X P PROVE f[p] \in Uses
    BY <1>4, <1>7 DEF Uses
  <2>2. ASSUME NEW x \in Uses PROVE \E p \in User \X P : f[p] = x
    <3>1. PICK u \in User, a \in Generations, i \in 1..MaxOperands : x = <<u, a, i>>
      BY DEF Uses
    <3>2. PICK p : p = <<u, <<a, i>>>>
      OBVIOUS
    <3>3. p \in User \X P /\ f[p] = x
      BY <1>4, <1>7, <3>1, <3>2
    <3> QED BY <3>3
  <2>3. f \in [User \X P -> Uses]
    BY <1>7, <2>1
  <2> QED BY <2>2, <2>3 DEF Surjection
<1>9. IsFiniteSet(Uses)
  BY <1>6, <1>8, FS_Surjection
<1> QED BY <1>9, FS_CardinalityType

FirstReplaced(f, v, w) == IF f.head[v] = None THEN f ELSE Set(f, f.head[v], w)

Replacing(run, g, v, w, n) ==
  DOMAIN run = 0..n /\ run[0] = g /\ \A i \in 1..n : run[i] = FirstReplaced(run[i - 1], v, w)

LEMMA ReplacingExists ==
  ASSUME NEW g, NEW v, NEW w, NEW n \in Nat
  PROVE  \E run : Replacing(run, g, v, w, n)
<1>1. PICK T : T = {m \in Nat : \E run : Replacing(run, g, v, w, m)}
  OBVIOUS
<1>2. 0 \in T
  <2>1. PICK run : run = [i \in 0..0 |-> g]
    OBVIOUS
  <2>2. Replacing(run, g, v, w, 0)
    BY <2>1 DEF Replacing
  <2> QED BY <1>1, <2>2
<1>3. ASSUME NEW m \in Nat, m \in T PROVE m + 1 \in T
  <2>1. PICK run : Replacing(run, g, v, w, m)
    BY <1>1, <1>3
  <2>2. PICK f : f = [i \in 0..(m + 1) |-> IF i <= m THEN run[i] ELSE FirstReplaced(run[m], v, w)]
    OBVIOUS
  <2>3. Replacing(f, g, v, w, m + 1)
    BY <2>1, <2>2 DEF Replacing
  <2> QED BY <1>1, <2>3
<1> QED BY <1>1, <1>2, <1>3, InductionInSet

LEMMA ReplacedRuns ==
  ASSUME NEW g, NEW v, NEW w
  PROVE  \E run : Replacing(run, g, v, w, Cardinality(Uses))
                  /\ Replaced(g, v, w) = run[Cardinality(Uses)]
<1> DEFINE N == Cardinality(Uses)
           IsAfter(p) == p = [n \in 0..N |->
                                IF n = 0 THEN g
                                ELSE IF p[n - 1].head[v] = None THEN p[n - 1]
                                     ELSE Set(p[n - 1], p[n - 1].head[v], w)]
           After == CHOOSE p : IsAfter(p)
<1>1. Replaced(g, v, w) = After[N]
  BY DEF Replaced
<1>0. N \in Nat
  BY FinitelyManyUses
<1> HIDE DEF N
<1>2. \E p : IsAfter(p)
  <2>1. PICK run : Replacing(run, g, v, w, N)
    BY <1>0, ReplacingExists
  <2>2. PICK p : p = [n \in 0..N |-> run[n]]
    OBVIOUS
  <2>3. ASSUME NEW n \in 0..N
        PROVE  run[n] = IF n = 0 THEN g
                        ELSE IF p[n - 1].head[v] = None THEN p[n - 1]
                             ELSE Set(p[n - 1], p[n - 1].head[v], w)
    <3>1. CASE n = 0
      BY <2>1, <3>1 DEF Replacing
    <3>2. CASE n # 0
      <4>1. n \in 1..N /\ n - 1 \in 0..N
        BY <1>0, <3>2
      <4>2. run[n] = FirstReplaced(run[n - 1], v, w) /\ p[n - 1] = run[n - 1]
        BY <2>1, <2>2, <4>1 DEF Replacing
      <4> QED BY <3>2, <4>2 DEF FirstReplaced
    <3> QED BY <3>1, <3>2
  <2>4. IsAfter(p)
    BY <2>2, <2>3
  <2> HIDE DEF IsAfter
  <2> QED BY <2>4
<1> HIDE DEF IsAfter
<1>3. IsAfter(After)
  BY <1>2
<1> HIDE DEF After
<1>4. DOMAIN After = 0..N /\ After[0] = g
  BY <1>0, <1>3 DEF IsAfter
<1>5. ASSUME NEW i \in 1..N PROVE After[i] = FirstReplaced(After[i - 1], v, w)
  <2>1. i \in 0..N /\ i # 0
    OBVIOUS
  <2> QED BY <1>3, <2>1 DEF IsAfter, FirstReplaced
<1>6. Replacing(After, g, v, w, N)
  BY <1>4, <1>5 DEF Replacing
<1> QED BY <1>1, <1>6 DEF N

\* Some of the Uses that had the value v have w instead.
PartlyReplaced(f, g, v, w) ==
  /\ Good(f)
  /\ \A x \in Uses : f.val[x] = g.val[x] \/ (g.val[x] = v /\ f.val[x] = w)

UsesOf(f, v) == {x \in Uses : f.val[x] = v}

LEMMA FirstUse ==
  ASSUME NEW f, Good(f), NEW v \in Value
  PROVE  IF f.head[v] = None THEN UsesOf(f, v) = {} ELSE f.head[v] \in UsesOf(f, v)
<1> DEFINE none == {}
<1>1. PICK n, l : Chained(f, none, v, n, l)
  BY DEF Good, AllChained
<1>2. /\ n \in Nat /\ l \in [1..n -> Uses \ none]
      /\ f.head[v] = IF n = 0 THEN None ELSE l[1]
      /\ \A i \in 1..n : f.val[l[i]] = v
      /\ \A x \in Uses \ none : f.val[x] = v => \E i \in 1..n : x = l[i]
  BY <1>1 DEF Chained
<1>3. CASE n = 0
  BY <1>2, <1>3 DEF UsesOf
<1>4. CASE n # 0
  <2>1. 1 \in 1..n
    BY <1>2, <1>4
  <2>2. l[1] \in Uses /\ f.val[l[1]] = v
    BY <1>2, <2>1
  <2>3. f.head[v] = l[1] /\ l[1] # None
    BY <1>2, <1>4, <2>2, NoneApart
  <2> QED BY <2>2, <2>3 DEF UsesOf
<1> QED BY <1>3, <1>4

LEMMA FewerUses ==
  ASSUME NEW g, NEW v \in Value, NEW w \in Value, v # w, NEW f, PartlyReplaced(f, g, v, w),
         NEW t, t = FirstReplaced(f, v, w)
  PROVE  /\ PartlyReplaced(t, g, v, w)
         /\ UsesOf(f, v) = {} => UsesOf(t, v) = {}
         /\ UsesOf(f, v) # {} => \E x \in UsesOf(f, v) : UsesOf(t, v) = UsesOf(f, v) \ {x}
<1>1. Good(f) /\ \A x \in Uses : f.val[x] = g.val[x] \/ (g.val[x] = v /\ f.val[x] = w)
  BY DEF PartlyReplaced
<1>2. CASE f.head[v] = None
  <2>1. t = f /\ UsesOf(f, v) = {}
    BY <1>1, <1>2, FirstUse DEF FirstReplaced
  <2> QED BY <2>1
<1>3. CASE f.head[v] # None
  <2>1. PICK x \in Uses : x = f.head[v] /\ x \in UsesOf(f, v)
    BY <1>1, <1>3, FirstUse DEF UsesOf
  <2>2. t = Set(f, x, w)
    BY <1>3, <2>1 DEF FirstReplaced
  <2>3. Good(t) /\ t.val = [f.val EXCEPT ![x] = w]
    BY <1>1, <2>2, Sets
  <2>4. DOMAIN f.val = Uses /\ f.val[x] = v
    BY <1>1, <2>1 DEF Good, AllChained, UseFields, UsesOf
  <2>5. \A y \in Uses : t.val[y] = IF y = x THEN w ELSE f.val[y]
    BY <2>3, <2>4
  <2>6. UsesOf(t, v) = UsesOf(f, v) \ {x}
    BY <2>5 DEF UsesOf
  <2>7. PartlyReplaced(t, g, v, w)
    BY <1>1, <2>3, <2>4, <2>5 DEF PartlyReplaced
  <2> QED BY <2>1, <2>6, <2>7
<1> QED BY <1>2, <1>3

LEMMA AllReplaced ==
  ASSUME NEW g, Good(g), NEW v \in Value, NEW w \in Value, v # w, NEW t, t = Replaced(g, v, w)
  PROVE  /\ Good(t)
         /\ \A x \in Uses : t.val[x] = IF g.val[x] = v THEN w ELSE g.val[x]
<1>1. PICK N \in Nat : N = Cardinality(Uses) /\ IsFiniteSet(Uses)
  BY FinitelyManyUses
<1>2. PICK run : Replacing(run, g, v, w, N) /\ t = run[N]
  BY <1>1, ReplacedRuns
<1>3. PICK T : T = {i \in Nat : i <= N =>
                      /\ PartlyReplaced(run[i], g, v, w)
                      /\ UsesOf(run[i], v) = {} \/ Cardinality(UsesOf(run[i], v)) + i <= N}
  OBVIOUS
<1>4. \A f : UsesOf(f, v) \in SUBSET Uses /\ IsFiniteSet(UsesOf(f, v))
             /\ Cardinality(UsesOf(f, v)) \in Nat /\ Cardinality(UsesOf(f, v)) <= N
  <2> SUFFICES ASSUME NEW S \in SUBSET Uses
               PROVE  IsFiniteSet(S) /\ Cardinality(S) \in Nat /\ Cardinality(S) <= N
    BY DEF UsesOf
  <2>1. IsFiniteSet(S) /\ Cardinality(S) <= N
    BY <1>1, FS_Subset
  <2> QED BY <2>1, FS_CardinalityType
<1>5. 0 \in T
  <2>1. run[0] = g
    BY <1>2 DEF Replacing
  <2>2. PartlyReplaced(g, g, v, w)
    BY DEF PartlyReplaced
  <2>3. Cardinality(UsesOf(g, v)) + 0 <= N
    BY <1>4
  <2> QED BY <1>3, <2>1, <2>2, <2>3
<1>6. ASSUME NEW i \in Nat, i \in T PROVE i + 1 \in T
  <2>1. CASE i + 1 <= N
    <3>1. PICK j \in 1..N : j = i + 1
      BY <2>1
    <3>2. PICK f : f = run[i]
      OBVIOUS
    <3>3. PICK h : h = run[j]
      OBVIOUS
    <3>4. h = FirstReplaced(f, v, w)
      <4>1. j - 1 = i
        BY <3>1
      <4> QED BY <1>2, <3>2, <3>3, <4>1 DEF Replacing
    <3>5. /\ PartlyReplaced(f, g, v, w)
          /\ UsesOf(f, v) = {} \/ Cardinality(UsesOf(f, v)) + i <= N
      BY <1>3, <1>6, <2>1, <3>2
    <3>6. /\ PartlyReplaced(h, g, v, w)
          /\ UsesOf(f, v) = {} => UsesOf(h, v) = {}
          /\ UsesOf(f, v) # {} => \E x \in UsesOf(f, v) : UsesOf(h, v) = UsesOf(f, v) \ {x}
      BY <3>4, <3>5, FewerUses
    <3>7. UsesOf(h, v) = {} \/ Cardinality(UsesOf(h, v)) + j <= N
      <4>1. CASE UsesOf(f, v) = {}
        BY <3>6, <4>1
      <4>2. CASE UsesOf(f, v) # {}
        <5>1. PICK x \in UsesOf(f, v) : UsesOf(h, v) = UsesOf(f, v) \ {x}
          BY <3>6, <4>2
        <5>2. Cardinality(UsesOf(h, v)) = Cardinality(UsesOf(f, v)) - 1
          BY <1>4, <5>1, FS_RemoveElement
        <5>3. Cardinality(UsesOf(f, v)) \in Nat
          BY <1>4
        <5> QED BY <3>1, <3>5, <4>2, <5>2, <5>3
      <4> QED BY <4>1, <4>2
    <3>8. /\ PartlyReplaced(run[i + 1], g, v, w)
          /\ UsesOf(run[i + 1], v) = {} \/ Cardinality(UsesOf(run[i + 1], v)) + (i + 1) <= N
      BY <3>1, <3>3, <3>6, <3>7
    <3> QED BY <1>3, <3>8
  <2>2. CASE ~(i + 1 <= N)
    BY <1>3, <2>2
  <2> QED BY <2>1, <2>2
<1>7. Nat \subseteq T
  BY <1>5, <1>6, InductionInSet
<1>8. /\ PartlyReplaced(t, g, v, w)
      /\ UsesOf(t, v) = {} \/ Cardinality(UsesOf(t, v)) + N <= N
  BY <1>2, <1>3, <1>7
<1>9. UsesOf(t, v) = {}
  <2>1. CASE Cardinality(UsesOf(t, v)) + N <= N
    <3>1. Cardinality(UsesOf(t, v)) = 0
      BY <1>4, <2>1
    <3> QED BY <1>4, <3>1, FS_EmptySet
  <2> QED BY <1>8, <2>1
<1> QED BY <1>8, <1>9 DEF PartlyReplaced, UsesOf

-----------------------------------------------------------------------------
(***************************************************************************)
(* Use lists: a walk along a list meets its Uses.                          *)
(***************************************************************************)
OneMore(l, g, v) ==
  IF (IF l = <<>> THEN g.head[v] ELSE g.next[Last(l)]) = None THEN l
  ELSE Append(l, IF l = <<>> THEN g.head[v] ELSE g.next[Last(l)])

Walking(run, g, v, n) ==
  DOMAIN run = 0..n /\ run[0] = <<>> /\ \A i \in 1..n : run[i] = OneMore(run[i - 1], g, v)

LEMMA WalkingExists ==
  ASSUME NEW g, NEW v, NEW n \in Nat
  PROVE  \E run : Walking(run, g, v, n)
<1>1. PICK T : T = {m \in Nat : \E run : Walking(run, g, v, m)}
  OBVIOUS
<1>2. 0 \in T
  <2>1. PICK run : run = [i \in 0..0 |-> <<>>]
    OBVIOUS
  <2>2. Walking(run, g, v, 0)
    BY <2>1 DEF Walking
  <2> QED BY <1>1, <2>2
<1>3. ASSUME NEW m \in Nat, m \in T PROVE m + 1 \in T
  <2>1. PICK run : Walking(run, g, v, m)
    BY <1>1, <1>3
  <2>2. PICK f : f = [i \in 0..(m + 1) |-> IF i <= m THEN run[i] ELSE OneMore(run[m], g, v)]
    OBVIOUS
  <2>3. Walking(f, g, v, m + 1)
    BY <2>1, <2>2 DEF Walking
  <2> QED BY <1>1, <2>3
<1> QED BY <1>1, <1>2, <1>3, InductionInSet

LEMMA ListOfRuns ==
  ASSUME NEW v, NEW N \in Nat, N = Cardinality(Uses) + 1
  PROVE  \E run : Walking(run, heap, v, N) /\ ListOf(v) = run[N]
<1> DEFINE IsMet(p) == p = [n \in 0..(Cardinality(Uses) + 1) |->
                              IF n = 0 THEN <<>>
                              ELSE IF (IF p[n - 1] = <<>> THEN heap.head[v]
                                       ELSE heap.next[Last(p[n - 1])]) = None
                                   THEN p[n - 1]
                                   ELSE Append(p[n - 1],
                                               IF p[n - 1] = <<>> THEN heap.head[v]
                                               ELSE heap.next[Last(p[n - 1])])]
           Met == CHOOSE p : IsMet(p)
<1>1. ListOf(v) = Met[Cardinality(Uses) + 1]
  BY DEF ListOf
<1>2. \E p : IsMet(p)
  <2>1. PICK run : Walking(run, heap, v, N)
    BY WalkingExists
  <2>2. PICK p : p = [n \in 0..N |-> run[n]]
    OBVIOUS
  <2>3. ASSUME NEW n \in 0..N
        PROVE  run[n] = IF n = 0 THEN <<>> ELSE OneMore(p[n - 1], heap, v)
    <3>1. CASE n = 0
      BY <2>1, <3>1 DEF Walking
    <3>2. CASE n # 0
      <4>1. n \in 1..N /\ n - 1 \in 0..N
        BY <3>2
      <4>2. run[n] = OneMore(run[n - 1], heap, v) /\ p[n - 1] = run[n - 1]
        BY <2>1, <2>2, <4>1 DEF Walking
      <4> QED BY <3>2, <4>2
    <3> QED BY <3>1, <3>2
  <2>4. p = [n \in 0..N |-> IF n = 0 THEN <<>> ELSE OneMore(p[n - 1], heap, v)]
    BY <2>2, <2>3
  <2>5. IsMet(p)
    BY <2>4 DEF OneMore
  <2> HIDE DEF IsMet
  <2> QED BY <2>5
<1> HIDE DEF IsMet
<1>3. IsMet(Met)
  BY <1>2
<1> HIDE DEF Met
<1>4. DOMAIN Met = 0..N /\ Met[0] = <<>>
  BY <1>3 DEF IsMet
<1>5. ASSUME NEW i \in 1..N PROVE Met[i] = OneMore(Met[i - 1], heap, v)
  <2>1. i \in 0..N /\ i # 0
    OBVIOUS
  <2> QED BY <1>3, <2>1 DEF IsMet, OneMore
<1>6. Walking(Met, heap, v, N)
  BY <1>4, <1>5 DEF Walking
<1> QED BY <1>1, <1>6

\* The first k Uses of the list l.
Start(m, l, k) == m \in Seq(Uses) /\ Len(m) = k /\ \A j \in 1..k : m[j] = l[j]

LEMMA OneFurther ==
  ASSUME NEW g, NEW v, NEW n, NEW l, Chained(g, {}, v, n, l), NEW k \in 0..n, NEW m,
         Start(m, l, k), NEW t, t = OneMore(m, g, v), NEW j, j = IF k = n THEN n ELSE k + 1
  PROVE  Start(t, l, j)
<1>0. /\ n \in Nat
      /\ g.head[v] = IF n = 0 THEN None ELSE l[1]
      /\ \A i \in 1..n : /\ l[i] \in Uses
                         /\ g.next[l[i]] = IF i = n THEN None ELSE l[i + 1]
  BY DEF Chained
<1>1. PICK x : x = IF m = <<>> THEN g.head[v] ELSE g.next[Last(m)]
  OBVIOUS
<1>2. t = IF x = None THEN m ELSE Append(m, x)
  BY <1>1 DEF OneMore
<1>3. m \in Seq(Uses) /\ Len(m) = k /\ k \in Nat /\ \A i \in 1..k : m[i] = l[i]
  BY DEF Start
<1>4. x = IF k = n THEN None ELSE l[k + 1]
  <2>1. CASE k = 0
    <3>1. m = <<>>
      BY <1>3, <2>1
    <3> QED BY <1>0, <1>1, <2>1, <3>1
  <2>2. CASE k # 0
    <3>1. m # <<>> /\ k \in 1..n /\ k \in 1..k
      BY <1>3, <2>2
    <3>2. Last(m) = l[k]
      BY <1>3, <3>1 DEF Last
    <3> QED BY <1>0, <1>1, <3>1, <3>2
  <2> QED BY <2>1, <2>2
<1>5. CASE k = n
  BY <1>2, <1>4, <1>5
<1>6. CASE k # n
  <2>1. k + 1 \in 1..n
    BY <1>0, <1>6
  <2>2. x \in Uses /\ x # None /\ x = l[k + 1]
    BY <1>0, <1>4, <1>6, <2>1, NoneApart
  <2>3. t = Append(m, x)
    BY <1>2, <2>2
  <2>4. t \in Seq(Uses) /\ Len(t) = k + 1 /\ t[k + 1] = x /\ \A i \in 1..k : t[i] = m[i]
    BY <1>3, <2>2, <2>3, AppendProperties
  <2>5. ASSUME NEW i \in 1..(k + 1) PROVE t[i] = l[i]
    <3>1. i \in 1..k \/ i = k + 1
      BY <1>3
    <3> QED BY <1>3, <2>2, <2>4, <3>1
  <2> QED BY <1>6, <2>4, <2>5 DEF Start
<1> QED BY <1>5, <1>6

LEMMA ListIsShort ==
  ASSUME NEW g, NEW v, NEW n, NEW l, Chained(g, {}, v, n, l)
  PROVE  n <= Cardinality(Uses)
<1>1. /\ n \in Nat /\ l \in [1..n -> Uses]
      /\ \A i, j \in 1..n : l[i] = l[j] => i = j
  BY DEF Chained
<1>2. l \in Injection(1..n, Uses)
  BY <1>1 DEF Injection, IsInjective
<1>3. Cardinality(1..n) <= Cardinality(Uses)
  BY <1>2, FinitelyManyUses, FS_Injection
<1>4. Cardinality(1..n) = n
  BY <1>1, FS_Interval
<1> QED BY <1>3, <1>4

LEMMA WalkMeetsList ==
  ASSUME NEW v, NEW n, NEW l, Chained(heap, {}, v, n, l)
  PROVE  ListOf(v) = l
<1>1. PICK N \in Nat : N = Cardinality(Uses) + 1
  BY FinitelyManyUses
<1>2. n \in Nat /\ n <= N /\ n < N
  <2>1. n \in Nat
    BY DEF Chained
  <2> QED BY <1>1, <2>1, ListIsShort, FinitelyManyUses
<1>3. PICK run : Walking(run, heap, v, N) /\ ListOf(v) = run[N]
  BY <1>1, ListOfRuns
<1>4. PICK T : T = {i \in Nat : i <= N => \E k \in 0..n : /\ k = IF i < n THEN i ELSE n
                                                          /\ Start(run[i], l, k)}
  OBVIOUS
<1>5. 0 \in T
  <2>1. run[0] = <<>>
    BY <1>3 DEF Walking
  <2>2. Start(<<>>, l, 0)
    BY DEF Start
  <2>3. 0 \in 0..n /\ 0 = IF 0 < n THEN 0 ELSE n
    BY <1>2
  <2> QED BY <1>4, <2>1, <2>2, <2>3
<1>6. ASSUME NEW i \in Nat, i \in T PROVE i + 1 \in T
  <2>1. CASE i + 1 <= N
    <3>1. PICK j \in 1..N : j = i + 1
      BY <2>1
    <3>2. PICK m, t : m = run[i] /\ t = run[j]
      OBVIOUS
    <3>3. t = OneMore(m, heap, v)
      <4>1. j - 1 = i
        BY <3>1
      <4> QED BY <1>3, <3>2, <4>1 DEF Walking
    <3>4. PICK k \in 0..n : (k = IF i < n THEN i ELSE n) /\ Start(m, l, k)
      BY <1>4, <1>6, <2>1, <3>2
    <3>5. PICK k1 : k1 = IF k = n THEN n ELSE k + 1
      OBVIOUS
    <3>6. Start(t, l, k1)
      BY <3>3, <3>4, <3>5, OneFurther
    <3>7. k1 \in 0..n /\ k1 = IF j < n THEN j ELSE n
      BY <1>2, <3>1, <3>4, <3>5
    <3>8. Start(run[i + 1], l, k1) /\ k1 = IF i + 1 < n THEN i + 1 ELSE n
      BY <3>1, <3>2, <3>6, <3>7
    <3> QED BY <1>4, <3>7, <3>8
  <2>2. CASE ~(i + 1 <= N)
    BY <1>4, <2>2
  <2> QED BY <2>1, <2>2
<1>7. Nat \subseteq T
  BY <1>5, <1>6, InductionInSet
<1>8. Start(run[N], l, n)
  BY <1>2, <1>4, <1>7
<1>9. run[N] \in Seq(Uses) /\ Len(run[N]) = n /\ \A j \in 1..n : run[N][j] = l[j]
  BY <1>8 DEF Start
<1>10. l \in [1..n -> Uses]
  BY DEF Chained
<1>11. run[N] \in [1..n -> Uses]
  BY <1>9, LenProperties
<1>12. run[N] = l
  BY <1>9, <1>10, <1>11
<1> QED BY <1>3, <1>12

-----------------------------------------------------------------------------
(***************************************************************************)
(* Use lists: what the operations do to the arrays of a User.              *)
(***************************************************************************)
\* The n operands ops of u are in its array a, and its other Uses are empty.
Holds(g, u, a, n, ops) ==
  /\ ops \in Seq(Value) /\ Len(ops) = n
  /\ \A b \in Generations, i \in 1..MaxOperands :
       g.val[<<u, b, i>>] = IF b = a /\ i <= n THEN ops[i] ELSE None

\* The operands of Users other than u stay.
OnlyOf(g, t, u) ==
  \A w \in User, b \in Generations, i \in 1..MaxOperands :
    w # u => t.val[<<w, b, i>>] = g.val[<<w, b, i>>]

Filled(g, t, u, a, n, vals) ==
  \A w \in User, b \in Generations, i \in 1..MaxOperands :
    t.val[<<w, b, i>>] = IF w = u /\ b = a /\ i <= n THEN vals[i] ELSE g.val[<<w, b, i>>]

Zapped(g, t, u, a, n) ==
  \A w \in User, b \in Generations, i \in 1..MaxOperands :
    t.val[<<w, b, i>>] = IF w = u /\ b = a /\ i <= n THEN None ELSE g.val[<<w, b, i>>]

OneSet(g, t, u, a, i, v) ==
  \A w \in User, b \in Generations, j \in 1..MaxOperands :
    t.val[<<w, b, j>>] = IF w = u /\ b = a /\ j = i THEN v ELSE g.val[<<w, b, j>>]

Pairing(pairs, u, a, n, vals) ==
  /\ pairs = [i \in 1..n |-> <<<<u, a, i>>, vals[i]>>]
  /\ \A i \in 1..n : vals[i] \in Value \cup {None}

LEMMA Fills ==
  ASSUME NEW g, Good(g), NEW u \in User, NEW a \in Generations, NEW n \in Nat,
         n <= MaxOperands, NEW vals, NEW pairs, Pairing(pairs, u, a, n, vals),
         NEW t, t = SetAll(g, pairs)
  PROVE  Good(t) /\ Filled(g, t, u, a, n, vals)
<1>0. MaxOperands \in Nat
  BY UseListsAssumption
<1>1. /\ DOMAIN pairs = 1..n
      /\ \A i \in 1..n : /\ pairs[i][1] = <<u, a, i>> /\ pairs[i][2] = vals[i]
                         /\ vals[i] \in Value \cup {None}
  BY DEF Pairing
<1>2. \A i \in 1..n : <<u, a, i>> \in Uses
  BY <1>0 DEF Uses
<1>3. Assignment(pairs, n)
  BY <1>1, <1>2 DEF Assignment
<1>4. Good(t) /\ Results(g, t, pairs, n)
  BY <1>3, AllSet
<1>5. ASSUME NEW w \in User, NEW b \in Generations, NEW i \in 1..MaxOperands
      PROVE  t.val[<<w, b, i>>] = IF w = u /\ b = a /\ i <= n THEN vals[i] ELSE g.val[<<w, b, i>>]
  <2>1. PICK x \in Uses : x = <<w, b, i>>
    BY DEF Uses
  <2>2. CASE w = u /\ b = a /\ i <= n
    <3>1. i \in 1..n /\ pairs[i][1] = x /\ pairs[i][2] = vals[i]
      BY <1>0, <1>1, <2>1, <2>2
    <3>2. \A j \in 1..n : j > i => pairs[j][1] # x
      <4>1. ASSUME NEW j \in 1..n, j > i PROVE pairs[j][1] # x
        <5>1. j # i
          BY <1>0, <4>1
        <5> QED BY <1>1, <2>1, <5>1
      <4> QED BY <4>1
    <3>3. t.val[x] = vals[i]
      BY <1>4, <3>1, <3>2 DEF Results
    <3> QED BY <2>1, <2>2, <3>3
  <2>3. CASE ~(w = u /\ b = a /\ i <= n)
    <3>1. \A j \in 1..n : pairs[j][1] # x
      <4>1. ASSUME NEW j \in 1..n, pairs[j][1] = x PROVE FALSE
        <5>1. u = w /\ a = b /\ j = i
          BY <1>1, <2>1, <4>1
        <5> QED BY <2>3, <5>1
      <4> QED BY <4>1
    <3>2. t.val[x] = g.val[x]
      BY <1>4, <3>1 DEF Results
    <3> QED BY <2>1, <2>3, <3>2
  <2> QED BY <2>2, <2>3
<1> QED BY <1>4, <1>5 DEF Filled

LEMMA SetsOne ==
  ASSUME NEW g, Good(g), NEW u \in User, NEW a \in Generations, NEW i \in 1..MaxOperands,
         NEW v \in Value, NEW t, t = Set(g, <<u, a, i>>, v)
  PROVE  Good(t) /\ OneSet(g, t, u, a, i, v)
<1>1. PICK x \in Uses : x = <<u, a, i>>
  BY DEF Uses
<1>2. Good(t) /\ t.val = [g.val EXCEPT ![x] = v]
  BY <1>1, Sets
<1>3. DOMAIN g.val = Uses
  BY DEF Good, AllChained, UseFields
<1>4. ASSUME NEW w \in User, NEW b \in Generations, NEW j \in 1..MaxOperands
      PROVE  t.val[<<w, b, j>>] = IF w = u /\ b = a /\ j = i THEN v ELSE g.val[<<w, b, j>>]
  <2>1. PICK y \in Uses : y = <<w, b, j>>
    BY DEF Uses
  <2>2. y = x <=> w = u /\ b = a /\ j = i
    BY <1>1, <2>1
  <2>3. t.val[y] = IF y = x THEN v ELSE g.val[y]
    BY <1>2, <1>3
  <2> QED BY <2>1, <2>2, <2>3
<1> QED BY <1>2, <1>4 DEF OneSet

\* The constructors: a new array.
LEMMA Constructs ==
  ASSUME NEW g, Good(g), NEW u \in User, NEW none, Holds(g, u, None, 0, none),
         NEW ops \in Seq(Value), Len(ops) <= MaxOperands,
         NEW pairs, pairs = [i \in 1..Len(ops) |-> <<<<u, 0, i>>, ops[i]>>],
         NEW t, t = SetAll(g, pairs)
  PROVE  Good(t) /\ OnlyOf(g, t, u) /\ Holds(t, u, 0, Len(ops), ops)
<1>1. 0 \in Generations /\ None \notin Generations /\ MaxOperands \in Nat
  BY UseListsAssumption DEF Generations
<1>2. Len(ops) \in Nat /\ \A i \in 1..Len(ops) : ops[i] \in Value \cup {None}
  BY ElementOfSeq
<1>3. Good(t) /\ Filled(g, t, u, 0, Len(ops), ops)
  <2>1. Pairing(pairs, u, 0, Len(ops), ops)
    BY <1>2 DEF Pairing
  <2> QED BY <1>1, <1>2, <2>1, Fills
<1>4. \A b \in Generations, i \in 1..MaxOperands : g.val[<<u, b, i>>] = None
  BY <1>1 DEF Holds
<1>5. OnlyOf(g, t, u)
  BY <1>3 DEF Filled, OnlyOf
<1>6. Holds(t, u, 0, Len(ops), ops)
  <2>1. ASSUME NEW b \in Generations, NEW i \in 1..MaxOperands
        PROVE  t.val[<<u, b, i>>] = IF b = 0 /\ i <= Len(ops) THEN ops[i] ELSE None
    BY <1>3, <1>4 DEF Filled
  <2> QED BY <2>1 DEF Holds
<1> QED BY <1>3, <1>5, <1>6

\* Use::zap of an array.
LEMMA Zaps ==
  ASSUME NEW g, Good(g), NEW u \in User, NEW a \in Generations, NEW n \in Nat,
         NEW t, t = Zap(g, u, a, n)
  PROVE  Good(t) /\ Zapped(g, t, u, a, n)
<1>1. PICK m \in Nat : /\ m = IF n < MaxOperands THEN n ELSE MaxOperands
                       /\ m <= MaxOperands /\ MaxOperands \in Nat
  BY UseListsAssumption
<1>2. PICK vals : vals = [i \in 1..m |-> None]
  OBVIOUS
<1>3. PICK pairs : pairs = [i \in 1..m |-> <<<<u, a, i>>, vals[i]>>]
  OBVIOUS
<1>4. pairs = [i \in 1..(IF n < MaxOperands THEN n ELSE MaxOperands) |-> <<<<u, a, i>>, None>>]
  BY <1>1, <1>2, <1>3
<1>5. t = SetAll(g, pairs)
  BY <1>4 DEF Zap
<1>6. \A i \in 1..m : vals[i] \in Value \cup {None}
  BY <1>2
<1>7. Good(t) /\ Filled(g, t, u, a, m, vals)
  <2>1. Pairing(pairs, u, a, m, vals)
    BY <1>3, <1>6 DEF Pairing
  <2> QED BY <1>1, <1>5, <2>1, Fills
<1>8. \A i \in 1..MaxOperands : (i <= m <=> i <= n) /\ (i <= m => vals[i] = None)
  BY <1>1, <1>2
<1> QED BY <1>7, <1>8 DEF Filled, Zapped

\* The destructors.
LEMMA Destructs ==
  ASSUME NEW g, Good(g), NEW u \in User, NEW a \in Generations \cup {None}, NEW n \in Nat,
         NEW ops, Holds(g, u, a, n, ops), a = None => n = 0, NEW m \in Nat, n <= m,
         NEW t, t = IF a = None THEN g ELSE Zap(g, u, a, m)
  PROVE  Good(t) /\ OnlyOf(g, t, u) /\ Holds(t, u, None, 0, <<>>)
<1>1. None \notin Generations
  BY UseListsAssumption
<1>2. \A b \in Generations, i \in 1..MaxOperands :
        g.val[<<u, b, i>>] = IF b = a /\ i <= n THEN ops[i] ELSE None
  BY DEF Holds
<1>3. CASE a = None
  BY <1>1, <1>2, <1>3 DEF OnlyOf, Holds
<1>4. CASE a # None
  <2>1. Good(t) /\ Zapped(g, t, u, a, m)
    BY <1>4, Zaps
  <2>2. \A b \in Generations, i \in 1..MaxOperands : t.val[<<u, b, i>>] = None
    <3> SUFFICES ASSUME NEW b \in Generations, NEW i \in 1..MaxOperands
                 PROVE  t.val[<<u, b, i>>] = None
      OBVIOUS
    <3>1. b = a /\ i <= n => i <= m
      OBVIOUS
    <3> QED BY <1>2, <2>1, <3>1 DEF Zapped
  <2>3. OnlyOf(g, t, u)
    BY <2>1 DEF OnlyOf, Zapped
  <2>4. Holds(t, u, None, 0, <<>>)
    BY <1>1, <2>2 DEF Holds
  <2> QED BY <2>1, <2>3, <2>4
<1> QED BY <1>3, <1>4

\* resizeOperands: the operands move to a new array.
LEMMA MovesOperands ==
  ASSUME NEW g, Good(g), NEW u \in User, Array[u] \in Generations \cup {None},
         NumOperands[u] \in 0..MaxOperands, Array[u] = None => NumOperands[u] = 0,
         NEW ops, Holds(g, u, Array[u], NumOperands[u], ops), NEW t, t = Moved(g, u)
  PROVE  /\ Good(t) /\ OnlyOf(g, t, u) /\ Fresh(u) \in Generations
         /\ Holds(t, u, Fresh(u), NumOperands[u], ops)
<1>0. None \notin Generations /\ MaxOperands \in Nat
  BY UseListsAssumption
<1>1. PICK a, b, n : a = Array[u] /\ b = Fresh(u) /\ n = NumOperands[u]
  OBVIOUS
<1>2. /\ a \in Generations \cup {None} /\ b \in Generations /\ n \in Nat /\ n <= MaxOperands
      /\ a # b /\ (a = None => n = 0)
  BY <1>0, <1>1 DEF Fresh, Generations
<1>3. /\ ops \in Seq(Value) /\ Len(ops) = n
      /\ \A c \in Generations, i \in 1..MaxOperands :
           g.val[<<u, c, i>>] = IF c = a /\ i <= n THEN ops[i] ELSE None
  BY <1>1 DEF Holds
<1>4. PICK pairs : pairs = [i \in 1..n |-> <<<<u, b, i>>, ops[i]>>]
  OBVIOUS
<1>5. pairs = [i \in 1..NumOperands[u] |-> <<<<u, Fresh(u), i>>, g.val[UseAt(u, i)]>>]
  <2>1. ASSUME NEW i \in 1..n PROVE ops[i] = g.val[UseAt(u, i)]
    <3>1. a \in Generations /\ i \in 1..MaxOperands /\ i <= n
      BY <1>0, <1>2
    <3>2. g.val[<<u, a, i>>] = ops[i]
      BY <1>3, <3>1
    <3> QED BY <1>1, <3>2 DEF UseAt
  <2> QED BY <1>1, <1>4, <2>1
<1>6. PICK c : c = SetAll(g, pairs)
  OBVIOUS
<1>7. Pairing(pairs, u, b, n, ops)
  <2>1. \A i \in 1..n : ops[i] \in Value \cup {None}
    BY <1>3, ElementOfSeq
  <2> QED BY <1>4, <2>1 DEF Pairing
<1>8. Good(c) /\ Filled(g, c, u, b, n, ops)
  BY <1>2, <1>6, <1>7, Fills
<1>9. t = IF a = None THEN c ELSE Zap(c, u, a, n)
  BY <1>1, <1>5, <1>6 DEF Moved
<1>10. /\ Good(t)
       /\ \A w \in User, d \in Generations, i \in 1..MaxOperands :
            t.val[<<w, d, i>>] = IF w = u /\ d = a /\ i <= n THEN None ELSE c.val[<<w, d, i>>]
  <2>1. CASE a = None
    BY <1>0, <1>8, <1>9, <2>1
  <2>2. CASE a # None
    <3>1. t = Zap(c, u, a, n) /\ a \in Generations
      BY <1>2, <1>9, <2>2
    <3>2. Good(t) /\ Zapped(c, t, u, a, n)
      BY <1>2, <1>8, <3>1, Zaps
    <3> QED BY <3>2 DEF Zapped
  <2> QED BY <2>1, <2>2
<1>11. OnlyOf(g, t, u)
  BY <1>8, <1>10 DEF Filled, OnlyOf
<1>12. Holds(t, u, b, n, ops)
  BY <1>2, <1>3, <1>8, <1>10 DEF Filled, Holds
<1> QED BY <1>1, <1>2, <1>10, <1>11, <1>12

\* addIncoming and addCase, when there is room.
LEMMA Appends ==
  ASSUME NEW g, Good(g), NEW u \in User, NEW a \in Generations, NEW n \in Nat,
         n < MaxOperands, NEW ops, Holds(g, u, a, n, ops), NEW v \in Value,
         NEW t, t = Set(g, <<u, a, n + 1>>, v), NEW m, m = n + 1
  PROVE  Good(t) /\ OnlyOf(g, t, u) /\ Holds(t, u, a, m, Append(ops, v))
<1>0. MaxOperands \in Nat /\ m \in 1..MaxOperands
  BY UseListsAssumption
<1>1. /\ ops \in Seq(Value) /\ Len(ops) = n
      /\ \A b \in Generations, i \in 1..MaxOperands :
           g.val[<<u, b, i>>] = IF b = a /\ i <= n THEN ops[i] ELSE None
  BY DEF Holds
<1>2. t = Set(g, <<u, a, m>>, v)
  OBVIOUS
<1>3. Good(t) /\ OneSet(g, t, u, a, m, v)
  BY <1>0, <1>2, SetsOne
<1>4. PICK new : new = Append(ops, v)
  OBVIOUS
<1>5. /\ new \in Seq(Value) /\ Len(new) = m /\ new[m] = v
      /\ \A i \in 1..n : new[i] = ops[i]
  BY <1>1, <1>4, AppendProperties
<1>6. ASSUME NEW b \in Generations, NEW i \in 1..MaxOperands
      PROVE  t.val[<<u, b, i>>] = IF b = a /\ i <= m THEN new[i] ELSE None
  <2>1. i = m \/ (i # m /\ (i <= m <=> i <= n) /\ (i <= n => i \in 1..n))
    BY <1>0
  <2>2. t.val[<<u, b, i>>] = IF b = a /\ i = m THEN v ELSE g.val[<<u, b, i>>]
    BY <1>3 DEF OneSet
  <2>3. g.val[<<u, b, i>>] = IF b = a /\ i <= n THEN ops[i] ELSE None
    BY <1>1
  <2>4. i = m => i <= m /\ new[i] = v
    BY <1>5
  <2>5. i # m /\ i <= m => i <= n /\ new[i] = ops[i]
    BY <1>5, <2>1
  <2>6. i # m /\ i <= n => i <= m
    BY <2>1
  <2> QED BY <2>2, <2>3, <2>4, <2>5, <2>6
<1>7. Holds(t, u, a, m, new)
  BY <1>5, <1>6 DEF Holds
<1>8. OnlyOf(g, t, u)
  BY <1>3 DEF OnlyOf, OneSet
<1> QED BY <1>3, <1>4, <1>7, <1>8

\* User::setOperand.
LEMMA SetsOperand ==
  ASSUME NEW g, Good(g), NEW u \in User, NEW a \in Generations, NEW n \in 0..MaxOperands,
         NEW ops, Holds(g, u, a, n, ops), NEW v \in Value, NEW i \in 1..n,
         NEW t, t = Set(g, <<u, a, i>>, v)
  PROVE  Good(t) /\ OnlyOf(g, t, u) /\ Holds(t, u, a, n, [ops EXCEPT ![i] = v])
<1>0. MaxOperands \in Nat /\ i \in 1..MaxOperands
  BY UseListsAssumption
<1>1. /\ ops \in Seq(Value) /\ Len(ops) = n
      /\ \A b \in Generations, j \in 1..MaxOperands :
           g.val[<<u, b, j>>] = IF b = a /\ j <= n THEN ops[j] ELSE None
  BY DEF Holds
<1>3. Good(t) /\ OneSet(g, t, u, a, i, v)
  BY <1>0, SetsOne
<1>4. PICK new : new = [ops EXCEPT ![i] = v]
  OBVIOUS
<1>5. new \in Seq(Value) /\ Len(new) = n /\ \A j \in 1..n : new[j] = IF j = i THEN v ELSE ops[j]
  BY <1>1, <1>4, ExceptSeq
<1>6. ASSUME NEW b \in Generations, NEW j \in 1..MaxOperands
      PROVE  t.val[<<u, b, j>>] = IF b = a /\ j <= n THEN new[j] ELSE None
  <2>1. j <= n => j \in 1..n
    BY <1>0
  <2>2. j = i => j <= n
    OBVIOUS
  <2>3. t.val[<<u, b, j>>] = IF b = a /\ j = i THEN v ELSE g.val[<<u, b, j>>]
    BY <1>3 DEF OneSet
  <2> QED BY <1>0, <1>1, <1>5, <2>1, <2>2, <2>3
<1>7. Holds(t, u, a, n, new)
  BY <1>1, <1>5, <1>6 DEF Holds
<1>8. OnlyOf(g, t, u)
  BY <1>3 DEF OnlyOf, OneSet
<1> QED BY <1>3, <1>4, <1>7, <1>8

\* BinaryOperator::swapOperands.
LEMMA SwapsOperands ==
  ASSUME NEW g, Good(g), NEW u \in User, NEW a \in Generations, NEW ops, Holds(g, u, a, 2, ops),
         NEW t, t = Swap(g, <<u, a, 1>>, <<u, a, 2>>)
  PROVE  Good(t) /\ OnlyOf(g, t, u) /\ Holds(t, u, a, 2, [ops EXCEPT ![1] = ops[2], ![2] = ops[1]])
<1>0. MaxOperands \in Nat /\ 1 \in 1..MaxOperands /\ 2 \in 1..MaxOperands
  BY UseListsAssumption
<1>1. /\ ops \in Seq(Value) /\ Len(ops) = 2
      /\ \A b \in Generations, i \in 1..MaxOperands :
           g.val[<<u, b, i>>] = IF b = a /\ i <= 2 THEN ops[i] ELSE None
  BY DEF Holds
<1>2. PICK x \in Uses, y \in Uses : x = <<u, a, 1>> /\ y = <<u, a, 2>>
  BY <1>0 DEF Uses
<1>3. x # y /\ t = Swap(g, x, y)
  BY <1>2
<1>4. Good(t) /\ t.val = [g.val EXCEPT ![x] = g.val[y], ![y] = g.val[x]]
  BY <1>3, Swaps
<1>5. DOMAIN g.val = Uses /\ g.val[x] = ops[1] /\ g.val[y] = ops[2]
  <2>1. DOMAIN g.val = Uses
    BY DEF Good, AllChained, UseFields
  <2> QED BY <1>0, <1>1, <1>2, <2>1
<1>6. \A z \in Uses : t.val[z] = IF z = x THEN ops[2] ELSE IF z = y THEN ops[1] ELSE g.val[z]
  BY <1>3, <1>4, <1>5
<1>7. PICK new : new = [ops EXCEPT ![1] = ops[2], ![2] = ops[1]]
  OBVIOUS
<1>8. new \in Seq(Value) /\ Len(new) = 2 /\ new[1] = ops[2] /\ new[2] = ops[1]
  <2>1. 1 \in 1..Len(ops) /\ 2 \in 1..Len(ops) /\ ops[1] \in Value /\ ops[2] \in Value
    BY <1>1, ElementOfSeq
  <2>2. ops \in [1..2 -> Value]
    BY <1>1, LenProperties
  <2>3. new \in [1..2 -> Value] /\ new[1] = ops[2] /\ new[2] = ops[1]
    BY <1>1, <1>7, <2>1, <2>2
  <2> QED BY <2>3
<1>9. ASSUME NEW b \in Generations, NEW i \in 1..MaxOperands
      PROVE  t.val[<<u, b, i>>] = IF b = a /\ i <= 2 THEN new[i] ELSE None
  <2>1. PICK z \in Uses : z = <<u, b, i>>
    BY DEF Uses
  <2>2. (z = x <=> b = a /\ i = 1) /\ (z = y <=> b = a /\ i = 2)
    BY <1>2, <2>1
  <2>3. i <= 2 <=> i = 1 \/ i = 2
    BY <1>0
  <2>4. g.val[z] = IF b = a /\ i <= 2 THEN ops[i] ELSE None
    BY <1>1, <2>1
  <2> QED BY <1>6, <1>8, <2>1, <2>2, <2>3, <2>4
<1>10. OnlyOf(g, t, u)
  <2>1. ASSUME NEW w \in User, NEW b \in Generations, NEW i \in 1..MaxOperands, w # u
        PROVE  t.val[<<w, b, i>>] = g.val[<<w, b, i>>]
    <3>1. PICK z \in Uses : z = <<w, b, i>>
      BY DEF Uses
    <3>2. z # x /\ z # y
      BY <1>2, <2>1, <3>1
    <3> QED BY <1>6, <3>1, <3>2
  <2> QED BY <2>1 DEF OnlyOf
<1>11. Holds(t, u, a, 2, new)
  BY <1>8, <1>9 DEF Holds
<1> QED BY <1>4, <1>7, <1>10, <1>11

\* The sequence ops without its i-th element.
Erased(new, ops, n, i) ==
  /\ new \in Seq(Value)
  /\ \E m \in Nat : /\ n = m + 1 /\ Len(new) = m
                    /\ \A j \in 1..m : new[j] = IF j < i THEN ops[j] ELSE ops[j + 1]

LEMMA RemoveAtErases ==
  ASSUME NEW ops \in Seq(Value), NEW n, n = Len(ops), NEW i \in 1..n,
         NEW new, new = RemoveAt(ops, i)
  PROVE  Erased(new, ops, n, i)
<1>0. n \in Nat /\ \A j \in 1..n : ops[j] \in Value
  BY ElementOfSeq
<1>1. PICK m \in Nat : n = m + 1
  <2>1. n - 1 \in Nat /\ n = (n - 1) + 1
    BY <1>0
  <2> QED BY <2>1
<1>2. PICK k \in Nat : i = k + 1
  <2>1. i - 1 \in Nat /\ i = (i - 1) + 1
    BY <1>0
  <2> QED BY <2>1
<1>3. PICK first, last : first = SubSeq(ops, 1, i - 1) /\ last = SubSeq(ops, i + 1, n)
  OBVIOUS
<1>4. first \in Seq(Value) /\ Len(first) = k /\ \A j \in 1..k : first[j] = ops[j]
  <2>1. i - 1 = k /\ \A j \in 1..k : ops[j] \in Value
    BY <1>0, <1>2
  <2>2. first = SubSeq(ops, 1, k)
    BY <1>3, <2>1
  <2>3. /\ first \in Seq(Value) /\ Len(first) = IF 1 <= k THEN k - 1 + 1 ELSE 0
        /\ \A j \in 1..(k - 1 + 1) : first[j] = ops[1 + j - 1]
    BY <2>1, <2>2, SubSeqProperties
  <2> QED BY <2>3
<1>5. last \in Seq(Value) /\ Len(last) = m - k /\ \A j \in 1..(m - k) : last[j] = ops[k + 1 + j]
  <2>1. i + 1 \in Int /\ n \in Int /\ \A j \in (i + 1)..n : ops[j] \in Value
    BY <1>0
  <2>2. /\ last \in Seq(Value) /\ Len(last) = IF i + 1 <= n THEN n - (i + 1) + 1 ELSE 0
        /\ \A j \in 1..(n - (i + 1) + 1) : last[j] = ops[(i + 1) + j - 1]
    BY <1>3, <2>1, SubSeqProperties
  <2>3. m - k \in Nat /\ Len(last) = m - k
    BY <1>0, <1>1, <1>2, <2>2
  <2>4. ASSUME NEW j \in 1..(m - k) PROVE last[j] = ops[k + 1 + j]
    <3>1. j \in 1..(n - (i + 1) + 1) /\ (i + 1) + j - 1 = k + 1 + j
      BY <1>0, <1>1, <1>2, <2>3
    <3> QED BY <2>2, <3>1
  <2> QED BY <2>2, <2>3, <2>4
<1>6. new = first \o last
  BY <1>3 DEF RemoveAt
<1>7. m - k \in Nat
  BY <1>0, <1>1, <1>2
<1>8. /\ new \in Seq(Value) /\ Len(new) = m
      /\ \A j \in 1..m : new[j] = IF j <= k THEN first[j] ELSE last[j - k]
  <2>1. /\ new \in Seq(Value) /\ Len(new) = Len(first) + Len(last)
        /\ \A j \in 1..(Len(first) + Len(last)) :
             new[j] = IF j <= Len(first) THEN first[j] ELSE last[j - Len(first)]
    <3>1. first \in Seq(Value) /\ last \in Seq(Value)
      BY <1>4, <1>5
    <3> QED BY <1>6, <3>1, ConcatProperties
  <2>2. Len(first) + Len(last) = m
    BY <1>4, <1>5, <1>7
  <2> QED BY <1>4, <2>1, <2>2
<1>9. ASSUME NEW j \in 1..m PROVE new[j] = IF j < i THEN ops[j] ELSE ops[j + 1]
  <2>1. CASE j <= k
    <3>1. j < i /\ j \in 1..k
      BY <1>2, <2>1
    <3> QED BY <1>4, <1>8, <2>1, <3>1
  <2>2. CASE ~(j <= k)
    <3>1. ~(j < i) /\ j - k \in 1..(m - k) /\ k + 1 + (j - k) = j + 1
      BY <1>2, <1>7, <2>2
    <3> QED BY <1>5, <1>8, <2>2, <3>1
  <2> QED BY <2>1, <2>2
<1> QED BY <1>1, <1>8, <1>9 DEF Erased

\* Everything behind operand i moves down by one, and the last Use loses its value.
ShiftPairs(pairs, g, u, a, n, i) ==
  \E m \in Nat :
    /\ n = m + i /\ DOMAIN pairs = 1..(m + 1)
    /\ \A j \in 1..m : pairs[j] = <<<<u, a, i + j - 1>>, g.val[<<u, a, i + j>>]>>
    /\ pairs[m + 1] = <<<<u, a, n>>, None>>

LEMMA ShiftPairsAre ==
  ASSUME NEW g, Good(g), NEW u \in User, NEW a \in Generations, NEW n \in 0..MaxOperands,
         a = Array[u], n = NumOperands[u], NEW i \in 1..n
  PROVE  \E pairs : ShiftPairs(pairs, g, u, a, n, i) /\ Shifted(g, u, i) = SetAll(g, pairs)
<1>0. MaxOperands \in Nat
  BY UseListsAssumption
<1>1. PICK m \in Nat : n = m + i /\ m = n - i
  <2>1. n - i \in Nat /\ n = (n - i) + i
    BY <1>0
  <2> QED BY <2>1
<1>2. PICK down : down = [j \in 1..m |-> <<<<u, a, i + j - 1>>, g.val[<<u, a, i + j>>]>>]
  OBVIOUS
<1>3. PICK end : end = << <<<<u, a, n>>, None>> >>
  OBVIOUS
<1>4. PICK pairs : pairs = down \o end
  OBVIOUS
<1>5. Shifted(g, u, i) = SetAll(g, pairs)
  BY <1>1, <1>2, <1>3, <1>4 DEF Shifted, UseAt
<1>6. PICK E : E = Uses \X (Value \cup {None})
  OBVIOUS
<1>7. down \in Seq(E) /\ Len(down) = m
  <2>1. g.val \in [Uses -> Value \cup {None}]
    BY DEF Good, AllChained, UseFields
  <2>2. ASSUME NEW j \in 1..m PROVE down[j] \in E
    <3>1. i + j - 1 \in 1..MaxOperands /\ i + j \in 1..MaxOperands
      BY <1>0, <1>1
    <3>2. <<u, a, i + j - 1>> \in Uses /\ <<u, a, i + j>> \in Uses
      BY <3>1 DEF Uses
    <3>3. down[j] = <<<<u, a, i + j - 1>>, g.val[<<u, a, i + j>>]>>
      BY <1>2
    <3> QED BY <1>6, <2>1, <3>2, <3>3
  <2>3. down \in [1..m -> E]
    BY <1>2, <2>2
  <2> QED BY <2>3
<1>8. end \in Seq(E) /\ Len(end) = 1 /\ end[1] = <<<<u, a, n>>, None>>
  <2>1. n \in 1..MaxOperands
    BY <1>0, <1>1
  <2>2. <<<<u, a, n>>, None>> \in E
    BY <1>6, <2>1 DEF Uses
  <2> QED BY <1>3, <2>2
<1>9. /\ pairs \in Seq(E) /\ Len(pairs) = m + 1
      /\ \A j \in 1..(m + 1) : pairs[j] = IF j <= m THEN down[j] ELSE end[j - m]
  <2>1. /\ pairs \in Seq(E) /\ Len(pairs) = Len(down) + Len(end)
        /\ \A j \in 1..(Len(down) + Len(end)) :
             pairs[j] = IF j <= Len(down) THEN down[j] ELSE end[j - Len(down)]
    BY <1>4, <1>7, <1>8, ConcatProperties
  <2> QED BY <1>7, <1>8, <2>1
<1>10. DOMAIN pairs = 1..(m + 1)
  BY <1>9, LenProperties
<1>11. ASSUME NEW j \in 1..m
       PROVE  pairs[j] = <<<<u, a, i + j - 1>>, g.val[<<u, a, i + j>>]>>
  <2>1. j \in 1..(m + 1) /\ j <= m
    OBVIOUS
  <2> QED BY <1>2, <1>9, <2>1
<1>12. pairs[m + 1] = <<<<u, a, n>>, None>>
  <2>1. m + 1 \in 1..(m + 1) /\ ~(m + 1 <= m) /\ (m + 1) - m = 1
    OBVIOUS
  <2> QED BY <1>8, <1>9, <2>1
<1>13. ShiftPairs(pairs, g, u, a, n, i)
  BY <1>1, <1>10, <1>11, <1>12 DEF ShiftPairs
<1> QED BY <1>5, <1>13

\* removeIncomingValue, removeCase.
LEMMA Erases ==
  ASSUME NEW g, Good(g), NEW u \in User, NEW a \in Generations, NEW n \in 0..MaxOperands,
         a = Array[u], n = NumOperands[u], NEW i \in 1..n, NEW ops, Holds(g, u, a, n, ops),
         NEW new, Erased(new, ops, n, i), NEW t, t = Shifted(g, u, i)
  PROVE  Good(t) /\ OnlyOf(g, t, u) /\ Holds(t, u, a, Len(new), new)
<1>0. MaxOperands \in Nat
  BY UseListsAssumption
<1>1. PICK pairs : ShiftPairs(pairs, g, u, a, n, i) /\ t = SetAll(g, pairs)
  BY ShiftPairsAre
<1>2. PICK m \in Nat :
        /\ n = m + i /\ DOMAIN pairs = 1..(m + 1)
        /\ \A j \in 1..m : pairs[j] = <<<<u, a, i + j - 1>>, g.val[<<u, a, i + j>>]>>
        /\ pairs[m + 1] = <<<<u, a, n>>, None>>
  BY <1>1 DEF ShiftPairs
<1>3. /\ ops \in Seq(Value) /\ Len(ops) = n
      /\ \A b \in Generations, j \in 1..MaxOperands :
           g.val[<<u, b, j>>] = IF b = a /\ j <= n THEN ops[j] ELSE None
  BY DEF Holds
<1>4. PICK k \in Nat : k = m + 1
  OBVIOUS
\* The place that pair j assigns to.
<1>5. \A j \in 1..k : /\ i + j - 1 \in 1..MaxOperands /\ i + j - 1 <= n
                      /\ pairs[j][1] = <<u, a, i + j - 1>>
                      /\ pairs[j][2] = IF j = k THEN None ELSE ops[i + j]
                      /\ j # k => i + j \in 1..n
  <2> SUFFICES ASSUME NEW j \in 1..k
               PROVE  /\ i + j - 1 \in 1..MaxOperands /\ i + j - 1 <= n
                      /\ pairs[j][1] = <<u, a, i + j - 1>>
                      /\ pairs[j][2] = IF j = k THEN None ELSE ops[i + j]
                      /\ j # k => i + j \in 1..n
    OBVIOUS
  <2>1. i + j - 1 \in 1..MaxOperands /\ i + j - 1 <= n /\ (j # k => i + j \in 1..n)
    BY <1>0, <1>2, <1>4
  <2>2. CASE j = k
    <3>1. i + j - 1 = n
      BY <1>0, <1>2, <1>4, <2>2
    <3>2. pairs[j] = <<<<u, a, n>>, None>>
      BY <1>2, <1>4, <2>2
    <3> QED BY <2>1, <2>2, <3>1, <3>2
  <2>3. CASE j # k
    <3>1. j \in 1..m /\ i + j \in 1..MaxOperands /\ i + j <= n
      BY <1>0, <1>2, <1>4, <2>3
    <3>2. pairs[j] = <<<<u, a, i + j - 1>>, g.val[<<u, a, i + j>>]>>
      BY <1>2, <3>1
    <3>3. g.val[<<u, a, i + j>>] = ops[i + j]
      BY <1>3, <3>1
    <3> QED BY <2>1, <2>3, <3>2, <3>3
  <2> QED BY <2>2, <2>3
<1>6. Assignment(pairs, k)
  <2>1. ASSUME NEW j \in 1..k PROVE pairs[j][1] \in Uses /\ pairs[j][2] \in Value \cup {None}
    <3>1. pairs[j][1] \in Uses
      <4>1. PICK l \in 1..MaxOperands : l = i + j - 1
        BY <1>5
      <4>2. pairs[j][1] = <<u, a, l>>
        BY <1>5, <4>1
      <4> QED BY <4>2 DEF Uses
    <3>2. \A l \in 1..n : ops[l] \in Value
      BY <1>3, ElementOfSeq
    <3> QED BY <1>5, <3>1, <3>2
  <2> QED BY <1>2, <1>4, <2>1 DEF Assignment
<1>7. Good(t) /\ Results(g, t, pairs, k)
  BY <1>1, <1>6, AllSet
<1>8. ASSUME NEW w \in User, NEW b \in Generations, NEW j \in 1..MaxOperands
      PROVE  /\ w # u \/ b # a \/ j < i \/ n < j => t.val[<<w, b, j>>] = g.val[<<w, b, j>>]
             /\ w = u /\ b = a /\ i <= j /\ j <= n =>
                  t.val[<<w, b, j>>] = IF j = n THEN None ELSE ops[j + 1]
  <2>1. PICK x \in Uses : x = <<w, b, j>>
    BY DEF Uses
  <2>2. ASSUME w # u \/ b # a \/ j < i \/ n < j PROVE t.val[x] = g.val[x]
    <3>1. ASSUME NEW l \in 1..k, pairs[l][1] = x PROVE FALSE
      <4>1. u = w /\ a = b /\ i + l - 1 = j
        BY <1>5, <2>1, <3>1
      <4>2. i <= j /\ j <= n
        BY <1>0, <1>5, <4>1
      <4> QED BY <1>0, <2>2, <4>1, <4>2
    <3> QED BY <1>7, <3>1 DEF Results
  <2>3. ASSUME w = u, b = a, i <= j, j <= n
        PROVE  t.val[x] = IF j = n THEN None ELSE ops[j + 1]
    <3>1. PICK l \in 1..k : j = i + l - 1 /\ (l = k <=> j = n) /\ i + l = j + 1
      <4>1. /\ j - i + 1 \in 1..k /\ j = i + (j - i + 1) - 1
            /\ (j - i + 1 = k <=> j = n) /\ i + (j - i + 1) = j + 1
        BY <1>0, <1>2, <1>4, <2>3
      <4> QED BY <4>1
    <3>2. pairs[l][1] = x /\ pairs[l][2] = IF j = n THEN None ELSE ops[j + 1]
      BY <1>5, <2>1, <2>3, <3>1
    <3>3. \A r \in 1..k : r > l => pairs[r][1] # x
      <4>1. ASSUME NEW r \in 1..k, r > l, pairs[r][1] = x PROVE FALSE
        <5>1. i + r - 1 = j
          BY <1>5, <2>1, <4>1
        <5> QED BY <1>0, <3>1, <4>1, <5>1
      <4> QED BY <4>1
    <3>4. t.val[x] = pairs[l][2]
      BY <1>7, <3>2, <3>3 DEF Results
    <3> QED BY <3>2, <3>4
  <2> QED BY <2>1, <2>2, <2>3
<1>9. OnlyOf(g, t, u)
  BY <1>8 DEF OnlyOf
<1>10. PICK s \in Nat : /\ n = s + 1 /\ Len(new) = s /\ new \in Seq(Value)
                        /\ \A j \in 1..s : new[j] = IF j < i THEN ops[j] ELSE ops[j + 1]
  BY DEF Erased
<1>11. ASSUME NEW b \in Generations, NEW j \in 1..MaxOperands
       PROVE  t.val[<<u, b, j>>] = IF b = a /\ j <= s THEN new[j] ELSE None
  <2>1. g.val[<<u, b, j>>] = IF b = a /\ j <= n THEN ops[j] ELSE None
    BY <1>3
  <2>2. /\ b # a \/ j < i \/ n < j => t.val[<<u, b, j>>] = g.val[<<u, b, j>>]
        /\ b = a /\ i <= j /\ j <= n => t.val[<<u, b, j>>] = IF j = n THEN None ELSE ops[j + 1]
    BY <1>8
  <2>3. CASE b # a
    BY <2>1, <2>2, <2>3
  <2>4. CASE b = a /\ j < i
    <3>1. j \in 1..s /\ j <= n /\ j <= s
      BY <1>0, <1>10, <2>4
    <3> QED BY <1>10, <2>1, <2>2, <2>4, <3>1
  <2>5. CASE b = a /\ ~(j < i) /\ j < n
    <3>1. j \in 1..s /\ j <= n /\ j <= s /\ i <= j /\ j # n
      BY <1>0, <1>10, <2>5
    <3> QED BY <1>10, <2>2, <2>5, <3>1
  <2>6. CASE b = a /\ j = n
    <3>1. ~(j <= s) /\ i <= j /\ j <= n
      BY <1>0, <1>10, <2>6
    <3> QED BY <2>2, <2>6, <3>1
  <2>7. CASE b = a /\ n < j
    <3>1. ~(j <= s) /\ ~(j <= n)
      BY <1>0, <1>10, <2>7
    <3> QED BY <2>1, <2>2, <2>7, <3>1
  <2>8. j < n \/ j = n \/ n < j
    BY <1>0
  <2> QED BY <2>3, <2>4, <2>5, <2>6, <2>7, <2>8
<1>12. Holds(t, u, a, Len(new), new)
  BY <1>10, <1>11 DEF Holds
<1> QED BY <1>7, <1>9, <1>12

\* replaceAllUsesWith.
LEMMA ReplacesOperands ==
  ASSUME NEW g, Good(g), NEW v \in Value, NEW w \in Value, v # w, NEW t, t = Replaced(g, v, w),
         NEW u \in User, NEW a, NEW n, NEW ops, Holds(g, u, a, n, ops),
         NEW new, new = [i \in 1..n |-> IF ops[i] = v THEN w ELSE ops[i]]
  PROVE  Good(t) /\ Holds(t, u, a, n, new)
<1>0. MaxOperands \in Nat
  BY UseListsAssumption
<1>1. /\ ops \in Seq(Value) /\ Len(ops) = n /\ n \in Nat
      /\ \A b \in Generations, j \in 1..MaxOperands :
           g.val[<<u, b, j>>] = IF b = a /\ j <= n THEN ops[j] ELSE None
  BY DEF Holds
<1>2. Good(t) /\ \A x \in Uses : t.val[x] = IF g.val[x] = v THEN w ELSE g.val[x]
  BY AllReplaced
<1>3. new \in Seq(Value) /\ Len(new) = n
  <2>1. \A i \in 1..n : ops[i] \in Value
    BY <1>1, ElementOfSeq
  <2>2. new \in [1..n -> Value]
    BY <2>1
  <2> QED BY <1>1, <2>2
<1>4. ASSUME NEW b \in Generations, NEW j \in 1..MaxOperands
      PROVE  t.val[<<u, b, j>>] = IF b = a /\ j <= n THEN new[j] ELSE None
  <2>1. PICK x \in Uses : x = <<u, b, j>>
    BY DEF Uses
  <2>2. t.val[x] = IF g.val[x] = v THEN w ELSE g.val[x]
    BY <1>2
  <2>3. g.val[x] = IF b = a /\ j <= n THEN ops[j] ELSE None
    BY <1>1, <2>1
  <2>4. j <= n => new[j] = IF ops[j] = v THEN w ELSE ops[j]
    BY <1>0, <1>1
  <2> QED BY <2>1, <2>2, <2>3, <2>4, NoneApart
<1> QED BY <1>2, <1>3, <1>4 DEF Holds

-----------------------------------------------------------------------------
(***************************************************************************)
(* Use lists: the invariant, and the steps of one User.  The copy of a      *)
(* switch is left out: its ReservedSpace is whatever was in the memory.     *)
(***************************************************************************)
UserTypes ==
  /\ Array \in [User -> Generations \cup {None}] /\ NumOperands \in [User -> 0..MaxOperands]
  /\ ReservedSpace \in [User -> Nat] /\ allocated \in [User -> Nat] /\ alive \subseteq User

UserKept(u) ==
  /\ u \notin alive => Array[u] = None
  /\ Array[u] = None => NumOperands[u] = 0 /\ allocated[u] = 0
  /\ NumOperands[u] <= allocated[u]
  /\ u \in Phi \cup Switch => ReservedSpace[u] = allocated[u]
  /\ u \in Switch /\ u \in alive => NumOperands[u] >= 1
  /\ u \in Binary /\ u \in alive => NumOperands[u] = 2

UInv ==
  /\ Good(heap) /\ UserTypes
  /\ \A u \in User : UserKept(u) /\ \E ops : Holds(heap, u, Array[u], NumOperands[u], ops)

OperandsOf(u) ==
  IF u \in alive THEN [i \in 1..NumOperands[u] |-> heap.val[UseAt(u, i)]] ELSE None

LEMMA ReadsOperands ==
  ASSUME NEW g, NEW u, NEW a, NEW n \in 0..MaxOperands, n # 0 => a \in Generations,
         NEW ops, Holds(g, u, a, n, ops), NEW f, f = [i \in 1..n |-> g.val[<<u, a, i>>]]
  PROVE  f = ops
<1>1. MaxOperands \in Nat
  BY UseListsAssumption
<1>2. ops \in [1..n -> Value]
  BY LenProperties DEF Holds
<1>3. ASSUME NEW i \in 1..n PROVE g.val[<<u, a, i>>] = ops[i]
  <2>1. i \in 1..MaxOperands /\ i <= n /\ a \in Generations
    BY <1>1
  <2> QED BY <2>1 DEF Holds
<1> QED BY <1>2, <1>3

LEMMA UserFacts ==
  ASSUME UInv, NEW u \in User
  PROVE  /\ Good(heap) /\ UserTypes /\ UserKept(u)
         /\ \E ops : /\ Holds(heap, u, Array[u], NumOperands[u], ops)
                     /\ OperandsOf(u) = IF u \in alive THEN ops ELSE None
<1>1. Good(heap) /\ UserTypes /\ UserKept(u)
  BY DEF UInv
<1>2. PICK ops : Holds(heap, u, Array[u], NumOperands[u], ops)
  BY DEF UInv
<1>3. /\ NumOperands[u] \in 0..MaxOperands
      /\ NumOperands[u] # 0 => Array[u] \in Generations
  BY <1>1 DEF UserTypes, UserKept
<1>4. PICK f : f = [i \in 1..NumOperands[u] |-> heap.val[<<u, Array[u], i>>]]
  OBVIOUS
<1>5. f = ops
  BY <1>2, <1>3, <1>4, ReadsOperands
<1> QED BY <1>1, <1>2, <1>4, <1>5 DEF OperandsOf, UseAt

\* A step of u that leaves it with the operands new, if it is alive.
StepOf(u, new) ==
  /\ Good(heap') /\ OnlyOf(heap, heap', u) /\ Holds(heap', u, Array'[u], NumOperands'[u], new)
  /\ UserTypes' /\ UserKept(u)'
  /\ \A w \in User \ {u} :
       /\ Array'[w] = Array[w] /\ NumOperands'[w] = NumOperands[w]
       /\ ReservedSpace'[w] = ReservedSpace[w] /\ allocated'[w] = allocated[w]
       /\ w \in alive' <=> w \in alive

Stepped(u) ==
  \E new : /\ StepOf(u, new)
           /\ Operands!Change(OperandsOf(u), IF u \in alive' THEN new ELSE None,
                              {OperandsOf(w) : w \in User})

LEMMA NoneIsNoSequence == \A ops \in Seq(Value) : ops # None
BY UseListsAssumption

LEMMA UserKinds ==
  /\ \A u \in Binary : u \notin Phi /\ u \notin Switch
  /\ \A u \in Phi : u \notin Switch /\ u \notin Binary
  /\ \A u \in Switch : u \notin Phi /\ u \notin Binary
  /\ MaxOperands \in Nat /\ MaxOperands >= 2 /\ 0 \in Generations /\ 1 \in Generations
  /\ None \notin Generations
BY UseListsAssumption DEF Generations

LEMMA CreateSteps ==
  ASSUME UInv, NEW u \in User, Create(u)
  PROVE  Stepped(u)
<1>1. Good(heap) /\ UserTypes /\ UserKept(u)
  BY UserFacts
<1>2. u \in Phi \cup Switch /\ u \notin alive /\ alive' = alive \cup {u}
  BY DEF Create, Creatable
<1>3. PICK ops : /\ Holds(heap, u, Array[u], NumOperands[u], ops)
                 /\ OperandsOf(u) = IF u \in alive THEN ops ELSE None
  BY UserFacts
<1>4. OperandsOf(u) = None /\ Array[u] = None /\ NumOperands[u] = 0
  BY <1>1, <1>2, <1>3 DEF UserKept
<1>5. CASE u \in Phi
  <2>1. UNCHANGED <<heap, Array, NumOperands, ReservedSpace, allocated>>
    BY <1>5 DEF Create
  <2>2. ops \in Seq(Value) /\ Len(ops) = 0
    BY <1>3, <1>4 DEF Holds
  <2>3. OnlyOf(heap, heap, u)
    BY DEF OnlyOf
  <2>4. UserTypes' /\ UserKept(u)'
    BY <1>1, <1>2, <1>5, <2>1, UserKinds DEF UserTypes, UserKept
  <2>5. StepOf(u, ops)
    BY <1>1, <1>2, <1>3, <2>1, <2>3, <2>4 DEF StepOf
  <2>6. ops \in [1..0 -> Value] /\ ops # None
    BY <2>2, LenProperties, NoneIsNoSequence
  <2>7. Operands!Change(OperandsOf(u), ops, {OperandsOf(w) : w \in User})
    BY <1>4, <2>6 DEF Operands!Change, Operands!Create
  <2> QED BY <1>2, <2>5, <2>7 DEF Stepped
<1>6. CASE u \notin Phi
  <2>1. PICK v \in Value, cases \in 0..1 :
          /\ heap' = Set(heap, <<u, 0, 1>>, v)
          /\ Array' = [Array EXCEPT ![u] = 0]
          /\ NumOperands' = [NumOperands EXCEPT ![u] = 1]
          /\ ReservedSpace' = [ReservedSpace EXCEPT ![u] = 1 + cases]
          /\ allocated' = [allocated EXCEPT ![u] = 1 + cases]
    BY <1>6 DEF Create
  <2>2. Holds(heap, u, None, 0, ops)
    BY <1>3, <1>4
  <2>3. ops \in Seq(Value) /\ Len(ops) = 0
    BY <2>2 DEF Holds
  <2>4. PICK empty : empty = 0
    OBVIOUS
  <2>5. Holds(heap, u, empty, 0, ops)
    <3>1. \A b \in Generations, i \in 1..MaxOperands : heap.val[<<u, b, i>>] = None
      BY <2>2, UserKinds DEF Holds
    <3> QED BY <2>3, <3>1 DEF Holds
  <2>6. PICK new, m : new = Append(ops, v) /\ m = 1
    OBVIOUS
  <2>7. Good(heap') /\ OnlyOf(heap, heap', u) /\ Holds(heap', u, empty, m, new)
    <3>1. PICK n \in Nat : n = 0 /\ m = n + 1 /\ n < MaxOperands
      BY <2>6, UserKinds
    <3>2. heap' = Set(heap, <<u, empty, n + 1>>, v) /\ Holds(heap, u, empty, n, ops)
      BY <2>1, <2>4, <2>5, <2>6, <3>1
    <3>3. empty \in Generations
      BY <2>4, UserKinds
    <3> QED BY <1>1, <2>6, <3>1, <3>2, <3>3, Appends
  <2>8. Array'[u] = 0 /\ NumOperands'[u] = 1 /\ u \in Switch
    BY <1>1, <1>2, <1>6, <2>1 DEF UserTypes
  <2>9. UserTypes' /\ UserKept(u)'
    BY <1>1, <1>2, <2>1, <2>8, UserKinds DEF UserTypes, UserKept
  <2>10. StepOf(u, new)
    BY <1>1, <1>2, <2>1, <2>4, <2>6, <2>7, <2>8, <2>9 DEF StepOf, UserTypes
  <2>11. new \in [1..1 -> Value] /\ new # None
    <3>1. new \in Seq(Value) /\ Len(new) = 1
      BY <2>6, <2>7 DEF Holds
    <3> QED BY <3>1, LenProperties, NoneIsNoSequence
  <2>12. Operands!Change(OperandsOf(u), new, {OperandsOf(w) : w \in User})
    BY <1>4, <2>11 DEF Operands!Change, Operands!Create
  <2> QED BY <1>2, <2>10, <2>12 DEF Stepped
<1> QED BY <1>5, <1>6

LEMMA CreateBinarySteps ==
  ASSUME UInv, NEW u \in User, CreateBinary(u)
  PROVE  Stepped(u)
<1>1. Good(heap) /\ UserTypes /\ UserKept(u)
  BY UserFacts
<1>2. u \in Binary /\ u \notin alive /\ alive' = alive \cup {u}
  BY DEF CreateBinary, Creatable
<1>3. PICK ops : /\ Holds(heap, u, Array[u], NumOperands[u], ops)
                 /\ OperandsOf(u) = IF u \in alive THEN ops ELSE None
  BY UserFacts
<1>4. OperandsOf(u) = None /\ Holds(heap, u, None, 0, ops)
  BY <1>1, <1>2, <1>3 DEF UserKept
<1>5. PICK v \in Value, w \in Value :
        heap' = SetAll(heap, << <<<<u, 0, 1>>, v>>, <<<<u, 0, 2>>, w>> >>)
  BY DEF CreateBinary
<1>6. PICK new : new = <<v, w>>
  OBVIOUS
<1>7. new \in Seq(Value) /\ Len(new) = 2 /\ new[1] = v /\ new[2] = w
  BY <1>6
<1>8. PICK pairs : pairs = [i \in 1..Len(new) |-> <<<<u, 0, i>>, new[i]>>]
  OBVIOUS
<1>9. pairs = << <<<<u, 0, 1>>, v>>, <<<<u, 0, 2>>, w>> >>
  <2>1. pairs = [i \in 1..2 |-> <<<<u, 0, i>>, new[i]>>]
    BY <1>7, <1>8
  <2>2. \A i \in 1..2 : i = 1 \/ i = 2
    OBVIOUS
  <2> QED BY <1>7, <2>1, <2>2
<1>10. Good(heap') /\ OnlyOf(heap, heap', u) /\ Holds(heap', u, 0, Len(new), new)
  BY <1>1, <1>4, <1>5, <1>7, <1>8, <1>9, Constructs, UserKinds
<1>11. /\ Array' = [Array EXCEPT ![u] = 0] /\ NumOperands' = [NumOperands EXCEPT ![u] = 2]
       /\ allocated' = [allocated EXCEPT ![u] = 2] /\ ReservedSpace' = ReservedSpace
  BY DEF CreateBinary
<1>12. Array'[u] = 0 /\ NumOperands'[u] = 2
  BY <1>1, <1>11 DEF UserTypes
<1>13. UserTypes' /\ UserKept(u)'
  BY <1>1, <1>2, <1>11, <1>12, UserKinds DEF UserTypes, UserKept
<1>14. StepOf(u, new)
  BY <1>1, <1>2, <1>7, <1>10, <1>11, <1>12, <1>13 DEF StepOf, UserTypes
<1>15. new \in [1..2 -> Value] /\ new # None
  BY <1>7, LenProperties, NoneIsNoSequence
<1>16. Operands!Change(OperandsOf(u), new, {OperandsOf(x) : x \in User})
  BY <1>4, <1>15 DEF Operands!Change, Operands!Create
<1> QED BY <1>2, <1>14, <1>16 DEF Stepped

LEMMA CloneSteps ==
  ASSUME UInv, Clonable \cap Switch = {}, NEW u \in User, NEW w \in User, Clone(u, w)
  PROVE  Stepped(u)
<1>1. Good(heap) /\ UserTypes /\ UserKept(u) /\ UserKept(w)
  BY UserFacts
<1>2. /\ u \notin alive /\ alive' = alive \cup {u} /\ w \in alive /\ u \in Phi
      /\ NumOperands[w] > 0
  BY DEF Clone, Creatable
<1>3. PICK none : /\ Holds(heap, u, Array[u], NumOperands[u], none)
                  /\ OperandsOf(u) = IF u \in alive THEN none ELSE None
  BY UserFacts
<1>4. OperandsOf(u) = None /\ Holds(heap, u, None, 0, none)
  BY <1>1, <1>2, <1>3 DEF UserKept
<1>5. PICK ops : /\ Holds(heap, w, Array[w], NumOperands[w], ops)
                 /\ OperandsOf(w) = IF w \in alive THEN ops ELSE None
  BY UserFacts
<1>6. /\ OperandsOf(w) = ops /\ ops \in Seq(Value) /\ Len(ops) = NumOperands[w] /\ ops # None
      /\ Len(ops) <= MaxOperands /\ Len(ops) \in Nat
  <2>1. NumOperands[w] <= MaxOperands /\ NumOperands[w] \in Nat
    BY <1>1, UserKinds DEF UserTypes
  <2> QED BY <1>2, <1>5, <2>1, NoneIsNoSequence DEF Holds
<1>7. ops = [i \in 1..NumOperands[w] |-> heap.val[UseAt(w, i)]]
  BY <1>2, <1>6 DEF OperandsOf
<1>8. PICK pairs : pairs = [i \in 1..Len(ops) |-> <<<<u, 0, i>>, ops[i]>>]
  OBVIOUS
<1>9. pairs = [i \in 1..NumOperands[w] |-> <<<<u, 0, i>>, heap.val[UseAt(w, i)]>>]
  BY <1>6, <1>7, <1>8
<1>10. Good(heap') /\ OnlyOf(heap, heap', u) /\ Holds(heap', u, 0, Len(ops), ops)
  <2>1. heap' = SetAll(heap, pairs)
    BY <1>9 DEF Clone
  <2> QED BY <1>1, <1>4, <1>6, <1>8, <2>1, Constructs
<1>11. /\ Array' = [Array EXCEPT ![u] = 0]
       /\ NumOperands' = [NumOperands EXCEPT ![u] = NumOperands[w]]
       /\ allocated' = [allocated EXCEPT ![u] = NumOperands[w]]
       /\ ReservedSpace' = [ReservedSpace EXCEPT ![u] = NumOperands[w]]
  BY <1>2 DEF Clone
<1>12. Array'[u] = 0 /\ NumOperands'[u] = Len(ops)
  BY <1>1, <1>6, <1>11 DEF UserTypes
<1>13. UserTypes' /\ UserKept(u)'
  <2>1. NumOperands[w] \in 0..MaxOperands /\ NumOperands[w] \in Nat
    BY <1>1, UserKinds DEF UserTypes
  <2> QED BY <1>1, <1>2, <1>11, <1>12, <2>1, UserKinds DEF UserTypes, UserKept
<1>14. StepOf(u, ops)
  BY <1>1, <1>2, <1>10, <1>11, <1>12, <1>13 DEF StepOf, UserTypes
<1>15. ops \in {OperandsOf(x) : x \in User}
  BY <1>6
<1>16. Operands!Change(OperandsOf(u), ops, {OperandsOf(x) : x \in User})
  BY <1>4, <1>6, <1>15 DEF Operands!Change, Operands!Create
<1> QED BY <1>2, <1>14, <1>16 DEF Stepped

LEMMA DestroySteps ==
  ASSUME UInv, NEW u \in User, DestroyUser(u)
  PROVE  Stepped(u)
<1>1. Good(heap) /\ UserTypes /\ UserKept(u)
  BY UserFacts
<1>2. PICK ops : /\ Holds(heap, u, Array[u], NumOperands[u], ops)
                 /\ OperandsOf(u) = IF u \in alive THEN ops ELSE None
  BY UserFacts
<1>3. /\ u \in alive /\ alive' = alive \ {u}
      /\ heap' = IF Array[u] = None THEN heap ELSE Zap(heap, u, Array[u], allocated[u])
      /\ Array' = [Array EXCEPT ![u] = None] /\ NumOperands' = [NumOperands EXCEPT ![u] = 0]
      /\ ReservedSpace' = [ReservedSpace EXCEPT ![u] = 0]
      /\ allocated' = [allocated EXCEPT ![u] = 0]
  BY DEF DestroyUser
<1>4. /\ Array[u] \in Generations \cup {None} /\ NumOperands[u] \in Nat /\ allocated[u] \in Nat
      /\ Array[u] = None => NumOperands[u] = 0
      /\ NumOperands[u] <= allocated[u]
  BY <1>1, UserKinds DEF UserTypes, UserKept
<1>5. Good(heap') /\ OnlyOf(heap, heap', u) /\ Holds(heap', u, None, 0, <<>>)
  BY <1>1, <1>2, <1>3, <1>4, Destructs
<1>6. Array'[u] = None /\ NumOperands'[u] = 0
  BY <1>1, <1>3 DEF UserTypes
<1>7. UserTypes' /\ UserKept(u)'
  BY <1>1, <1>3, UserKinds DEF UserTypes, UserKept
<1>8. StepOf(u, <<>>)
  BY <1>1, <1>3, <1>5, <1>6, <1>7 DEF StepOf, UserTypes
<1>9. OperandsOf(u) # None
  BY <1>2, <1>3, NoneIsNoSequence DEF Holds
<1>10. Operands!Change(OperandsOf(u), None, {OperandsOf(x) : x \in User})
  BY <1>9 DEF Operands!Change, Operands!Destroy
<1> QED BY <1>3, <1>8, <1>10 DEF Stepped

\* Growing leaves room for one more operand.
LEMMA GrownIsEnough ==
  ASSUME UInv, NEW u \in User, u \in alive, u \in Phi \cup Switch, NEW e, e = NumOperands[u]
  PROVE  Grown(u) \in Nat /\ e + 1 <= Grown(u)
<1>1. UserTypes /\ UserKept(u)
  BY UserFacts
<1>2. e \in Nat /\ (u \in Switch => e >= 1)
  BY <1>1, UserKinds DEF UserTypes, UserKept
<1>3. Grown(u) = IF u \in Phi THEN (IF e < 2 THEN 2 ELSE (e * 3) \div 2) ELSE e * 3
  BY DEF Grown
<1>4. ~(e < 2) => (e * 3) \div 2 \in Nat /\ e + 1 <= (e * 3) \div 2
  <2>1. PICK p \in Nat : p = e * 3
    BY <1>2
  <2>2. PICK d : d = p \div 2
    OBVIOUS
  <2>3. d \in Int /\ 2 * d <= p /\ p <= 2 * d + 1
    BY <2>2
  <2> QED BY <1>2, <2>1, <2>2, <2>3
<1> QED BY <1>2, <1>3, <1>4

LEMMA AddSteps ==
  ASSUME UInv, NEW u \in User, NEW v \in Value, Add(u, v)
  PROVE  Stepped(u)
<1>1. Good(heap) /\ UserTypes /\ UserKept(u)
  BY UserFacts
<1>2. PICK ops : /\ Holds(heap, u, Array[u], NumOperands[u], ops)
                 /\ OperandsOf(u) = IF u \in alive THEN ops ELSE None
  BY UserFacts
<1>3. /\ u \in alive /\ u \in Phi \cup Switch /\ alive' = alive
      /\ NumOperands[u] < MaxOperands
      /\ NumOperands' = [NumOperands EXCEPT ![u] = NumOperands[u] + 1]
  BY DEF Add
<1>4. PICK n \in Nat : /\ n = NumOperands[u] /\ n < MaxOperands /\ n \in 0..MaxOperands
  BY <1>1, <1>3, UserKinds DEF UserTypes
<1>5. PICK m \in Nat : m = n + 1 /\ m \in 0..MaxOperands
  BY <1>4, UserKinds
<1>6. PICK new : new = Append(ops, v)
  OBVIOUS
<1>7. NumOperands'[u] = m /\ NumOperands' \in [User -> 0..MaxOperands]
  BY <1>1, <1>3, <1>4, <1>5 DEF UserTypes
<1>8. /\ Good(heap') /\ OnlyOf(heap, heap', u) /\ Holds(heap', u, Array'[u], m, new)
      /\ UserTypes' /\ UserKept(u)'
      /\ \A w \in User \ {u} : /\ Array'[w] = Array[w] /\ allocated'[w] = allocated[w]
                               /\ ReservedSpace'[w] = ReservedSpace[w]
  <2>1. CASE Grows(u)
    <3>1. PICK a : a = Fresh(u)
      OBVIOUS
    <3>2. PICK g : g = Moved(heap, u)
      OBVIOUS
    <3>3. Good(g) /\ OnlyOf(heap, g, u) /\ a \in Generations /\ Holds(g, u, a, n, ops)
      <4>1. /\ Array[u] \in Generations \cup {None} /\ NumOperands[u] \in 0..MaxOperands
            /\ Array[u] = None => NumOperands[u] = 0
        BY <1>1 DEF UserTypes, UserKept
      <4> QED BY <1>1, <1>2, <1>4, <3>1, <3>2, <4>1, MovesOperands
    <3>4. heap' = Set(g, <<u, a, n + 1>>, v)
      BY <1>4, <2>1, <3>1, <3>2 DEF Add
    <3>5. Good(heap') /\ OnlyOf(g, heap', u) /\ Holds(heap', u, a, m, new)
      BY <1>4, <1>5, <1>6, <3>3, <3>4, Appends
    <3>6. OnlyOf(heap, heap', u)
      BY <3>3, <3>5 DEF OnlyOf
    <3>7. PICK s : s = Grown(u)
      OBVIOUS
    <3>8. /\ Array' = [Array EXCEPT ![u] = a] /\ allocated' = [allocated EXCEPT ![u] = s]
          /\ ReservedSpace' = [ReservedSpace EXCEPT ![u] = s]
      BY <2>1, <3>1, <3>7 DEF Add
    <3>9. s \in Nat /\ m <= s
      BY <1>3, <1>4, <1>5, <3>7, GrownIsEnough
    <3>10. UserTypes' /\ Array'[u] = a
      BY <1>1, <1>3, <1>7, <3>3, <3>8, <3>9 DEF UserTypes
    <3>11. UserKept(u)'
      BY <1>1, <1>3, <1>5, <1>7, <3>3, <3>8, <3>9, <3>10, UserKinds DEF UserTypes, UserKept
    <3> QED BY <1>1, <3>5, <3>6, <3>8, <3>10, <3>11 DEF UserTypes
  <2>2. CASE ~Grows(u)
    <3>1. /\ heap' = Set(heap, UseAt(u, NumOperands[u] + 1), v)
          /\ UNCHANGED <<Array, allocated, ReservedSpace>>
      BY <2>2 DEF Add
    <3>2. m <= ReservedSpace[u]
      BY <1>1, <1>4, <1>5, <2>2 DEF Grows, UserTypes
    <3>3. m <= allocated[u] /\ Array[u] \in Generations
      BY <1>1, <1>3, <1>5, <3>2 DEF UserKept, UserTypes
    <3>4. PICK a \in Generations : a = Array[u]
      BY <3>3
    <3>5. heap' = Set(heap, <<u, a, n + 1>>, v) /\ Holds(heap, u, a, n, ops)
      BY <1>2, <1>4, <3>1, <3>4 DEF UseAt
    <3>6. Good(heap') /\ OnlyOf(heap, heap', u) /\ Holds(heap', u, a, m, new)
      BY <1>1, <1>4, <1>5, <1>6, <3>5, Appends
    <3>7. UserTypes'
      BY <1>1, <1>3, <1>7, <3>1 DEF UserTypes
    <3>8. UserKept(u)'
      BY <1>1, <1>3, <1>5, <1>7, <3>1, <3>3, <3>4, UserKinds DEF UserTypes, UserKept
    <3> QED BY <3>1, <3>4, <3>6, <3>7, <3>8
  <2> QED BY <2>1, <2>2
<1>9. StepOf(u, new)
  BY <1>1, <1>3, <1>7, <1>8 DEF StepOf, UserTypes
<1>10. OperandsOf(u) = ops /\ ops # None /\ new # None
  BY <1>2, <1>3, <1>8, NoneIsNoSequence DEF Holds
<1>11. Operands!Change(OperandsOf(u), new, {OperandsOf(x) : x \in User})
  BY <1>6, <1>10 DEF Operands!Change, Operands!Add
<1> QED BY <1>3, <1>9, <1>11 DEF Stepped

LEMMA ReserveSteps ==
  ASSUME UInv, NEW u \in User, NEW k \in 0..MaxOperands, Reserve(u, k)
  PROVE  \E new : StepOf(u, new) /\ u \in alive' /\ new = OperandsOf(u)
<1>1. Good(heap) /\ UserTypes /\ UserKept(u)
  BY UserFacts
<1>2. PICK ops : /\ Holds(heap, u, Array[u], NumOperands[u], ops)
                 /\ OperandsOf(u) = IF u \in alive THEN ops ELSE None
  BY UserFacts
<1>3. PICK s : s = Resized(u, k)
  OBVIOUS
<1>4. /\ u \in alive /\ u \in Phi /\ alive' = alive
      /\ k = 0 \/ s # ReservedSpace[u]
      /\ heap' = Moved(heap, u) /\ NumOperands' = NumOperands
      /\ Array' = [Array EXCEPT ![u] = Fresh(u)] /\ allocated' = [allocated EXCEPT ![u] = s]
      /\ ReservedSpace' = [ReservedSpace EXCEPT ![u] = s]
  BY <1>3 DEF Reserve
<1>5. PICK n \in Nat : n = NumOperands[u]
  BY <1>1, UserKinds DEF UserTypes
<1>6. s \in Nat /\ n <= s
  <2>1. CASE k = 0
    <3>1. s = Grown(u)
      BY <1>3, <2>1 DEF Resized
    <3>2. PICK e \in Nat : e = NumOperands[u]
      BY <1>5
    <3>3. Grown(u) \in Nat /\ e + 1 <= Grown(u)
      BY <1>4, <3>2, GrownIsEnough
    <3> QED BY <1>5, <3>1, <3>2, <3>3
  <2>2. CASE k # 0
    <3>1. s = k /\ ReservedSpace[u] < k
      BY <1>3, <1>4, <2>2 DEF Resized
    <3>2. n <= ReservedSpace[u] /\ ReservedSpace[u] \in Nat /\ k \in Nat
      BY <1>1, <1>4, <1>5, UserKinds DEF UserTypes, UserKept
    <3> QED BY <1>5, <3>1, <3>2
  <2> QED BY <2>1, <2>2
<1>7. /\ Good(heap') /\ OnlyOf(heap, heap', u) /\ Fresh(u) \in Generations
      /\ Holds(heap', u, Fresh(u), NumOperands[u], ops)
  <2>1. /\ Array[u] \in Generations \cup {None} /\ NumOperands[u] \in 0..MaxOperands
        /\ Array[u] = None => NumOperands[u] = 0
    BY <1>1 DEF UserTypes, UserKept
  <2> QED BY <1>1, <1>2, <1>4, <2>1, MovesOperands
<1>8. UserTypes' /\ Array'[u] = Fresh(u)
  BY <1>1, <1>4, <1>6, <1>7 DEF UserTypes
<1>9. UserKept(u)'
  BY <1>1, <1>4, <1>5, <1>6, <1>7, <1>8, UserKinds DEF UserTypes, UserKept
<1>10. StepOf(u, ops)
  BY <1>1, <1>4, <1>7, <1>8, <1>9 DEF StepOf, UserTypes
<1> QED BY <1>2, <1>4, <1>10

LEMMA RemoveEntrySteps ==
  ASSUME UInv, NEW u \in User, NEW i \in 1..MaxOperands, RemoveEntry(u, i)
  PROVE  Stepped(u)
<1>1. Good(heap) /\ UserTypes /\ UserKept(u)
  BY UserFacts
<1>2. PICK ops : /\ Holds(heap, u, Array[u], NumOperands[u], ops)
                 /\ OperandsOf(u) = IF u \in alive THEN ops ELSE None
  BY UserFacts
<1>3. /\ u \in alive /\ u \in Phi \cup Switch /\ alive' = alive
      /\ i \in (IF u \in Switch THEN 2 ELSE 1)..NumOperands[u]
      /\ heap' = Shifted(heap, u, i)
      /\ NumOperands' = [NumOperands EXCEPT ![u] = NumOperands[u] - 1]
      /\ UNCHANGED <<Array, ReservedSpace, allocated>>
  BY DEF RemoveEntry
<1>4. PICK n \in 0..MaxOperands : n = NumOperands[u]
  BY <1>1 DEF UserTypes
<1>5. i \in 1..n /\ (u \in Switch => 2 <= n) /\ n \in Nat /\ 1 <= n /\ n - 1 \in 0..MaxOperands
  BY <1>3, <1>4, UserKinds
<1>6. PICK a \in Generations : a = Array[u]
  BY <1>1, <1>4, <1>5 DEF UserTypes, UserKept
<1>7. PICK new : new = RemoveAt(ops, i)
  OBVIOUS
<1>8. ops \in Seq(Value) /\ n = Len(ops) /\ Holds(heap, u, a, n, ops)
  BY <1>2, <1>4, <1>6 DEF Holds
<1>9. Erased(new, ops, n, i)
  BY <1>5, <1>7, <1>8, RemoveAtErases
<1>10. Good(heap') /\ OnlyOf(heap, heap', u) /\ Holds(heap', u, a, Len(new), new)
  BY <1>1, <1>3, <1>4, <1>5, <1>6, <1>8, <1>9, Erases
<1>11. Len(new) = n - 1
  BY <1>5, <1>9 DEF Erased
<1>12. NumOperands'[u] = n - 1 /\ UserTypes'
  BY <1>1, <1>3, <1>4, <1>5 DEF UserTypes
<1>13. UserKept(u)'
  BY <1>1, <1>3, <1>4, <1>5, <1>6, <1>12, UserKinds DEF UserTypes, UserKept
<1>14. StepOf(u, new)
  BY <1>1, <1>3, <1>6, <1>10, <1>11, <1>12, <1>13 DEF StepOf, UserTypes
<1>15. OperandsOf(u) = ops /\ ops # None /\ new # None
  BY <1>2, <1>3, <1>8, <1>10, NoneIsNoSequence DEF Holds
<1>16. i \in DOMAIN ops
  BY <1>5, <1>8, LenProperties
<1>17. Operands!Change(OperandsOf(u), new, {OperandsOf(x) : x \in User})
  BY <1>7, <1>15, <1>16 DEF Operands!Change, Operands!Erase, Operands!RemoveAt, RemoveAt
<1> QED BY <1>3, <1>14, <1>17 DEF Stepped

LEMMA SetOperandSteps ==
  ASSUME UInv, NEW u \in User, NEW i \in 1..MaxOperands, NEW v \in Value, SetOperand(u, i, v)
  PROVE  Stepped(u)
<1>1. Good(heap) /\ UserTypes /\ UserKept(u)
  BY UserFacts
<1>2. PICK ops : /\ Holds(heap, u, Array[u], NumOperands[u], ops)
                 /\ OperandsOf(u) = IF u \in alive THEN ops ELSE None
  BY UserFacts
<1>3. /\ u \in alive /\ i \in 1..NumOperands[u] /\ heap' = Set(heap, UseAt(u, i), v)
      /\ UNCHANGED fields
  BY DEF SetOperand
<1>4. PICK n \in 0..MaxOperands : n = NumOperands[u] /\ i \in 1..n /\ n # 0
  BY <1>1, <1>3, UserKinds DEF UserTypes
<1>5. PICK a \in Generations : a = Array[u]
  BY <1>1, <1>4 DEF UserTypes, UserKept
<1>6. PICK new : new = [ops EXCEPT ![i] = v]
  OBVIOUS
<1>7. ops \in Seq(Value) /\ n = Len(ops) /\ Holds(heap, u, a, n, ops)
  BY <1>2, <1>4, <1>5 DEF Holds
<1>8. Good(heap') /\ OnlyOf(heap, heap', u) /\ Holds(heap', u, a, n, new)
  <2>1. heap' = Set(heap, <<u, a, i>>, v)
    BY <1>3, <1>5 DEF UseAt
  <2> QED BY <1>1, <1>4, <1>6, <1>7, <2>1, SetsOperand
<1>9. UserTypes' /\ UserKept(u)'
  BY <1>1, <1>3 DEF UserTypes, UserKept, fields
<1>10. StepOf(u, new)
  BY <1>1, <1>3, <1>4, <1>5, <1>8, <1>9 DEF StepOf, UserTypes, fields
<1>11. OperandsOf(u) = ops /\ ops # None /\ new # None
  BY <1>2, <1>3, <1>7, <1>8, NoneIsNoSequence DEF Holds
<1>12. i \in DOMAIN ops
  BY <1>4, <1>7, LenProperties
<1>13. Operands!Change(OperandsOf(u), new, {OperandsOf(x) : x \in User})
  BY <1>6, <1>11, <1>12 DEF Operands!Change, Operands!Set
<1>14. u \in alive'
  BY <1>3 DEF fields
<1> QED BY <1>10, <1>13, <1>14 DEF Stepped

LEMMA SwapOperandsSteps ==
  ASSUME UInv, NEW u \in User, SwapOperands(u)
  PROVE  Stepped(u)
<1>1. Good(heap) /\ UserTypes /\ UserKept(u)
  BY UserFacts
<1>2. PICK ops : /\ Holds(heap, u, Array[u], NumOperands[u], ops)
                 /\ OperandsOf(u) = IF u \in alive THEN ops ELSE None
  BY UserFacts
<1>3. /\ u \in alive /\ u \in Binary /\ heap' = Swap(heap, UseAt(u, 1), UseAt(u, 2))
      /\ UNCHANGED fields
  BY DEF SwapOperands
<1>4. NumOperands[u] = 2
  BY <1>1, <1>3 DEF UserKept
<1>5. PICK a \in Generations : a = Array[u]
  BY <1>1, <1>4 DEF UserTypes, UserKept
<1>6. PICK new : new = [ops EXCEPT ![1] = ops[2], ![2] = ops[1]]
  OBVIOUS
<1>7. ops \in Seq(Value) /\ Len(ops) = 2 /\ Holds(heap, u, a, 2, ops)
  BY <1>2, <1>4, <1>5 DEF Holds
<1>8. Good(heap') /\ OnlyOf(heap, heap', u) /\ Holds(heap', u, a, 2, new)
  <2>1. heap' = Swap(heap, <<u, a, 1>>, <<u, a, 2>>)
    BY <1>3, <1>5 DEF UseAt
  <2> QED BY <1>1, <1>6, <1>7, <2>1, SwapsOperands
<1>9. UserTypes' /\ UserKept(u)'
  BY <1>1, <1>3 DEF UserTypes, UserKept, fields
<1>10. StepOf(u, new)
  BY <1>1, <1>3, <1>4, <1>5, <1>8, <1>9 DEF StepOf, UserTypes, fields
<1>11. OperandsOf(u) = ops /\ ops # None /\ new # None
  BY <1>2, <1>3, <1>7, <1>8, NoneIsNoSequence DEF Holds
<1>12. 1 \in DOMAIN ops /\ 2 \in DOMAIN ops
  BY <1>7, LenProperties
<1>13. Operands!Change(OperandsOf(u), new, {OperandsOf(x) : x \in User})
  BY <1>6, <1>11, <1>12 DEF Operands!Change, Operands!Swap
<1>14. u \in alive'
  BY <1>3 DEF fields
<1> QED BY <1>10, <1>13, <1>14 DEF Stepped

\* The other Users keep their operands.
LEMMA OthersKeep ==
  ASSUME UInv, NEW u \in User, NEW new, StepOf(u, new), NEW w \in User, w # u
  PROVE  /\ \E ops : Holds(heap', w, Array'[w], NumOperands'[w], ops)
         /\ UserKept(w)' /\ OperandsOf(w)' = OperandsOf(w)
<1>1. PICK ops : /\ Holds(heap, w, Array[w], NumOperands[w], ops)
                 /\ OperandsOf(w) = IF w \in alive THEN ops ELSE None
  BY UserFacts
<1>2. /\ OnlyOf(heap, heap', u) /\ UserTypes'
      /\ Array'[w] = Array[w] /\ NumOperands'[w] = NumOperands[w]
      /\ ReservedSpace'[w] = ReservedSpace[w] /\ allocated'[w] = allocated[w]
      /\ w \in alive' <=> w \in alive
  BY DEF StepOf
<1>3. Holds(heap', w, Array'[w], NumOperands'[w], ops)
  BY <1>1, <1>2 DEF Holds, OnlyOf
<1>4. UserKept(w)'
  <2>1. UserKept(w)
    BY UserFacts
  <2> QED BY <1>2, <2>1 DEF UserKept
<1>5. OperandsOf(w)' = OperandsOf(w)
  <2>1. /\ NumOperands'[w] \in 0..MaxOperands
        /\ NumOperands'[w] # 0 => Array'[w] \in Generations
    BY <1>2, <1>4 DEF UserTypes, UserKept
  <2>2. PICK f : f = [i \in 1..NumOperands'[w] |-> heap'.val[<<w, Array'[w], i>>]]
    OBVIOUS
  <2>3. f = ops
    BY <1>3, <2>1, <2>2, ReadsOperands
  <2>4. OperandsOf(w)' = IF w \in alive' THEN f ELSE None
    BY <2>2 DEF OperandsOf, UseAt
  <2> QED BY <1>1, <1>2, <2>3, <2>4
<1> QED BY <1>3, <1>4, <1>5

LEMMA StepIs ==
  ASSUME UInv, NEW u \in User, NEW new, StepOf(u, new)
  PROVE  OperandsOf(u)' = IF u \in alive' THEN new ELSE None
<1>1. Holds(heap', u, Array'[u], NumOperands'[u], new) /\ UserTypes' /\ UserKept(u)'
  BY DEF StepOf
<1>2. /\ NumOperands'[u] \in 0..MaxOperands
      /\ NumOperands'[u] # 0 => Array'[u] \in Generations
  BY <1>1 DEF UserTypes, UserKept
<1>3. PICK f : f = [i \in 1..NumOperands'[u] |-> heap'.val[<<u, Array'[u], i>>]]
  OBVIOUS
<1>4. f = new
  BY <1>1, <1>2, <1>3, ReadsOperands
<1>5. OperandsOf(u)' = IF u \in alive' THEN f ELSE None
  BY <1>3 DEF OperandsOf, UseAt
<1> QED BY <1>4, <1>5

LEMMA StepKeepsInv ==
  ASSUME UInv, NEW u \in User, NEW new, StepOf(u, new)
  PROVE  UInv'
<1>1. /\ Good(heap') /\ UserTypes' /\ UserKept(u)'
      /\ Holds(heap', u, Array'[u], NumOperands'[u], new)
  BY DEF StepOf
<1>2. ASSUME NEW w \in User
      PROVE  UserKept(w)' /\ \E ops : Holds(heap', w, Array'[w], NumOperands'[w], ops)
  <2>1. CASE w = u
    BY <1>1, <2>1
  <2>2. CASE w # u
    BY <2>2, OthersKeep
  <2> QED BY <2>1, <2>2
<1> QED BY <1>1, <1>2 DEF UInv

\* What the Users of UseLists are to OperandLists.
AllOperands == [u \in User |-> OperandsOf(u)]

ReplacesAll ==
  \E v, w \in Value :
    AllOperands' = [u \in User |->
                      IF OperandsOf(u) = None THEN None
                      ELSE [i \in DOMAIN OperandsOf(u) |->
                              IF OperandsOf(u)[i] = v THEN w ELSE OperandsOf(u)[i]]]

LEMMA ReplaceAllSteps ==
  ASSUME UInv, NEW v \in Value, NEW w \in Value, ReplaceAllUses(v, w)
  PROVE  UInv' /\ ReplacesAll
<1>1. /\ v # w /\ heap' = Replaced(heap, v, w) /\ Array' = Array /\ NumOperands' = NumOperands
      /\ ReservedSpace' = ReservedSpace /\ allocated' = allocated /\ alive' = alive
  BY DEF ReplaceAllUses, fields
<1>2. Good(heap) /\ UserTypes
  BY DEF UInv
<1>3. Good(heap')
  BY <1>1, <1>2, AllReplaced
<1>4. UserTypes'
  BY <1>1, <1>2 DEF UserTypes
<1>5. ASSUME NEW u \in User
      PROVE  /\ UserKept(u)' /\ \E ops : Holds(heap', u, Array'[u], NumOperands'[u], ops)
             /\ OperandsOf(u)' = IF OperandsOf(u) = None THEN None
                                 ELSE [i \in DOMAIN OperandsOf(u) |->
                                         IF OperandsOf(u)[i] = v THEN w ELSE OperandsOf(u)[i]]
  <2>1. UserKept(u)
    BY UserFacts
  <2>2. PICK ops : /\ Holds(heap, u, Array[u], NumOperands[u], ops)
                   /\ OperandsOf(u) = IF u \in alive THEN ops ELSE None
    BY UserFacts
  <2>3. UserKept(u)'
    BY <1>1, <2>1 DEF UserKept
  <2>4. PICK n : n = NumOperands[u]
    OBVIOUS
  <2>5. PICK new : new = [i \in 1..n |-> IF ops[i] = v THEN w ELSE ops[i]]
    OBVIOUS
  <2>6. Holds(heap', u, Array[u], n, new)
    BY <1>1, <1>2, <2>2, <2>4, <2>5, ReplacesOperands
  <2>7. /\ n \in 0..MaxOperands
        /\ n # 0 => Array[u] \in Generations
    BY <1>2, <2>1, <2>4 DEF UserTypes, UserKept
  <2>8. PICK f : f = [i \in 1..n |-> heap'.val[<<u, Array[u], i>>]]
    OBVIOUS
  <2>9. f = new
    BY <2>6, <2>7, <2>8, ReadsOperands
  <2>10. OperandsOf(u)' = IF u \in alive THEN new ELSE None
    BY <1>1, <2>4, <2>8, <2>9 DEF OperandsOf, UseAt
  <2>11. ops \in Seq(Value) /\ DOMAIN ops = 1..n /\ ops # None
    BY <2>2, <2>4, LenProperties, NoneIsNoSequence DEF Holds
  <2> QED BY <1>1, <2>2, <2>3, <2>4, <2>5, <2>6, <2>10, <2>11
<1>6. UInv'
  BY <1>3, <1>4, <1>5 DEF UInv
<1>7. ReplacesAll
  BY <1>5 DEF ReplacesAll, AllOperands
<1> QED BY <1>6, <1>7

\* Every step of one User, or of no User's operands, or of all of them.
LEMMA UseStep ==
  ASSUME UInv, Clonable \cap Switch = {}, UseNext
  PROVE  \/ \E u \in User : Stepped(u)
         \/ \E u \in User : \E new : StepOf(u, new) /\ u \in alive' /\ new = OperandsOf(u)
         \/ UInv' /\ ReplacesAll
<1>1. CASE \E u \in User : Create(u)
  BY <1>1, CreateSteps
<1>2. CASE \E u \in User : CreateBinary(u)
  BY <1>2, CreateBinarySteps
<1>3. CASE \E u \in User : DestroyUser(u)
  BY <1>3, DestroySteps
<1>4. CASE \E u \in User : SwapOperands(u)
  BY <1>4, SwapOperandsSteps
<1>5. CASE \E u \in User : \E w \in User : Clone(u, w)
  BY <1>5, CloneSteps
<1>6. CASE \E u \in User : \E v \in Value : Add(u, v)
  BY <1>6, AddSteps
<1>7. CASE \E u \in User : \E n \in 0..MaxOperands : Reserve(u, n)
  BY <1>7, ReserveSteps
<1>8. CASE \E u \in User : \E i \in 1..MaxOperands : RemoveEntry(u, i)
  BY <1>8, RemoveEntrySteps
<1>9. CASE \E u \in User : \E i \in 1..MaxOperands, v \in Value : SetOperand(u, i, v)
  BY <1>9, SetOperandSteps
<1>10. CASE \E v, w \in Value : ReplaceAllUses(v, w)
  BY <1>10, ReplaceAllSteps
<1> QED BY <1>1, <1>2, <1>3, <1>4, <1>5, <1>6, <1>7, <1>8, <1>9, <1>10 DEF UseNext

LEMMA UseInitInv == UseInit => UInv /\ AllOperands = [u \in User |-> None]
<1> SUFFICES ASSUME UseInit PROVE UInv /\ AllOperands = [u \in User |-> None]
  OBVIOUS
<1>1. /\ heap = [val |-> [x \in Uses |-> None], next |-> [x \in Uses |-> None],
                 prev |-> [x \in Uses |-> None], head |-> [v \in Value |-> None]]
      /\ Array = [u \in User |-> None] /\ NumOperands = [u \in User |-> 0]
      /\ ReservedSpace = [u \in User |-> 0] /\ allocated = [u \in User |-> 0]
      /\ alive = {}
  BY DEF UseInit
<1>2. UserTypes /\ \A u \in User : UserKept(u)
  BY <1>1, UserKinds DEF UserTypes, UserKept
<1>3. /\ UseFields(heap) /\ heap.val = [x \in Uses |-> None]
      /\ heap.head = [v \in Value |-> None]
  BY <1>1 DEF UseFields
<1>4. ASSUME NEW v \in Value PROVE \E n, l : Chained(heap, {}, v, n, l)
  <2>1. PICK l : l = [i \in 1..0 |-> None]
    OBVIOUS
  <2>2. l \in [1..0 -> Uses \ {}]
    BY <2>1
  <2>3. Chained(heap, {}, v, 0, l)
    BY <1>3, <2>2, NoneApart DEF Chained
  <2> QED BY <2>3
<1>5. Good(heap)
  BY <1>3, <1>4 DEF Good, AllChained
<1>6. ASSUME NEW u \in User PROVE Holds(heap, u, Array[u], NumOperands[u], <<>>)
  <2>1. \A b \in Generations, i \in 1..MaxOperands : heap.val[<<u, b, i>>] = None
    BY <1>3 DEF Uses
  <2> QED BY <1>1, <2>1, UserKinds DEF Holds
<1>7. AllOperands = [u \in User |-> None]
  BY <1>1 DEF AllOperands, OperandsOf
<1> QED BY <1>2, <1>5, <1>6, <1>7 DEF UInv

LEMMA UseNextInv == UInv /\ Clonable \cap Switch = {} /\ [UseNext]_useVars => UInv'
<1> SUFFICES ASSUME UInv, Clonable \cap Switch = {}, [UseNext]_useVars PROVE UInv'
  OBVIOUS
<1>1. CASE UseNext
  BY <1>1, UseStep, StepKeepsInv DEF Stepped
<1>2. CASE UNCHANGED useVars
  BY <1>2 DEF useVars, fields, UInv, UserTypes, UserKept
<1> QED BY <1>1, <1>2

LEMMA UInvMeansExact == UInv => ListsExact
<1> SUFFICES ASSUME UInv PROVE ListsExact
  OBVIOUS
<1>1. Good(heap) /\ UserTypes /\ \A u \in User : UserKept(u)
  BY DEF UInv
<1>2. WithinArray
  BY <1>1 DEF WithinArray, UserKept, UserTypes
<1>3. \A u \in User, b \in Generations, i \in 1..MaxOperands :
        heap.val[<<u, b, i>>] # None <=> b = Array[u] /\ i <= NumOperands[u]
  <2> SUFFICES ASSUME NEW u \in User, NEW b \in Generations, NEW i \in 1..MaxOperands
               PROVE  heap.val[<<u, b, i>>] # None <=> b = Array[u] /\ i <= NumOperands[u]
    OBVIOUS
  <2>1. PICK ops : Holds(heap, u, Array[u], NumOperands[u], ops)
    BY DEF UInv
  <2>2. i <= NumOperands[u] => ops[i] \in Value
    <3>1. i <= NumOperands[u] => i \in 1..Len(ops)
      BY <2>1, UserKinds DEF Holds
    <3> QED BY <2>1, <3>1, ElementOfSeq DEF Holds
  <2> QED BY <2>1, <2>2, NoneApart DEF Holds
<1>4. ASSUME NEW v \in Value
      PROVE  /\ IsInjective(ListOf(v))
             /\ ToSet(ListOf(v)) =
                  UNION {{UseAt(u, i) : i \in {j \in 1..NumOperands[u] :
                                                 heap.val[UseAt(u, j)] = v}} : u \in alive}
             /\ \A k \in DOMAIN ListOf(v) :
                  heap.prev[ListOf(v)[k]] = IF k = 1 THEN Head_(v) ELSE Next_(ListOf(v)[k - 1])
  <2>1. PICK n, l : Chained(heap, {}, v, n, l)
    BY <1>1 DEF Good, AllChained
  <2>2. ListOf(v) = l
    BY <2>1, WalkMeetsList
  <2>3. /\ n \in Nat /\ DOMAIN l = 1..n /\ \A i \in 1..n : l[i] \in Uses
        /\ \A i, j \in 1..n : l[i] = l[j] => i = j
        /\ \A i \in 1..n : /\ heap.val[l[i]] = v
                           /\ heap.prev[l[i]] = IF i = 1 THEN Head_(v) ELSE Next_(l[i - 1])
        /\ \A x \in Uses : heap.val[x] = v => \E i \in 1..n : x = l[i]
    BY <2>1 DEF Chained
  <2>4. IsInjective(l)
    BY <2>3 DEF IsInjective
  <2>5. ToSet(l) = {x \in Uses : heap.val[x] = v}
    <3>1. \A x : x \in ToSet(l) <=> \E i \in 1..n : x = l[i]
      BY <2>3 DEF ToSet
    <3> QED BY <2>3, <3>1
  <2>6. PICK all : all = UNION {{UseAt(u, i) : i \in {j \in 1..NumOperands[u] :
                                                        heap.val[UseAt(u, j)] = v}} : u \in alive}
    OBVIOUS
  <2>7. \A x : x \in all <=> \E u \in alive : \E i \in 1..NumOperands[u] :
                                x = UseAt(u, i) /\ heap.val[x] = v
    BY <2>6
  <2>8. ASSUME NEW x \in all PROVE x \in Uses /\ heap.val[x] = v
    <3>0. PICK u \in alive : \E i \in 1..NumOperands[u] : x = UseAt(u, i) /\ heap.val[x] = v
      BY <2>7
    <3>1. PICK i \in 1..NumOperands[u] : x = UseAt(u, i) /\ heap.val[x] = v
      BY <3>0
    <3>2. u \in User /\ i \in 1..MaxOperands /\ Array[u] \in Generations
      BY <1>1, UserKinds DEF UserTypes, UserKept
    <3> QED BY <3>1, <3>2 DEF UseAt, Uses
  <2>9. ASSUME NEW x \in Uses, heap.val[x] = v PROVE x \in all
    <3>1. PICK u \in User, b \in Generations, i \in 1..MaxOperands : x = <<u, b, i>>
      BY DEF Uses
    <3>2. b = Array[u] /\ i <= NumOperands[u]
      BY <1>3, <2>9, <3>1, NoneApart
    <3>3. u \in alive /\ i \in 1..NumOperands[u]
      BY <1>1, <3>2, UserKinds DEF UserKept, UserTypes
    <3> QED BY <2>7, <2>9, <3>1, <3>2, <3>3 DEF UseAt
  <2>10. ToSet(l) = all
    BY <2>5, <2>8, <2>9
  <2> QED BY <2>2, <2>3, <2>4, <2>6, <2>10
<1> QED BY <1>2, <1>4 DEF ListsExact

-----------------------------------------------------------------------------
\* The use list of every Value has exactly the operands that refer to it, and
\* every Prev in it is the place that points to the Use (Use::addToList,
\* removeFromList), whatever Users and Values there are, as long as no switch
\* is copied.
THEOREM UseListsExact ==
  ASSUME Clonable \cap Switch = {}
  PROVE  UseSpec => []ListsExact
<1>1. UseInit => UInv
  BY UseInitInv
<1>2. UInv /\ [UseNext]_useVars => UInv'
  BY UseNextInv
<1>3. UInv => ListsExact
  BY UInvMeansExact
<1> QED BY <1>1, <1>2, <1>3, PTL DEF UseSpec

LEMMA UseStepIsOperandStep ==
  ASSUME UInv, Clonable \cap Switch = {}, [UseNext]_useVars
  PROVE  [Operands!Next]_AllOperands
<1>0. \A u \in User : AllOperands[u] = OperandsOf(u) /\ AllOperands'[u] = OperandsOf(u)'
  BY DEF AllOperands
<1>1. CASE UNCHANGED useVars
  BY <1>1 DEF useVars, fields, AllOperands, OperandsOf, UseAt
<1>2. CASE UseNext
  <2>1. CASE \E u \in User : Stepped(u)
    <3>1. PICK u \in User : Stepped(u)
      BY <2>1
    <3>2. PICK new : /\ StepOf(u, new)
                     /\ Operands!Change(OperandsOf(u), IF u \in alive' THEN new ELSE None,
                                        {OperandsOf(w) : w \in User})
      BY <3>1 DEF Stepped
    <3>3. \A w \in User \ {u} : OperandsOf(w)' = OperandsOf(w)
      BY <3>2, OthersKeep
    <3>4. OperandsOf(u)' = IF u \in alive' THEN new ELSE None
      BY <3>2, StepIs
    <3>5. {OperandsOf(w) : w \in User} = {AllOperands[w] : w \in User}
      BY <1>0
    <3>6. Operands!Change(AllOperands[u], AllOperands'[u], {AllOperands[w] : w \in User})
      BY <1>0, <3>2, <3>4, <3>5
    <3>7. \A w \in User \ {u} : AllOperands'[w] = AllOperands[w]
      BY <1>0, <3>3
    <3> QED BY <3>6, <3>7 DEF Operands!Next, AllOperands, OperandsOf
  <2>2. CASE \E u \in User : \E new : StepOf(u, new) /\ u \in alive' /\ new = OperandsOf(u)
    <3>0. PICK u \in User : \E new : StepOf(u, new) /\ u \in alive' /\ new = OperandsOf(u)
      BY <2>2
    <3>1. PICK new : StepOf(u, new) /\ u \in alive' /\ new = OperandsOf(u)
      BY <3>0
    <3>2. \A w \in User \ {u} : OperandsOf(w)' = OperandsOf(w)
      BY <3>1, OthersKeep
    <3>3. OperandsOf(u)' = OperandsOf(u)
      BY <3>1, StepIs
    <3>4. AllOperands' = AllOperands
      BY <3>2, <3>3 DEF AllOperands
    <3> QED BY <3>4
  <2>3. CASE ReplacesAll
    <3>1. PICK v \in Value, w \in Value :
            AllOperands' = [u \in User |->
                              IF OperandsOf(u) = None THEN None
                              ELSE [i \in DOMAIN OperandsOf(u) |->
                                      IF OperandsOf(u)[i] = v THEN w ELSE OperandsOf(u)[i]]]
      BY <2>3 DEF ReplacesAll
    <3>2. AllOperands' = [u \in User |->
                            IF AllOperands[u] = None THEN None
                            ELSE [i \in DOMAIN AllOperands[u] |->
                                    IF AllOperands[u][i] = v THEN w ELSE AllOperands[u][i]]]
      BY <1>0, <3>1
    <3>3. Operands!Replace(AllOperands, AllOperands')
      BY <3>2 DEF Operands!Replace
    <3> QED BY <3>3 DEF Operands!Next, AllOperands, OperandsOf
  <2> QED BY <1>2, <2>1, <2>2, <2>3, UseStep
<1> QED BY <1>1, <1>2

\* The operands of every User change as the operations promise, wherever its
\* Uses are and however the lists are chained (Use::set, resizeOperands).
THEOREM OperandsAreKept ==
  ASSUME Clonable \cap Switch = {}
  PROVE  UseSpec => OperandsKept
<1>1. UseInit => UInv /\ Operands!Init
  BY UseInitInv DEF Operands!Init, AllOperands, OperandsOf
<1>2. UInv /\ [UseNext]_useVars => UInv'
  BY UseNextInv
<1>3. UInv /\ [UseNext]_useVars => [Operands!Next]_AllOperands
  BY UseStepIsOperandStep
<1>4. AllOperands = [u \in User |->
                       IF u \in alive THEN [i \in 1..NumOperands[u] |-> heap.val[UseAt(u, i)]]
                       ELSE None]
  BY DEF AllOperands, OperandsOf
<1> QED BY <1>1, <1>2, <1>3, <1>4, PTL
   DEF UseSpec, OperandsKept, Operands!Spec, AllOperands, OperandsOf

-----------------------------------------------------------------------------
(***************************************************************************)
(* Waymarking.  code[p] is what initTags has left to write, Count, when it  *)
(* comes to Use p: the distance from the last stop to the User, without the *)
(* digits that are already written.                                         *)
(***************************************************************************)
NextCode(p, x) == IF x = 0 THEN Size - p ELSE x \div 2

Coded(code) ==
  /\ DOMAIN code = Stop..(Size - 1) /\ \A p \in Stop..(Size - 1) : code[p] \in Nat
  /\ Stop # Size => code[Size - 1] = 0
  /\ \A p \in Stop..(Size - 1) :
       /\ p # Stop => code[p - 1] = NextCode(p, code[p])
       /\ tag[p] = IF code[p] # 0 THEN code[p] % 2
                   ELSE IF p = Size - 1 THEN Way!fullStopTag ELSE Way!stopTag
  /\ Count = IF Stop = Size THEN 0 ELSE NextCode(Stop, code[Stop])

WayTypes ==
  /\ Size \in Nat \ {0} /\ Stop \in 0..Size /\ Done = Size - Stop
  /\ Count \in Nat /\ Current \in Nat /\ Offset \in Nat
  /\ phase \in {"init", "seek", "decode", "found"}
  /\ DOMAIN tag = Stop..(Size - 1)
  /\ phase # "init" => Stop = 0

\* While digits are read, Offset is the code of the Use before.
Reading(code) ==
  phase = "decode" => Current # 0 /\ code[Current - 1] = Offset /\ Offset # 0

WayInv == WayTypes /\ LeadsHome /\ \E code : Coded(code) /\ Reading(code)

LEMMA Halves ==
  ASSUME NEW c \in Nat
  PROVE  c \div 2 \in Nat /\ c % 2 \in {0, 1} /\ c = 2 * (c \div 2) + (c % 2)
BY SMT

LEMMA WayInitInv == Way!Init => WayInv
<1> SUFFICES ASSUME Way!Init PROVE WayInv
  OBVIOUS
<1>1. /\ Size \in Nat \ {0} /\ tag = [i \in {} |-> 0] /\ Stop = Size /\ Done = 0 /\ Count = 0
      /\ Current = 0 /\ Offset = 0 /\ phase = "init"
  BY WayAssumption DEF Way!Init, Way!SizesAssumption
<1>2. Size..(Size - 1) = {}
  BY <1>1
<1>3. WayTypes
  BY <1>1, <1>2 DEF WayTypes
<1>4. PICK code : code = [i \in Size..(Size - 1) |-> 0]
  OBVIOUS
<1>5. Coded(code)
  BY <1>1, <1>2, <1>4 DEF Coded
<1>6. LeadsHome /\ Reading(code)
  BY <1>1 DEF LeadsHome, Way!LeadsHome, Reading
<1> QED BY <1>3, <1>5, <1>6 DEF WayInv

LEMMA InitTagsKeepsWay == ASSUME WayInv, Way!InitTags PROVE WayInv'
<1>1. PICK code : Coded(code)
  BY DEF WayInv
<1>2. /\ phase = "init" /\ Stop # 0 /\ Stop' = Stop - 1 /\ Done' = Done + 1
      /\ UNCHANGED <<Size, Current, Offset, phase>>
      /\ Count' = IF Count = 0 THEN Done + 1 ELSE Count \div 2
      /\ tag' = [i \in DOMAIN tag \cup {Stop - 1} |->
                   IF i # Stop - 1 THEN tag[i]
                   ELSE IF Count # 0 THEN Count % 2
                   ELSE IF Done = 0 THEN Way!fullStopTag ELSE Way!stopTag]
  BY DEF Way!InitTags, Way!Mark
<1>3. WayTypes
  BY DEF WayInv
<1>4. PICK q \in Nat : q = Stop - 1 /\ q < Size /\ Stop = q + 1
  BY <1>2, <1>3 DEF WayTypes
<1>5. Stop..(Size - 1) \cup {q} = q..(Size - 1) /\ q \notin Stop..(Size - 1)
  BY <1>3, <1>4 DEF WayTypes
<1>6. Count \in Nat /\ Count \div 2 \in Nat
  BY <1>3, Halves DEF WayTypes
<1>7. WayTypes'
  BY <1>2, <1>3, <1>4, <1>5, <1>6 DEF WayTypes
<1>8. PICK new : new = [p \in q..(Size - 1) |-> IF p = q THEN Count ELSE code[p]]
  OBVIOUS
<1>9. /\ DOMAIN code = Stop..(Size - 1) /\ \A p \in Stop..(Size - 1) : code[p] \in Nat
      /\ Stop # Size => code[Size - 1] = 0
      /\ \A p \in Stop..(Size - 1) :
           /\ p # Stop => code[p - 1] = NextCode(p, code[p])
           /\ tag[p] = IF code[p] # 0 THEN code[p] % 2
                       ELSE IF p = Size - 1 THEN Way!fullStopTag ELSE Way!stopTag
      /\ Count = IF Stop = Size THEN 0 ELSE NextCode(Stop, code[Stop])
  BY <1>1 DEF Coded
<1>10. /\ DOMAIN new = q..(Size - 1) /\ new[q] = Count
       /\ \A p \in Stop..(Size - 1) : new[p] = code[p] /\ p \in q..(Size - 1)
  BY <1>3, <1>4, <1>8 DEF WayTypes
<1>11. \A p \in q..(Size - 1) : p = q \/ p \in Stop..(Size - 1)
  BY <1>3, <1>4 DEF WayTypes
<1>12. \A p \in q..(Size - 1) : new[p] \in Nat
  BY <1>6, <1>9, <1>10, <1>11
<1>13. new[Size - 1] = 0
  <2>1. CASE Stop = Size
    <3>1. Size - 1 = q
      BY <1>3, <1>4, <2>1 DEF WayTypes
    <3> QED BY <1>9, <1>10, <2>1, <3>1
  <2>2. CASE Stop # Size
    <3>1. Size - 1 \in Stop..(Size - 1)
      BY <1>3, <2>2 DEF WayTypes
    <3> QED BY <1>9, <1>10, <2>2, <3>1
  <2> QED BY <2>1, <2>2
<1>14. ASSUME NEW p \in q..(Size - 1)
       PROVE  /\ p # q => new[p - 1] = NextCode(p, new[p])
              /\ tag'[p] = IF new[p] # 0 THEN new[p] % 2
                           ELSE IF p = Size - 1 THEN Way!fullStopTag ELSE Way!stopTag
  <2>1. CASE p = q
    <3>1. tag'[q] = IF Count # 0 THEN Count % 2
                    ELSE IF Done = 0 THEN Way!fullStopTag ELSE Way!stopTag
      BY <1>2, <1>4
    <3>2. Done = 0 <=> q = Size - 1
      BY <1>3, <1>4 DEF WayTypes
    <3> QED BY <1>10, <2>1, <3>1, <3>2
  <2>2. CASE p # q
    <3>1. p \in Stop..(Size - 1) /\ p # Stop - 1 /\ p \in DOMAIN tag
      BY <1>3, <1>4, <1>11, <2>2 DEF WayTypes
    <3>2. tag'[p] = tag[p] /\ new[p] = code[p]
      BY <1>2, <1>10, <3>1
    <3>3. new[p - 1] = NextCode(p, new[p])
      <4>1. CASE p = Stop
        <5>1. p - 1 = q /\ Stop # Size
          BY <1>3, <1>4, <3>1, <4>1 DEF WayTypes
        <5> QED BY <1>9, <1>10, <3>2, <4>1, <5>1
      <4>2. CASE p # Stop
        <5>1. p - 1 \in Stop..(Size - 1)
          BY <1>3, <3>1, <4>2 DEF WayTypes
        <5> QED BY <1>9, <1>10, <3>1, <3>2, <4>2, <5>1
      <4> QED BY <4>1, <4>2
    <3> QED BY <1>9, <3>1, <3>2, <3>3
  <2> QED BY <2>1, <2>2
<1>15. Count' = NextCode(q, new[q])
  <2>1. Done + 1 = Size - q
    BY <1>3, <1>4 DEF WayTypes
  <2> QED BY <1>2, <1>10, <2>1 DEF NextCode
<1>16. Coded(new)'
  <2>1. Stop' = q /\ Size' = Size /\ q # Size
    BY <1>2, <1>3, <1>4 DEF WayTypes
  <2>2. \A p, x : NextCode(p, x)' = NextCode(p, x)
    BY <2>1 DEF NextCode
  <2> QED BY <1>10, <1>12, <1>13, <1>14, <1>15, <2>1 DEF Coded, NextCode
<1>17. LeadsHome' /\ Reading(new)'
  BY <1>2 DEF LeadsHome, Way!LeadsHome, Reading
<1> QED BY <1>7, <1>16, <1>17 DEF WayInv

\* The Uses do not change any more.
LEMMA CodesStay ==
  ASSUME NEW code, Coded(code), UNCHANGED <<Size, tag, Stop, Count>>
  PROVE  Coded(code)'
BY DEF Coded, NextCode

\* What a tag says, once all are written.
LEMMA TagsMean ==
  ASSUME NEW code, Coded(code), WayTypes, Stop = 0, NEW p \in 0..(Size - 1)
  PROVE  /\ code[p] \in Nat
         /\ tag[p] \in Way!Digits <=> code[p] # 0
         /\ tag[p] \in Way!Digits => p + 1 < Size /\ tag[p] = code[p] % 2
         /\ tag[p] = Way!stopTag => code[p] = 0 /\ p # Size - 1
         /\ tag[p] = Way!fullStopTag => p = Size - 1
<1>1. p \in Stop..(Size - 1) /\ Size \in Nat \ {0} /\ Stop # Size
  BY DEF WayTypes
<1>2. /\ code[p] \in Nat /\ code[Size - 1] = 0
      /\ tag[p] = IF code[p] # 0 THEN code[p] % 2
                  ELSE IF p = Size - 1 THEN Way!fullStopTag ELSE Way!stopTag
  BY <1>1 DEF Coded
<1>3. PICK d \in {0, 1} : d = code[p] % 2
  BY <1>2, Halves
<1>4. /\ tag[p] = IF code[p] # 0 THEN d ELSE IF p = Size - 1 THEN 3 ELSE 2
      /\ Way!Digits = {0, 1} /\ Way!stopTag = 2 /\ Way!fullStopTag = 3
  BY <1>2, <1>3 DEF Way!Digits, Way!stopTag, Way!fullStopTag
<1>5. code[p] # 0 => p + 1 < Size
  BY <1>1, <1>2
<1> QED BY <1>2, <1>3, <1>4, <1>5

LEMMA WalkKeepsWay ==
  ASSUME WayInv,
         \/ \E i \in 0..(Size - 1) : Way!Ask(i)
         \/ Way!Seek \/ Way!Stopped \/ Way!FullStopped \/ Way!Decode \/ Way!Decoded
  PROVE  WayInv'
<1>1. PICK code : Coded(code) /\ Reading(code)
  BY DEF WayInv
<1>2. WayTypes /\ LeadsHome
  BY DEF WayInv
<1>3. UNCHANGED <<Size, tag, Stop, Done, Count>>
  BY DEF Way!Ask, Way!Seek, Way!Stopped, Way!FullStopped, Way!Decode, Way!Decoded
<1>4. Coded(code)'
  BY <1>1, <1>3, CodesStay
<1>5. Size \in Nat \ {0} /\ Current \in Nat /\ Offset \in Nat
  BY <1>2 DEF WayTypes
<1>6. /\ phase \in {"seek", "decode"} => Current \in 0..(Size - 1) /\ Stop = 0
      /\ phase = "found" => Current = Size
  BY <1>2, <1>5 DEF WayTypes, LeadsHome, Way!LeadsHome
<1>7. /\ Current' \in Nat /\ Offset' \in Nat
      /\ phase' \in {"seek", "decode", "found"} /\ Stop = 0
      /\ phase' \in {"seek", "decode"} => Current' < Size
      /\ phase' = "found" => Current' = Size
      /\ phase' = "decode" => Current' # 0 /\ code[Current' - 1] = Offset' /\ Offset' # 0
  <2>1. CASE \E i \in 0..(Size - 1) : Way!Ask(i)
    BY <1>5, <2>1 DEF Way!Ask
  <2>2. CASE Way!Seek
    <3>1. phase = "seek" /\ tag[Current] \in Way!Digits /\ Current' = Current + 1
          /\ phase' = phase /\ Offset' = Offset
      BY <2>2 DEF Way!Seek
    <3>2. Current + 1 < Size
      BY <1>1, <1>2, <1>6, <3>1, TagsMean
    <3> QED BY <1>5, <1>6, <3>1, <3>2
  <2>3. CASE Way!Stopped
    <3>1. phase = "seek" /\ tag[Current] = Way!stopTag /\ Current' = Current + 2
          /\ Offset' = 1 /\ phase' = "decode"
      BY <2>3 DEF Way!Stopped
    <3>2. code[Current] = 0 /\ Current # Size - 1
      BY <1>1, <1>2, <1>6, <3>1, TagsMean
    <3>3. PICK q \in 0..(Size - 1) : q = Current + 1
      BY <1>5, <1>6, <3>1, <3>2
    <3>4. q \in Stop..(Size - 1) /\ q # Stop /\ q - 1 = Current
      BY <1>5, <1>6, <3>1, <3>3
    <3>5. code[Current] = IF code[q] = 0 THEN Size - q ELSE code[q] \div 2
      BY <1>1, <3>4 DEF Coded, NextCode
    <3>6. PICK c \in Nat : c = code[q]
      BY <1>1, <3>4 DEF Coded
    <3>7. c # 0 /\ c \div 2 = 0
      <4>1. Size - q # 0
        BY <1>5, <3>3
      <4> QED BY <3>2, <3>5, <3>6, <4>1
    <3>8. c = 1
      BY <3>7, Halves
    <3>9. q # Size - 1
      <4>1. code[Size - 1] = 0
        BY <1>1, <1>5, <1>6, <3>1 DEF Coded
      <4> QED BY <3>6, <3>7, <4>1
    <3>10. Current' < Size /\ Current' - 1 = q /\ Current' \in Nat /\ Current' # 0
      BY <1>5, <3>1, <3>3, <3>9
    <3>11. code[Current' - 1] = Offset'
      BY <3>1, <3>6, <3>8, <3>10
    <3> QED BY <1>6, <3>1, <3>10, <3>11
  <2>4. CASE Way!FullStopped
    <3>1. phase = "seek" /\ tag[Current] = Way!fullStopTag /\ Current' = Current + 1
          /\ phase' = "found" /\ Offset' = Offset
      BY <2>4 DEF Way!FullStopped
    <3>2. Current = Size - 1
      BY <1>1, <1>2, <1>6, <3>1, TagsMean
    <3> QED BY <1>5, <1>6, <3>1, <3>2
  <2>5. CASE Way!Decode
    <3>1. phase = "decode" /\ tag[Current] \in Way!Digits /\ Current' = Current + 1
          /\ Offset' = 2 * Offset + tag[Current] /\ phase' = phase
      BY <2>5 DEF Way!Decode
    <3>2. Current + 1 < Size /\ tag[Current] = code[Current] % 2 /\ code[Current] # 0
          /\ code[Current] \in Nat
      BY <1>1, <1>2, <1>6, <3>1, TagsMean
    <3>3. Current # 0 /\ code[Current - 1] = Offset
      BY <1>1, <3>1 DEF Reading
    <3>4. Current \in Stop..(Size - 1) /\ Current # Stop
      BY <1>6, <3>1, <3>3
    <3>5. Offset = code[Current] \div 2
      BY <1>1, <3>2, <3>3, <3>4 DEF Coded, NextCode
    <3>6. Offset' = code[Current]
      <4>1. PICK c \in Nat : c = code[Current]
        BY <3>2
      <4>2. c = 2 * (c \div 2) + (c % 2)
        BY Halves
      <4> QED BY <3>1, <3>2, <3>5, <4>1, <4>2
    <3>7. Current' - 1 = Current /\ Current' \in Nat /\ Current' # 0
      BY <1>5, <3>1
    <3> QED BY <1>6, <3>1, <3>2, <3>6, <3>7
  <2>6. CASE Way!Decoded
    <3>1. phase = "decode" /\ tag[Current] \notin Way!Digits /\ Current' = Current + Offset
          /\ phase' = "found" /\ Offset' = Offset
      BY <2>6 DEF Way!Decoded
    <3>2. code[Current] = 0
      BY <1>1, <1>2, <1>6, <3>1, TagsMean
    <3>3. Current # 0 /\ code[Current - 1] = Offset
      BY <1>1, <3>1 DEF Reading
    <3>4. Current \in Stop..(Size - 1) /\ Current # Stop
      BY <1>6, <3>1, <3>3
    <3>5. Offset = Size - Current
      BY <1>1, <3>2, <3>3, <3>4 DEF Coded, NextCode
    <3>6. Current + Offset = Size
      BY <1>5, <3>5
    <3> QED BY <1>5, <1>6, <3>1, <3>6
  <2> QED BY <2>1, <2>2, <2>3, <2>4, <2>5, <2>6
<1>8. WayTypes'
  BY <1>2, <1>3, <1>7 DEF WayTypes
<1>9. LeadsHome' /\ Reading(code)'
  BY <1>3, <1>7 DEF LeadsHome, Way!LeadsHome, Reading
<1> QED BY <1>4, <1>8, <1>9 DEF WayInv

LEMMA WayNextInv == WayInv /\ [Way!Next]_(Way!vars) => WayInv'
<1> SUFFICES ASSUME WayInv, [Way!Next]_(Way!vars) PROVE WayInv'
  OBVIOUS
<1>1. CASE Way!Next
  BY <1>1, InitTagsKeepsWay, WalkKeepsWay DEF Way!Next
<1>2. CASE UNCHANGED Way!vars
  BY <1>2 DEF Way!vars, WayInv, WayTypes, LeadsHome, Way!LeadsHome, Coded, NextCode, Reading
<1> QED BY <1>1, <1>2

\* From every Use of every User, whatever the number of its Uses, the walk of
\* getImpliedUser ends at the User, and reads nothing but Uses of that User.
THEOREM WaymarksLeadHome == Way!Spec => []LeadsHome
<1>1. WayInv => LeadsHome
  BY DEF WayInv
<1> QED BY <1>1, WayInitInv, WayNextInv, PTL DEF Way!Spec
=====
