------------------------ MODULE ManagedStatic_proofs ------------------------
(***************************************************************************)
(* Proofs about ManagedStatic, for any threads and statics.                *)
(*                                                                         *)
(* The inductive invariant has five parts: the frames of a thread are a    *)
(* stack ordered by Rank; the lock counts the frames inside it; outside    *)
(* phase "run" only Main has frames, below the static that dies; what      *)
(* waits in a buffer, and what is published, is complete.  On it rest the  *)
(* invariants of the second half: how many objects there are, that         *)
(* StaticList is what it should be, and the order of its statics, by which *)
(* StaticLifetime is implemented.                                          *)
(***************************************************************************)
EXTENDS ManagedStatic, Recursion_proofs

Active(t) == {s \in Statics : pc[t][s] # "idle"}

\* The frames of t: top has the least Rank, caller is the next, and so on.
Stacked(t) ==
  /\ top[t] = NULL => Active(t) = {}
  /\ top[t] # NULL =>
       /\ top[t] \in Active(t)
       /\ \A r \in Active(t) : r # top[t] => Rank[top[t]] < Rank[r]
  /\ \A s \in Active(t) :
       /\ caller[t][s] = NULL => \A r \in Active(t) : r # s => Rank[r] < Rank[s]
       /\ caller[t][s] # NULL =>
            /\ caller[t][s] \in Active(t)
            /\ Rank[s] < Rank[caller[t][s]]
            /\ \A r \in Active(t) :
                 r # s /\ r # caller[t][s] =>
                   Rank[r] < Rank[s] \/ Rank[caller[t][s]] < Rank[r]

StackInv ==
  \A t \in Threads :
    /\ Stacked(t)
    /\ \A s \in Statics : uses[t][s] \subseteq CreatorUses[s]

\* Where a frame is, and in which mode.
ModeInv ==
  \A t \in Threads, s \in Statics :
    /\ pc[t][s] \in {"acquire", "check", "fence", "release"} => mode
    /\ ~mode /\ t # Main => pc[t][s] = "idle"

LockInv ==
  mode =>
    /\ \A t \in Threads : LockedFrames(t) # {} => holder = t
    /\ holder = NULL => depth = 0
    /\ holder # NULL => depth = Cardinality(LockedFrames(holder)) /\ depth # 0

PhaseInv ==
  /\ \A t \in Threads :
       /\ phase # "run" /\ t # Main => Active(t) = {}
       /\ phase = "shutdown" => Active(t) = {}
  /\ phase = "delete" =>
       /\ dying \in Statics
       /\ \A d \in dyingUses : Rank[d] < Rank[dying]
       /\ \A s \in Active(Main) : Rank[s] < Rank[dying]
  /\ phase # "delete" => dying = NULL

\* A buffered store belongs to a thread inside the lock; a Ptr that is stored
\* or waits to be points to an object that is in memory.
MemoryInv ==
  /\ \A t \in Threads : buffer[t] # {} => mode /\ LockedFrames(t) # {}
  /\ \A s \in Statics : ptr[s] => object[s] = "built" \/ dying = s
  /\ \A t \in Threads, s \in Statics :
       /\ Ptr(s) \in buffer[t] => object[s] = "built"
       /\ pc[t][s] = "fence" => object[s] = "built" \/ Obj(s) \in buffer[t]
       /\ pc[t][s] = "publish" => object[s] = "built"
       /\ pc[t][s] \in {"link", "release", "use"} => SeesPtr(t, s)

IInv == TypeOK /\ StackInv /\ ModeInv /\ LockInv /\ PhaseInv /\ MemoryInv

-----------------------------------------------------------------------------
\* Both relations between statics descend in Rank.
LEMMA RankDescends ==
  ASSUME NEW s \in Statics, NEW d \in CreatorUses[s] \cup DeleterUses[s]
  PROVE  d \in Statics /\ Rank[d] \in Nat /\ Rank[s] \in Nat /\ Rank[d] < Rank[s]
BY StaticsAssumption, AcyclicAssumption

\* What Goto does to every pc.
LEMMA GotoMoves ==
  ASSUME TypeOK, NEW t \in Threads, NEW s \in Statics, NEW w \in PCs, Goto(t, s, w)
  PROVE  /\ pc' \in [Threads -> [Statics -> PCs]]
         /\ \A u \in Threads, r \in Statics :
              pc'[u][r] = IF u = t /\ r = s THEN w ELSE pc[u][r]
BY DEF TypeOK, Goto

\* The initial states satisfy the invariant.
LEMMA InitIInv == Init => IInv
<1> SUFFICES ASSUME Init PROVE IInv
  OBVIOUS
<1> USE StaticsAssumption DEF Init
<1>1. TypeOK
  <2>1. /\ ptr \in [Statics -> BOOLEAN]
        /\ deleterFn \in [Statics -> BOOLEAN]
    BY Zenon
  <2>2. /\ buffer \in [Threads -> SUBSET Cells]
        /\ pc \in [Threads -> [Statics -> PCs]]
        /\ caller \in [Threads -> [Statics -> Statics \cup {NULL}]]
    BY DEF PCs
  <2>3. /\ uses \in [Threads -> [Statics -> SUBSET Statics]]
        /\ top \in [Threads -> Statics \cup {NULL}]
        /\ object \in [Statics -> {"none", "built", "dying"}]
        /\ next \in [Statics -> Statics \cup {NULL}]
        /\ live \in [Statics -> Int]
    OBVIOUS
  <2> QED
    BY <2>1, <2>2, <2>3 DEF TypeOK
<1>2. StackInv
  BY DEF StackInv, Stacked, Active
<1>3. ModeInv
  BY DEF ModeInv
<1>4. LockInv
  BY DEF LockInv
<1>5. PhaseInv
  BY DEF PhaseInv, Active
<1>6. MemoryInv
  BY DEF MemoryInv
<1> QED
  BY <1>1, <1>2, <1>3, <1>4, <1>5, <1>6 DEF IInv

-----------------------------------------------------------------------------
(***************************************************************************)
(* What steps that move a frame, and steps that move none, leave alone.    *)
(***************************************************************************)
\* A frame that moves but neither starts nor returns.
LEMMA ActiveKept ==
  ASSUME TypeOK, NEW t \in Threads, NEW s \in Statics, NEW w \in PCs,
         Goto(t, s, w), pc[t][s] # "idle", w # "idle"
  PROVE  \A u \in Threads : Active(u)' = Active(u)
BY GotoMoves DEF Active

\* A frame that moves but neither takes nor releases the lock.
LEMMA LockedKept ==
  ASSUME TypeOK, NEW t \in Threads, NEW s \in Statics, NEW w \in PCs,
         Goto(t, s, w), pc[t][s] \in Locked <=> w \in Locked
  PROVE  \A u \in Threads : LockedFrames(u)' = LockedFrames(u)
BY GotoMoves DEF LockedFrames

\* With the same frames on it the stack is still a stack.
LEMMA StackKept ==
  ASSUME StackInv, UNCHANGED <<caller, top>>,
         \A u \in Threads : Active(u)' = Active(u),
         \A u \in Threads, r \in Statics : uses'[u][r] \subseteq CreatorUses[r]
  PROVE  StackInv'
BY DEF StackInv, Stacked, Active

\* With the same frames inside it the lock is still balanced.
LEMMA LockKept ==
  ASSUME TypeOK, LockInv, UNCHANGED lockVars,
         mode => \A u \in Threads : LockedFrames(u)' = LockedFrames(u)
  PROVE  LockInv'
BY DEF TypeOK, LockInv, lockVars

\* What Main does is not affected by frames that only move.
LEMMA PhaseKept ==
  ASSUME PhaseInv, UNCHANGED <<phase, dying>>, dyingUses' \subseteq dyingUses,
         \A u \in Threads : Active(u)' \subseteq Active(u)
  PROVE  PhaseInv'
BY StaticsAssumption DEF PhaseInv

\* Only a frame that moves changes what is known of the mode.
LEMMA ModeKept ==
  ASSUME TypeOK, ModeInv, UNCHANGED mode,
         NEW t \in Threads, NEW s \in Statics, NEW w \in PCs,
         Goto(t, s, w), pc[t][s] # "idle",
         w \in {"acquire", "check", "fence", "release"} => mode
  PROVE  ModeInv'
BY GotoMoves DEF ModeInv

\* A frame that reaches a place must know what is in memory there.
LEMMA MemoryKept ==
  ASSUME TypeOK, MemoryInv, UNCHANGED <<mode, ptr, object, buffer, dying>>,
         NEW t \in Threads, NEW s \in Statics, NEW w \in PCs, Goto(t, s, w),
         buffer[t] # {} => LockedFrames(t)' # {},
         w = "fence" => object[s] = "built" \/ Obj(s) \in buffer[t],
         w = "publish" => object[s] = "built",
         w \in {"link", "release", "use"} => SeesPtr(t, s)
  PROVE  MemoryInv'
<1>1. \A u \in Threads : u # t => LockedFrames(u)' = LockedFrames(u)
  BY GotoMoves DEF LockedFrames
<1>2. \A u \in Threads : buffer'[u] # {} => mode' /\ LockedFrames(u)' # {}
  BY <1>1 DEF MemoryInv
<1>3. \A r \in Statics : ptr'[r] => object'[r] = "built" \/ dying' = r
  BY DEF MemoryInv
<1>4. ASSUME NEW u \in Threads, NEW r \in Statics
      PROVE  /\ Ptr(r) \in buffer'[u] => object'[r] = "built"
             /\ pc'[u][r] = "fence" => object'[r] = "built" \/ Obj(r) \in buffer'[u]
             /\ pc'[u][r] = "publish" => object'[r] = "built"
             /\ pc'[u][r] \in {"link", "release", "use"} => SeesPtr(u, r)'
  BY <1>4, GotoMoves DEF MemoryInv, SeesPtr
<1> QED
  BY <1>2, <1>3, <1>4 DEF MemoryInv, Obj, Ptr

\* A frame that moves on, keeps or does not have the lock, and stores nothing.
LEMMA FrameMoves ==
  ASSUME IInv, UNCHANGED <<lockVars, memVars, caller, top, mainVars>>,
         \A u \in Threads, r \in Statics : uses'[u][r] \subseteq CreatorUses[r],
         NEW t \in Threads, NEW s \in Statics, NEW w \in PCs, Goto(t, s, w),
         pc[t][s] # "idle", w # "idle", mode => (pc[t][s] \in Locked <=> w \in Locked),
         w \in {"acquire", "check", "fence", "release"} => mode,
         w = "fence" => object[s] = "built" \/ Obj(s) \in buffer[t],
         w = "publish" => object[s] = "built",
         w \in {"link", "release", "use"} => SeesPtr(t, s)
  PROVE  StackInv' /\ ModeInv' /\ LockInv' /\ PhaseInv' /\ MemoryInv'
<1>1. /\ \A u \in Threads : Active(u)' = Active(u)
      /\ mode => \A u \in Threads : LockedFrames(u)' = LockedFrames(u)
  BY ActiveKept, LockedKept DEF IInv
<1>2. StackInv'
  BY <1>1, StackKept DEF IInv
<1>3. ModeInv'
  BY ModeKept DEF IInv, lockVars
<1>4. LockInv'
  BY <1>1, LockKept DEF IInv
<1>5. PhaseInv'
  BY <1>1, PhaseKept DEF IInv, mainVars
<1>6. MemoryInv'
  BY <1>1, MemoryKept DEF IInv, MemoryInv, lockVars, memVars, mainVars
<1> QED
  BY <1>2, <1>3, <1>4, <1>5, <1>6

-----------------------------------------------------------------------------
(***************************************************************************)
(* One lemma per action: the steps of a frame.                             *)
(***************************************************************************)
LEMMA ReadStep ==
  ASSUME IInv, NEW t \in Threads, NEW s \in Statics, Read(t, s)
  PROVE  IInv'
<1> DEFINE w == IF SeesPtr(t, s) THEN "use" ELSE "register"
<1>1. /\ Goto(t, s, w) /\ w \in PCs /\ w # "idle" /\ w \notin Locked
      /\ pc[t][s] = "read" /\ pc[t][s] \notin Locked
  BY DEF Read, Running, PCs, Locked
<1>2. UNCHANGED <<lockVars, memVars, listVars, caller, top, uses, mainVars>>
  BY DEF Read
<1>3. TypeOK'
  BY <1>1, <1>2, GotoMoves DEF IInv, TypeOK, lockVars, memVars, listVars, mainVars
<1> QED
  BY <1>1, <1>2, <1>3, FrameMoves DEF IInv, StackInv

\* A constructor that begins has yet to use what it uses.
LEMMA BeginCreateUses ==
  ASSUME TypeOK, StackInv, NEW t \in Threads, NEW s \in Statics, BeginCreate(t, s)
  PROVE  /\ uses' \in [Threads -> [Statics -> SUBSET Statics]]
         /\ \A u \in Threads, r \in Statics : uses'[u][r] \subseteq CreatorUses[r]
<1>1. CreatorUses[s] \in SUBSET Statics
  BY StaticsAssumption
<1>2. \A u \in Threads, r \in Statics :
        uses'[u][r] = IF u = t /\ r = s THEN CreatorUses[s] ELSE uses[u][r]
  BY DEF BeginCreate, TypeOK
<1>3. uses' \in [Threads -> [Statics -> SUBSET Statics]]
  BY <1>1 DEF BeginCreate, TypeOK
<1> QED
  BY <1>2, <1>3 DEF StackInv

LEMMA RegisterStep ==
  ASSUME IInv, NEW t \in Threads, NEW s \in Statics, Register(t, s)
  PROVE  IInv'
<1> DEFINE w == IF mode THEN "acquire" ELSE "create"
<1>1. /\ Goto(t, s, w) /\ w \in PCs /\ w # "idle"
      /\ pc[t][s] = "register" /\ pc[t][s] \notin Locked
  BY DEF Register, Running, PCs, Locked
<1>2. UNCHANGED <<lockVars, memVars, listVars, caller, top, mainVars>>
  BY DEF Register
<1>3. /\ uses' \in [Threads -> [Statics -> SUBSET Statics]]
      /\ \A u \in Threads, r \in Statics : uses'[u][r] \subseteq CreatorUses[r]
  <2>1. CASE mode
    BY <2>1 DEF Register, IInv, TypeOK, StackInv
  <2>2. CASE ~mode
    BY <2>2, BeginCreateUses DEF Register, IInv
  <2> QED
    BY <2>1, <2>2
<1>4. TypeOK'
  BY <1>1, <1>2, <1>3, GotoMoves DEF IInv, TypeOK, lockVars, memVars, listVars, mainVars
<1> QED
  BY <1>1, <1>2, <1>3, <1>4, FrameMoves DEF IInv, Locked

\* The frames of a thread that are inside the lock can be counted.
LEMMA LockedFinite ==
  ASSUME NEW t \in Threads
  PROVE  /\ IsFiniteSet(LockedFrames(t)) /\ Cardinality(LockedFrames(t)) \in Nat
         /\ LockedFrames(t) \subseteq Statics
BY StaticsAssumption, FS_Subset, FS_CardinalityType DEF LockedFrames

LEMMA AcquireStep ==
  ASSUME IInv, NEW t \in Threads, NEW s \in Statics, Acquire(t, s)
  PROVE  IInv'
<1>1. /\ Goto(t, s, "check") /\ "check" \in PCs /\ "check" \in Locked
      /\ pc[t][s] = "acquire" /\ "acquire" \notin Locked /\ mode
  BY DEF Acquire, Running, PCs, Locked, IInv, ModeInv
<1>2. /\ holder \in {NULL, t} /\ holder' = t /\ depth' = depth + 1
      /\ UNCHANGED <<mode, memVars, listVars, caller, top, uses, mainVars>>
  BY DEF Acquire
<1>3. TypeOK'
  BY <1>1, <1>2, GotoMoves DEF IInv, TypeOK, memVars, listVars, mainVars
<1>4. \A u \in Threads : Active(u)' = Active(u)
  BY <1>1, ActiveKept DEF IInv
<1>5. StackInv'
  BY <1>2, <1>4, StackKept DEF IInv, StackInv
<1>6. ModeInv'
  BY <1>1, <1>2, ModeKept DEF IInv
<1>7. LockInv'
  <2>1. /\ LockedFrames(t)' = LockedFrames(t) \cup {s}
        /\ s \notin LockedFrames(t)
        /\ \A u \in Threads : u # t => LockedFrames(u)' = LockedFrames(u)
    BY <1>1, GotoMoves DEF LockedFrames, IInv
  <2>2. \A u \in Threads : u # t => LockedFrames(u) = {}
    BY <1>1, <1>2, StaticsAssumption DEF IInv, LockInv
  <2>3. depth = Cardinality(LockedFrames(t))
    <3>1. CASE holder = NULL
      BY <1>1, <3>1, FS_EmptySet, StaticsAssumption DEF IInv, LockInv
    <3>2. CASE holder = t
      BY <1>1, <3>2, StaticsAssumption DEF IInv, LockInv
    <3> QED
      BY <1>2, <3>1, <3>2
  <2>4. depth' = Cardinality(LockedFrames(t)')
    BY <1>2, <2>1, <2>3, LockedFinite, FS_AddElement
  <2> QED
    BY <1>2, <2>1, <2>2, <2>3, <2>4, LockedFinite, StaticsAssumption DEF LockInv
<1>8. PhaseInv'
  BY <1>2, <1>4, PhaseKept DEF IInv, mainVars
<1>9. MemoryInv'
  <2>1. LockedFrames(t)' # {}
    BY <1>1, GotoMoves DEF LockedFrames, IInv
  <2> QED
    BY <1>1, <1>2, <2>1, MemoryKept DEF IInv, memVars, mainVars
<1> QED
  BY <1>3, <1>5, <1>6, <1>7, <1>8, <1>9 DEF IInv

LEMMA CheckStep ==
  ASSUME IInv, NEW t \in Threads, NEW s \in Statics, Check(t, s)
  PROVE  IInv'
<1> DEFINE w == IF MustCreate(t, s) THEN "create" ELSE "release"
<1>1. /\ Goto(t, s, w) /\ w \in PCs /\ w # "idle" /\ w \in Locked
      /\ pc[t][s] = "check" /\ pc[t][s] \in Locked /\ mode
  BY DEF Check, Running, PCs, Locked, IInv, ModeInv
<1>2. UNCHANGED <<lockVars, memVars, listVars, caller, top, mainVars>>
  BY DEF Check
<1>3. /\ uses' \in [Threads -> [Statics -> SUBSET Statics]]
      /\ \A u \in Threads, r \in Statics : uses'[u][r] \subseteq CreatorUses[r]
  BY BeginCreateUses DEF Check, IInv, TypeOK, StackInv
<1>4. TypeOK'
  BY <1>1, <1>2, <1>3, GotoMoves DEF IInv, TypeOK, lockVars, memVars, listVars, mainVars
<1> QED
  BY <1>1, <1>2, <1>3, <1>4, FrameMoves DEF IInv, MustCreate

LEMMA FenceStep ==
  ASSUME IInv, NEW t \in Threads, NEW s \in Statics, Fence(t, s)
  PROVE  IInv'
<1>1. /\ Goto(t, s, "publish") /\ "publish" \in PCs /\ "publish" \in Locked
      /\ pc[t][s] = "fence" /\ "fence" \in Locked
  BY DEF Fence, Running, PCs, Locked
<1>2. UNCHANGED <<lockVars, memVars, listVars, caller, top, uses, mainVars>>
  BY DEF Fence
<1>3. object[s] = "built"
  BY <1>1 DEF Fence, FencePassed, IInv, MemoryInv
<1>4. TypeOK'
  BY <1>1, <1>2, GotoMoves DEF IInv, TypeOK, lockVars, memVars, listVars, mainVars
<1> QED
  BY <1>1, <1>2, <1>3, <1>4, FrameMoves DEF IInv, StackInv

LEMMA LinkStep ==
  ASSUME IInv, NEW t \in Threads, NEW s \in Statics, Link(t, s)
  PROVE  IInv'
<1> DEFINE w == IF mode THEN "release" ELSE "use"
<1>1. /\ Goto(t, s, w) /\ w \in PCs /\ w # "idle" /\ (mode => w \in Locked)
      /\ pc[t][s] = "link" /\ pc[t][s] \in Locked
  BY DEF Link, Running, PCs, Locked
<1>2. UNCHANGED <<lockVars, memVars, deleterFn, caller, top, uses, mainVars>>
  BY DEF Link
<1>3. SeesPtr(t, s)
  BY <1>1 DEF IInv, MemoryInv
<1>4. TypeOK'
  BY <1>1, <1>2, GotoMoves DEF Link, IInv, TypeOK, lockVars, memVars, mainVars
<1> QED
  BY <1>1, <1>2, <1>3, <1>4, FrameMoves DEF IInv, StackInv

\* No two of the cells are the same.
LEMMA CellsDiffer ==
  /\ \A r, q \in Statics : Obj(r) # Ptr(q)
  /\ \A r, q \in Statics : r # q => Obj(r) # Obj(q) /\ Ptr(r) # Ptr(q)
BY DEF Obj, Ptr

LEMMA ConstructStep ==
  ASSUME IInv, NEW t \in Threads, NEW s \in Statics, Construct(t, s)
  PROVE  IInv'
<1> DEFINE w == IF mode THEN "fence" ELSE "publish"
<1>1. /\ Goto(t, s, w) /\ w \in PCs /\ w # "idle" /\ w \in Locked
      /\ pc[t][s] = "create" /\ pc[t][s] \in Locked
  BY DEF Construct, Running, PCs, Locked
<1>2. /\ UNCHANGED <<lockVars, ptr, listVars, caller, top, uses, mainVars>>
      /\ live' = [live EXCEPT ![s] = @ + 1]
  BY DEF Construct
<1>3. /\ \A u \in Threads : Active(u)' = Active(u)
      /\ \A u \in Threads : LockedFrames(u)' = LockedFrames(u)
  BY <1>1, ActiveKept, LockedKept DEF IInv
<1>4. /\ buffer' = IF mode THEN [buffer EXCEPT ![t] = @ \cup {Obj(s)}] ELSE buffer
      /\ object' = IF mode THEN object ELSE [object EXCEPT ![s] = "built"]
  BY DEF Construct
<1>5. TypeOK'
  <2>1. buffer' \in [Threads -> SUBSET Cells]
    BY <1>4 DEF IInv, TypeOK, Cells, Obj
  <2>2. object' \in [Statics -> {"none", "built", "dying"}]
    BY <1>4 DEF IInv, TypeOK
  <2>3. live' \in [Statics -> Int]
    BY <1>2 DEF IInv, TypeOK
  <2> QED
    BY <1>1, <1>2, <2>1, <2>2, <2>3, GotoMoves
    DEF IInv, TypeOK, lockVars, listVars, mainVars
<1>6. StackInv'
  BY <1>2, <1>3, StackKept DEF IInv, StackInv
<1>7. ModeInv'
  BY <1>1, <1>2, ModeKept DEF IInv, lockVars
<1>8. LockInv'
  BY <1>2, <1>3, LockKept DEF IInv
<1>9. PhaseInv'
  BY <1>2, <1>3, PhaseKept DEF IInv, mainVars
<1>10. MemoryInv'
  <2>1. \A r \in Statics :
          object'[r] = IF ~mode /\ r = s THEN "built" ELSE object[r]
    BY <1>4 DEF IInv, TypeOK
  <2>2. \A u \in Threads :
          buffer'[u] = IF mode /\ u = t THEN buffer[u] \cup {Obj(s)} ELSE buffer[u]
    BY <1>4 DEF IInv, TypeOK
  <2>3. s \in LockedFrames(t)
    BY <1>1 DEF LockedFrames
  <2>4. \A u \in Threads : buffer'[u] # {} => mode' /\ LockedFrames(u)' # {}
    BY <1>2, <1>3, <2>2, <2>3 DEF IInv, MemoryInv, lockVars
  <2>5. \A r \in Statics : ptr'[r] => object'[r] = "built" \/ dying' = r
    BY <1>2, <2>1 DEF IInv, MemoryInv, mainVars
  <2>6. \A u \in Threads, r \in Statics :
          /\ Ptr(r) \in buffer'[u] <=> Ptr(r) \in buffer[u]
          /\ Obj(r) \in buffer[u] => Obj(r) \in buffer'[u]
          /\ mode => Obj(s) \in buffer'[t]
          /\ object[r] = "built" => object'[r] = "built"
    BY <2>1, <2>2, CellsDiffer
  <2>7. ASSUME NEW u \in Threads, NEW r \in Statics
        PROVE  /\ Ptr(r) \in buffer'[u] => object'[r] = "built"
               /\ pc'[u][r] = "fence" => object'[r] = "built" \/ Obj(r) \in buffer'[u]
               /\ pc'[u][r] = "publish" => object'[r] = "built"
               /\ pc'[u][r] \in {"link", "release", "use"} => SeesPtr(u, r)'
    <3>1. CASE u = t /\ r = s
      BY <1>1, <2>1, <2>6, <3>1, GotoMoves DEF IInv, MemoryInv
    <3>2. CASE ~(u = t /\ r = s)
      <4>1. pc'[u][r] = pc[u][r]
        BY <1>1, <3>2, GotoMoves DEF IInv
      <4> QED
        BY <1>2, <2>6, <4>1 DEF IInv, MemoryInv, SeesPtr, Ptr
    <3> QED
      BY <3>1, <3>2
  <2> QED
    BY <2>4, <2>5, <2>7 DEF MemoryInv, Obj, Ptr
<1> QED
  BY <1>5, <1>6, <1>7, <1>8, <1>9, <1>10 DEF IInv

LEMMA PublishStep ==
  ASSUME IInv, NEW t \in Threads, NEW s \in Statics, Publish(t, s)
  PROVE  IInv'
<1>1. /\ Goto(t, s, "link") /\ "link" \in PCs /\ "link" \in Locked
      /\ pc[t][s] = "publish" /\ "publish" \in Locked
  BY DEF Publish, Running, PCs, Locked
<1>2. /\ UNCHANGED <<lockVars, object, live, next, list, caller, top, uses,
                     mainVars>>
      /\ deleterFn' = [deleterFn EXCEPT ![s] = TRUE]
  BY DEF Publish
<1>3. /\ \A u \in Threads : Active(u)' = Active(u)
      /\ \A u \in Threads : LockedFrames(u)' = LockedFrames(u)
  BY <1>1, ActiveKept, LockedKept DEF IInv
<1>4. /\ buffer' = IF mode THEN [buffer EXCEPT ![t] = @ \cup {Ptr(s)}] ELSE buffer
      /\ ptr' = IF mode THEN ptr ELSE [ptr EXCEPT ![s] = TRUE]
  BY DEF Publish
<1>5. TypeOK'
  <2>1. buffer' \in [Threads -> SUBSET Cells]
    BY <1>4 DEF IInv, TypeOK, Cells, Ptr
  <2>2. /\ ptr' \in [Statics -> BOOLEAN]
        /\ deleterFn' \in [Statics -> BOOLEAN]
    BY <1>2, <1>4 DEF IInv, TypeOK
  <2> QED
    BY <1>1, <1>2, <2>1, <2>2, GotoMoves DEF IInv, TypeOK, lockVars, mainVars
<1>6. StackInv'
  BY <1>2, <1>3, StackKept DEF IInv, StackInv
<1>7. ModeInv'
  BY <1>1, <1>2, ModeKept DEF IInv, lockVars
<1>8. LockInv'
  BY <1>2, <1>3, LockKept DEF IInv
<1>9. PhaseInv'
  BY <1>2, <1>3, PhaseKept DEF IInv, mainVars
<1>10. MemoryInv'
  <2>1. object[s] = "built"
    BY <1>1 DEF IInv, MemoryInv
  <2>2. \A r \in Statics : ptr'[r] <=> ptr[r] \/ (~mode /\ r = s)
    BY <1>4 DEF IInv, TypeOK
  <2>3. \A u \in Threads :
          buffer'[u] = IF mode /\ u = t THEN buffer[u] \cup {Ptr(s)} ELSE buffer[u]
    BY <1>4 DEF IInv, TypeOK
  <2>4. s \in LockedFrames(t)
    BY <1>1 DEF LockedFrames
  <2>5. \A u \in Threads : buffer'[u] # {} => mode' /\ LockedFrames(u)' # {}
    BY <1>2, <1>3, <2>3, <2>4 DEF IInv, MemoryInv, lockVars
  <2>6. \A r \in Statics : ptr'[r] => object'[r] = "built" \/ dying' = r
    BY <1>2, <2>1, <2>2 DEF IInv, MemoryInv, mainVars
  <2>7. /\ SeesPtr(t, s)'
        /\ \A u \in Threads, r \in Statics :
             /\ Ptr(r) \in buffer'[u] => Ptr(r) \in buffer[u] \/ r = s
             /\ Obj(r) \in buffer[u] => Obj(r) \in buffer'[u]
             /\ SeesPtr(u, r) => SeesPtr(u, r)'
    <3>1. \A u \in Threads, r \in Statics :
            /\ Ptr(r) \in buffer'[u] => Ptr(r) \in buffer[u] \/ r = s
            /\ Obj(r) \in buffer[u] => Obj(r) \in buffer'[u]
            /\ Ptr(r) \in buffer[u] => Ptr(r) \in buffer'[u]
            /\ ptr[r] => ptr'[r]
      BY <2>2, <2>3, CellsDiffer
    <3>2. ptr'[s] \/ Ptr(s) \in buffer'[t]
      BY <2>2, <2>3
    <3> QED
      BY <3>1, <3>2 DEF SeesPtr, Ptr
  <2>8. ASSUME NEW u \in Threads, NEW r \in Statics
        PROVE  /\ Ptr(r) \in buffer'[u] => object'[r] = "built"
               /\ pc'[u][r] = "fence" => object'[r] = "built" \/ Obj(r) \in buffer'[u]
               /\ pc'[u][r] = "publish" => object'[r] = "built"
               /\ pc'[u][r] \in {"link", "release", "use"} => SeesPtr(u, r)'
    <3>1. CASE u = t /\ r = s
      BY <1>1, <1>2, <2>1, <2>7, <3>1, GotoMoves DEF IInv
    <3>2. CASE ~(u = t /\ r = s)
      <4>1. pc'[u][r] = pc[u][r]
        BY <1>1, <3>2, GotoMoves DEF IInv
      <4> QED
        BY <1>2, <2>1, <2>7, <4>1 DEF IInv, MemoryInv
    <3> QED
      BY <3>1, <3>2
  <2> QED
    BY <2>5, <2>6, <2>8 DEF MemoryInv, Obj, Ptr
<1> QED
  BY <1>5, <1>6, <1>7, <1>8, <1>9, <1>10 DEF IInv

LEMMA ReleaseStep ==
  ASSUME IInv, NEW t \in Threads, NEW s \in Statics, Release(t, s)
  PROVE  IInv'
<1>1. /\ Goto(t, s, "use") /\ "use" \in PCs /\ "use" \notin Locked
      /\ pc[t][s] = "release" /\ "release" \in Locked /\ mode
  BY DEF Release, Running, PCs, Locked, IInv, ModeInv
<1>2. /\ UNCHANGED <<mode, memVars, listVars, caller, top, uses, mainVars>>
      /\ depth = 1 => buffer[t] = {}
      /\ depth' = depth - 1
      /\ holder' = IF depth = 1 THEN NULL ELSE holder
  BY DEF Release
<1>3. /\ s \in LockedFrames(t)
      /\ holder = t /\ depth = Cardinality(LockedFrames(t))
      /\ depth \in Nat /\ depth # 0
  <2>1. s \in LockedFrames(t)
    BY <1>1 DEF LockedFrames
  <2>2. holder = t /\ holder # NULL
    BY <1>1, <2>1, StaticsAssumption DEF IInv, LockInv
  <2> QED
    BY <1>1, <2>1, <2>2 DEF IInv, LockInv, TypeOK
<1>4. /\ LockedFrames(t)' = LockedFrames(t) \ {s}
      /\ \A u \in Threads : u # t => LockedFrames(u)' = LockedFrames(u)
  BY <1>1, GotoMoves DEF LockedFrames, IInv
<1>5. depth' = Cardinality(LockedFrames(t)')
  BY <1>2, <1>3, <1>4, LockedFinite, FS_RemoveElement
<1>6. depth = 1 <=> LockedFrames(t)' = {}
  <2>1. depth' = 0 <=> LockedFrames(t)' = {}
    BY <1>4, <1>5, LockedFinite, FS_RemoveElement, FS_EmptySet
  <2> QED
    BY <1>2, <1>3, <2>1
<1>7. TypeOK'
  <2>1. depth' \in Nat /\ holder' \in Threads \cup {NULL}
    BY <1>2, <1>3
  <2> QED
    BY <1>1, <1>2, <2>1, GotoMoves DEF IInv, TypeOK, memVars, listVars, mainVars
<1>8. \A u \in Threads : Active(u)' = Active(u)
  BY <1>1, ActiveKept DEF IInv
<1>9. StackInv'
  BY <1>2, <1>8, StackKept DEF IInv, StackInv
<1>10. ModeInv'
  BY <1>1, <1>2, ModeKept DEF IInv
<1>11. LockInv'
  <2>1. \A u \in Threads : u # t => LockedFrames(u)' = {}
    BY <1>1, <1>3, <1>4, StaticsAssumption DEF IInv, LockInv
  <2>2. CASE depth = 1
    BY <1>2, <1>6, <2>1, <2>2 DEF LockInv
  <2>3. CASE depth # 1
    BY <1>2, <1>3, <1>5, <2>1, <2>3, StaticsAssumption DEF LockInv
  <2> QED
    BY <2>2, <2>3
<1>12. PhaseInv'
  BY <1>2, <1>8, PhaseKept DEF IInv, mainVars
<1>13. MemoryInv'
  <2>1. SeesPtr(t, s)
    BY <1>1 DEF IInv, MemoryInv
  <2> QED
    BY <1>1, <1>2, <1>6, <2>1, MemoryKept DEF IInv, memVars, mainVars
<1> QED
  BY <1>7, <1>9, <1>10, <1>11, <1>12, <1>13 DEF IInv

LEMMA UseStep ==
  ASSUME IInv, NEW t \in Threads, NEW s \in Statics, Use(t, s)
  PROVE  IInv'
<1>1. /\ Goto(t, s, "idle") /\ "idle" \in PCs /\ "idle" \notin Locked
      /\ pc[t][s] = "use" /\ "use" \notin Locked /\ top[t] = s
  BY DEF Use, Running, PCs, Locked
<1>2. /\ UNCHANGED <<lockVars, memVars, listVars, phase, dying, shutdowns>>
      /\ top' = [top EXCEPT ![t] = caller[t][s]]
      /\ caller' = [caller EXCEPT ![t][s] = NULL]
  BY DEF Use
<1>3. /\ uses' \in [Threads -> [Statics -> SUBSET Statics]]
      /\ \A u \in Threads, r \in Statics : uses'[u][r] \subseteq uses[u][r]
      /\ dyingUses' \subseteq dyingUses
  <2>1. CASE caller[t][s] # NULL
    <3>1. caller[t][s] \in Statics
      BY <2>1 DEF IInv, TypeOK
    <3>2. /\ uses' = [uses EXCEPT ![t][caller[t][s]] = @ \ {s}]
          /\ UNCHANGED dyingUses
      BY <2>1 DEF Use
    <3> QED
      BY <3>1, <3>2 DEF IInv, TypeOK
  <2>2. CASE caller[t][s] = NULL
    BY <2>2 DEF Use, IInv, TypeOK
  <2> QED
    BY <2>1, <2>2
<1>4. /\ Active(t)' = Active(t) \ {s}
      /\ \A u \in Threads : u # t => Active(u)' = Active(u)
      /\ \A u \in Threads : LockedFrames(u)' = LockedFrames(u)
  BY <1>1, GotoMoves, LockedKept DEF Active, IInv
<1>5. TypeOK'
  <2>1. /\ top' \in [Threads -> Statics \cup {NULL}]
        /\ caller' \in [Threads -> [Statics -> Statics \cup {NULL}]]
    BY <1>2 DEF IInv, TypeOK
  <2>2. dyingUses' \in SUBSET Statics
    BY <1>3 DEF IInv, TypeOK
  <2> QED
    BY <1>1, <1>2, <1>3, <2>1, <2>2, GotoMoves
    DEF IInv, TypeOK, lockVars, memVars, listVars
<1>6. StackInv'
  <2>1. /\ top'[t] = caller[t][s]
        /\ \A u \in Threads : u # t => top'[u] = top[u]
        /\ \A u \in Threads, r \in Statics : ~(u = t /\ r = s) =>
             caller'[u][r] = caller[u][r]
    BY <1>2 DEF IInv, TypeOK
  <2>2. ASSUME NEW u \in Threads, u # t
        PROVE  Stacked(u)'
    BY <1>4, <2>1, <2>2 DEF IInv, StackInv, Stacked, Active
  <2>3. Stacked(t)'
    <3>1. /\ s \in Active(t)
          /\ \A r \in Active(t) : r # s => Rank[s] < Rank[r]
          /\ \A r \in Statics : Rank[r] \in Nat
      BY <1>1, StaticsAssumption DEF IInv, StackInv, Stacked
    <3>2. caller[t][s] = NULL => Active(t)' = {}
      BY <1>4, <3>1 DEF IInv, StackInv, Stacked, Active
    <3>3. caller[t][s] # NULL =>
            /\ caller[t][s] \in Active(t)'
            /\ \A r \in Active(t)' : r # caller[t][s] => Rank[caller[t][s]] < Rank[r]
      BY <1>4, <3>1 DEF IInv, StackInv, Stacked, Active
    <3>4. \A r \in Active(t)' : caller[t][r] # s
      BY <1>4, <3>1 DEF IInv, StackInv, Stacked, Active
    <3>5. \A q \in Active(t)' :
            /\ caller'[t][q] = NULL => \A r \in Active(t)' : r # q => Rank[r] < Rank[q]
            /\ caller'[t][q] # NULL =>
                 /\ caller'[t][q] \in Active(t)'
                 /\ Rank[q] < Rank[caller'[t][q]]
                 /\ \A r \in Active(t)' :
                      r # q /\ r # caller'[t][q] =>
                        Rank[r] < Rank[q] \/ Rank[caller'[t][q]] < Rank[r]
      BY <1>4, <2>1, <3>4 DEF IInv, StackInv, Stacked, Active
    <3> QED
      BY <2>1, <3>2, <3>3, <3>5 DEF Stacked
  <2> QED
    BY <1>3, <2>2, <2>3 DEF IInv, StackInv
<1>7. ModeInv'
  BY <1>1, <1>2, ModeKept DEF IInv, lockVars
<1>8. LockInv'
  BY <1>2, <1>4, LockKept DEF IInv
<1>9. PhaseInv'
  BY <1>2, <1>3, <1>4, PhaseKept DEF IInv
<1>10. MemoryInv'
  BY <1>1, <1>2, <1>4, MemoryKept DEF IInv, MemoryInv, lockVars, memVars
<1> QED
  BY <1>5, <1>6, <1>7, <1>8, <1>9, <1>10 DEF IInv

-----------------------------------------------------------------------------
(***************************************************************************)
(* The steps that start a frame.                                           *)
(***************************************************************************)
\* A new frame ranks below the ones under it, so the frames are still a stack.
LEMMA PushKeeps ==
  ASSUME IInv, NEW t \in Threads, NEW s \in Statics, Push(t, s),
         UNCHANGED <<lockVars, memVars, listVars, uses, mainVars>>,
         top[t] # NULL => Rank[s] < Rank[top[t]],
         mode \/ t = Main,
         phase # "run" => phase = "delete" /\ t = Main /\ Rank[s] < Rank[dying]
  PROVE  IInv'
<1>1. /\ Goto(t, s, "read") /\ "read" \in PCs /\ "read" \notin Locked
      /\ pc[t][s] = "idle" /\ "idle" \notin Locked
  BY DEF Push, PCs, Locked
<1>2. /\ caller' = [caller EXCEPT ![t][s] = top[t]]
      /\ top' = [top EXCEPT ![t] = s]
  BY DEF Push
<1>3. /\ s \notin Active(t) /\ Active(t)' = Active(t) \cup {s}
      /\ \A u \in Threads : u # t => Active(u)' = Active(u)
      /\ \A u \in Threads : LockedFrames(u)' = LockedFrames(u)
  BY <1>1, GotoMoves, LockedKept DEF Active, IInv
<1>4. TypeOK'
  <2>1. /\ top' \in [Threads -> Statics \cup {NULL}]
        /\ caller' \in [Threads -> [Statics -> Statics \cup {NULL}]]
    BY <1>2 DEF IInv, TypeOK
  <2> QED
    BY <1>1, <2>1, GotoMoves DEF IInv, TypeOK, lockVars, memVars, listVars, mainVars
<1>5. StackInv'
  <2>1. /\ top'[t] = s /\ caller'[t][s] = top[t]
        /\ \A u \in Threads : u # t => top'[u] = top[u]
        /\ \A u \in Threads, r \in Statics : ~(u = t /\ r = s) =>
             caller'[u][r] = caller[u][r]
    BY <1>2 DEF IInv, TypeOK
  <2>2. ASSUME NEW u \in Threads, u # t
        PROVE  Stacked(u)'
    BY <1>3, <2>1, <2>2 DEF IInv, StackInv, Stacked, Active
  <2>3. Stacked(t)'
    <3>1. /\ \A r \in Statics : Rank[r] \in Nat
          /\ Active(t) \subseteq Statics /\ NULL \notin Statics
      BY StaticsAssumption DEF Active
    <3>2. \A r \in Active(t) : top[t] # NULL /\ Rank[s] < Rank[r]
      BY <3>1 DEF IInv, StackInv, Stacked
    <3>3. top[t] # NULL =>
            /\ top[t] \in Active(t)
            /\ \A r \in Active(t) : r # top[t] => Rank[top[t]] < Rank[r]
      BY DEF IInv, StackInv, Stacked
    <3>4. \A q \in Active(t) :
            /\ caller'[t][q] = NULL => \A r \in Active(t) : r # q => Rank[r] < Rank[q]
            /\ caller'[t][q] # NULL =>
                 /\ caller'[t][q] \in Active(t)
                 /\ Rank[q] < Rank[caller'[t][q]]
                 /\ \A r \in Active(t) :
                      r # q /\ r # caller'[t][q] =>
                        Rank[r] < Rank[q] \/ Rank[caller'[t][q]] < Rank[r]
      BY <1>3, <2>1, <3>1 DEF IInv, StackInv, Stacked
    <3>5. \A q \in Active(t)' :
            /\ caller'[t][q] = NULL => \A r \in Active(t)' : r # q => Rank[r] < Rank[q]
            /\ caller'[t][q] # NULL =>
                 /\ caller'[t][q] \in Active(t)'
                 /\ Rank[q] < Rank[caller'[t][q]]
                 /\ \A r \in Active(t)' :
                      r # q /\ r # caller'[t][q] =>
                        Rank[r] < Rank[q] \/ Rank[caller'[t][q]] < Rank[r]
      BY <1>3, <2>1, <3>1, <3>2, <3>3, <3>4
    <3> QED
      BY <1>3, <2>1, <3>1, <3>2, <3>5 DEF Stacked
  <2> QED
    BY <2>2, <2>3 DEF IInv, StackInv
<1>6. ModeInv'
  BY <1>1, GotoMoves DEF IInv, ModeInv, lockVars
<1>7. LockInv'
  BY <1>3, LockKept DEF IInv
<1>8. PhaseInv'
  BY <1>3 DEF IInv, PhaseInv, mainVars
<1>9. MemoryInv'
  BY <1>1, <1>3, MemoryKept DEF IInv, MemoryInv, lockVars, memVars, mainVars
<1> QED
  BY <1>4, <1>5, <1>6, <1>7, <1>8, <1>9 DEF IInv

LEMMA CallStep ==
  ASSUME IInv, NEW t \in Threads, NEW s \in Statics, Call(t, s)
  PROVE  IInv'
BY PushKeeps DEF Call

LEMMA CallFromCreatorStep ==
  ASSUME IInv, NEW t \in Threads, NEW s \in Statics, NEW d \in Statics,
         CallFromCreator(t, s, d)
  PROVE  IInv'
<1>1. /\ top[t] = s /\ pc[t][s] = "create" /\ s \in Active(t)
      /\ d \in CreatorUses[s] /\ Push(t, d)
      /\ UNCHANGED <<lockVars, memVars, listVars, uses, mainVars>>
  BY DEF CallFromCreator, Running, Active, IInv, StackInv
<1>2. Rank[d] \in Nat /\ Rank[s] \in Nat /\ Rank[d] < Rank[s]
  BY <1>1, RankDescends
<1>3. mode \/ t = Main
  BY <1>1 DEF IInv, ModeInv
<1>4. phase # "run" => phase = "delete" /\ t = Main /\ Rank[d] < Rank[dying]
  <2>1. phase # "run" => phase = "delete" /\ t = Main
    BY <1>1 DEF IInv, PhaseInv, TypeOK
  <2>2. phase = "delete" => Rank[s] < Rank[dying] /\ Rank[dying] \in Nat
    BY <1>1, <2>1, StaticsAssumption DEF IInv, PhaseInv
  <2> QED
    BY <1>2, <2>1, <2>2
<1> QED
  BY <1>1, <1>2, <1>3, <1>4, PushKeeps

LEMMA CallFromDeleterStep ==
  ASSUME IInv, NEW d \in Statics, CallFromDeleter(d)
  PROVE  IInv'
<1>1. /\ Push(Main, d) /\ top[Main] = NULL /\ phase = "delete" /\ d \in dyingUses
      /\ UNCHANGED <<lockVars, memVars, listVars, uses, mainVars>>
  BY DEF CallFromDeleter
<1>2. Rank[d] < Rank[dying]
  BY <1>1 DEF IInv, PhaseInv
<1> QED
  BY <1>1, <1>2, PushKeeps, StaticsAssumption

-----------------------------------------------------------------------------
(***************************************************************************)
(* The memory system, and Main.                                            *)
(***************************************************************************)
LEMMA DrainStep ==
  ASSUME IInv, NEW t \in Threads, NEW cell \in buffer[t], Drain(t, cell)
  PROVE  IInv'
<1>1. /\ UNCHANGED <<live, lockVars, listVars, frameVars, mainVars>>
      /\ buffer' = [buffer EXCEPT ![t] = @ \ {cell}]
  BY DEF Drain
<1>2. PICK r \in Statics : cell = Ptr(r) \/ cell = Obj(r)
  BY DEF IInv, TypeOK, Cells, Ptr, Obj
<1>3. /\ cell = Ptr(r) => ptr' = [ptr EXCEPT ![r] = TRUE] /\ UNCHANGED object
      /\ cell = Obj(r) => object' = [object EXCEPT ![r] = "built"] /\ UNCHANGED ptr
  BY <1>2 DEF Drain, Ptr, Obj
<1>4. /\ \A q \in Statics : ptr'[q] <=> ptr[q] \/ cell = Ptr(q)
      /\ \A q \in Statics :
           object'[q] = IF cell = Obj(q) THEN "built" ELSE object[q]
  BY <1>2, <1>3, CellsDiffer DEF IInv, TypeOK
<1>5. \A u \in Threads :
        buffer'[u] = IF u = t THEN buffer[u] \ {cell} ELSE buffer[u]
  BY <1>1 DEF IInv, TypeOK
<1>6. TypeOK'
  <2>1. buffer' \in [Threads -> SUBSET Cells]
    BY <1>1 DEF IInv, TypeOK
  <2>2. ptr' \in [Statics -> BOOLEAN]
    BY <1>2, <1>3 DEF IInv, TypeOK
  <2>3. object' \in [Statics -> {"none", "built", "dying"}]
    BY <1>2, <1>3 DEF IInv, TypeOK
  <2> QED
    BY <1>1, <2>1, <2>2, <2>3
    DEF IInv, TypeOK, lockVars, listVars, frameVars, mainVars
<1>7. /\ \A u \in Threads : Active(u)' = Active(u)
      /\ \A u \in Threads : LockedFrames(u)' = LockedFrames(u)
  BY <1>1 DEF Active, LockedFrames, frameVars
<1>8. StackInv'
  BY <1>1, <1>7, StackKept DEF IInv, StackInv, frameVars
<1>9. ModeInv'
  BY <1>1 DEF IInv, ModeInv, lockVars, frameVars
<1>10. LockInv'
  BY <1>1, <1>7, LockKept DEF IInv
<1>11. PhaseInv'
  BY <1>1, <1>7, PhaseKept DEF IInv, mainVars
<1>12. MemoryInv'
  <2>1. \A u \in Threads : buffer'[u] # {} => mode' /\ LockedFrames(u)' # {}
    BY <1>1, <1>5, <1>7 DEF IInv, MemoryInv, lockVars
  <2>2. \A q \in Statics : cell = Ptr(q) => object[q] = "built"
    BY DEF IInv, MemoryInv
  <2>3. \A q \in Statics : ptr'[q] => object'[q] = "built" \/ dying' = q
    BY <1>1, <1>4, <2>2 DEF IInv, MemoryInv, mainVars
  <2>4. \A u \in Threads, q \in Statics :
          /\ Ptr(q) \in buffer'[u] => Ptr(q) \in buffer[u]
          /\ object[q] = "built" => object'[q] = "built"
          /\ Obj(q) \in buffer[u] => Obj(q) \in buffer'[u] \/ object'[q] = "built"
          /\ ptr[q] \/ Ptr(q) \in buffer[u] => ptr'[q] \/ Ptr(q) \in buffer'[u]
    BY <1>4, <1>5
  <2> QED
    BY <1>1, <2>1, <2>3, <2>4 DEF IInv, MemoryInv, frameVars, SeesPtr, Ptr, Obj
<1> QED
  BY <1>6, <1>8, <1>9, <1>10, <1>11, <1>12 DEF IInv

\* With no frame anywhere there is nothing in a buffer and nobody in the lock.
LEMMA IdleState ==
  ASSUME IInv, \A u \in Threads : Active(u) = {}
  PROVE  /\ \A u \in Threads, r \in Statics : pc[u][r] = "idle"
         /\ \A u \in Threads : LockedFrames(u) = {} /\ buffer[u] = {}
BY DEF Active, LockedFrames, Locked, IInv, MemoryInv

\* What a step of Main must respect when no frame is anywhere.
LEMMA IdleKeeps ==
  ASSUME IInv, \A u \in Threads : Active(u) = {}, UNCHANGED <<frameVars, buffer>>,
         \A r \in Statics : ptr'[r] => object'[r] = "built" \/ dying' = r
  PROVE  /\ StackInv' /\ ModeInv' /\ MemoryInv'
         /\ \A u \in Threads : Active(u)' = {} /\ LockedFrames(u)' = {}
<1>1. /\ \A u \in Threads : Active(u)' = {} /\ LockedFrames(u)' = {}
      /\ \A u \in Threads, r \in Statics : pc'[u][r] = "idle"
  BY IdleState DEF Active, LockedFrames, frameVars
<1>2. StackInv'
  BY <1>1, StackKept DEF IInv, StackInv, frameVars
<1>3. ModeInv'
  BY <1>1 DEF ModeInv
<1>4. MemoryInv'
  <2>1. \A u \in Threads : buffer'[u] = {}
    BY IdleState
  <2> QED
    BY <1>1, <2>1 DEF MemoryInv
<1> QED
  BY <1>1, <1>2, <1>3, <1>4

\* No frame anywhere: between calls, and while llvm_shutdown walks the list.
LEMMA NoFrames ==
  ASSUME IInv, Quiescent \/ phase = "shutdown" \/ (phase = "delete" /\ top[Main] = NULL)
  PROVE  \A u \in Threads : Active(u) = {}
BY StaticsAssumption DEF Quiescent, IInv, StackInv, Stacked, PhaseInv

LEMMA StartMultithreadedStep == IInv /\ StartMultithreaded => IInv'
<1> SUFFICES ASSUME IInv, StartMultithreaded PROVE IInv'
  OBVIOUS
<1>1. \A u \in Threads : Active(u) = {}
  BY NoFrames DEF StartMultithreaded
<1>2. StackInv' /\ ModeInv' /\ MemoryInv' /\ \A u \in Threads : LockedFrames(u)' = {}
  BY <1>1, IdleKeeps DEF StartMultithreaded, IInv, MemoryInv, memVars, mainVars
<1>3. TypeOK'
  BY DEF StartMultithreaded, IInv, TypeOK, memVars, listVars, frameVars, mainVars
<1>4. LockInv'
  BY <1>2 DEF StartMultithreaded, LockInv
<1>5. PhaseInv'
  BY DEF StartMultithreaded, IInv, PhaseInv, Active, frameVars, mainVars
<1> QED
  BY <1>2, <1>3, <1>4, <1>5 DEF IInv

LEMMA StopMultithreadedStep == IInv /\ StopMultithreaded => IInv'
<1> SUFFICES ASSUME IInv, StopMultithreaded PROVE IInv'
  OBVIOUS
<1>1. \A u \in Threads : Active(u) = {}
  BY NoFrames DEF StopMultithreaded
<1>2. StackInv' /\ ModeInv' /\ MemoryInv'
  BY <1>1, IdleKeeps DEF StopMultithreaded, IInv, MemoryInv, memVars, mainVars
<1>3. TypeOK'
  BY DEF StopMultithreaded, IInv, TypeOK, memVars, listVars, frameVars, mainVars
<1>4. LockInv'
  BY DEF StopMultithreaded, LockInv
<1>5. PhaseInv'
  BY DEF StopMultithreaded, IInv, PhaseInv, Active, frameVars, mainVars
<1> QED
  BY <1>2, <1>3, <1>4, <1>5 DEF IInv

LEMMA ShutdownStarts == IInv /\ Shutdown => IInv'
<1> SUFFICES ASSUME IInv, Shutdown PROVE IInv'
  OBVIOUS
<1>1. \A u \in Threads : Active(u) = {}
  BY NoFrames DEF Shutdown
<1>2. /\ StackInv' /\ ModeInv' /\ MemoryInv'
      /\ \A u \in Threads : Active(u)' = {} /\ LockedFrames(u)' = {}
  BY <1>1, IdleKeeps DEF Shutdown, IInv, MemoryInv, memVars
<1>3. TypeOK'
  BY DEF Shutdown, IInv, TypeOK, lockVars, memVars, listVars, frameVars
<1>4. LockInv'
  BY DEF Shutdown, IInv, LockInv, LockedFrames, lockVars, frameVars
<1>5. PhaseInv'
  BY <1>2 DEF Shutdown, IInv, PhaseInv
<1> QED
  BY <1>2, <1>3, <1>4, <1>5 DEF IInv

LEMMA DestroyStep ==
  ASSUME IInv, NEW s \in Statics, Destroy(s)
  PROVE  IInv'
<1>1. /\ phase = "shutdown" /\ list = s /\ Unlink(s)
      /\ object' = [object EXCEPT ![s] = "dying"]
      /\ phase' = "delete" /\ dying' = s /\ dyingUses' \subseteq DeleterUses[s]
      /\ UNCHANGED <<lockVars, ptr, buffer, live, deleterFn, frameVars, shutdowns>>
  BY DEF Destroy
<1>2. \A u \in Threads : Active(u) = {}
  BY <1>1, NoFrames
<1>3. \A r \in Statics : ptr'[r] => object'[r] = "built" \/ dying' = r
  <2>1. \A r \in Statics : ptr[r] => object[r] = "built"
    BY <1>1, StaticsAssumption DEF IInv, MemoryInv, PhaseInv
  <2> QED
    BY <1>1, <2>1 DEF IInv, TypeOK
<1>4. /\ StackInv' /\ ModeInv' /\ MemoryInv'
      /\ \A u \in Threads : Active(u)' = {} /\ LockedFrames(u)' = {}
  BY <1>1, <1>2, <1>3, IdleKeeps
<1>5. TypeOK'
  <2>1. dyingUses' \in SUBSET Statics
    BY <1>1, StaticsAssumption
  <2> QED
    BY <1>1, <2>1 DEF Unlink, IInv, TypeOK, lockVars, frameVars
<1>6. LockInv'
  BY <1>1, <1>2, <1>4, IdleState, LockKept DEF IInv
<1>7. PhaseInv'
  <2>1. \A d \in dyingUses' : Rank[d] < Rank[s]
    BY <1>1, RankDescends
  <2> QED
    BY <1>1, <1>4, <2>1, StaticsAssumption DEF PhaseInv
<1> QED
  BY <1>4, <1>5, <1>6, <1>7 DEF IInv

LEMMA DestroyedStep ==
  ASSUME IInv, NEW s \in Statics, Destroyed(s)
  PROVE  IInv'
<1>1. /\ phase = "delete" /\ dying = s /\ top[Main] = NULL
      /\ live' = [live EXCEPT ![s] = @ - 1]
      /\ object' = [object EXCEPT ![s] = "none"]
      /\ ptr' = [ptr EXCEPT ![s] = FALSE]
      /\ deleterFn' = [deleterFn EXCEPT ![s] = FALSE]
      /\ phase' = "shutdown" /\ dying' = NULL
      /\ UNCHANGED <<lockVars, buffer, next, list, frameVars, dyingUses, shutdowns>>
  BY DEF Destroyed
<1>2. \A u \in Threads : Active(u) = {}
  BY <1>1, NoFrames
<1>3. \A r \in Statics : ptr'[r] => object'[r] = "built" \/ dying' = r
  BY <1>1 DEF IInv, TypeOK, MemoryInv
<1>4. /\ StackInv' /\ ModeInv' /\ MemoryInv'
      /\ \A u \in Threads : Active(u)' = {} /\ LockedFrames(u)' = {}
  BY <1>1, <1>2, <1>3, IdleKeeps
<1>5. TypeOK'
  <2>1. /\ ptr' \in [Statics -> BOOLEAN]
        /\ deleterFn' \in [Statics -> BOOLEAN]
        /\ live' \in [Statics -> Int]
    BY <1>1 DEF IInv, TypeOK
  <2> QED
    BY <1>1, <2>1 DEF IInv, TypeOK, lockVars, frameVars
<1>6. LockInv'
  BY <1>1, <1>2, <1>4, IdleState, LockKept DEF IInv
<1>7. PhaseInv'
  BY <1>1, <1>4 DEF PhaseInv
<1> QED
  BY <1>4, <1>5, <1>6, <1>7 DEF IInv

LEMMA ShutdownDoneStep == IInv /\ ShutdownDone => IInv'
<1> SUFFICES ASSUME IInv, ShutdownDone PROVE IInv'
  OBVIOUS
<1>1. \A u \in Threads : Active(u) = {}
  BY NoFrames DEF ShutdownDone
<1>2. StackInv' /\ ModeInv' /\ MemoryInv'
  BY <1>1, IdleKeeps DEF ShutdownDone, IInv, MemoryInv, memVars
<1>3. TypeOK'
  BY DEF ShutdownDone, IInv, TypeOK, memVars, listVars, frameVars
<1>4. LockInv'
  BY DEF ShutdownDone, LockInv
<1>5. PhaseInv'
  BY DEF ShutdownDone, IInv, PhaseInv
<1> QED
  BY <1>2, <1>3, <1>4, <1>5 DEF IInv

-----------------------------------------------------------------------------
\* Every step preserves the invariant.
LEMMA NextIInv == IInv /\ [Next]_vars => IInv'
<1> SUFFICES ASSUME IInv, [Next]_vars PROVE IInv'
  OBVIOUS
<1>1. CASE \E t \in Threads, s \in Statics : Call(t, s) \/ Frame(t, s)
  BY <1>1, CallStep, CallFromCreatorStep, ReadStep, UseStep, RegisterStep,
     AcquireStep, CheckStep, ConstructStep, FenceStep, PublishStep, LinkStep,
     ReleaseStep
  DEF Frame
<1>2. CASE \E t \in Threads : \E cell \in buffer[t] : Drain(t, cell)
  BY <1>2, DrainStep
<1>3. CASE StartMultithreaded \/ StopMultithreaded \/ Shutdown
  BY <1>3, StartMultithreadedStep, StopMultithreadedStep, ShutdownStarts
<1>4. CASE ShutdownStep
  BY <1>4, CallFromDeleterStep, DestroyStep, DestroyedStep, ShutdownDoneStep
  DEF ShutdownStep
<1>5. CASE UNCHANGED vars
  BY <1>5 DEF vars, lockVars, memVars, listVars, frameVars, mainVars,
     IInv, TypeOK, StackInv, Stacked, Active, ModeInv, LockInv, LockedFrames,
     PhaseInv, MemoryInv, SeesPtr
<1> QED
  BY <1>1, <1>2, <1>3, <1>4, <1>5 DEF Next

\* The invariant holds in every reachable state: the frames of a thread are a
\* stack, the lock counts the frames inside it, llvm_shutdown runs alone, and
\* no pointer is published before the object it points to.
THEOREM Invariance == Spec => []IInv
BY InitIInv, NextIInv, PTL DEF Spec

\* Every variable keeps its type; in particular the recursion count of the
\* global lock never goes below zero.
THEOREM Typing == Spec => []TypeOK
<1>1. IInv => TypeOK
  BY DEF IInv
<1> QED
  BY Invariance, <1>1, PTL

\* A dereference in flight never meets the destructor of what it refers to: a
\* destructor reaches only statics of lower Rank.
LEMMA DyingIsNotInUse ==
  ASSUME IInv, NEW t \in Threads, NEW s \in Statics, pc[t][s] # "idle"
  PROVE  dying # s
<1> SUFFICES ASSUME dying = s PROVE FALSE
  OBVIOUS
<1>1. s \in Active(t) /\ Rank[s] \in Nat
  BY StaticsAssumption DEF Active
<1>2. phase = "delete"
  BY StaticsAssumption DEF IInv, PhaseInv
<1>3. t = Main
  BY <1>1, <1>2 DEF IInv, PhaseInv
<1> QED
  BY <1>1, <1>2, <1>3 DEF IInv, PhaseInv

\* What operator* returns is a complete object, for any number of threads and
\* statics, in either mode, whatever order the stores drain in, and also for a
\* static that a destructor brings back to life during llvm_shutdown.
THEOREM DereferenceSafe == Spec => []DerefSafe
<1>1. IInv => DerefSafe
  <2> SUFFICES ASSUME IInv, NEW t \in Threads, NEW s \in Statics,
                      Running(t, s, "use")
               PROVE  SeesPtr(t, s) /\ SeesObject(t, s) = "built"
    BY DEF DerefSafe
  <2>1. pc[t][s] = "use"
    BY DEF Running
  <2>2. SeesPtr(t, s)
    BY <2>1 DEF IInv, MemoryInv
  <2>3. object[s] = "built"
    <3>1. CASE ptr[s]
      BY <2>1, <3>1, DyingIsNotInUse DEF IInv, MemoryInv
    <3>2. CASE Ptr(s) \in buffer[t]
      BY <3>2 DEF IInv, MemoryInv
    <3> QED
      BY <2>2, <3>1, <3>2 DEF SeesPtr
  <2> QED
    BY <2>2, <2>3 DEF SeesObject
<1> QED
  BY Invariance, <1>1, PTL

\* However deep constructors nest, the global lock's recursion count is the
\* number of frames inside it, and they all belong to its holder.
THEOREM LockIsBalanced == Spec => []LockBalanced
<1>1. IInv => LockBalanced
  <2> SUFFICES ASSUME IInv, mode PROVE LockBalanced
    BY DEF LockBalanced
  <2> DEFINE inside == UNION {LockedFrames(t) : t \in Threads}
  <2>1. \A t \in Threads : LockedFrames(t) # {} => holder = t
    BY DEF IInv, LockInv
  <2>2. CASE holder = NULL
    <3>1. inside = {}
      BY <2>1, <2>2, StaticsAssumption
    <3>2. depth = 0
      BY <2>2 DEF IInv, LockInv
    <3> QED
      BY <2>1, <2>2, <3>1, <3>2, FS_EmptySet DEF LockBalanced
  <2>3. CASE holder # NULL
    <3>1. holder \in Threads
      BY <2>3 DEF IInv, TypeOK
    <3>2. inside = LockedFrames(holder)
      BY <2>1, <3>1
    <3>3. depth = Cardinality(LockedFrames(holder)) /\ depth # 0
      BY <2>3 DEF IInv, LockInv
    <3> QED
      BY <2>1, <2>3, <3>2, <3>3 DEF LockBalanced
  <2> QED
    BY <2>2, <2>3
<1> QED
  BY Invariance, <1>1, PTL

-----------------------------------------------------------------------------
(***************************************************************************)
(* Objects and the links of StaticList.  LInv is inductive together with   *)
(* IInv, and speaks of one link at a time.                                 *)
(***************************************************************************)
\* Some thread has stored a non-null Ptr, in memory or not yet.
Published(s) == ptr[s] \/ \E t \in Threads : Ptr(s) \in buffer[t]

\* The object is constructed and about to be published.
Building(s) == \E t \in Threads : pc[t][s] \in {"fence", "publish"}

\* What StaticList and Next may refer to.
Linked(s) ==
  /\ Published(s)
  /\ s # dying
  /\ \A t \in Threads : pc[t][s] # "link"

\* There is an object from construction to the end of its destructor, and who
\* is about to construct one knows that there is none.
ObjectInv ==
  \A s \in Statics :
    /\ live[s] = IF Published(s) \/ Building(s) THEN 1 ELSE 0
    /\ \A t \in Threads :
         /\ pc[t][s] \in {"create", "fence", "publish"} => ~Published(s)
         /\ pc[t][s] = "register" /\ ~mode => ~Published(s)

\* Every static is referred to at most once, from the head or from a Next, and
\* only while it is linked.
ListInv ==
  /\ \A s \in Statics : deleterFn[s] <=> Published(s)
  /\ list # NULL => Linked(list)
  /\ \A s \in Statics : next[s] # NULL =>
       /\ Linked(s) /\ Linked(next[s])
       /\ next[s] # list
       /\ \A r \in Statics : next[r] = next[s] => r = s
  /\ phase = "delete" => Published(dying)

LInv == ObjectInv /\ ListInv

-----------------------------------------------------------------------------
LEMMA InitLInv == Init => LInv
<1> SUFFICES ASSUME Init PROVE LInv
  OBVIOUS
<1> USE StaticsAssumption DEF Init
<1>1. \A s \in Statics : ~Published(s) /\ ~Building(s)
  BY DEF Published, Building
<1>2. ObjectInv
  BY <1>1 DEF ObjectInv
<1>3. ListInv
  BY <1>1 DEF ListInv
<1> QED
  BY <1>2, <1>3 DEF LInv

\* One thread at a time is between taking and releasing the lock, or, in
\* single-threaded mode, past the test that skips it.
LEMMA OneBuilder ==
  ASSUME IInv, NEW t \in Threads, NEW s \in Statics, pc[t][s] \in Locked,
         NEW u \in Threads, NEW r \in Statics, pc[u][r] \in Locked
  PROVE  u = t
<1>1. CASE mode
  BY <1>1 DEF IInv, LockInv, LockedFrames
<1>2. CASE ~mode
  BY <1>2 DEF IInv, ModeInv, Locked
<1> QED
  BY <1>1, <1>2

\* Nobody else has stores waiting then.
LEMMA OneBuffer ==
  ASSUME IInv, NEW t \in Threads, NEW s \in Statics, pc[t][s] \in Locked,
         NEW u \in Threads, u # t
  PROVE  buffer[u] = {}
BY OneBuilder DEF IInv, MemoryInv, LockedFrames

\* What that thread sees of a static is then all there is.
LEMMA SeesPublished ==
  ASSUME IInv, NEW t \in Threads, NEW s \in Statics, NEW r \in Statics,
         pc[t][s] \in Locked \/ ~mode, ~SeesPtr(t, r)
  PROVE  ~Published(r)
<1>1. \A u \in Threads : u # t => buffer[u] = {}
  BY OneBuffer DEF IInv, MemoryInv
<1> QED
  BY <1>1 DEF SeesPtr, Published

\* A frame that moves, and neither constructs, publishes nor links.
LEMMA FrameKeepsLists ==
  ASSUME IInv, LInv, NEW t \in Threads, NEW s \in Statics, NEW w \in PCs,
         Goto(t, s, w), UNCHANGED <<mode, ptr, buffer, live, listVars, phase, dying>>,
         pc[t][s] \in {"fence", "publish"} <=> w \in {"fence", "publish"},
         pc[t][s] # "link", w # "link",
         w \in {"create", "fence", "publish"} => ~Published(s),
         w = "register" /\ ~mode => ~Published(s)
  PROVE  LInv'
<1>1. \A u \in Threads, r \in Statics :
        pc'[u][r] = IF u = t /\ r = s THEN w ELSE pc[u][r]
  BY GotoMoves DEF IInv
<1>2. \A r \in Statics :
        /\ Published(r)' = Published(r)
        /\ Building(r)' <=> Building(r)
        /\ Linked(r)' <=> Linked(r)
  BY <1>1 DEF Published, Building, Linked
<1>3. ObjectInv'
  BY <1>1, <1>2 DEF LInv, ObjectInv
<1>4. ListInv'
  BY <1>2, StaticsAssumption DEF LInv, ListInv, listVars, IInv, TypeOK, PhaseInv
<1> QED
  BY <1>3, <1>4 DEF LInv

-----------------------------------------------------------------------------
(***************************************************************************)
(* The steps of a frame.                                                   *)
(***************************************************************************)
LEMMA ReadKeepsLists ==
  ASSUME IInv, LInv, NEW t \in Threads, NEW s \in Statics, Read(t, s)
  PROVE  LInv'
<1> DEFINE w == IF SeesPtr(t, s) THEN "use" ELSE "register"
<1>1. /\ Goto(t, s, w) /\ w \in PCs /\ pc[t][s] = "read"
      /\ UNCHANGED <<mode, ptr, buffer, live, listVars, phase, dying>>
  BY DEF Read, Running, PCs, lockVars, memVars, mainVars
<1>2. w = "register" /\ ~mode => ~Published(s)
  BY SeesPublished
<1> QED
  BY <1>1, <1>2, FrameKeepsLists

LEMMA UseKeepsLists ==
  ASSUME IInv, LInv, NEW t \in Threads, NEW s \in Statics, Use(t, s)
  PROVE  LInv'
<1>1. /\ Goto(t, s, "idle") /\ "idle" \in PCs /\ pc[t][s] = "use"
      /\ UNCHANGED <<mode, ptr, buffer, live, listVars, phase, dying>>
  BY DEF Use, Running, PCs, lockVars, memVars, mainVars
<1> QED
  BY <1>1, FrameKeepsLists

LEMMA RegisterKeepsLists ==
  ASSUME IInv, LInv, NEW t \in Threads, NEW s \in Statics, Register(t, s)
  PROVE  LInv'
<1> DEFINE w == IF mode THEN "acquire" ELSE "create"
<1>1. /\ Goto(t, s, w) /\ w \in PCs /\ pc[t][s] = "register"
      /\ UNCHANGED <<mode, ptr, buffer, live, listVars, phase, dying>>
  BY DEF Register, Running, PCs, lockVars, memVars, mainVars
<1>2. w = "create" => ~Published(s)
  BY <1>1 DEF LInv, ObjectInv
<1> QED
  BY <1>1, <1>2, FrameKeepsLists

LEMMA AcquireKeepsLists ==
  ASSUME IInv, LInv, NEW t \in Threads, NEW s \in Statics, Acquire(t, s)
  PROVE  LInv'
<1>1. /\ Goto(t, s, "check") /\ "check" \in PCs /\ pc[t][s] = "acquire"
      /\ UNCHANGED <<mode, ptr, buffer, live, listVars, phase, dying>>
  BY DEF Acquire, Running, PCs, lockVars, memVars, mainVars
<1> QED
  BY <1>1, FrameKeepsLists

LEMMA CheckKeepsLists ==
  ASSUME IInv, LInv, NEW t \in Threads, NEW s \in Statics, Check(t, s)
  PROVE  LInv'
<1> DEFINE w == IF MustCreate(t, s) THEN "create" ELSE "release"
<1>1. /\ Goto(t, s, w) /\ w \in PCs /\ pc[t][s] = "check" /\ "check" \in Locked
      /\ UNCHANGED <<mode, ptr, buffer, live, listVars, phase, dying>>
  BY DEF Check, Running, PCs, Locked, lockVars, memVars, mainVars
<1>2. w = "create" => ~Published(s)
  BY <1>1, SeesPublished DEF MustCreate
<1> QED
  BY <1>1, <1>2, FrameKeepsLists

LEMMA FenceKeepsLists ==
  ASSUME IInv, LInv, NEW t \in Threads, NEW s \in Statics, Fence(t, s)
  PROVE  LInv'
<1>1. /\ Goto(t, s, "publish") /\ "publish" \in PCs /\ pc[t][s] = "fence"
      /\ UNCHANGED <<mode, ptr, buffer, live, listVars, phase, dying>>
  BY DEF Fence, Running, PCs, lockVars, memVars, mainVars
<1>2. ~Published(s)
  BY <1>1 DEF LInv, ObjectInv
<1> QED
  BY <1>1, <1>2, FrameKeepsLists

LEMMA ReleaseKeepsLists ==
  ASSUME IInv, LInv, NEW t \in Threads, NEW s \in Statics, Release(t, s)
  PROVE  LInv'
<1>1. /\ Goto(t, s, "use") /\ "use" \in PCs /\ pc[t][s] = "release"
      /\ UNCHANGED <<mode, ptr, buffer, live, listVars, phase, dying>>
  BY DEF Release, Running, PCs, lockVars, memVars, mainVars
<1> QED
  BY <1>1, FrameKeepsLists

\* Whoever calls: a client, a constructor or a destructor.
LEMMA PushKeepsLists ==
  ASSUME IInv, LInv, NEW t \in Threads, NEW s \in Statics, Push(t, s),
         UNCHANGED <<lockVars, memVars, listVars, uses, mainVars>>
  PROVE  LInv'
<1>1. /\ Goto(t, s, "read") /\ "read" \in PCs /\ pc[t][s] = "idle"
      /\ UNCHANGED <<mode, ptr, buffer, live, listVars, phase, dying>>
  BY DEF Push, PCs, lockVars, memVars, mainVars
<1> QED
  BY <1>1, FrameKeepsLists

LEMMA ConstructKeepsLists ==
  ASSUME IInv, LInv, NEW t \in Threads, NEW s \in Statics, Construct(t, s)
  PROVE  LInv'
<1> DEFINE w == IF mode THEN "fence" ELSE "publish"
<1>1. /\ Goto(t, s, w) /\ w \in PCs /\ pc[t][s] = "create" /\ "create" \in Locked
      /\ live' = [live EXCEPT ![s] = @ + 1]
      /\ buffer' = IF mode THEN [buffer EXCEPT ![t] = @ \cup {Obj(s)}] ELSE buffer
      /\ UNCHANGED <<mode, ptr, listVars, phase, dying>>
  BY DEF Construct, Running, PCs, Locked, lockVars, mainVars
<1>2. \A u \in Threads, r \in Statics :
        pc'[u][r] = IF u = t /\ r = s THEN w ELSE pc[u][r]
  BY <1>1, GotoMoves DEF IInv
<1>3. /\ \A r \in Statics : live'[r] = IF r = s THEN live[r] + 1 ELSE live[r]
      /\ \A u \in Threads, r \in Statics : Ptr(r) \in buffer'[u] <=> Ptr(r) \in buffer[u]
  BY <1>1, CellsDiffer DEF IInv, TypeOK
<1>4. /\ \A r \in Statics : Published(r)' <=> Published(r)
      /\ \A r \in Statics : r # s => (Building(r)' <=> Building(r))
      /\ \A r \in Statics : Linked(r)' <=> Linked(r)
  <2>1. \A r \in Statics : Published(r)' <=> Published(r)
    BY <1>1, <1>3 DEF Published, Ptr
  <2>2. \A r \in Statics : r # s => (Building(r)' <=> Building(r))
    BY <1>2 DEF Building
  <2>3. \A r \in Statics : Linked(r)' <=> Linked(r)
    BY <1>1, <1>2, <2>1 DEF Linked
  <2> QED
    BY <2>1, <2>2, <2>3
<1>5. ~Published(s) /\ ~Building(s) /\ Building(s)'
  <2>1. ~Published(s)
    BY <1>1 DEF LInv, ObjectInv
  <2>2. ~Building(s)
    BY <1>1, OneBuilder DEF Building, Locked
  <2>3. Building(s)'
    BY <1>2 DEF Building
  <2> QED
    BY <2>1, <2>2, <2>3
<1>6. ObjectInv'
  BY <1>1, <1>2, <1>3, <1>4, <1>5 DEF LInv, ObjectInv
<1>7. ListInv'
  BY <1>1, <1>4, StaticsAssumption DEF LInv, ListInv, listVars, IInv, TypeOK, PhaseInv
<1> QED
  BY <1>6, <1>7 DEF LInv

LEMMA PublishKeepsLists ==
  ASSUME IInv, LInv, NEW t \in Threads, NEW s \in Statics, Publish(t, s)
  PROVE  LInv'
<1>1. /\ Goto(t, s, "link") /\ "link" \in PCs
      /\ pc[t][s] = "publish" /\ "publish" \in Locked
      /\ deleterFn' = [deleterFn EXCEPT ![s] = TRUE]
      /\ buffer' = IF mode THEN [buffer EXCEPT ![t] = @ \cup {Ptr(s)}] ELSE buffer
      /\ ptr' = IF mode THEN ptr ELSE [ptr EXCEPT ![s] = TRUE]
      /\ UNCHANGED <<mode, live, next, list, phase, dying>>
  BY DEF Publish, Running, PCs, Locked, lockVars, mainVars
<1>2. \A u \in Threads, r \in Statics :
        pc'[u][r] = IF u = t /\ r = s THEN "link" ELSE pc[u][r]
  BY <1>1, GotoMoves DEF IInv
<1>3. \A r \in Statics : deleterFn'[r] <=> deleterFn[r] \/ r = s
  BY <1>1 DEF IInv, TypeOK
<1>4. \A r \in Statics : Published(r)' <=> Published(r) \/ r = s
  <2>1. CASE mode
    <3>1. \A u \in Threads : buffer'[u] =
            IF u = t THEN buffer[u] \cup {Ptr(s)} ELSE buffer[u]
      BY <1>1, <2>1 DEF IInv, TypeOK
    <3>2. \A u \in Threads, r \in Statics :
            Ptr(r) \in buffer'[u] <=> Ptr(r) \in buffer[u] \/ (u = t /\ r = s)
      BY <3>1, CellsDiffer
    <3> QED
      BY <1>1, <2>1, <3>2 DEF Published, Ptr
  <2>2. CASE ~mode
    <3>1. \A r \in Statics : ptr'[r] <=> ptr[r] \/ r = s
      BY <1>1, <2>2 DEF IInv, TypeOK
    <3> QED
      BY <1>1, <2>2, <3>1 DEF Published, Ptr
  <2> QED
    BY <2>1, <2>2
<1>5. \A u \in Threads : pc'[u][s] \notin {"create", "fence", "publish"}
  BY <1>1, <1>2, OneBuilder DEF Locked
<1>6. ~Published(s) /\ Building(s) /\ ~Building(s)'
  BY <1>1, <1>5 DEF LInv, ObjectInv, Building
<1>7. \A r \in Statics : r # s => (Building(r)' <=> Building(r))
  BY <1>2 DEF Building
<1>8. \A u \in Threads : pc'[u][s] = "register" => mode
  <2> SUFFICES ASSUME NEW u \in Threads, pc'[u][s] = "register", ~mode PROVE FALSE
    OBVIOUS
  <2>1. u # t /\ pc[u][s] = "register"
    BY <1>2
  <2> QED
    BY <1>1, <2>1 DEF IInv, ModeInv
<1>9. \A r \in Statics : Linked(r)' <=> Linked(r)
  <2>1. ~Linked(s) /\ ~Linked(s)'
    BY <1>2, <1>6 DEF Linked
  <2>2. ASSUME NEW r \in Statics, r # s PROVE Linked(r)' <=> Linked(r)
    BY <1>1, <1>2, <1>4, <2>2 DEF Linked
  <2> QED
    BY <2>1, <2>2
<1>10. ObjectInv'
  BY <1>1, <1>2, <1>4, <1>5, <1>6, <1>7, <1>8 DEF LInv, ObjectInv
<1>11. ListInv'
  <2>1. phase' = "delete" => Published(dying)'
    BY <1>1, <1>4 DEF LInv, ListInv, IInv, PhaseInv
  <2> QED
    BY <1>1, <1>3, <1>4, <1>9, <2>1, StaticsAssumption DEF LInv, ListInv, IInv, TypeOK
<1> QED
  BY <1>10, <1>11 DEF LInv

LEMMA LinkKeepsLists ==
  ASSUME IInv, LInv, NEW t \in Threads, NEW s \in Statics, Link(t, s)
  PROVE  LInv'
<1> DEFINE w == IF mode THEN "release" ELSE "use"
<1>1. /\ Goto(t, s, w) /\ w \in PCs /\ pc[t][s] = "link" /\ "link" \in Locked
      /\ next' = [next EXCEPT ![s] = list] /\ list' = s
      /\ UNCHANGED <<mode, ptr, buffer, live, deleterFn, phase, dying>>
  BY DEF Link, Running, PCs, Locked, lockVars, memVars, mainVars
<1>2. \A u \in Threads, r \in Statics :
        pc'[u][r] = IF u = t /\ r = s THEN w ELSE pc[u][r]
  BY <1>1, GotoMoves DEF IInv
<1>3. \A r \in Statics : next'[r] = IF r = s THEN list ELSE next[r]
  BY <1>1 DEF IInv, TypeOK
<1>4. \A r \in Statics : Published(r)' <=> Published(r)
  BY <1>1 DEF Published, Ptr
<1>5. \A r \in Statics : Building(r)' <=> Building(r)
  BY <1>1, <1>2 DEF Building
<1>6. ObjectInv'
  BY <1>1, <1>2, <1>4, <1>5 DEF LInv, ObjectInv
<1>7. ~Linked(s) /\ Linked(s)'
  <2>1. ~Linked(s)
    BY <1>1 DEF Linked
  <2>2. Published(s)
    BY <1>1 DEF IInv, MemoryInv, SeesPtr, Published
  <2>3. s # dying
    BY <1>1, DyingIsNotInUse
  <2>4. \A u \in Threads : pc'[u][s] # "link"
    BY <1>1, <1>2, OneBuilder
  <2> QED
    BY <1>1, <1>4, <2>1, <2>2, <2>3, <2>4 DEF Linked
<1>8. \A r \in Statics : Linked(r) => Linked(r)'
  BY <1>1, <1>2, <1>4 DEF Linked
<1>9. /\ list # s /\ list \in Statics \cup {NULL}
      /\ \A r \in Statics : next[r] # s /\ next[r] \in Statics \cup {NULL}
  BY <1>7, StaticsAssumption DEF LInv, ListInv, IInv, TypeOK
<1>10. ListInv'
  <2>1. \A r \in Statics : deleterFn'[r] <=> Published(r)'
    BY <1>1, <1>4 DEF LInv, ListInv
  <2>2. list' # NULL => Linked(list)'
    BY <1>1, <1>7
  <2>3. ASSUME NEW r \in Statics, next'[r] # NULL
        PROVE  /\ Linked(r)' /\ Linked(next[r])'
               /\ next'[r] # list'
               /\ \A q \in Statics : next'[q] = next'[r] => q = r
    <3>1. CASE r = s
      <4>1. next'[r] = list /\ list \in Statics /\ Linked(list)
        BY <1>3, <1>9, <2>3, <3>1 DEF LInv, ListInv
      <4>2. \A q \in Statics : next'[q] = list => q = s
        BY <1>3, <4>1, StaticsAssumption DEF LInv, ListInv
      <4> QED
        BY <1>1, <1>7, <1>8, <1>9, <3>1, <4>1, <4>2 DEF Linked, Published
    <3>2. CASE r # s
      <4>1. next'[r] = next[r] /\ next[r] \in Statics /\ Linked(r) /\ Linked(next[r])
        BY <1>3, <1>9, <2>3, <3>2 DEF LInv, ListInv
      <4>2. \A q \in Statics : next'[q] = next[r] => q = r
        BY <1>3, <2>3, <3>2, <4>1 DEF LInv, ListInv
      <4> QED
        BY <1>1, <1>8, <1>9, <4>1, <4>2 DEF Linked, Published
    <3> QED
      BY <3>1, <3>2
  <2>4. phase' = "delete" => Published(dying)'
    BY <1>1, <1>4 DEF LInv, ListInv, IInv, PhaseInv
  <2> QED
    BY <2>1, <2>2, <2>3, <2>4 DEF ListInv
<1> QED
  BY <1>6, <1>10 DEF LInv

-----------------------------------------------------------------------------
(***************************************************************************)
(* The memory system, and Main.                                            *)
(***************************************************************************)
LEMMA DrainKeepsLists ==
  ASSUME IInv, LInv, NEW t \in Threads, NEW cell \in buffer[t], Drain(t, cell)
  PROVE  LInv'
<1>1. /\ UNCHANGED <<live, lockVars, listVars, frameVars, mainVars>>
      /\ buffer' = [buffer EXCEPT ![t] = @ \ {cell}]
  BY DEF Drain
<1>2. PICK c \in Statics : cell = Ptr(c) \/ cell = Obj(c)
  BY DEF IInv, TypeOK, Cells, Ptr, Obj
<1>3. \A r \in Statics : ptr'[r] <=> ptr[r] \/ cell = Ptr(r)
  <2>1. /\ cell = Ptr(c) => ptr' = [ptr EXCEPT ![c] = TRUE]
        /\ cell = Obj(c) => UNCHANGED ptr
    BY DEF Drain, Ptr, Obj
  <2> QED
    BY <1>2, <2>1, CellsDiffer DEF IInv, TypeOK
<1>4. \A u \in Threads :
        buffer'[u] = IF u = t THEN buffer[u] \ {cell} ELSE buffer[u]
  BY <1>1 DEF IInv, TypeOK
<1>5. /\ \A r \in Statics : Published(r)' <=> Published(r)
      /\ \A r \in Statics : Building(r)' <=> Building(r)
      /\ \A r \in Statics : Linked(r)' <=> Linked(r)
  <2>1. \A r \in Statics : Published(r)' <=> Published(r)
    BY <1>3, <1>4 DEF Published, Ptr
  <2>2. \A r \in Statics : Building(r)' <=> Building(r)
    BY <1>1 DEF Building, frameVars
  <2>3. \A r \in Statics : Linked(r)' <=> Linked(r)
    BY <1>1, <2>1 DEF Linked, frameVars, mainVars
  <2> QED
    BY <2>1, <2>2, <2>3
<1>6. ObjectInv'
  BY <1>1, <1>5 DEF LInv, ObjectInv, frameVars, lockVars
<1>7. ListInv'
  BY <1>1, <1>5, StaticsAssumption
  DEF LInv, ListInv, listVars, mainVars, IInv, TypeOK, PhaseInv
<1> QED
  BY <1>6, <1>7 DEF LInv

\* Main changes the mode, or begins or ends llvm_shutdown.
LEMMA PhaseKeepsLists ==
  ASSUME IInv, LInv, \A u \in Threads : Active(u) = {},
         UNCHANGED <<memVars, listVars, frameVars, dying>>, phase' # "delete"
  PROVE  LInv'
<1>1. \A u \in Threads, r \in Statics : pc[u][r] = "idle"
  BY IdleState
<1>2. /\ \A r \in Statics : Published(r)' <=> Published(r)
      /\ \A r \in Statics : Building(r)' <=> Building(r)
      /\ \A r \in Statics : Linked(r)' <=> Linked(r)
  BY DEF Published, Building, Linked, memVars, frameVars
<1>3. ObjectInv'
  BY <1>1, <1>2 DEF LInv, ObjectInv, memVars, frameVars
<1>4. ListInv'
  BY <1>2, StaticsAssumption DEF LInv, ListInv, listVars, IInv, TypeOK
<1> QED
  BY <1>3, <1>4 DEF LInv

LEMMA DestroyKeepsLists ==
  ASSUME IInv, LInv, NEW s \in Statics, Destroy(s)
  PROVE  LInv'
<1>1. /\ phase = "shutdown" /\ list = s /\ dying' = s /\ phase' = "delete"
      /\ list' = next[s] /\ next' = [next EXCEPT ![s] = NULL]
      /\ UNCHANGED <<ptr, buffer, live, deleterFn, frameVars>>
  BY DEF Destroy, Unlink
<1>2. \A u \in Threads, r \in Statics : pc[u][r] = "idle" /\ pc'[u][r] = "idle"
  BY <1>1, NoFrames, IdleState DEF frameVars
<1>3. \A r \in Statics : next'[r] = IF r = s THEN NULL ELSE next[r]
  BY <1>1 DEF IInv, TypeOK
<1>4. /\ \A r \in Statics : Published(r)' <=> Published(r)
      /\ \A r \in Statics : Building(r)' <=> Building(r)
  BY <1>1 DEF Published, Building, Ptr, frameVars
<1>5. \A r \in Statics : Linked(r)' <=> Linked(r) /\ r # s
  <2>1. dying = NULL
    BY <1>1 DEF IInv, PhaseInv
  <2> QED
    BY <1>1, <1>2, <1>4, <2>1, StaticsAssumption DEF Linked
<1>6. ObjectInv'
  BY <1>1, <1>2, <1>4 DEF LInv, ObjectInv
<1>7. Linked(s) /\ \A r \in Statics : next[r] # s
  BY <1>1, StaticsAssumption DEF LInv, ListInv
<1>8. ListInv'
  <2>1. \A r \in Statics : next[r] \in Statics \cup {NULL}
    BY DEF IInv, TypeOK
  <2>2. list' # NULL => Linked(list)'
    <3> SUFFICES ASSUME list' # NULL PROVE Linked(list)'
      OBVIOUS
    <3>1. next[s] \in Statics /\ Linked(next[s]) /\ next[s] # s
      BY <1>1, <1>7, <2>1 DEF LInv, ListInv
    <3> QED
      BY <1>1, <1>5, <3>1 DEF Linked, Published
  <2>3. ASSUME NEW r \in Statics, next'[r] # NULL
        PROVE  /\ Linked(r)' /\ Linked(next[r])'
               /\ next'[r] # list'
               /\ \A q \in Statics : next'[q] = next'[r] => q = r
    <3>1. r # s /\ next'[r] = next[r] /\ next[r] \in Statics
      BY <1>3, <2>1, <2>3
    <3>2. /\ Linked(r) /\ Linked(next[r]) /\ next[r] # s
          /\ \A q \in Statics : next[q] = next[r] => q = r
      BY <1>7, <3>1, <2>3 DEF LInv, ListInv
    <3>3. Linked(r)' /\ Linked(next[r])'
      BY <1>5, <3>1, <3>2 DEF Linked, Published
    <3>4. next'[r] # list'
      BY <1>1, <3>1, <3>2
    <3>5. \A q \in Statics : next'[q] = next'[r] => q = r
      BY <1>3, <3>1, <3>2, StaticsAssumption
    <3> QED
      BY <3>3, <3>4, <3>5
  <2>4. \A r \in Statics : deleterFn'[r] <=> Published(r)'
    BY <1>1, <1>4 DEF LInv, ListInv
  <2>5. Published(dying)'
    BY <1>1, <1>4, <1>7 DEF Linked, Published
  <2> QED
    BY <2>2, <2>3, <2>4, <2>5 DEF ListInv
<1> QED
  BY <1>6, <1>8 DEF LInv

LEMMA DestroyedKeepsLists ==
  ASSUME IInv, LInv, NEW s \in Statics, Destroyed(s)
  PROVE  LInv'
<1>1. /\ phase = "delete" /\ dying = s /\ top[Main] = NULL
      /\ dying' = NULL /\ phase' = "shutdown"
      /\ live' = [live EXCEPT ![s] = @ - 1]
      /\ ptr' = [ptr EXCEPT ![s] = FALSE]
      /\ deleterFn' = [deleterFn EXCEPT ![s] = FALSE]
      /\ UNCHANGED <<buffer, next, list, frameVars>>
  BY DEF Destroyed
<1>2. /\ \A u \in Threads, r \in Statics : pc[u][r] = "idle" /\ pc'[u][r] = "idle"
      /\ \A u \in Threads : buffer[u] = {} /\ buffer'[u] = {}
  BY <1>1, NoFrames, IdleState DEF frameVars
<1>3. /\ \A r \in Statics : live'[r] = IF r = s THEN live[r] - 1 ELSE live[r]
      /\ \A r \in Statics : ptr'[r] <=> ptr[r] /\ r # s
      /\ \A r \in Statics : deleterFn'[r] <=> deleterFn[r] /\ r # s
  BY <1>1 DEF IInv, TypeOK
<1>4. /\ \A r \in Statics : Published(r)' <=> Published(r) /\ r # s
      /\ \A r \in Statics : ~Building(r) /\ ~Building(r)'
  BY <1>2, <1>3 DEF Published, Building
<1>5. \A r \in Statics : Linked(r)' <=> Linked(r)
  BY <1>1, <1>2, <1>4, StaticsAssumption DEF Linked
<1>6. ObjectInv'
  <2>1. Published(s)
    BY <1>1 DEF LInv, ListInv, Published
  <2>2. \A r \in Statics : live'[r] = IF Published(r)' \/ Building(r)' THEN 1 ELSE 0
    BY <1>3, <1>4, <2>1 DEF LInv, ObjectInv
  <2> QED
    BY <1>2, <2>2 DEF ObjectInv
<1>7. ListInv'
  <2>1. \A r \in Statics : deleterFn'[r] <=> Published(r)'
    BY <1>3, <1>4 DEF LInv, ListInv
  <2>2. list \in Statics \cup {NULL} /\ \A r \in Statics : next[r] \in Statics \cup {NULL}
    BY DEF IInv, TypeOK
  <2> QED
    BY <1>1, <1>5, <2>1, <2>2, StaticsAssumption DEF LInv, ListInv
<1> QED
  BY <1>6, <1>7 DEF LInv

-----------------------------------------------------------------------------
\* Every step preserves the invariant.
LEMMA NextLInv == IInv /\ LInv /\ [Next]_vars => LInv'
<1> SUFFICES ASSUME IInv, LInv, [Next]_vars PROVE LInv'
  OBVIOUS
<1>1. CASE \E t \in Threads, s \in Statics : Call(t, s) \/ Frame(t, s)
  <2> PICK t \in Threads, s \in Statics : Call(t, s) \/ Frame(t, s)
    BY <1>1
  <2>1. CASE Call(t, s)
    BY <2>1, PushKeepsLists DEF Call
  <2>2. CASE \E d \in Statics : CallFromCreator(t, s, d)
    BY <2>2, PushKeepsLists DEF CallFromCreator
  <2> QED
    BY <2>1, <2>2, ReadKeepsLists, UseKeepsLists, RegisterKeepsLists,
       AcquireKeepsLists, CheckKeepsLists, ConstructKeepsLists, FenceKeepsLists,
       PublishKeepsLists, LinkKeepsLists, ReleaseKeepsLists
    DEF Frame
<1>2. CASE \E t \in Threads : \E cell \in buffer[t] : Drain(t, cell)
  BY <1>2, DrainKeepsLists
<1>3. CASE StartMultithreaded \/ StopMultithreaded \/ Shutdown
  <2>1. /\ phase' # "delete"
        /\ UNCHANGED <<memVars, listVars, frameVars, dying>>
    BY <1>3 DEF StartMultithreaded, StopMultithreaded, Shutdown, mainVars
  <2>2. \A u \in Threads : Active(u) = {}
    BY <1>3, NoFrames DEF StartMultithreaded, StopMultithreaded, Shutdown
  <2> QED
    BY <2>1, <2>2, PhaseKeepsLists
<1>4. CASE ShutdownStep
  <2>1. CASE \E d \in Statics : CallFromDeleter(d)
    BY <2>1, StaticsAssumption, PushKeepsLists DEF CallFromDeleter
  <2>2. CASE ShutdownDone
    <3>1. /\ phase' # "delete" /\ phase = "shutdown"
          /\ UNCHANGED <<memVars, listVars, frameVars, dying>>
      BY <2>2 DEF ShutdownDone
    <3> QED
      BY <3>1, NoFrames, PhaseKeepsLists
  <2> QED
    BY <1>4, <2>1, <2>2, DestroyKeepsLists, DestroyedKeepsLists DEF ShutdownStep
<1>5. CASE UNCHANGED vars
  <2>1. /\ UNCHANGED <<mode, ptr, buffer, live, pc, phase, dying, deleterFn, next, list>>
    BY <1>5 DEF vars, lockVars, memVars, listVars, frameVars, mainVars
  <2> QED
    BY <2>1 DEF LInv, ObjectInv, ListInv, Published, Building, Linked, Ptr
<1> QED
  BY <1>1, <1>2, <1>3, <1>4, <1>5 DEF Next

\* There is one object per published static, and StaticList refers to every
\* static at most once, in every reachable state.
THEOREM ListInvariance == Spec => []LInv
BY Invariance, InitLInv, NextLInv, PTL DEF Spec

\* However many threads race to the first use of a static, at most one object
\* exists, and when no call is in progress an object exists exactly where a
\* Ptr points to one: nothing leaks, nothing is deleted twice.
THEOREM ObjectsAreOne == Spec => []OneObject
<1>1. IInv /\ LInv => OneObject
  <2> SUFFICES ASSUME IInv, LInv, NEW s \in Statics
               PROVE  /\ live[s] <= 1
                      /\ Quiescent /\ phase = "run" => (live[s] = 1 <=> ptr[s])
    BY DEF OneObject
  <2>1. live[s] = IF Published(s) \/ Building(s) THEN 1 ELSE 0
    BY DEF LInv, ObjectInv
  <2>2. ASSUME Quiescent PROVE ~Building(s) /\ (Published(s) <=> ptr[s])
    <3>1. /\ \A u \in Threads, r \in Statics : pc[u][r] = "idle"
          /\ \A u \in Threads : buffer[u] = {}
      BY <2>2, NoFrames, IdleState
    <3> QED
      BY <3>1 DEF Building, Published
  <2> QED
    BY <2>1, <2>2
<1> QED
  BY Invariance, ListInvariance, <1>1, PTL

\* The assertion "Partially initialized ManagedStatic!?" never fires: what a
\* static was in its earlier lives leaves nothing behind.
THEOREM NeverPartial == Spec => []NotPartiallyInitialized
<1>1. IInv /\ LInv => NotPartiallyInitialized
  <2> SUFFICES ASSUME IInv, LInv, NEW t \in Threads, NEW s \in Statics,
                      Running(t, s, "register"), ~mode
               PROVE  ~ptr[s] /\ ~deleterFn[s] /\ next[s] = NULL
    BY DEF NotPartiallyInitialized
  <2>1. ~Published(s)
    BY DEF Running, LInv, ObjectInv
  <2> QED
    BY <2>1 DEF Published, Linked, LInv, ListInv
<1> QED
  BY Invariance, ListInvariance, <1>1, PTL

-----------------------------------------------------------------------------
(***************************************************************************)
(* ManagedStatic implements StaticLifetime: objects are destroyed in       *)
(* reverse order of construction, so none outlives what it was built from. *)
(*                                                                         *)
(* StaticList is a list because its statics can be numbered so that the    *)
(* head has the largest number and Next goes to the next smaller one.  The *)
(* numbering is quantified over: no step of the program keeps it.          *)
(***************************************************************************)
Ordered(pos) ==
  /\ pos \in [Statics -> Nat]
  /\ list = NULL => \A r \in Statics : ~Linked(r)
  /\ list # NULL => \A r \in Statics : Linked(r) /\ r # list => pos[r] < pos[list]
  /\ \A s \in Statics : Linked(s) =>
       /\ next[s] = NULL => \A r \in Statics : Linked(r) /\ r # s => pos[s] < pos[r]
       /\ next[s] # NULL =>
            /\ pos[next[s]] < pos[s]
            /\ \A r \in Statics : Linked(r) /\ r # s /\ r # next[s] =>
                 pos[r] < pos[next[s]] \/ pos[s] < pos[r]
       /\ \A d \in CreatorUses[s] : pos[d] < pos[s]

\* What a constructor has used is linked when it goes on, and in memory before
\* the object it constructs is published.
UsesInv ==
  /\ \A t \in Threads, s \in Statics : \A d \in CreatorUses[s] :
       /\ pc[t][s] = "create" => d \in uses[t][s] \/ Linked(d)
       /\ pc[t][s] \in {"fence", "publish"} => Linked(d)
       /\ pc[t][s] = "publish" => ptr[d]
  /\ \A s \in Statics : Published(s) =>
       \A d \in CreatorUses[s] : ptr[d] /\ Linked(d)

OInv == UsesInv /\ \E pos : Ordered(pos)

-----------------------------------------------------------------------------
LEMMA InitOInv == Init => OInv
<1> SUFFICES ASSUME Init PROVE OInv
  OBVIOUS
<1> USE StaticsAssumption
<1>1. \A s \in Statics : ~Published(s) /\ ~Linked(s)
  BY DEF Init, Published, Linked
<1>2. UsesInv
  BY <1>1 DEF Init, UsesInv
<1>3. Ordered([s \in Statics |-> 0])
  BY <1>1 DEF Init, Ordered
<1> QED
  BY <1>2, <1>3 DEF OInv

\* The numbering need not change while the list does not.
LEMMA OrderKept ==
  ASSUME IInv, LInv, OInv, UNCHANGED <<list, next>>,
         \A r \in Statics : Linked(r)' <=> Linked(r)
  PROVE  \E pos : Ordered(pos)'
<1>1. PICK pos : Ordered(pos)
  BY DEF OInv
<1>2. Ordered(pos)'
  BY <1>1, StaticsAssumption DEF Ordered
<1> QED
  BY <1>2

\* A frame that moves, and neither publishes nor links.
LEMMA FrameKeepsOrder ==
  ASSUME IInv, LInv, OInv, NEW t \in Threads, NEW s \in Statics, NEW w \in PCs,
         Goto(t, s, w), UNCHANGED <<ptr, list, next, dying>>,
         \A r \in Statics : Published(r)' <=> Published(r),
         pc[t][s] # "link", w # "link",
         \A u \in Threads, r \in Statics : \A d \in CreatorUses[r] :
            pc'[u][r] = "create" => d \in uses'[u][r] \/ Linked(d),
         \A d \in CreatorUses[s] :
            /\ w \in {"fence", "publish"} => Linked(d)
            /\ w = "publish" => ptr[d]
  PROVE  OInv'
<1>1. \A u \in Threads, r \in Statics :
        pc'[u][r] = IF u = t /\ r = s THEN w ELSE pc[u][r]
  BY GotoMoves DEF IInv
<1>2. \A r \in Statics : Linked(r)' <=> Linked(r)
  BY <1>1 DEF Linked
<1>3. \A r \in Statics : \A d \in CreatorUses[r] : d \in Statics
  BY StaticsAssumption
<1>4. UsesInv'
  BY <1>1, <1>2, <1>3 DEF OInv, UsesInv
<1> QED
  BY <1>2, <1>4, OrderKept DEF OInv

\* Most of them change nothing else that the invariant speaks of.
LEMMA FrameMovesOrder ==
  ASSUME IInv, LInv, OInv, NEW t \in Threads, NEW s \in Statics, NEW w \in PCs,
         Goto(t, s, w), UNCHANGED <<ptr, buffer, list, next, dying, uses>>,
         pc[t][s] # "link", w \notin {"create", "fence", "publish", "link"}
  PROVE  OInv'
<1>1. \A r \in Statics : Published(r)' <=> Published(r)
  BY DEF Published, Ptr
<1>2. \A u \in Threads, r \in Statics : \A d \in CreatorUses[r] :
        pc'[u][r] = "create" => d \in uses'[u][r] \/ Linked(d)
  BY GotoMoves DEF IInv, OInv, UsesInv
<1> QED
  BY <1>1, <1>2, FrameKeepsOrder

-----------------------------------------------------------------------------
(***************************************************************************)
(* The steps of a frame.                                                   *)
(***************************************************************************)
LEMMA ReadKeepsOrder ==
  ASSUME IInv, LInv, OInv, NEW t \in Threads, NEW s \in Statics, Read(t, s)
  PROVE  OInv'
<1> DEFINE w == IF SeesPtr(t, s) THEN "use" ELSE "register"
<1>1. /\ Goto(t, s, w) /\ w \in PCs /\ pc[t][s] = "read"
      /\ w \notin {"create", "fence", "publish", "link"}
      /\ UNCHANGED <<ptr, buffer, list, next, dying, uses>>
  BY DEF Read, Running, PCs, memVars, listVars, mainVars
<1> QED
  BY <1>1, FrameMovesOrder

LEMMA AcquireKeepsOrder ==
  ASSUME IInv, LInv, OInv, NEW t \in Threads, NEW s \in Statics, Acquire(t, s)
  PROVE  OInv'
<1>1. /\ Goto(t, s, "check") /\ "check" \in PCs /\ pc[t][s] = "acquire"
      /\ UNCHANGED <<ptr, buffer, list, next, dying, uses>>
  BY DEF Acquire, Running, PCs, memVars, listVars, mainVars
<1> QED
  BY <1>1, FrameMovesOrder

LEMMA ReleaseKeepsOrder ==
  ASSUME IInv, LInv, OInv, NEW t \in Threads, NEW s \in Statics, Release(t, s)
  PROVE  OInv'
<1>1. /\ Goto(t, s, "use") /\ "use" \in PCs /\ pc[t][s] = "release"
      /\ UNCHANGED <<ptr, buffer, list, next, dying, uses>>
  BY DEF Release, Running, PCs, memVars, listVars, mainVars
<1> QED
  BY <1>1, FrameMovesOrder

\* Whoever calls: a client, a constructor or a destructor.
LEMMA PushKeepsOrder ==
  ASSUME IInv, LInv, OInv, NEW t \in Threads, NEW s \in Statics, Push(t, s),
         UNCHANGED <<lockVars, memVars, listVars, uses, mainVars>>
  PROVE  OInv'
<1>1. /\ Goto(t, s, "read") /\ "read" \in PCs /\ pc[t][s] = "idle"
      /\ UNCHANGED <<ptr, buffer, list, next, dying, uses>>
  BY DEF Push, PCs, memVars, listVars, mainVars
<1> QED
  BY <1>1, FrameMovesOrder

\* A constructor that begins has everything still to use.
LEMMA BeginKeepsOrder ==
  ASSUME IInv, LInv, OInv, NEW t \in Threads, NEW s \in Statics,
         Goto(t, s, "create"), BeginCreate(t, s), pc[t][s] # "link",
         UNCHANGED <<ptr, buffer, list, next, dying>>
  PROVE  OInv'
<1>1. \A r \in Statics : Published(r)' <=> Published(r)
  BY DEF Published, Ptr
<1>2. \A u \in Threads, r \in Statics :
        uses'[u][r] = IF u = t /\ r = s THEN CreatorUses[s] ELSE uses[u][r]
  BY DEF BeginCreate, IInv, TypeOK
<1>3. "create" \in PCs
  BY DEF PCs
<1>4. \A u \in Threads, r \in Statics : \A d \in CreatorUses[r] :
        pc'[u][r] = "create" => d \in uses'[u][r] \/ Linked(d)
  BY <1>2, <1>3, GotoMoves DEF IInv, OInv, UsesInv
<1> QED
  BY <1>1, <1>3, <1>4, FrameKeepsOrder

LEMMA RegisterKeepsOrder ==
  ASSUME IInv, LInv, OInv, NEW t \in Threads, NEW s \in Statics, Register(t, s)
  PROVE  OInv'
<1>1. /\ pc[t][s] = "register"
      /\ UNCHANGED <<ptr, buffer, list, next, dying>>
  BY DEF Register, Running, memVars, listVars, mainVars
<1>2. CASE mode
  <2>1. Goto(t, s, "acquire") /\ "acquire" \in PCs /\ UNCHANGED uses
    BY <1>2 DEF Register, PCs
  <2> QED
    BY <1>1, <2>1, FrameMovesOrder
<1>3. CASE ~mode
  <2>1. Goto(t, s, "create") /\ BeginCreate(t, s)
    BY <1>3 DEF Register
  <2> QED
    BY <1>1, <2>1, BeginKeepsOrder
<1> QED
  BY <1>2, <1>3

LEMMA CheckKeepsOrder ==
  ASSUME IInv, LInv, OInv, NEW t \in Threads, NEW s \in Statics, Check(t, s)
  PROVE  OInv'
<1>1. /\ pc[t][s] = "check"
      /\ UNCHANGED <<ptr, buffer, list, next, dying>>
  BY DEF Check, Running, memVars, listVars, mainVars
<1>2. CASE MustCreate(t, s)
  <2>1. Goto(t, s, "create") /\ BeginCreate(t, s)
    BY <1>2 DEF Check
  <2> QED
    BY <1>1, <2>1, BeginKeepsOrder
<1>3. CASE ~MustCreate(t, s)
  <2>1. Goto(t, s, "release") /\ "release" \in PCs /\ UNCHANGED uses
    BY <1>3 DEF Check, PCs
  <2> QED
    BY <1>1, <2>1, FrameMovesOrder
<1> QED
  BY <1>2, <1>3

\* A dereference that returns to a constructor has made its static part of the
\* list: the constructor's thread is the only one that could be linking it.
LEMMA UseKeepsOrder ==
  ASSUME IInv, LInv, OInv, NEW t \in Threads, NEW s \in Statics, Use(t, s)
  PROVE  OInv'
<1>1. /\ Goto(t, s, "idle") /\ "idle" \in PCs /\ pc[t][s] = "use"
      /\ UNCHANGED <<ptr, buffer, list, next, dying>>
  BY DEF Use, Running, PCs, memVars, listVars, mainVars
<1>2. \A u \in Threads, r \in Statics :
        uses'[u][r] = uses[u][r] \/ (u = t /\ uses'[u][r] = uses[u][r] \ {s})
  <2>1. CASE caller[t][s] # NULL
    <3>1. uses' = [uses EXCEPT ![t][caller[t][s]] = @ \ {s}]
      BY <2>1 DEF Use
    <3> QED
      BY <3>1 DEF IInv, TypeOK
  <2>2. CASE caller[t][s] = NULL
    BY <2>2 DEF Use
  <2> QED
    BY <2>1, <2>2
<1>3. ASSUME NEW r \in Statics, pc[t][r] = "create"
      PROVE  Linked(s)
  <2>1. Published(s)
    BY <1>1 DEF IInv, MemoryInv, SeesPtr, Published
  <2>2. s # dying
    BY <1>1, DyingIsNotInUse
  <2>3. \A u \in Threads : pc[u][s] # "link"
    BY <1>1, <1>3, OneBuilder DEF Locked
  <2> QED
    BY <2>1, <2>2, <2>3 DEF Linked
<1>4. \A r \in Statics : Published(r)' <=> Published(r)
  BY <1>1 DEF Published, Ptr
<1>5. \A u \in Threads, r \in Statics : \A d \in CreatorUses[r] :
        pc'[u][r] = "create" => d \in uses'[u][r] \/ Linked(d)
  <2> SUFFICES ASSUME NEW u \in Threads, NEW r \in Statics,
                      NEW d \in CreatorUses[r], pc'[u][r] = "create"
               PROVE  d \in uses'[u][r] \/ Linked(d)
    OBVIOUS
  <2>1. pc[u][r] = "create"
    BY <1>1, GotoMoves DEF IInv
  <2>2. d \in uses[u][r] \/ Linked(d)
    BY <2>1 DEF OInv, UsesInv
  <2>3. u = t => Linked(s)
    BY <1>3, <2>1
  <2> QED
    BY <1>2, <2>2, <2>3
<1> QED
  BY <1>1, <1>4, <1>5, FrameKeepsOrder

LEMMA ConstructKeepsOrder ==
  ASSUME IInv, LInv, OInv, NEW t \in Threads, NEW s \in Statics, Construct(t, s)
  PROVE  OInv'
<1> DEFINE w == IF mode THEN "fence" ELSE "publish"
<1>1. /\ Goto(t, s, w) /\ w \in PCs /\ w \in {"fence", "publish"}
      /\ pc[t][s] = "create" /\ uses[t][s] = {}
      /\ buffer' = IF mode THEN [buffer EXCEPT ![t] = @ \cup {Obj(s)}] ELSE buffer
      /\ UNCHANGED <<ptr, list, next, dying, uses>>
  BY DEF Construct, Running, PCs, listVars, mainVars
<1>2. \A u \in Threads, r \in Statics :
        Ptr(r) \in buffer'[u] <=> Ptr(r) \in buffer[u]
  BY <1>1, CellsDiffer DEF IInv, TypeOK
<1>3. \A r \in Statics : Published(r)' <=> Published(r)
  BY <1>1, <1>2 DEF Published, Ptr
<1>4. \A u \in Threads, r \in Statics : \A d \in CreatorUses[r] :
        pc'[u][r] = "create" => d \in uses'[u][r] \/ Linked(d)
  BY <1>1, GotoMoves DEF IInv, OInv, UsesInv
<1>5. \A d \in CreatorUses[s] : Linked(d)
  BY <1>1 DEF OInv, UsesInv
<1>6. ~mode => \A d \in CreatorUses[s] : ptr[d]
  BY <1>5 DEF Linked, Published, IInv, MemoryInv
<1> QED
  BY <1>1, <1>3, <1>4, <1>5, <1>6, FrameKeepsOrder

LEMMA FenceKeepsOrder ==
  ASSUME IInv, LInv, OInv, NEW t \in Threads, NEW s \in Statics, Fence(t, s)
  PROVE  OInv'
<1>1. /\ Goto(t, s, "publish") /\ "publish" \in PCs
      /\ pc[t][s] = "fence" /\ "fence" \in Locked /\ buffer[t] = {}
      /\ UNCHANGED <<ptr, buffer, list, next, dying, uses>>
  BY DEF Fence, FencePassed, Running, PCs, Locked, memVars, listVars, mainVars
<1>2. \A r \in Statics : Published(r)' <=> Published(r)
  BY <1>1 DEF Published, Ptr
<1>3. \A u \in Threads, r \in Statics : \A d \in CreatorUses[r] :
        pc'[u][r] = "create" => d \in uses'[u][r] \/ Linked(d)
  BY <1>1, GotoMoves DEF IInv, OInv, UsesInv
<1>4. \A d \in CreatorUses[s] : Linked(d)
  BY <1>1 DEF OInv, UsesInv
<1>5. \A u \in Threads : buffer[u] = {}
  BY <1>1, OneBuffer
<1>6. \A d \in CreatorUses[s] : ptr[d]
  BY <1>4, <1>5 DEF Linked, Published
<1> QED
  BY <1>1, <1>2, <1>3, <1>4, <1>6, FrameKeepsOrder

\* Ptr only gains, the list stays: publishing, and draining.
LEMMA GrowthKeepsOrder ==
  ASSUME IInv, LInv, OInv, UNCHANGED <<list, next>>,
         \A r \in Statics : Linked(r)' <=> Linked(r),
         \A r \in Statics : ptr[r] => ptr'[r],
         \A u \in Threads, r \in Statics :
            /\ pc'[u][r] \in {"create", "fence", "publish"} => pc'[u][r] = pc[u][r]
            /\ uses'[u][r] = uses[u][r],
         \A r \in Statics : Published(r)' =>
            Published(r) \/ \E u \in Threads : pc[u][r] = "publish"
  PROVE  OInv'
<1>1. \A r \in Statics : \A d \in CreatorUses[r] : d \in Statics
  BY StaticsAssumption
<1>2. ASSUME NEW t \in Threads, NEW s \in Statics, NEW d \in CreatorUses[s]
      PROVE  /\ pc'[t][s] = "create" => d \in uses'[t][s] \/ Linked(d)'
             /\ pc'[t][s] \in {"fence", "publish"} => Linked(d)'
             /\ pc'[t][s] = "publish" => ptr'[d]
  BY <1>1 DEF OInv, UsesInv
<1>3. ASSUME NEW s \in Statics, Published(s)', NEW d \in CreatorUses[s]
      PROVE  ptr'[d] /\ Linked(d)'
  BY <1>1, <1>3 DEF OInv, UsesInv
<1>4. UsesInv'
  BY <1>2, <1>3 DEF UsesInv
<1> QED
  BY <1>4, OrderKept DEF OInv

LEMMA PublishKeepsOrder ==
  ASSUME IInv, LInv, OInv, NEW t \in Threads, NEW s \in Statics, Publish(t, s)
  PROVE  OInv'
<1>1. /\ Goto(t, s, "link") /\ "link" \in PCs
      /\ pc[t][s] = "publish" /\ "publish" \in Locked
      /\ buffer' = IF mode THEN [buffer EXCEPT ![t] = @ \cup {Ptr(s)}] ELSE buffer
      /\ ptr' = IF mode THEN ptr ELSE [ptr EXCEPT ![s] = TRUE]
      /\ UNCHANGED <<next, list, dying, uses>>
  BY DEF Publish, Running, PCs, Locked, mainVars
<1>2. \A u \in Threads, r \in Statics :
        pc'[u][r] = IF u = t /\ r = s THEN "link" ELSE pc[u][r]
  BY <1>1, GotoMoves DEF IInv
<1>3. /\ \A r \in Statics : ptr[r] => ptr'[r]
      /\ \A r \in Statics : r # s => ptr'[r] = ptr[r]
  BY <1>1 DEF IInv, TypeOK
<1>4. \A u \in Threads, r \in Statics :
        r # s => (Ptr(r) \in buffer'[u] <=> Ptr(r) \in buffer[u])
  BY <1>1, CellsDiffer DEF IInv, TypeOK
<1>5. \A r \in Statics : r # s => (Published(r)' <=> Published(r))
  BY <1>3, <1>4 DEF Published, Ptr
<1>6. ~Linked(s) /\ ~Linked(s)'
  <2>1. ~Published(s)
    BY <1>1 DEF LInv, ObjectInv
  <2> QED
    BY <1>2, <2>1 DEF Linked
<1>7. \A r \in Statics : Linked(r)' <=> Linked(r)
  <2>1. ASSUME NEW r \in Statics, r # s PROVE Linked(r)' <=> Linked(r)
    BY <1>1, <1>2, <1>5, <2>1 DEF Linked
  <2> QED
    BY <1>6, <2>1
<1> QED
  BY <1>1, <1>2, <1>3, <1>5, <1>7, GrowthKeepsOrder

LEMMA DrainKeepsOrder ==
  ASSUME IInv, LInv, OInv, NEW t \in Threads, NEW cell \in buffer[t], Drain(t, cell)
  PROVE  OInv'
<1>1. /\ UNCHANGED <<live, lockVars, listVars, frameVars, mainVars>>
      /\ buffer' = [buffer EXCEPT ![t] = @ \ {cell}]
  BY DEF Drain
<1>2. PICK c \in Statics : cell = Ptr(c) \/ cell = Obj(c)
  BY DEF IInv, TypeOK, Cells, Ptr, Obj
<1>3. \A r \in Statics : ptr'[r] <=> ptr[r] \/ cell = Ptr(r)
  <2>1. /\ cell = Ptr(c) => ptr' = [ptr EXCEPT ![c] = TRUE]
        /\ cell = Obj(c) => UNCHANGED ptr
    BY DEF Drain, Ptr, Obj
  <2> QED
    BY <1>2, <2>1, CellsDiffer DEF IInv, TypeOK
<1>4. \A u \in Threads :
        buffer'[u] = IF u = t THEN buffer[u] \ {cell} ELSE buffer[u]
  BY <1>1 DEF IInv, TypeOK
<1>5. \A r \in Statics : Published(r)' <=> Published(r)
  BY <1>3, <1>4 DEF Published, Ptr
<1>6. \A r \in Statics : Linked(r)' <=> Linked(r)
  BY <1>1, <1>5 DEF Linked, frameVars, mainVars
<1> QED
  BY <1>1, <1>3, <1>5, <1>6, GrowthKeepsOrder DEF frameVars, listVars

\* Main changes the mode, or begins or ends llvm_shutdown.
LEMMA PhaseKeepsOrder ==
  ASSUME IInv, LInv, OInv, UNCHANGED <<memVars, listVars, frameVars, dying>>
  PROVE  OInv'
<1>1. /\ UNCHANGED <<ptr, buffer, list, next, pc, uses, dying>>
  BY DEF memVars, listVars, frameVars
<1>2. \A r \in Statics : Published(r)' <=> Published(r)
  BY <1>1 DEF Published, Ptr
<1>3. \A r \in Statics : Linked(r)' <=> Linked(r)
  BY <1>1, <1>2 DEF Linked
<1> QED
  BY <1>1, <1>2, <1>3, GrowthKeepsOrder

\* A new head gets the largest number.
LEMMA LinkKeepsOrder ==
  ASSUME IInv, LInv, OInv, NEW t \in Threads, NEW s \in Statics, Link(t, s)
  PROVE  OInv'
<1> DEFINE w == IF mode THEN "release" ELSE "use"
<1>1. /\ Goto(t, s, w) /\ w \in PCs /\ w \in {"release", "use"}
      /\ pc[t][s] = "link" /\ "link" \in Locked
      /\ next' = [next EXCEPT ![s] = list] /\ list' = s
      /\ UNCHANGED <<ptr, buffer, dying, uses>>
  BY DEF Link, Running, PCs, Locked, memVars, mainVars
<1>2. \A u \in Threads, r \in Statics :
        pc'[u][r] = IF u = t /\ r = s THEN w ELSE pc[u][r]
  BY <1>1, GotoMoves DEF IInv
<1>3. \A r \in Statics : next'[r] = IF r = s THEN list ELSE next[r]
  BY <1>1 DEF IInv, TypeOK
<1>4. \A r \in Statics : Published(r)' <=> Published(r)
  BY <1>1 DEF Published, Ptr
<1>5. Published(s) /\ ~Linked(s) /\ \A r \in Statics : Linked(r)' <=> Linked(r) \/ r = s
  <2>1. ~Linked(s)
    BY <1>1 DEF Linked
  <2>2. Published(s)
    BY <1>1 DEF IInv, MemoryInv, SeesPtr, Published
  <2>3. s # dying
    BY <1>1, DyingIsNotInUse
  <2>4. \A u \in Threads : pc'[u][s] # "link"
    BY <1>1, <1>2, OneBuilder
  <2>5. Linked(s)'
    BY <1>1, <1>4, <2>2, <2>3, <2>4 DEF Linked
  <2>6. ASSUME NEW r \in Statics, r # s PROVE Linked(r)' <=> Linked(r)
    BY <1>1, <1>2, <1>4, <2>6 DEF Linked
  <2> QED
    BY <2>1, <2>2, <2>5, <2>6
<1>6. \A r \in Statics : \A d \in CreatorUses[r] : d \in Statics
  BY StaticsAssumption
<1>7. UsesInv'
  BY <1>1, <1>2, <1>4, <1>5, <1>6 DEF OInv, UsesInv
<1>8. PICK pos : Ordered(pos)
  BY DEF OInv
<1>9. PICK new : new = [pos EXCEPT ![s] = IF list = NULL THEN 0 ELSE pos[list] + 1]
  OBVIOUS
<1>10. /\ list \in Statics \cup {NULL}
       /\ \A r \in Statics : next[r] \in Statics \cup {NULL}
       /\ list # NULL => Linked(list)
       /\ \A r \in Statics : next[r] # NULL => Linked(next[r]) /\ Linked(r)
  BY StaticsAssumption DEF LInv, ListInv, IInv, TypeOK
<1>11. /\ new \in [Statics -> Nat]
       /\ \A r \in Statics : pos[r] \in Nat
       /\ \A r \in Statics : r # s => new[r] = pos[r]
       /\ list # NULL => new[s] = pos[list] + 1
  BY <1>8, <1>10, <1>9 DEF Ordered
<1>12. \A r \in Statics : Linked(r) => r # s /\ new[r] < new[s]
  BY <1>5, <1>8, <1>10, <1>11 DEF Ordered
<1>13. \A d \in CreatorUses[s] : Linked(d)
  BY <1>5 DEF OInv, UsesInv
<1>14. ASSUME NEW r \in Statics, Linked(r)'
       PROVE  /\ next'[r] = NULL => \A q \in Statics : Linked(q)' /\ q # r => new[r] < new[q]
              /\ next'[r] # NULL =>
                   /\ new[next'[r]] < new[r]
                   /\ \A q \in Statics : Linked(q)' /\ q # r /\ q # next'[r] =>
                        new[q] < new[next'[r]] \/ new[r] < new[q]
              /\ \A d \in CreatorUses[r] : new[d] < new[r]
  <2>1. CASE r = s
    <3>1. next'[r] = list
      BY <1>3, <2>1
    <3>2. list = NULL => \A q \in Statics : ~Linked(q)
      BY <1>8 DEF Ordered
    <3>3. ASSUME list # NULL
          PROVE  /\ new[list] < new[s]
                 /\ \A q \in Statics : Linked(q) /\ q # list => new[q] < new[list]
      <4>1. list \in Statics /\ Linked(list) /\ list # s
        BY <1>10, <1>12, <3>3
      <4>2. \A q \in Statics : Linked(q) /\ q # list => pos[q] < pos[list]
        BY <1>8, <3>3 DEF Ordered
      <4> QED
        BY <1>11, <1>12, <4>1, <4>2
    <3> QED
      BY <1>5, <1>6, <1>12, <1>13, <2>1, <3>1, <3>2, <3>3
  <2>2. CASE r # s
    <3>1. next'[r] = next[r] /\ Linked(r)
      BY <1>3, <1>5, <1>14, <2>2
    <3>2. /\ next[r] = NULL => \A q \in Statics : Linked(q) /\ q # r => pos[r] < pos[q]
          /\ next[r] # NULL =>
               /\ pos[next[r]] < pos[r]
               /\ \A q \in Statics : Linked(q) /\ q # r /\ q # next[r] =>
                    pos[q] < pos[next[r]] \/ pos[r] < pos[q]
          /\ \A d \in CreatorUses[r] : pos[d] < pos[r]
      BY <1>8, <3>1 DEF Ordered
    <3>3. \A d \in CreatorUses[r] : d \in Statics /\ d # s
      BY <1>5, <1>6, <3>1 DEF OInv, UsesInv, Linked
    <3>4. next[r] = NULL => \A q \in Statics : Linked(q)' /\ q # r => new[r] < new[q]
      BY <1>5, <1>11, <1>12, <2>2, <3>1, <3>2
    <3>5. ASSUME next[r] # NULL
          PROVE  /\ new[next[r]] < new[r]
                 /\ \A q \in Statics : Linked(q)' /\ q # r /\ q # next[r] =>
                      new[q] < new[next[r]] \/ new[r] < new[q]
      <4>1. next[r] \in Statics /\ next[r] # s
        BY <1>10, <1>12, <3>5
      <4> QED
        BY <1>5, <1>11, <1>12, <2>2, <3>1, <3>2, <3>5, <4>1
    <3>6. \A d \in CreatorUses[r] : new[d] < new[r]
      BY <1>11, <2>2, <3>2, <3>3
    <3> QED
      BY <3>1, <3>4, <3>5, <3>6
  <2> QED
    BY <2>1, <2>2
<1>15. Ordered(new)'
  <2>1. list' # NULL /\ \A r \in Statics : Linked(r)' /\ r # list' => new[r] < new[list']
    BY <1>1, <1>5, <1>12, StaticsAssumption
  <2> QED
    BY <1>11, <1>14, <2>1 DEF Ordered
<1> QED
  BY <1>7, <1>15 DEF OInv

\* The head that is destroyed has the largest number, so no linked static uses it.
LEMMA HeadIsUnused ==
  ASSUME IInv, LInv, OInv, NEW s \in Statics, list = s,
         NEW u \in Statics, Published(u), phase = "shutdown"
  PROVE  s \notin CreatorUses[u]
<1> SUFFICES ASSUME s \in CreatorUses[u] PROVE FALSE
  OBVIOUS
<1>1. PICK pos : Ordered(pos)
  BY DEF OInv
<1>2. \A r \in Statics : pos[r] \in Nat
  BY <1>1 DEF Ordered
<1>3. u # s
  BY RankDescends
<1>4. Linked(u)
  <2>1. \A t \in Threads : pc[t][u] # "link"
    BY NoFrames, IdleState
  <2>2. u # dying
    BY StaticsAssumption DEF IInv, PhaseInv
  <2> QED
    BY <2>1, <2>2 DEF Linked
<1>5. pos[s] < pos[u]
  BY <1>1, <1>4 DEF Ordered
<1>6. pos[u] < pos[s]
  BY <1>1, <1>3, <1>4, StaticsAssumption DEF Ordered
<1> QED
  BY <1>2, <1>5, <1>6

LEMMA DestroyKeepsOrder ==
  ASSUME IInv, LInv, OInv, NEW s \in Statics, Destroy(s)
  PROVE  OInv'
<1>1. /\ phase = "shutdown" /\ list = s /\ dying' = s
      /\ list' = next[s] /\ next' = [next EXCEPT ![s] = NULL]
      /\ UNCHANGED <<ptr, buffer, frameVars>>
  BY DEF Destroy, Unlink
<1>2. \A u \in Threads, r \in Statics : pc[u][r] = "idle" /\ pc'[u][r] = "idle"
  BY <1>1, NoFrames, IdleState DEF frameVars
<1>3. \A r \in Statics : next'[r] = IF r = s THEN NULL ELSE next[r]
  BY <1>1 DEF IInv, TypeOK
<1>4. \A r \in Statics : Published(r)' <=> Published(r)
  BY <1>1 DEF Published, Ptr
<1>5. \A r \in Statics : Linked(r)' <=> Linked(r) /\ r # s
  <2>1. dying = NULL
    BY <1>1 DEF IInv, PhaseInv
  <2> QED
    BY <1>1, <1>2, <1>4, <2>1, StaticsAssumption DEF Linked
<1>6. \A r \in Statics : \A d \in CreatorUses[r] : d \in Statics
  BY StaticsAssumption
<1>7. UsesInv'
  <2>1. ASSUME NEW r \in Statics, Published(r)', NEW d \in CreatorUses[r]
        PROVE  ptr'[d] /\ Linked(d)'
    BY <1>1, <1>4, <1>5, <1>6, <2>1, HeadIsUnused DEF OInv, UsesInv
  <2> QED
    BY <1>2, <2>1 DEF UsesInv
<1>8. PICK pos : Ordered(pos)
  BY DEF OInv
<1>9. /\ pos \in [Statics -> Nat] /\ \A r \in Statics : pos[r] \in Nat
      /\ \A r \in Statics : Linked(r) /\ r # s => pos[r] < pos[s]
      /\ Linked(s)
      /\ \A r \in Statics : next[r] # s
      /\ next[s] \in Statics \cup {NULL}
  BY <1>1, <1>8, StaticsAssumption DEF Ordered, LInv, ListInv, IInv, TypeOK
<1>10. /\ next[s] = NULL => \A r \in Statics : Linked(r) /\ r # s => pos[s] < pos[r]
       /\ next[s] # NULL => \A r \in Statics : Linked(r) /\ r # s /\ r # next[s] =>
            pos[r] < pos[next[s]] \/ pos[s] < pos[r]
  BY <1>8, <1>9 DEF Ordered
<1>11. list' = NULL => \A r \in Statics : ~Linked(r)'
  BY <1>1, <1>5, <1>9, <1>10
<1>12. list' # NULL => \A r \in Statics : Linked(r)' /\ r # list' => pos[r] < pos[list']
  BY <1>1, <1>5, <1>9, <1>10
<1>13. ASSUME NEW r \in Statics, Linked(r)'
       PROVE  /\ next'[r] = NULL => \A q \in Statics : Linked(q)' /\ q # r => pos[r] < pos[q]
              /\ next'[r] # NULL =>
                   /\ pos[next'[r]] < pos[r]
                   /\ \A q \in Statics : Linked(q)' /\ q # r /\ q # next'[r] =>
                        pos[q] < pos[next'[r]] \/ pos[r] < pos[q]
              /\ \A d \in CreatorUses[r] : pos[d] < pos[r]
  <2>1. r # s /\ Linked(r) /\ next'[r] = next[r]
    BY <1>3, <1>5, <1>13
  <2>2. /\ next[r] = NULL => \A q \in Statics : Linked(q) /\ q # r => pos[r] < pos[q]
        /\ next[r] # NULL =>
             /\ pos[next[r]] < pos[r]
             /\ \A q \in Statics : Linked(q) /\ q # r /\ q # next[r] =>
                  pos[q] < pos[next[r]] \/ pos[r] < pos[q]
        /\ \A d \in CreatorUses[r] : pos[d] < pos[r]
    BY <1>8, <2>1 DEF Ordered
  <2> QED
    BY <1>5, <2>1, <2>2
<1>14. Ordered(pos)'
  BY <1>9, <1>11, <1>12, <1>13 DEF Ordered
<1> QED
  BY <1>7, <1>14 DEF OInv

\* What dies is not linked, so nothing published was built from it.
LEMMA DyingIsUnused ==
  ASSUME IInv, OInv, NEW s \in Statics, dying = s, NEW u \in Statics, Published(u)
  PROVE  s \notin CreatorUses[u]
BY DEF OInv, UsesInv, Linked

LEMMA DestroyedKeepsOrder ==
  ASSUME IInv, LInv, OInv, NEW s \in Statics, Destroyed(s)
  PROVE  OInv'
<1>1. /\ phase = "delete" /\ dying = s /\ top[Main] = NULL /\ dying' = NULL
      /\ ptr' = [ptr EXCEPT ![s] = FALSE]
      /\ UNCHANGED <<buffer, next, list, frameVars>>
  BY DEF Destroyed
<1>2. /\ \A u \in Threads, r \in Statics : pc[u][r] = "idle" /\ pc'[u][r] = "idle"
      /\ \A u \in Threads : buffer[u] = {} /\ buffer'[u] = {}
  BY <1>1, NoFrames, IdleState DEF frameVars
<1>3. \A r \in Statics : ptr'[r] <=> ptr[r] /\ r # s
  BY <1>1 DEF IInv, TypeOK
<1>4. \A r \in Statics : Published(r)' <=> Published(r) /\ r # s
  BY <1>2, <1>3 DEF Published
<1>5. \A r \in Statics : Linked(r)' <=> Linked(r)
  BY <1>1, <1>2, <1>4, StaticsAssumption DEF Linked
<1>6. UsesInv'
  <2>1. ASSUME NEW r \in Statics, Published(r)', NEW d \in CreatorUses[r]
        PROVE  ptr'[d] /\ Linked(d)'
    <3>1. Published(r) /\ d \in Statics
      BY <1>4, <2>1, StaticsAssumption
    <3>2. d # s
      BY <1>1, <2>1, <3>1, DyingIsUnused
    <3>3. ptr[d] /\ Linked(d)
      BY <2>1, <3>1 DEF OInv, UsesInv
    <3> QED
      BY <1>3, <1>5, <3>1, <3>2, <3>3
  <2> QED
    BY <1>2, <2>1 DEF UsesInv
<1> QED
  BY <1>1, <1>5, <1>6, OrderKept DEF OInv

-----------------------------------------------------------------------------
\* Every step preserves the invariant.
LEMMA NextOInv == IInv /\ LInv /\ OInv /\ [Next]_vars => OInv'
<1> SUFFICES ASSUME IInv, LInv, OInv, [Next]_vars PROVE OInv'
  OBVIOUS
<1>1. CASE \E t \in Threads, s \in Statics : Call(t, s) \/ Frame(t, s)
  <2> PICK t \in Threads, s \in Statics : Call(t, s) \/ Frame(t, s)
    BY <1>1
  <2>1. CASE Call(t, s)
    BY <2>1, PushKeepsOrder DEF Call
  <2>2. CASE \E d \in Statics : CallFromCreator(t, s, d)
    BY <2>2, PushKeepsOrder DEF CallFromCreator
  <2> QED
    BY <2>1, <2>2, ReadKeepsOrder, UseKeepsOrder, RegisterKeepsOrder,
       AcquireKeepsOrder, CheckKeepsOrder, ConstructKeepsOrder, FenceKeepsOrder,
       PublishKeepsOrder, LinkKeepsOrder, ReleaseKeepsOrder
    DEF Frame
<1>2. CASE \E t \in Threads : \E cell \in buffer[t] : Drain(t, cell)
  BY <1>2, DrainKeepsOrder
<1>3. CASE StartMultithreaded \/ StopMultithreaded \/ Shutdown
  <2>1. UNCHANGED <<memVars, listVars, frameVars, dying>>
    BY <1>3 DEF StartMultithreaded, StopMultithreaded, Shutdown, mainVars
  <2> QED
    BY <2>1, PhaseKeepsOrder
<1>4. CASE ShutdownStep
  <2>1. CASE \E d \in Statics : CallFromDeleter(d)
    BY <2>1, StaticsAssumption, PushKeepsOrder DEF CallFromDeleter
  <2>2. CASE ShutdownDone
    BY <2>2, PhaseKeepsOrder DEF ShutdownDone
  <2> QED
    BY <1>4, <2>1, <2>2, DestroyKeepsOrder, DestroyedKeepsOrder DEF ShutdownStep
<1>5. CASE UNCHANGED vars
  BY <1>5, PhaseKeepsOrder DEF vars, mainVars
<1> QED
  BY <1>1, <1>2, <1>3, <1>4, <1>5 DEF Next

\* StaticList is a list in which every static comes before what its constructor
\* used, in every reachable state.
THEOREM OrderInvariance == Spec => []OInv
BY Invariance, ListInvariance, InitOInv, NextOInv, PTL DEF Spec

\* What a constructor has used can be reached and is complete as long as what it
\* constructed is published: until its own destruction begins, it is linked.
LEMMA UsedIsAlive ==
  ASSUME IInv, OInv, NEW s \in Statics, Published(s)
  PROVE  CreatorUses[s] \subseteq Alive
<1> SUFFICES ASSUME NEW d \in CreatorUses[s] PROVE d \in Alive
  OBVIOUS
<1>1. d \in Statics
  BY StaticsAssumption
<1>2. ptr[d] /\ d # dying
  BY <1>1 DEF OInv, UsesInv, Linked
<1> QED
  BY <1>1, <1>2 DEF Alive, IInv, MemoryInv

\* No object outlives one that its constructor used, although llvm_shutdown
\* only follows StaticList and knows nothing of the constructors.
THEOREM NoneOutlivesItsParts == Spec => []OutlivesUsers
<1>1. IInv /\ OInv => OutlivesUsers
  <2> SUFFICES ASSUME IInv, OInv, NEW s \in Statics, ptr[s],
                      NEW d \in CreatorUses[s]
               PROVE  ptr[d] /\ object[d] = "built"
    BY DEF OutlivesUsers
  <2> QED
    BY UsedIsAlive DEF Published, Alive
<1> QED
  BY Invariance, OrderInvariance, <1>1, PTL

-----------------------------------------------------------------------------
(***************************************************************************)
(* The refinement.  Alive grows when a Ptr reaches memory, shrinks when a  *)
(* destruction begins, and no other step changes it.                       *)
(***************************************************************************)
LEMMA AppearOrStutter ==
  ASSUME NEW c \in Statics, CreatorUses[c] \subseteq Alive,
         Alive' = Alive \cup {c}
  PROVE  [Lifetime!Next]_Alive
<1>1. c \notin Alive => Lifetime!Appear(c)
  BY DEF Lifetime!Appear
<1>2. c \in Alive => Alive' = Alive
  OBVIOUS
<1> QED
  BY <1>1, <1>2 DEF Lifetime!Next

LEMMA VanishOrStutter ==
  ASSUME NEW c \in Statics, \A u \in Alive : c \notin CreatorUses[u],
         Alive' = Alive \ {c}
  PROVE  [Lifetime!Next]_Alive
<1>1. c \in Alive => Lifetime!Vanish(c)
  BY DEF Lifetime!Vanish
<1>2. c \notin Alive => Alive' = Alive
  OBVIOUS
<1> QED
  BY <1>1, <1>2 DEF Lifetime!Next

LEMMA DrainRefines ==
  ASSUME IInv, LInv, OInv, NEW t \in Threads, NEW cell \in buffer[t], Drain(t, cell)
  PROVE  [Lifetime!Next]_Alive
<1>1. PICK c \in Statics : cell = Ptr(c) \/ cell = Obj(c)
  BY DEF IInv, TypeOK, Cells, Ptr, Obj
<1>2. CASE cell = Ptr(c)
  <2>1. /\ \A r \in Statics : ptr'[r] <=> ptr[r] \/ r = c
        /\ object' = object
    BY <1>2 DEF Drain, Ptr, IInv, TypeOK
  <2>2. object[c] = "built" /\ Published(c)
    BY <1>2 DEF IInv, MemoryInv, Published
  <2>3. Alive' = Alive \cup {c}
    BY <2>1, <2>2 DEF Alive
  <2> QED
    BY <2>2, <2>3, UsedIsAlive, AppearOrStutter
<1>3. CASE cell = Obj(c)
  <2>1. /\ \A r \in Statics : object'[r] = IF r = c THEN "built" ELSE object[r]
        /\ ptr' = ptr
    BY <1>3 DEF Drain, Obj, IInv, TypeOK
  <2>2. CASE ptr[c]
    <3>1. Alive' = Alive \cup {c}
      BY <2>1, <2>2 DEF Alive
    <3> QED
      BY <2>2, <3>1, UsedIsAlive, AppearOrStutter DEF Published
  <2>3. CASE ~ptr[c]
    BY <2>1, <2>3 DEF Alive
  <2> QED
    BY <2>2, <2>3
<1> QED
  BY <1>1, <1>2, <1>3

LEMMA FrameRefines ==
  ASSUME IInv, LInv, OInv, NEW t \in Threads, NEW s \in Statics, Frame(t, s)
  PROVE  [Lifetime!Next]_Alive
<1>1. CASE Construct(t, s)
  <2>1. pc[t][s] = "create" /\ ptr' = ptr
    BY <1>1 DEF Construct, Running
  <2>2. ~ptr[s]
    BY <2>1 DEF LInv, ObjectInv, Published
  <2>3. \A r \in Statics : r # s => object'[r] = object[r]
    BY <1>1 DEF Construct, IInv, TypeOK
  <2> QED
    BY <2>1, <2>2, <2>3 DEF Alive
<1>2. CASE Publish(t, s)
  <2>1. pc[t][s] = "publish" /\ object' = object
    BY <1>2 DEF Publish, Running
  <2>2. CASE mode
    BY <1>2, <2>1, <2>2 DEF Publish, Alive
  <2>3. CASE ~mode
    <3>1. \A r \in Statics : ptr'[r] <=> ptr[r] \/ r = s
      BY <1>2, <2>3 DEF Publish, IInv, TypeOK
    <3>2. object[s] = "built"
      BY <2>1 DEF IInv, MemoryInv
    <3>3. Alive' = Alive \cup {s}
      BY <2>1, <3>1, <3>2 DEF Alive
    <3>4. CreatorUses[s] \subseteq Alive
      BY <2>1, StaticsAssumption DEF OInv, UsesInv, Linked, Alive, IInv, MemoryInv
    <3> QED
      BY <3>3, <3>4, AppearOrStutter
  <2> QED
    BY <2>2, <2>3
<1>3. CASE ~Construct(t, s) /\ ~Publish(t, s)
  <2>1. UNCHANGED <<ptr, object>>
    BY <1>3 DEF Frame, CallFromCreator, Read, Use, Register, Acquire, Check,
       Fence, Link, Release, memVars
  <2> QED
    BY <2>1 DEF Alive
<1> QED
  BY <1>1, <1>2, <1>3

LEMMA DestroyRefines ==
  ASSUME IInv, LInv, OInv, NEW s \in Statics, Destroy(s) \/ Destroyed(s)
  PROVE  [Lifetime!Next]_Alive
<1>1. Alive' = Alive \ {s}
  <2>1. CASE Destroy(s)
    <3>1. /\ ptr' = ptr
          /\ \A r \in Statics : object'[r] = IF r = s THEN "dying" ELSE object[r]
      BY <2>1 DEF Destroy, IInv, TypeOK
    <3> QED
      BY <3>1 DEF Alive
  <2>2. CASE Destroyed(s)
    <3>1. \A r \in Statics :
            /\ ptr'[r] <=> ptr[r] /\ r # s
            /\ r # s => object'[r] = object[r]
      BY <2>2 DEF Destroyed, IInv, TypeOK
    <3> QED
      BY <3>1 DEF Alive
  <2> QED
    BY <2>1, <2>2
<1>2. ASSUME NEW u \in Alive PROVE s \notin CreatorUses[u]
  <2>1. u \in Statics /\ Published(u)
    BY DEF Alive, Published
  <2> QED
    BY <2>1, HeadIsUnused, DyingIsUnused DEF Destroy, Destroyed
<1> QED
  BY <1>1, <1>2, VanishOrStutter

LEMMA NextRefines == IInv /\ LInv /\ OInv /\ [Next]_vars => [Lifetime!Next]_Alive
<1> SUFFICES ASSUME IInv, LInv, OInv, [Next]_vars PROVE [Lifetime!Next]_Alive
  OBVIOUS
<1>1. CASE \E t \in Threads, s \in Statics : Frame(t, s)
  BY <1>1, FrameRefines
<1>2. CASE \E t \in Threads : \E cell \in buffer[t] : Drain(t, cell)
  BY <1>2, DrainRefines
<1>3. CASE \E s \in Statics : Destroy(s) \/ Destroyed(s)
  BY <1>3, DestroyRefines
<1>4. CASE \/ \E t \in Threads, s \in Statics : Call(t, s)
           \/ \E s \in Statics : CallFromDeleter(s)
           \/ StartMultithreaded \/ StopMultithreaded \/ Shutdown \/ ShutdownDone
           \/ UNCHANGED vars
  <2>1. UNCHANGED <<ptr, object>>
    BY <1>4 DEF Call, CallFromDeleter, StartMultithreaded, StopMultithreaded,
       Shutdown, ShutdownDone, vars, memVars
  <2> QED
    BY <2>1 DEF Alive
<1> QED
  BY <1>1, <1>2, <1>3, <1>4 DEF Next, ShutdownStep

\* The threads, the lock, the buffers and StaticList together implement the
\* specification in which objects appear and vanish in one step, each only
\* while everything its constructor used is there.
THEOREM Implementation == Spec => ImplementsLifetime
<1>1. Init => Lifetime!Init
  BY DEF Init, Lifetime!Init, Alive
<1> QED
  BY <1>1, Invariance, ListInvariance, OrderInvariance, NextRefines, PTL
  DEF Spec, ImplementsLifetime, Lifetime!Spec

-----------------------------------------------------------------------------
(***************************************************************************)
(* StaticList from its head.                                               *)
(***************************************************************************)
LEMMA WalkFollows ==
  ASSUME TypeOK
  PROVE  /\ DOMAIN Walk = Nat /\ Walk[0] = list
         /\ \A n \in Nat : /\ Walk[n] \in Statics \cup {NULL}
                           /\ Walk[n + 1] = IF Walk[n] = NULL THEN NULL ELSE next[Walk[n]]
<1>1. PICK step : step = [x \in Statics \cup {NULL} |-> IF x = NULL THEN NULL ELSE next[x]]
  OBVIOUS
<1>2. PICK f : DOMAIN f = Nat /\ f[0] = list /\ \A n \in Nat : f[n + 1] = step[f[n]]
  <2>1. PICK a : a = list
    OBVIOUS
  <2>2. \E f : Iteration(f, a, step)
    BY IterationExists
  <2> QED BY <2>1, <2>2 DEF Iteration
<1>3. \A n \in Nat : f[n] \in Statics \cup {NULL}
  <2>1. PICK T : T = {n \in Nat : f[n] \in Statics \cup {NULL}}
    OBVIOUS
  <2>2. 0 \in T
    BY <1>2, <2>1 DEF TypeOK
  <2>3. ASSUME NEW n \in Nat, n \in T PROVE n + 1 \in T
    <3>1. f[n] \in Statics \cup {NULL} /\ f[n + 1] = step[f[n]]
      BY <1>2, <2>1, <2>3
    <3>2. step[f[n]] \in Statics \cup {NULL}
      BY <1>1, <3>1 DEF TypeOK
    <3> QED BY <2>1, <3>1, <3>2
  <2> QED BY <2>1, <2>2, <2>3, InductionInSet
<1>4. \A n \in Nat : f[n + 1] = IF f[n] = NULL THEN NULL ELSE next[f[n]]
  BY <1>1, <1>2, <1>3
<1>5. \E e : e = [n \in Nat |->
                    IF n = 0 THEN list ELSE IF e[n - 1] = NULL THEN NULL ELSE next[e[n - 1]]]
  <2>1. PICK e : e = [n \in Nat |-> f[n]]
    OBVIOUS
  <2>2. ASSUME NEW n \in Nat
        PROVE  f[n] = IF n = 0 THEN list ELSE IF e[n - 1] = NULL THEN NULL ELSE next[e[n - 1]]
    <3>1. CASE n = 0
      BY <1>2, <3>1
    <3>2. CASE n # 0
      <4>1. PICK m \in Nat : n = m + 1 /\ n - 1 = m
        BY <3>2
      <4> QED BY <1>4, <2>1, <3>2, <4>1
    <3> QED BY <3>1, <3>2
  <2>3. e = [n \in Nat |->
               IF n = 0 THEN list ELSE IF e[n - 1] = NULL THEN NULL ELSE next[e[n - 1]]]
    BY <2>1, <2>2
  <2> QED BY <2>3, Zenon
<1>6. Walk = [n \in Nat |->
           IF n = 0 THEN list ELSE IF Walk[n - 1] = NULL THEN NULL ELSE next[Walk[n - 1]]]
  BY <1>5, Zenon DEF Walk
<1>7. DOMAIN Walk = Nat /\ Walk[0] = list
  BY <1>6
<1>8. ASSUME NEW n \in Nat PROVE Walk[n + 1] = IF Walk[n] = NULL THEN NULL ELSE next[Walk[n]]
  <2>1. PICK m \in Nat : m = n + 1 /\ m - 1 = n /\ m # 0
    OBVIOUS
  <2>2. Walk[m] = IF Walk[m - 1] = NULL THEN NULL ELSE next[Walk[m - 1]]
    BY <1>6, <2>1
  <2> QED BY <2>1, <2>2
<1>9. \A n \in Nat : Walk[n] \in Statics \cup {NULL}
  <2>1. PICK T : T = {n \in Nat : Walk[n] \in Statics \cup {NULL}}
    OBVIOUS
  <2>2. 0 \in T
    BY <1>7, <2>1 DEF TypeOK
  <2>3. ASSUME NEW n \in Nat, n \in T PROVE n + 1 \in T
    BY <1>8, <2>1, <2>3 DEF TypeOK
  <2> QED BY <2>1, <2>2, <2>3, InductionInSet
<1> QED BY <1>7, <1>8, <1>9

\* The walk meets linked statics only, each with a smaller number than the last,
\* so it ends before it has met more than there are.
LEMMA WalkDescends ==
  ASSUME IInv, LInv, NEW pos, Ordered(pos)
  PROVE  /\ \A n \in Nat : Walk[n] # NULL => Linked(Walk[n])
         /\ \A n \in Nat : \A i \in 0..n :
              Walk[n] # NULL /\ i < n => Walk[i] # NULL /\ pos[Walk[n]] < pos[Walk[i]]
<1> USE WalkFollows DEF IInv
<1>1. \A n \in Nat : Walk[n] # NULL => Linked(Walk[n])
  <2>1. PICK T : T = {n \in Nat : Walk[n] # NULL => Linked(Walk[n])}
    OBVIOUS
  <2>2. 0 \in T
    BY <2>1 DEF LInv, ListInv
  <2>3. ASSUME NEW n \in Nat, n \in T PROVE n + 1 \in T
    BY <2>1, <2>3 DEF LInv, ListInv
  <2> QED BY <2>1, <2>2, <2>3, InductionInSet
<1>2. ASSUME NEW n \in Nat, Walk[n + 1] # NULL
      PROVE  Walk[n] # NULL /\ pos[Walk[n + 1]] < pos[Walk[n]]
  <2>1. Walk[n] \in Statics /\ Walk[n + 1] = next[Walk[n]] /\ Linked(Walk[n])
    BY <1>1, <1>2
  <2> QED BY <1>2, <2>1, StaticsAssumption DEF Ordered
<1>3. \A n \in Nat : Walk[n] # NULL => pos[Walk[n]] \in Nat
  BY DEF Ordered
<1>4. PICK T : T = {n \in Nat : \A i \in 0..n :
                      Walk[n] # NULL /\ i < n => Walk[i] # NULL /\ pos[Walk[n]] < pos[Walk[i]]}
  OBVIOUS
<1>5. 0 \in T
  BY <1>4
<1>6. ASSUME NEW n \in Nat, n \in T PROVE n + 1 \in T
  <2> SUFFICES ASSUME NEW i \in 0..(n + 1), Walk[n + 1] # NULL, i < n + 1
               PROVE  Walk[i] # NULL /\ pos[Walk[n + 1]] < pos[Walk[i]]
    BY <1>4
  <2>1. Walk[n] # NULL /\ pos[Walk[n + 1]] < pos[Walk[n]]
    BY <1>2
  <2>2. CASE i = n
    BY <2>1, <2>2
  <2>3. CASE i < n
    <3>1. i \in 0..n /\ i \in Nat
      BY <2>3
    <3>2. Walk[i] # NULL /\ pos[Walk[n]] < pos[Walk[i]]
      BY <1>4, <1>6, <2>1, <2>3, <3>1
    <3>3. pos[Walk[n + 1]] \in Nat /\ pos[Walk[n]] \in Nat /\ pos[Walk[i]] \in Nat
      BY <1>3, <2>1, <3>1, <3>2
    <3> QED BY <2>1, <3>2, <3>3
  <2> QED BY <2>2, <2>3
<1>7. Nat \subseteq T
  BY <1>5, <1>6, InductionInSet
<1> QED BY <1>1, <1>4, <1>7

LEMMA WalkEnds ==
  ASSUME IInv, LInv, NEW pos, Ordered(pos)
  PROVE  Walk[Cardinality(Statics)] = NULL
<1> SUFFICES ASSUME Walk[Cardinality(Statics)] # NULL PROVE FALSE
  OBVIOUS
<1>1. PICK n \in Nat : n = Cardinality(Statics) /\ IsFiniteSet(Statics)
  BY StaticsAssumption, FS_CardinalityType
<1>2. \A i \in 0..n : Walk[i] \in Statics
  BY <1>1, WalkDescends, WalkFollows DEF IInv
<1>3. PICK f : f = [i \in 0..n |-> Walk[i]]
  OBVIOUS
<1>4. f \in [0..n -> Statics]
  BY <1>2, <1>3
<1>5. IsFiniteSet(0..n) /\ Cardinality(0..n) > Cardinality(Statics)
  BY <1>1, FS_Interval
<1>6. PICK i, j \in 0..n : i # j /\ f[i] = f[j]
  BY <1>1, <1>4, <1>5, FS_PigeonHole
<1>7. pos[Walk[i]] \in Nat /\ pos[Walk[j]] \in Nat /\ Walk[i] = Walk[j]
  BY <1>2, <1>3, <1>6 DEF Ordered
<1>8. ~(i < j)
  BY <1>2, <1>7, WalkDescends, StaticsAssumption
<1>9. ~(j < i)
  BY <1>2, <1>7, WalkDescends, StaticsAssumption
<1> QED BY <1>6, <1>8, <1>9

\* It misses none: what it has not met has a smaller number than where it is.
LEMMA WalkMeetsAll ==
  ASSUME IInv, LInv, NEW pos, Ordered(pos), NEW r \in Statics, Linked(r)
  PROVE  \E i \in 0..Cardinality(Statics) : Walk[i] = r
<1> SUFFICES ASSUME \A i \in 0..Cardinality(Statics) : Walk[i] # r PROVE FALSE
  OBVIOUS
<1>1. PICK n \in Nat : n = Cardinality(Statics)
  BY StaticsAssumption, FS_CardinalityType
<1>2. /\ Walk[0] = list
      /\ \A i \in Nat : Walk[i] \in Statics \cup {NULL}
      /\ \A i \in Nat : Walk[i + 1] = IF Walk[i] = NULL THEN NULL ELSE next[Walk[i]]
      /\ \A i \in Nat : Walk[i] # NULL => Linked(Walk[i])
  BY WalkFollows, WalkDescends DEF IInv
<1>3. PICK T : T = {i \in Nat : i <= n => Walk[i] # NULL /\ pos[r] < pos[Walk[i]]}
  OBVIOUS
<1>4. 0 \in T
  BY <1>1, <1>2, <1>3 DEF Ordered
<1>5. ASSUME NEW i \in Nat, i \in T PROVE i + 1 \in T
  <2> SUFFICES ASSUME i + 1 <= n PROVE Walk[i + 1] # NULL /\ pos[r] < pos[Walk[i + 1]]
    BY <1>3
  <2>1. PICK s \in Statics : s = Walk[i] /\ Linked(s) /\ pos[r] < pos[s] /\ Walk[i + 1] = next[s]
    BY <1>2, <1>3, <1>5
  <2>2. i \in 0..n /\ i + 1 \in 0..n
    OBVIOUS
  <2>3. r # s /\ r # next[s] /\ pos[r] \in Nat /\ pos[s] \in Nat
    BY <1>1, <2>1, <2>2 DEF Ordered
  <2>4. next[s] # NULL
    BY <2>1, <2>3 DEF Ordered
  <2> QED BY <2>1, <2>3, <2>4 DEF Ordered
<1>6. n \in T
  BY <1>4, <1>5, InductionInSet
<1> QED BY <1>1, <1>3, <1>6, WalkEnds

\* Through races, nested construction and destructors that bring statics back,
\* StaticList ends and holds what is registered, each once.
THEOREM ListAlwaysExact == Spec => []ListExact
<1>1. IInv /\ LInv /\ OInv => ListExact
  <2> SUFFICES ASSUME IInv, LInv, OInv PROVE ListExact
    OBVIOUS
  <2>1. PICK pos : Ordered(pos)
    BY DEF OInv
  <2>2. PICK n \in Nat : n = Cardinality(Statics)
    BY StaticsAssumption, FS_CardinalityType
  <2>3. Walk[n] = NULL
    BY <2>1, <2>2, WalkEnds
  <2>4. PICK linking : linking = {s \in Statics : \E t \in Threads : pc[t][s] = "link"}
    OBVIOUS
  <2>5. ASSUME NEW s
        PROVE  s \in {r \in Statics : deleterFn[r]} \ (linking \cup {dying})
                 <=> s \in Statics /\ Linked(s)
    BY <2>4 DEF LInv, ListInv, Linked
  <2>6. ASSUME NEW s
        PROVE  s \in {Walk[i] : i \in 0..n} \ {NULL} <=> s \in Statics /\ Linked(s)
    <3>1. ASSUME NEW i \in 0..n, s = Walk[i], s # NULL PROVE s \in Statics /\ Linked(s)
      <4>1. i \in Nat
        OBVIOUS
      <4> QED BY <2>1, <3>1, <4>1, WalkFollows, WalkDescends DEF IInv
    <3>2. ASSUME s \in Statics, Linked(s) PROVE \E i \in 0..n : s = Walk[i]
      BY <2>1, <2>2, <3>2, WalkMeetsAll
    <3> QED BY <3>1, <3>2, StaticsAssumption
  <2>7. {Walk[i] : i \in 0..n} \ {NULL} = {r \in Statics : deleterFn[r]} \ (linking \cup {dying})
    BY <2>5, <2>6
  <2> QED BY <2>2, <2>3, <2>4, <2>7 DEF ListExact
<1> QED BY <1>1, Invariance, ListInvariance, OrderInvariance, PTL
=============================================================================
