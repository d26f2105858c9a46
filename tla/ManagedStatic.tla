--------------------------- MODULE ManagedStatic ---------------------------
(***************************************************************************)
(* Lazily constructed globals: ManagedStatic<C>, llvm_shutdown() and the   *)
(* global lock behind them.                                                *)
(*   include/llvm/Support/ManagedStatic.h, lib/Support/ManagedStatic.cpp,  *)
(*   lib/System/Threading.cpp                                              *)
(*                                                                         *)
(* Each thread has at most one frame per static: a frame is one activation *)
(* of ManagedStatic::operator* and of RegisterManagedStatic below it.  A   *)
(* constructor that dereferences another static pushes a frame, so a       *)
(* thread's frames form a stack linked by caller.                          *)
(*                                                                         *)
(* Memory is weakly ordered: while more than one thread may run, a store   *)
(* to an object or to its Ptr waits in the storing thread's buffer and     *)
(* drains in any order.  sys::MemoryFence and the outermost release of the *)
(* lock wait for the buffer.  Loads are in program order.                  *)
(***************************************************************************)
EXTENDS Integers, FiniteSets

CONSTANTS
  Threads,       \* every thread of the process
  Main,          \* the thread that starts, stops and shuts LLVM down
  Statics,       \* the ManagedStatic objects
  CreatorUses,   \* CreatorUses[s]: the statics the constructor of s uses
  DeleterUses,   \* DeleterUses[s]: the statics the destructor of s may use
  Rank,          \* witnesses that neither relation has a cycle
  MaxShutdowns,  \* bound on calls of llvm_shutdown
  NULL

ASSUME StaticsAssumption ==
  /\ IsFiniteSet(Statics)
  /\ NULL \notin Statics
  /\ NULL \notin Threads
  /\ Main \in Threads
  /\ MaxShutdowns \in Nat
  /\ Rank \in [Statics -> Nat]
  /\ CreatorUses \in [Statics -> SUBSET Statics]
  /\ DeleterUses \in [Statics -> SUBSET Statics]

\* The code never checks it: a cycle of constructors recurses for ever, and a
\* destructor that brings back its own creator's user revives a dying object.
ASSUME AcyclicAssumption ==
  \A s \in Statics : \A d \in CreatorUses[s] \cup DeleterUses[s] :
     Rank[d] < Rank[s]

VARIABLES
  mode,       \* multithreaded_mode
  holder,     \* the owner of global_lock, or NULL
  depth,      \* its recursion count
  ptr,        \* ptr[s]: memory holds a non-null Ptr
  object,     \* object[s]: what memory holds where Ptr points
  buffer,     \* buffer[t]: stores of t not yet in memory
  deleterFn,  \* deleterFn[s]: DeleterFn is non-null
  next, list, \* Next, and the head StaticList
  pc,         \* pc[t][s]: where the frame of s in thread t is
  caller,     \* caller[t][s]: the frame below it, or NULL
  top,        \* top[t]: the running frame of t, or NULL
  uses,       \* uses[t][s]: what the constructor has still to dereference
  phase,      \* what Main does: "run", "shutdown" or "delete"
  dying,      \* the static destroy() is working on, or NULL
  dyingUses,  \* what its destructor has still to dereference
  live,       \* live[s]: objects constructed for s and not yet deleted
  shutdowns   \* calls of llvm_shutdown so far

lockVars   == <<mode, holder, depth>>
memVars    == <<ptr, object, buffer, live>>
listVars   == <<deleterFn, next, list>>
frameVars  == <<pc, caller, top, uses>>
mainVars   == <<phase, dying, dyingUses, shutdowns>>
vars == <<lockVars, memVars, listVars, frameVars, mainVars>>

PCs == {"idle", "read", "register", "acquire", "check", "create", "fence",
        "publish", "link", "release", "use"}

\* The two stores whose order matters: the object's own, and that of Ptr.
Obj(s) == <<"object", s>>
Ptr(s) == <<"ptr", s>>
Cells  == {"object", "ptr"} \X Statics

TypeOK ==
  /\ mode \in BOOLEAN
  /\ holder \in Threads \cup {NULL}
  /\ depth \in Nat
  /\ ptr \in [Statics -> BOOLEAN]
  /\ object \in [Statics -> {"none", "built", "dying"}]
  /\ buffer \in [Threads -> SUBSET Cells]
  /\ deleterFn \in [Statics -> BOOLEAN]
  /\ next \in [Statics -> Statics \cup {NULL}]
  /\ list \in Statics \cup {NULL}
  /\ pc \in [Threads -> [Statics -> PCs]]
  /\ caller \in [Threads -> [Statics -> Statics \cup {NULL}]]
  /\ top \in [Threads -> Statics \cup {NULL}]
  /\ uses \in [Threads -> [Statics -> SUBSET Statics]]
  /\ phase \in {"run", "shutdown", "delete"}
  /\ dying \in Statics \cup {NULL}
  /\ dyingUses \in SUBSET Statics
  /\ live \in [Statics -> Int]
  /\ shutdowns \in Nat

Init ==
  /\ mode = FALSE
  /\ holder = NULL /\ depth = 0
  /\ ptr = [s \in Statics |-> FALSE]
  /\ object = [s \in Statics |-> "none"]
  /\ buffer = [t \in Threads |-> {}]
  /\ deleterFn = [s \in Statics |-> FALSE]
  /\ next = [s \in Statics |-> NULL] /\ list = NULL
  /\ pc = [t \in Threads |-> [s \in Statics |-> "idle"]]
  /\ caller = [t \in Threads |-> [s \in Statics |-> NULL]]
  /\ top = [t \in Threads |-> NULL]
  /\ uses = [t \in Threads |-> [s \in Statics |-> {}]]
  /\ phase = "run" /\ dying = NULL /\ dyingUses = {}
  /\ live = [s \in Statics |-> 0]
  /\ shutdowns = 0

(***************************************************************************)
(* Helpers.                                                                *)
(***************************************************************************)
\* Thread t loads Ptr of s: its own buffered store, else memory.
SeesPtr(t, s) == ptr[s] \/ Ptr(s) \in buffer[t]

\* What t finds where Ptr of s points.
SeesObject(t, s) == IF Obj(s) \in buffer[t] THEN "built" ELSE object[s]

Running(t, s, where) == top[t] = s /\ pc[t][s] = where

Goto(t, s, where) == pc' = [pc EXCEPT ![t][s] = where]

Push(t, s) ==
  /\ pc[t][s] = "idle"
  /\ Goto(t, s, "read")
  /\ caller' = [caller EXCEPT ![t][s] = top[t]]
  /\ top' = [top EXCEPT ![t] = s]

Quiescent == \A t \in Threads : top[t] = NULL

(***************************************************************************)
(* ManagedStatic::operator* and operator->.                                *)
(***************************************************************************)
\* A client dereferences s.  Only Main runs before llvm_start_multithreaded;
\* llvm_shutdown is called in isolation.
Call(t, s) ==
  /\ phase = "run"
  /\ top[t] = NULL
  /\ mode \/ t = Main
  /\ Push(t, s)
  /\ UNCHANGED <<lockVars, memVars, listVars, uses, mainVars>>

\* The constructor of s dereferences d.
CallFromCreator(t, s, d) ==
  /\ Running(t, s, "create")
  /\ d \in uses[t][s]
  /\ Push(t, d)
  /\ UNCHANGED <<lockVars, memVars, listVars, uses, mainVars>>

\* The destructor that llvm_shutdown is running dereferences d.
CallFromDeleter(d) ==
  /\ phase = "delete"
  /\ top[Main] = NULL
  /\ d \in dyingUses
  /\ Push(Main, d)
  /\ UNCHANGED <<lockVars, memVars, listVars, uses, mainVars>>

\* void *tmp = Ptr; if (!tmp) RegisterManagedStatic(...)
Read(t, s) ==
  /\ Running(t, s, "read")
  /\ Goto(t, s, IF SeesPtr(t, s) THEN "use" ELSE "register")
  /\ UNCHANGED <<lockVars, memVars, listVars, caller, top, uses, mainVars>>

\* return *static_cast<C*>(Ptr): Ptr is loaded again and the object is used.
Use(t, s) ==
  /\ Running(t, s, "use")
  /\ Goto(t, s, "idle")
  /\ top' = [top EXCEPT ![t] = caller[t][s]]
  /\ caller' = [caller EXCEPT ![t][s] = NULL]
  /\ IF caller[t][s] # NULL
       THEN /\ uses' = [uses EXCEPT ![t][caller[t][s]] = @ \ {s}]
            /\ UNCHANGED dyingUses
       ELSE /\ dyingUses' = dyingUses \ {s}
            /\ UNCHANGED uses
  /\ UNCHANGED <<lockVars, memVars, listVars, phase, dying, shutdowns>>

(***************************************************************************)
(* ManagedStaticBase::RegisterManagedStatic.                               *)
(***************************************************************************)
BeginCreate(t, s) == uses' = [uses EXCEPT ![t][s] = CreatorUses[s]]

Register(t, s) ==
  /\ Running(t, s, "register")
  /\ Goto(t, s, IF mode THEN "acquire" ELSE "create")
  /\ IF mode THEN UNCHANGED uses ELSE BeginCreate(t, s)
  /\ UNCHANGED <<lockVars, memVars, listVars, caller, top, mainVars>>

\* Fault: a spin lock that is not recursive.
AcquireOnce(t, s) ==
  /\ Running(t, s, "acquire")
  /\ IF holder = NULL
       THEN holder' = t /\ depth' = depth + 1 /\ Goto(t, s, "check")
       ELSE UNCHANGED <<holder, depth, pc>>
  /\ UNCHANGED <<mode, memVars, listVars, caller, top, uses, mainVars>>

\* llvm_acquire_global_lock(): the mutex is recursive.
Acquire(t, s) ==
  /\ Running(t, s, "acquire")
  /\ holder \in {NULL, t}
  /\ holder' = t /\ depth' = depth + 1
  /\ Goto(t, s, "check")
  /\ UNCHANGED <<mode, memVars, listVars, caller, top, uses, mainVars>>

\* Fault: Ptr is not checked again under the lock.
NoRecheck(t, s) == TRUE

\* if (Ptr == 0), this time under the lock.
MustCreate(t, s) == ~SeesPtr(t, s)

Check(t, s) ==
  /\ Running(t, s, "check")
  /\ IF MustCreate(t, s)
       THEN Goto(t, s, "create") /\ BeginCreate(t, s)
       ELSE Goto(t, s, "release") /\ UNCHANGED uses
  /\ UNCHANGED <<lockVars, memVars, listVars, caller, top, mainVars>>

\* Stores wait in the buffer only while other threads may run.
Construct(t, s) ==
  /\ Running(t, s, "create")
  /\ uses[t][s] = {}
  /\ live' = [live EXCEPT ![s] = @ + 1]
  /\ IF mode
       THEN /\ buffer' = [buffer EXCEPT ![t] = @ \cup {Obj(s)}]
            /\ Goto(t, s, "fence")
            /\ UNCHANGED object
       ELSE /\ object' = [object EXCEPT ![s] = "built"]
            /\ Goto(t, s, "publish")
            /\ UNCHANGED buffer
  /\ UNCHANGED <<lockVars, ptr, listVars, caller, top, uses, mainVars>>

\* Fault: no fence between construction and publication.
NoFence(t) == TRUE

\* sys::MemoryFence() returns when earlier stores are in memory.
FencePassed(t) == buffer[t] = {}

Fence(t, s) ==
  /\ Running(t, s, "fence")
  /\ FencePassed(t)
  /\ Goto(t, s, "publish")
  /\ UNCHANGED <<lockVars, memVars, listVars, caller, top, uses, mainVars>>

\* Ptr = tmp; DeleterFn = Deleter;
Publish(t, s) ==
  /\ Running(t, s, "publish")
  /\ IF mode
       THEN /\ buffer' = [buffer EXCEPT ![t] = @ \cup {Ptr(s)}]
            /\ UNCHANGED ptr
       ELSE /\ ptr' = [ptr EXCEPT ![s] = TRUE]
            /\ UNCHANGED buffer
  /\ deleterFn' = [deleterFn EXCEPT ![s] = TRUE]
  /\ Goto(t, s, "link")
  /\ UNCHANGED <<lockVars, object, live, next, list, caller, top, uses,
                 mainVars>>

\* Fault: the list is overwritten.
LinkOverwrites(t, s) ==
  /\ Running(t, s, "link")
  /\ list' = s
  /\ Goto(t, s, IF mode THEN "release" ELSE "use")
  /\ UNCHANGED <<lockVars, memVars, deleterFn, next, caller, top, uses, mainVars>>

\* Fault: a static goes to the end of the list.
LinkAtEnd(t, s) ==
  /\ Running(t, s, "link")
  /\ IF list = NULL THEN list' = s /\ UNCHANGED next
     ELSE /\ \E last \in Statics \ {s} :
               /\ deleterFn[last] /\ last # dying /\ next[last] = NULL
               /\ next' = [next EXCEPT ![last] = s]
          /\ UNCHANGED list
  /\ Goto(t, s, IF mode THEN "release" ELSE "use")
  /\ UNCHANGED <<lockVars, memVars, deleterFn, caller, top, uses, mainVars>>

\* Next = StaticList; StaticList = this;
Link(t, s) ==
  /\ Running(t, s, "link")
  /\ next' = [next EXCEPT ![s] = list]
  /\ list' = s
  /\ Goto(t, s, IF mode THEN "release" ELSE "use")
  /\ UNCHANGED <<lockVars, memVars, deleterFn, caller, top, uses, mainVars>>

\* llvm_release_global_lock(): the outermost release is a barrier.
Release(t, s) ==
  /\ Running(t, s, "release")
  /\ depth = 1 => buffer[t] = {}
  /\ depth' = depth - 1
  /\ holder' = IF depth = 1 THEN NULL ELSE holder
  /\ Goto(t, s, "use")
  /\ UNCHANGED <<mode, memVars, listVars, caller, top, uses, mainVars>>

\* The memory system: one buffered store of t reaches memory.
Drain(t, cell) ==
  /\ cell \in buffer[t]
  /\ buffer' = [buffer EXCEPT ![t] = @ \ {cell}]
  /\ IF cell[1] = "ptr"
       THEN ptr' = [ptr EXCEPT ![cell[2]] = TRUE] /\ UNCHANGED object
       ELSE object' = [object EXCEPT ![cell[2]] = "built"] /\ UNCHANGED ptr
  /\ UNCHANGED <<live, lockVars, listVars, frameVars, mainVars>>

(***************************************************************************)
(* Main: entering and leaving multithreaded mode, and llvm_shutdown.       *)
(***************************************************************************)
StartMultithreaded ==
  /\ phase = "run" /\ Quiescent /\ ~mode
  /\ mode' = TRUE
  /\ holder' = NULL /\ depth' = 0
  /\ UNCHANGED <<memVars, listVars, frameVars, mainVars>>

StopMultithreaded ==
  /\ phase = "run" /\ Quiescent /\ mode
  /\ mode' = FALSE
  /\ UNCHANGED <<holder, depth, memVars, listVars, frameVars, mainVars>>

Shutdown ==
  /\ phase = "run" /\ Quiescent
  /\ shutdowns < MaxShutdowns
  /\ shutdowns' = shutdowns + 1
  /\ phase' = "shutdown"
  /\ UNCHANGED <<lockVars, memVars, listVars, frameVars, dying, dyingUses>>

\* ManagedStaticBase::destroy() up to the call of DeleterFn.
Unlink(s) == list' = next[s] /\ next' = [next EXCEPT ![s] = NULL]

Destroy(s) ==
  /\ phase = "shutdown" /\ list = s
  /\ Unlink(s)
  /\ object' = [object EXCEPT ![s] = "dying"]
  /\ phase' = "delete" /\ dying' = s
  /\ \E used \in SUBSET DeleterUses[s] : dyingUses' = used
  /\ UNCHANGED <<lockVars, ptr, buffer, live, deleterFn, frameVars, shutdowns>>

\* DeleterFn returned: Ptr = 0; DeleterFn = 0;
Destroyed(s) ==
  /\ phase = "delete" /\ dying = s
  /\ top[Main] = NULL /\ dyingUses = {}
  /\ live' = [live EXCEPT ![s] = @ - 1]
  /\ object' = [object EXCEPT ![s] = "none"]
  /\ ptr' = [ptr EXCEPT ![s] = FALSE]
  /\ deleterFn' = [deleterFn EXCEPT ![s] = FALSE]
  /\ phase' = "shutdown" /\ dying' = NULL
  /\ UNCHANGED <<lockVars, buffer, next, list, frameVars, dyingUses, shutdowns>>

\* StaticList is empty; llvm_stop_multithreaded() if multithreaded.
ShutdownDone ==
  /\ phase = "shutdown" /\ list = NULL
  /\ phase' = "run" /\ mode' = FALSE
  /\ UNCHANGED <<holder, depth, memVars, listVars, frameVars, dying, dyingUses,
                 shutdowns>>

(***************************************************************************)
(* The specification.                                                      *)
(***************************************************************************)
\* One step of the running frame of t.
Frame(t, s) ==
  \/ \E d \in Statics : CallFromCreator(t, s, d)
  \/ Read(t, s) \/ Use(t, s)
  \/ Register(t, s) \/ Acquire(t, s) \/ Check(t, s)
  \/ Construct(t, s) \/ Fence(t, s) \/ Publish(t, s) \/ Link(t, s)
  \/ Release(t, s)

\* One step of llvm_shutdown once it is called.
ShutdownStep ==
  \/ \E s \in Statics : CallFromDeleter(s) \/ Destroy(s) \/ Destroyed(s)
  \/ ShutdownDone

Next ==
  \/ \E t \in Threads, s \in Statics : Call(t, s) \/ Frame(t, s)
  \/ \E t \in Threads : \E cell \in buffer[t] : Drain(t, cell)
  \/ StartMultithreaded \/ StopMultithreaded \/ Shutdown
  \/ ShutdownStep

Spec == Init /\ [][Next]_vars

\* A thread inside the library keeps running and memory drains.  The lock need
\* not be fair: between two shutdowns it is taken finitely often.
Fairness ==
  /\ \A t \in Threads : WF_vars(\E s \in Statics : Frame(t, s))
  /\ \A t \in Threads : WF_vars(\E cell \in buffer[t] : Drain(t, cell))
  /\ WF_vars(ShutdownStep)

FairSpec == Spec /\ Fairness

(***************************************************************************)
(* Safety.                                                                 *)
(***************************************************************************)
\* Whenever operator* returns, in any thread and however the stores of the
\* creating thread drained, the Ptr it reloads is non-null and points to an
\* object whose constructor has finished and whose destructor has not begun.
DerefSafe ==
  \A t \in Threads, s \in Statics :
     Running(t, s, "use") => SeesPtr(t, s) /\ SeesObject(t, s) = "built"

\* Threads that race to the first use of a static construct one object, and
\* once no call is in progress every object there is can be reached from Ptr:
\* none is leaked, none is deleted twice.
OneObject ==
  \A s \in Statics :
     /\ live[s] <= 1
     /\ Quiescent /\ phase = "run" => (live[s] = 1 <=> ptr[s])

\* StaticList from its head, after n links.
Walk[n \in Nat] ==
  IF n = 0 THEN list
  ELSE IF Walk[n - 1] = NULL THEN NULL ELSE next[Walk[n - 1]]

\* StaticList ends, and holds exactly the statics that are registered: those
\* whose DeleterFn is set, but for one about to be linked and the dying one.
ListExact ==
  LET n == Cardinality(Statics)
      linking == {s \in Statics : \E t \in Threads : pc[t][s] = "link"}
  IN  /\ Walk[n] = NULL
      /\ {Walk[i] : i \in 0..n} \ {NULL} =
           {s \in Statics : deleterFn[s]} \ (linking \cup {dying})

\* Destruction is in reverse order of construction: as long as an object can be
\* reached or its destructor runs, everything its constructor used is alive,
\* also when a destructor brings a destroyed static back to life.
OutlivesUsers ==
  \A s \in Statics :
     ptr[s] => \A d \in CreatorUses[s] : ptr[d] /\ object[d] = "built"

\* The assertion at the head of the single-threaded branch, "Partially
\* initialized ManagedStatic!?", never fires, in whichever mode the static was
\* constructed and destroyed before.
NotPartiallyInitialized ==
  \A t \in Threads, s \in Statics :
     Running(t, s, "register") /\ ~mode =>
       ~ptr[s] /\ ~deleterFn[s] /\ next[s] = NULL

\* Frames of t that hold the global lock.
Locked == {"check", "create", "fence", "publish", "link", "release"}
LockedFrames(t) == {s \in Statics : pc[t][s] \in Locked}

\* Every path through RegisterManagedStatic, nested ones included, gives back
\* what it took: the lock's depth is the number of frames inside it, all of
\* them of the holder.
LockBalanced ==
  mode => /\ depth = Cardinality(UNION {LockedFrames(t) : t \in Threads})
          /\ (holder = NULL) = (depth = 0)
          /\ \A t \in Threads : LockedFrames(t) # {} => holder = t

(***************************************************************************)
(* Liveness.                                                               *)
(***************************************************************************)
\* Every dereference returns, although constructors dereference other statics
\* while they hold the lock, and llvm_shutdown empties StaticList although
\* destructors may add to it.
AllReturn ==
  /\ \A t \in Threads : top[t] # NULL ~> top[t] = NULL
  /\ phase = "shutdown" ~> phase = "run"

(***************************************************************************)
(* What the component promises: see StaticLifetime.                        *)
(***************************************************************************)
Alive == {s \in Statics : ptr[s] /\ object[s] = "built"}

Lifetime == INSTANCE StaticLifetime WITH alive <- Alive

ImplementsLifetime == Lifetime!Spec
=============================================================================
