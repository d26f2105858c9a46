------------------------------ MODULE Statistic ------------------------------
(***************************************************************************)
(* Statistics: counters that any thread bumps and that register themselves  *)
(* the first time they are bumped, so that llvm_shutdown can print them     *)
(* (include/llvm/ADT/Statistic.h, lib/Support/Statistic.cpp).               *)
(*                                                                         *)
(* StatInfo and StatLock are ManagedStatics: a dereference is taken to be   *)
(* one step here, which is what ManagedStatic shows of it, and llvm_shutdown *)
(* runs when no thread is in the library.                                   *)
(***************************************************************************)
EXTENDS Naturals, Sequences, FiniteSets

CONSTANTS
  Thread,      \* threads that bump statistics
  Stat,        \* the Statistic globals of the program
  MaxBumps,    \* bound: operations a thread carries out in one life
  MaxLives,    \* bound: calls of llvm_shutdown
  None

VARIABLES
  Value,       \* Value of every statistic
  Initialized, \* Initialized of every statistic
  Enabled,     \* the option -stats
  StatInfo,    \* Stats of the StatisticInfo; << >> also while there is none
  StatLock,    \* the owner of StatLock
  pc, stat, kind, original,   \* where each thread is, and its locals
  bumps,       \* operations each thread began in this life
  lives,       \* calls of llvm_shutdown so far
  effects,     \* history: how often each kind of change took effect
  bumped,      \* history: statistics bumped since the last llvm_shutdown
  missed,      \* history: those bumped before it, or before -stats was parsed
  printed      \* what the last llvm_shutdown printed

locals == <<stat, kind, original, bumps>>
history == <<effects, bumped, missed>>
vars == <<Value, Initialized, Enabled, StatInfo, StatLock, pc, locals, lives,
          history, printed>>

ASSUME StatisticAssumption ==
  /\ None \notin Thread
  /\ MaxBumps \in Nat
  /\ MaxLives \in Nat

Changes == {"increment", "multiply"}
\* operator++(), operator*=, operator++(int).
Kinds == {"prefix", "multiply", "postfix"}
Labels == {"idle", "modify", "swap", "test", "lock", "check", "mark", "unlock"}

TypeOK ==
  /\ Value \in [Stat -> Nat]
  /\ Initialized \in [Stat -> BOOLEAN]
  /\ Enabled \in BOOLEAN
  /\ StatInfo \in Seq(Stat)
  /\ StatLock \in Thread \cup {None}
  /\ pc \in [Thread -> Labels]
  /\ stat \in [Thread -> Stat]
  /\ kind \in [Thread -> Kinds]
  /\ original \in [Thread -> Nat]
  /\ bumps \in [Thread -> Nat]
  /\ lives \in Nat
  /\ effects \in [Stat -> [Changes -> Nat]]
  /\ bumped \in SUBSET Stat
  /\ missed \in SUBSET Stat
  /\ printed \in Seq(Stat)

Init ==
  /\ Value = [s \in Stat |-> 0]
  /\ Initialized = [s \in Stat |-> FALSE]
  /\ Enabled = FALSE
  /\ StatInfo = << >>
  /\ StatLock = None
  /\ pc = [t \in Thread |-> "idle"]
  /\ stat \in [Thread -> Stat]
  /\ kind = [t \in Thread |-> "prefix"]
  /\ original = [t \in Thread |-> 0]
  /\ bumps = [t \in Thread |-> 0]
  /\ lives = 0
  /\ effects = [s \in Stat |-> [c \in Changes |-> 0]]
  /\ bumped = {}
  /\ missed = {}
  /\ printed = << >>

Goto(t, label) == pc' = [pc EXCEPT ![t] = label]

\* The statistic changes: Value gets v, by a change of kind c.
Change(t, v, c) ==
  /\ Value' = [Value EXCEPT ![stat[t]] = v]
  /\ effects' = [effects EXCEPT ![stat[t]][c] = @ + 1]
  /\ bumped' = bumped \cup {stat[t]}
  /\ UNCHANGED missed

\* What comes after the change: operator++(int) has called init() before it.
AfterChange(t) == IF kind[t] = "postfix" THEN "idle" ELSE "test"
\* What comes after init().
AfterInit(t) == IF kind[t] = "postfix" THEN "modify" ELSE "idle"

(***************************************************************************)
(* The operators of Statistic                                              *)
(***************************************************************************)
Bump(t, s, k) ==
  /\ pc[t] = "idle"
  /\ bumps[t] < MaxBumps
  /\ stat' = [stat EXCEPT ![t] = s]
  /\ kind' = [kind EXCEPT ![t] = k]
  /\ bumps' = [bumps EXCEPT ![t] = @ + 1]
  /\ Goto(t, IF k = "postfix" THEN "test" ELSE "modify")
  /\ UNCHANGED <<Value, Initialized, Enabled, StatInfo, StatLock, original, lives,
                 history, printed>>

\* AtomicIncrement.
Increment(t) ==
  /\ pc[t] = "modify"
  /\ kind[t] # "multiply"
  /\ Change(t, Value[stat[t]] + 1, "increment")
  /\ Goto(t, AfterChange(t))
  /\ UNCHANGED <<Initialized, Enabled, StatInfo, StatLock, locals, lives, printed>>

\* AtomicMul, by 2: the load of the loop.
Load(t) ==
  /\ pc[t] = "modify"
  /\ kind[t] = "multiply"
  /\ original' = [original EXCEPT ![t] = Value[stat[t]]]
  /\ Goto(t, "swap")
  /\ UNCHANGED <<Value, Initialized, Enabled, StatInfo, StatLock, stat, kind, bumps,
                 lives, history, printed>>

\* Fault: the product is stored, whatever the value is by now.
StoreProduct(t) ==
  /\ pc[t] = "swap"
  /\ Change(t, 2 * original[t], "multiply")
  /\ Goto(t, AfterChange(t))
  /\ UNCHANGED <<Initialized, Enabled, StatInfo, StatLock, locals, lives, printed>>

\* Fault: another round that does not load the value again.
SwapStale(t) ==
  /\ pc[t] = "swap"
  /\ Value[stat[t]] = original[t]
  /\ Change(t, 2 * original[t], "multiply")
  /\ Goto(t, AfterChange(t))
  /\ UNCHANGED <<Initialized, Enabled, StatInfo, StatLock, locals, lives, printed>>

\* Its CompareAndSwap: another round if the value has changed.
Swap(t) ==
  /\ pc[t] = "swap"
  /\ \/ /\ Value[stat[t]] = original[t]
        /\ Change(t, 2 * original[t], "multiply")
        /\ Goto(t, AfterChange(t))
     \/ /\ Value[stat[t]] # original[t]
        /\ Goto(t, "modify")
        /\ UNCHANGED <<Value, history>>
  /\ UNCHANGED <<Initialized, Enabled, StatInfo, StatLock, locals, lives, printed>>

\* Fault: a statistic that counts more than this bump is taken for registered.
TestChanged(t) ==
  /\ pc[t] = "test"
  /\ Goto(t, IF Initialized[stat[t]] \/ Value[stat[t]] > 1 THEN AfterInit(t) ELSE "lock")
  /\ UNCHANGED <<Value, Initialized, Enabled, StatInfo, StatLock, locals, lives,
                 history, printed>>

\* Statistic::init: the test without a lock.
Test(t) ==
  /\ pc[t] = "test"
  /\ Goto(t, IF Initialized[stat[t]] THEN AfterInit(t) ELSE "lock")
  /\ UNCHANGED <<Value, Initialized, Enabled, StatInfo, StatLock, locals, lives,
                 history, printed>>

(***************************************************************************)
(* RegisterStatistic                                                       *)
(***************************************************************************)
Lock(t) ==
  /\ pc[t] = "lock"
  /\ StatLock = None
  /\ StatLock' = t
  /\ Goto(t, "check")
  /\ UNCHANGED <<Value, Initialized, Enabled, StatInfo, locals, lives, history, printed>>

\* Fault: no second test under the lock.
AddUnchecked(t) ==
  /\ pc[t] = "check"
  /\ StatInfo' = IF Enabled THEN Append(StatInfo, stat[t]) ELSE StatInfo
  /\ Goto(t, "mark")
  /\ UNCHANGED <<Value, Initialized, Enabled, StatLock, locals, lives, history, printed>>

\* The second test, and addStatistic.
Add(t) ==
  /\ pc[t] = "check"
  /\ IF Initialized[stat[t]]
     THEN /\ Goto(t, "unlock")
          /\ UNCHANGED StatInfo
     ELSE /\ StatInfo' = IF Enabled THEN Append(StatInfo, stat[t]) ELSE StatInfo
          /\ Goto(t, "mark")
  /\ UNCHANGED <<Value, Initialized, Enabled, StatLock, locals, lives, history, printed>>

Mark(t) ==
  /\ pc[t] = "mark"
  /\ Initialized' = [Initialized EXCEPT ![stat[t]] = TRUE]
  /\ Goto(t, "unlock")
  /\ UNCHANGED <<Value, Enabled, StatInfo, StatLock, locals, lives, history, printed>>

Unlock(t) ==
  /\ pc[t] = "unlock"
  /\ StatLock' = None
  /\ Goto(t, AfterInit(t))
  /\ UNCHANGED <<Value, Initialized, Enabled, StatInfo, locals, lives, history, printed>>

(***************************************************************************)
(* The program: -stats is parsed, and llvm_shutdown runs, while no thread is *)
(* in the library.                                                         *)
(***************************************************************************)
Quiescent == \A t \in Thread : pc[t] = "idle"

\* Static constructors, and clients that parse late, bump statistics before.
ParseCommandLine ==
  /\ Quiescent
  /\ ~Enabled
  /\ Enabled' = TRUE
  /\ missed' = missed \cup bumped
  /\ UNCHANGED <<Value, Initialized, StatInfo, StatLock, pc, locals, lives, effects,
                 bumped, printed>>

\* ~StatisticInfo; the Statistic globals stay as they are.
Shutdown ==
  /\ Quiescent
  /\ lives < MaxLives
  /\ lives' = lives + 1
  /\ printed' = StatInfo
  /\ StatInfo' = << >>
  /\ StatLock' = None
  /\ bumped' = {}
  /\ missed' = missed \cup bumped
  /\ bumps' = [t \in Thread |-> 0]
  /\ UNCHANGED <<Value, Initialized, Enabled, pc, stat, kind, original, effects>>

Register(t) == Lock(t) \/ Add(t) \/ Mark(t) \/ Unlock(t)
Step(t) == Increment(t) \/ Load(t) \/ Swap(t) \/ Test(t) \/ Register(t)

Next ==
  \/ \E t \in Thread : Step(t)
  \/ \E t \in Thread, s \in Stat, k \in Kinds : Bump(t, s, k)
  \/ ParseCommandLine
  \/ Shutdown

Spec == Init /\ [][Next]_vars

\* A thread that is in an operator runs on. The lock needs no fairness of its
\* own: a statistic is registered once, so no thread is overtaken for ever.
Fairness == \A t \in Thread : WF_vars(Step(t))
LiveSpec == Spec /\ Fairness

(***************************************************************************)
(* Properties                                                              *)
(***************************************************************************)
InRegister(t) == pc[t] \in {"check", "mark", "unlock"}

Registered == {StatInfo[i] : i \in 1..Len(StatInfo)}

\* However many threads bump a statistic for the first time at once, it is in
\* StatInfo at most once (the second test in RegisterStatistic), and it is
\* there only if it was marked or is about to be.
RegisteredOnce ==
  /\ \A i, j \in 1..Len(StatInfo) : StatInfo[i] = StatInfo[j] => i = j
  /\ \A s \in Registered :
       Initialized[s] \/ \E t \in Thread : pc[t] = "mark" /\ stat[t] = s

\* The values c[1] increments and c[2] doublings can leave, in any order.
Results[c \in Nat \X Nat] ==
  IF c = <<0, 0>> THEN {0}
  ELSE (IF c[1] > 0 THEN {v + 1 : v \in Results[<<c[1] - 1, c[2]>>]} ELSE {})
       \cup (IF c[2] > 0 THEN {2 * v : v \in Results[<<c[1], c[2] - 1>>]} ELSE {})

\* No change of a statistic is lost between the load and the CompareAndSwap of
\* another thread: the value is that of some order of the changes made.
NothingLost ==
  \A s \in Stat :
    Value[s] \in Results[<<effects[s]["increment"], effects[s]["multiply"]>>]

\* With -stats, llvm_shutdown prints exactly the statistics first bumped since
\* the option was parsed and since the previous llvm_shutdown, whichever threads
\* raced to register them. "Print information when destroyed, iff command line
\* option is specified" (Statistic.cpp:93) promises those in missed as well:
\* Initialized stays set, so they are never printed again.
BumpedPrinted ==
  [][Shutdown =>
       {printed'[i] : i \in 1..Len(printed')}
         = IF Enabled THEN bumped \ missed ELSE {}]_vars

\* Every operator of Statistic returns: nobody keeps StatLock, and the loop of
\* AtomicMul is overtaken only as often as others bump.
Returns == \A t \in Thread : pc[t] # "idle" ~> pc[t] = "idle"
=============================================================================
