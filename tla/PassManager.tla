----------------------------- MODULE PassManager -----------------------------
(***************************************************************************)
(* The pass manager (lib/VMCore/PassManager.cpp): passes that a client     *)
(* adds are scheduled behind the analyses they require, each pass manager  *)
(* keeps a table of the analyses that are available, and an analysis is    *)
(* freed after its last user.  The tables are filled twice, when passes    *)
(* are scheduled and again when they run.                                  *)
(*                                                                         *)
(* A module pass manager (MPP) contains module passes and function pass    *)
(* managers (FPP), those contain function passes and basic block pass      *)
(* managers (BBP).  Passes and managers are numbered as they are created.  *)
(* What a pass says of itself is                                           *)
(* [id, level, analysis, required, preserved]; only passes that are        *)
(* required by others are Registered and have an id.  Loop and call graph  *)
(* managers, immutable passes, interfaces, passes run on the fly for       *)
(* module passes and FunctionPassManager are left out.                     *)
(***************************************************************************)
EXTENDS Integers, SequencesExt

CONSTANTS
  Registered,  \* the passes that may be required: id -> what it says
  Clients      \* what is added and run: [transforms, the other passes it may add,
               \* passes, a bound on how many it adds, units, the functions of
               \* the module and the blocks of a function]

VARIABLES
  client,   \* one of them
  pm,       \* the pass managers: a record, see Init
  added,    \* passes added by the client
  todo,     \* the passes that are still to run
  held,     \* the result each pass holds, <<>> before the run
  impls     \* AnalysisImpls of the resolver of each pass
vars == <<client, pm, added, todo, held, impls>>

None     == [unit |-> <<0>>, fresh |-> FALSE, uses |-> <<>>]
Ids      == DOMAIN Registered
Nothing  == [a \in Ids |-> 0]

\* A manager is itself a pass, which preserves everything.
ManagerOf(level, depth) ==
  [id |-> "", level |-> level - 1, analysis |-> FALSE, required |-> <<>>,
   preserved |-> Ids, holds |-> level, depth |-> depth]
IsManager(p) == "holds" \in DOMAIN p

Init ==
  /\ client \in Clients
  /\ pm = [pass      |-> <<ManagerOf(1, 1)>>,
           in        |-> <<0>>,        \* the manager of each pass
           contents  |-> <<<<>>>>,     \* PassVector of each manager
           available |-> <<Nothing>>,  \* AvailableAnalysis
           inherited |-> <<{}>>,       \* InheritedAnalysis
           user      |-> <<0>>,        \* LastUser
           stack     |-> <<1>>]        \* activeStack
  /\ added = 0 /\ todo = <<>> /\ held = <<>> /\ impls = <<>>

(***************************************************************************)
(* The tables.                                                             *)
(***************************************************************************)
\* PMTopLevelManager::findAnalysisPass: any manager that has it.
Find(available, a) ==
  LET has == {m \in DOMAIN available : available[m][a] # 0}
  IN IF has = {} THEN 0 ELSE available[CHOOSE m \in has : \A n \in has : m <= n][a]

\* PMDataManager::findAnalysisPass.
FindFrom(available, m, a) ==
  IF available[m][a] # 0 THEN available[m][a] ELSE Find(available, a)

\* Fault: what parents provide stays in their tables.
NotPreservedHere(available, m, inherited, p) ==
  [n \in DOMAIN available |->
     IF n = m THEN [a \in Ids |-> IF a \in p.preserved THEN available[n][a] ELSE 0]
     ELSE available[n]]

\* removeNotPreservedAnalysis: here and in the parents' tables.
NotPreserved(available, m, inherited, p) ==
  [n \in DOMAIN available |->
     IF n \in inherited \cup {m}
       THEN [a \in Ids |-> IF a \in p.preserved THEN available[n][a] ELSE 0]
       ELSE available[n]]

\* recordAvailableAnalysis.
Recorded(available, m, n, p) ==
  [k \in DOMAIN available |->
     [a \in Ids |-> IF k = m /\ a = p.id THEN n ELSE available[k][a]]]

\* If a is the last user of other passes, p takes those over.
SetLastUser(user, analyses, p) ==
  FoldLeft(LAMBDA u, a : [x \in DOMAIN u |->
                            IF x = a \/ (a # p /\ u[x] = a) THEN p ELSE u[x]],
           user, analyses)

(***************************************************************************)
(* Scheduling.                                                             *)
(***************************************************************************)
New(s, p) ==
  [s EXCEPT !.pass = Append(@, p), !.in = Append(@, 0), !.user = Append(@, 0),
            !.contents = Append(@, <<>>), !.available = Append(@, Nothing),
            !.inherited = Append(@, {})]

\* A parent claims the last use for the manager, not for the pass.
LastUser(s, m, n, depth) == IF depth < s.pass[m].depth THEN m ELSE n

\* PMDataManager::add of pass n to manager m.
AddTo(s, m, n) ==
  LET p == s.pass[n]
      required == SelectSeq([i \in DOMAIN p.required |-> FindFrom(s.available, m, p.required[i])],
                            LAMBDA r : r # 0)
      Depth(r) == s.pass[s.in[r]].depth
      Users(u) == SelectSeq(required, LAMBDA r : LastUser(s, m, n, Depth(r)) = u)
      mine == IF IsManager(p) THEN <<>> ELSE Append(Users(n), n)
  IN [s EXCEPT
        !.in[n] = m,
        !.contents[m] = Append(@, n),
        !.user = SetLastUser(SetLastUser(s.user, mine, n), Users(m), m),
        !.available = Recorded(NotPreserved(s.available, m, s.inherited[m], p), m, n, p)]

\* Managers of lower levels are popped, which clears their tables.
Popped(s, level) ==
  LET stays(m) == s.pass[m].holds <= level
  IN [s EXCEPT
        !.stack = SelectSeq(@, stays),
        !.available = [m \in DOMAIN s.available |->
          IF Contains(s.stack, m) /\ ~stays(m) THEN Nothing ELSE s.available[m]]]

\* assignPassManager of pass n: it is added to the manager on top of the stack,
\* or to a new one, which must find its own manager first.
RECURSIVE Assign(_, _)
Assign(s, n) ==
  LET level == s.pass[n].level
      t == Popped(s, level)
      top == Last(t.stack)
      m == Len(t.pass) + 1
      created == Assign([New(t, ManagerOf(level, t.pass[top].depth + 1))
                           EXCEPT !.inherited[m] = IF level = 2 THEN ToSet(t.stack) ELSE {}], m)
  IN IF t.pass[top].holds = level THEN AddTo(t, top, n)
     ELSE AddTo([created EXCEPT !.stack = Append(@, m)], m, n)

\* Fault: what was found before is not looked for again.
RecheckNever(p, a) == FALSE

\* A pass of a higher level may have made others unavailable.
Recheck(p, a) == p.level > a.level

RECURSIVE Schedule(_, _), Require(_, _, _, _)
\* The passes p requires, from the i-th.
Require(s, p, i, again) ==
  IF i > Len(p.required) THEN IF again THEN Require(s, p, 1, FALSE) ELSE s
  ELSE LET a == Registered[p.required[i]] IN
       IF Find(s.available, a.id) # 0 THEN Require(s, p, i + 1, again)
       ELSE Require(Schedule(s, a), p, i + 1, again \/ Recheck(p, a))

\* PMTopLevelManager::schedulePass.
Schedule(s, p) ==
  IF p.analysis /\ Find(s.available, p.id) # 0 THEN s
  ELSE LET t == Require(s, p, 1, FALSE) IN Assign(New(t, p), Len(t.pass) + 1)

\* PassManager::add.
Add ==
  /\ held = <<>> /\ added < client.passes
  /\ \E p \in client.transforms \cup {Registered[a] : a \in Ids} : pm' = Schedule(pm, p)
  /\ added' = added + 1
  /\ UNCHANGED <<client, todo, held, impls>>

(***************************************************************************)
(* Running.                                                                *)
(***************************************************************************)
\* The passes of manager m in the order they run, each function by all passes
\* of a manager before the next function; a manager comes after its passes.
RECURSIVE Runs(_, _)
Runs(m, unit) ==
  FlattenSeq([i \in DOMAIN pm.contents[m] |->
    LET n == pm.contents[m][i] IN
    Append(IF ~IsManager(pm.pass[n]) THEN <<>>
           ELSE FlattenSeq([k \in 1..client.units[pm.pass[n].level] |-> Runs(n, Append(unit, k))]),
           [pass |-> n, mgr |-> m, unit |-> unit])])

\* initializeAllAnalysisInfo.
Run ==
  /\ held = <<>> /\ added > 0
  /\ todo' = Runs(1, <<>>)
  /\ pm' = [pm EXCEPT !.available = [m \in DOMAIN @ |-> Nothing],
                      !.inherited = [m \in DOMAIN @ |-> {}]]
  /\ held' = [n \in DOMAIN pm.pass |-> None]
  /\ impls' = [n \in DOMAIN pm.pass |-> Nothing]
  /\ UNCHANGED <<client, added>>

\* initializeAnalysisImpl: what was found for an earlier unit comes first.
Impl(n, m, a) == IF impls[n][a] # 0 THEN impls[n][a] ELSE FindFrom(pm.available, m, a)

\* populateInheritedAnalysis, by function pass managers, from the stack that
\* scheduling left behind.
Inherited(m) == IF pm.pass[m].holds = 2 THEN ToSet(pm.stack) ELSE {}

\* Fault: nothing is released but what the pass itself holds.
DeadAlone(n) == {x \in {n} : pm.user[x] = n}

\* Passes whose last user is n.
Dead(n) == {x \in DOMAIN pm.user : pm.user[x] = n}

\* removeDeadPasses: the tables forget the pass under its id.
Freed(available, m, dead) ==
  [k \in DOMAIN available |-> [a \in Ids |->
     IF k = m /\ \E x \in dead : pm.pass[x].id = a THEN 0 ELSE available[k][a]]]

RunPass ==
  /\ todo # <<>>
  /\ LET n == Head(todo).pass  m == Head(todo).mgr  unit == Head(todo).unit
         p == pm.pass[n]
         uses == [a \in Ids |-> IF Contains(p.required, a) THEN Impl(n, m, a) ELSE 0]
         result == [unit |-> unit, fresh |-> TRUE, uses |-> uses]
         ran == Recorded(NotPreserved(pm.available, m, Inherited(m), p), m, n, p)
     IN /\ impls' = [impls EXCEPT ![n] = uses]
        /\ held' = [x \in DOMAIN held |->
             IF x \in Dead(n) THEN None
             ELSE IF x = n /\ ~IsManager(p) THEN result
             ELSE IF pm.pass[x].id \in p.preserved THEN held[x]
             ELSE [held[x] EXCEPT !.fresh = FALSE]]
        /\ pm' = [pm EXCEPT !.available = Freed(ran, m, Dead(n))]
  /\ todo' = Tail(todo)
  /\ UNCHANGED <<client, added>>

Next == Add \/ Run \/ RunPass

Spec == Init /\ [][Next]_vars

(***************************************************************************)
(* Properties.                                                             *)
(***************************************************************************)
Running == todo # <<>>

\* The result of analysis x is about the unit, nothing has invalidated it and
\* it was not released.
Usable(x, unit) == held[x].fresh /\ IsPrefix(held[x].unit, unit)

\* All required analyses are available to a pass as it runs: computed for
\* its unit, not invalidated, not released, however schedulePass, the tables
\* of the managers and the last users played together.
RequiredAvailable ==
  Running => LET s == Head(todo) IN
    \A a \in ToSet(pm.pass[s.pass].required) :
      LET x == Impl(s.pass, s.mgr, a) IN x # 0 /\ Usable(x, s.unit)

\* What a pass finds with getAnalysisIfAvailable, asked for or not, is usable:
\* the tables never hold stale results or those of another function.
NothingStale ==
  Running => LET s == Head(todo) IN
    \A a \in Ids :
      LET x == FindFrom(pm.available, s.mgr, a) IN x = 0 \/ Usable(x, s.unit)

\* Every pass is released after each unit, before it runs on the next.
Released ==
  /\ Running => held[Head(todo).pass].unit = None.unit
  /\ todo = <<>> => \A x \in DOMAIN held : held[x].unit = None.unit
=============================================================================
