-------------------------- MODULE Statistic_proofs --------------------------
(***************************************************************************)
(* Proofs about Statistic, for any threads, statistics and bounds.          *)
(***************************************************************************)
EXTENDS Statistic, TLAPS

\* The lock is held by whoever is inside RegisterStatistic.
LockInv == \A t \in Thread : InRegister(t) => StatLock = t

\* What is in StatInfo was marked, or is about to be by the one who put it there.
MarkInv ==
  \A s \in Registered :
    Initialized[s] \/ \E t \in Thread : pc[t] = "mark" /\ stat[t] = s

Injective == \A i, j \in 1..Len(StatInfo) : StatInfo[i] = StatInfo[j] => i = j

SInv == TypeOK /\ LockInv /\ MarkInv /\ Injective

\* What is listed, marked and bumped, in whichever life.
NoneListed == ~Enabled => StatInfo = << >>

MarkedListed ==
  Enabled =>
    /\ \A s \in Stat : Initialized[s] /\ s \notin missed => s \in Registered
    /\ \A t \in Thread : pc[t] = "mark" => stat[t] \in Registered

\* What RegisterStatistic, and so init(), leaves behind is marked.
PassedMarked ==
  \A t \in Thread :
    (pc[t] = "unlock" \/ (pc[t] \in {"modify", "swap"} /\ kind[t] = "postfix"))
      => Initialized[stat[t]]

Registering == {"test", "lock", "check", "mark"}

\* What is bumped is marked, or will be by a thread that has bumped it.
BumpedMarked ==
  \A s \in bumped :
    Initialized[s] \/ \E t \in Thread : stat[t] = s /\ pc[t] \in Registering

PrefixBumped ==
  \A t \in Thread :
    pc[t] \in Registering \cup {"unlock"} /\ kind[t] # "postfix" => stat[t] \in bumped

\* What is listed is bumped, or will be by the thread that listed it.
ListedBumped ==
  \A s \in Registered :
    s \in bumped \/ \E t \in Thread :
      /\ stat[t] = s
      /\ kind[t] = "postfix"
      /\ pc[t] \in {"mark", "unlock", "modify", "swap"}

\* What is marked was bumped, or will be by the thread that marked it.
MarkedBumped ==
  \A s \in Stat :
    Initialized[s] => s \in bumped \cup missed \/ \E t \in Thread :
      /\ stat[t] = s
      /\ kind[t] = "postfix"
      /\ pc[t] \in {"unlock", "modify", "swap"}

\* What was missed is marked, and never listed again.
MissedMarked == \A s \in missed : Initialized[s] /\ s \notin Registered

Reporting == /\ NoneListed /\ MarkedListed /\ PassedMarked /\ BumpedMarked
             /\ PrefixBumped /\ ListedBumped /\ MarkedBumped /\ MissedMarked

-----------------------------------------------------------------------------
\* Appending adds one element to the range of a sequence.
LEMMA AppendRange ==
  ASSUME NEW q \in Seq(Stat), NEW s \in Stat
  PROVE  {Append(q, s)[i] : i \in 1..Len(Append(q, s))} = {q[i] : i \in 1..Len(q)} \cup {s}
<1> DEFINE a == Append(q, s)
<1>1. Len(a) = Len(q) + 1 /\ a[Len(q) + 1] = s /\ \A i \in 1..Len(q) : a[i] = q[i]
  OBVIOUS
<1>2. ASSUME NEW i \in 1..Len(a)  PROVE a[i] \in {q[j] : j \in 1..Len(q)} \cup {s}
  <2>1. i = Len(q) + 1 \/ i \in 1..Len(q)
    BY <1>1
  <2> QED BY <2>1, <1>1
<1>3. ASSUME NEW x \in {q[i] : i \in 1..Len(q)} \cup {s}
      PROVE  \E i \in 1..Len(a) : a[i] = x
  <2>1. CASE x = s
    BY <1>1, <2>1, Len(q) + 1 \in 1..Len(a)
  <2>2. CASE x # s
    <3>1. PICK i \in 1..Len(q) : q[i] = x
      BY <2>2
    <3> QED BY <1>1, <3>1, i \in 1..Len(a)
  <2> QED BY <2>1, <2>2
<1> QED BY <1>2, <1>3

\* Appending a new element keeps a sequence without repetitions.
LEMMA AppendInjective ==
  ASSUME NEW q \in Seq(Stat), NEW s \in Stat,
         \A i, j \in 1..Len(q) : q[i] = q[j] => i = j,
         s \notin {q[i] : i \in 1..Len(q)}
  PROVE  \A i, j \in 1..Len(Append(q, s)) : Append(q, s)[i] = Append(q, s)[j] => i = j
<1> DEFINE a == Append(q, s)
<1>1. Len(a) = Len(q) + 1 /\ a[Len(q) + 1] = s /\ \A i \in 1..Len(q) : a[i] = q[i]
  OBVIOUS
<1>2. \A i \in 1..Len(q) : q[i] # s
  OBVIOUS
<1>3. ASSUME NEW i \in 1..Len(a), NEW j \in 1..Len(a), a[i] = a[j]  PROVE i = j
  <2>1. (i = Len(q) + 1 \/ i \in 1..Len(q)) /\ (j = Len(q) + 1 \/ j \in 1..Len(q))
    BY <1>1
  <2> QED BY <2>1, <1>1, <1>2, <1>3
<1> QED BY <1>3

\* A step of RegisterStatistic that registers a statistic finds it unregistered.
LEMMA NotRegisteredYet ==
  ASSUME SInv, NEW t \in Thread, pc[t] = "check", ~Initialized[stat[t]]
  PROVE  stat[t] \notin Registered
<1> SUFFICES ASSUME stat[t] \in Registered PROVE FALSE
  OBVIOUS
<1>1. PICK u \in Thread : pc[u] = "mark" /\ stat[u] = stat[t]
  BY DEF SInv, MarkInv
<1>2. StatLock = u /\ StatLock = t
  BY <1>1 DEF SInv, LockInv, InRegister
<1> QED BY <1>1, <1>2

LEMMA InitSInv == ASSUME Init PROVE SInv
<1>1. TypeOK
  <2>1. Enabled \in BOOLEAN
    BY DEF Init
  <2>2. effects \in [Stat -> [Changes -> Nat]]
    BY DEF Init
  <2>3. StatInfo \in Seq(Stat) /\ printed \in Seq(Stat)
    BY DEF Init
  <2> QED BY <2>1, <2>2, <2>3 DEF Init, TypeOK, Labels, Kinds
<1>2. LockInv
  BY DEF Init, LockInv, InRegister
<1>3. StatInfo = << >> /\ Registered = {}
  BY DEF Init, Registered
<1> QED BY <1>1, <1>2, <1>3 DEF SInv, MarkInv, Injective

-----------------------------------------------------------------------------
\* What a change of a statistic leaves.
LEMMA ChangeTyped ==
  ASSUME TypeOK, NEW t \in Thread, NEW v \in Nat, NEW c \in Changes, Change(t, v, c)
  PROVE  /\ Value' \in [Stat -> Nat]
         /\ effects' \in [Stat -> [Changes -> Nat]]
         /\ bumped' \subseteq Stat
         /\ missed' \subseteq Stat
<1>1. stat[t] \in Stat /\ effects[stat[t]] \in [Changes -> Nat]
  BY DEF TypeOK
<1>2. [effects[stat[t]] EXCEPT ![c] = @ + 1] \in [Changes -> Nat]
  BY <1>1
<1>3. effects' = [effects EXCEPT ![stat[t]] = [effects[stat[t]] EXCEPT ![c] = @ + 1]]
  BY <1>1 DEF Change, TypeOK
<1> QED BY <1>1, <1>2, <1>3 DEF Change, TypeOK

\* The type invariant, action by action.
LEMMA NextTypeOK == ASSUME TypeOK, [Next]_vars PROVE TypeOK'
<1> USE StatisticAssumption DEF TypeOK, Goto
<1>1. ASSUME NEW t \in Thread, Increment(t) PROVE TypeOK'
  <2>1. Value[stat[t]] + 1 \in Nat /\ "increment" \in Changes
    BY DEF Changes
  <2>2. Value' \in [Stat -> Nat] /\ effects' \in [Stat -> [Changes -> Nat]]
        /\ bumped' \subseteq Stat /\ missed' \subseteq Stat
    BY <1>1, <2>1, ChangeTyped DEF Increment
  <2> QED BY <1>1, <2>2 DEF Increment, AfterChange, locals, Labels
<1>2. ASSUME NEW t \in Thread, Load(t) PROVE TypeOK'
  BY <1>2 DEF Load, Labels, history
<1>3. ASSUME NEW t \in Thread, Swap(t) PROVE TypeOK'
  <2>1. 2 * original[t] \in Nat /\ "multiply" \in Changes
    BY DEF Changes
  <2>2. Value' \in [Stat -> Nat] /\ effects' \in [Stat -> [Changes -> Nat]]
        /\ bumped' \subseteq Stat /\ missed' \subseteq Stat
    BY <1>3, <2>1, ChangeTyped DEF Swap, history
  <2> QED BY <1>3, <2>2 DEF Swap, AfterChange, locals, Labels
<1>4. ASSUME NEW t \in Thread, Test(t) PROVE TypeOK'
  BY <1>4 DEF Test, AfterInit, locals, Labels, history
<1>5. ASSUME NEW t \in Thread, Register(t) PROVE TypeOK'
  <2>1. CASE Lock(t)
    BY <2>1 DEF Lock, locals, Labels, history
  <2>2. CASE Add(t)
    <3>1. stat[t] \in Stat /\ Append(StatInfo, stat[t]) \in Seq(Stat)
      OBVIOUS
    <3>2. StatInfo' \in {StatInfo, Append(StatInfo, stat[t])}
      BY <2>2 DEF Add
    <3>3. StatInfo' \in Seq(Stat)
      BY <3>1, <3>2
    <3> QED BY <2>2, <3>3 DEF Add, locals, Labels, history
  <2>3. CASE Mark(t)
    BY <2>3 DEF Mark, locals, Labels, history
  <2>4. CASE Unlock(t)
    BY <2>4 DEF Unlock, AfterInit, locals, Labels, history
  <2> QED BY <1>5, <2>1, <2>2, <2>3, <2>4 DEF Register
<1>6. ASSUME NEW t \in Thread, NEW s \in Stat, NEW k \in Kinds, Bump(t, s, k)
      PROVE TypeOK'
  BY <1>6 DEF Bump, Labels, history
<1>7. CASE ParseCommandLine
  BY <1>7 DEF ParseCommandLine, locals, history
<1>8. CASE Shutdown
  BY <1>8 DEF Shutdown
<1>9. CASE UNCHANGED vars
  BY <1>9 DEF vars, locals, history
<1> QED BY <1>1, <1>2, <1>3, <1>4, <1>5, <1>6, <1>7, <1>8, <1>9 DEF Next, Step

\* Steps outside the lock move one thread to a place outside the lock.
LEMMA OutsideKeeps ==
  ASSUME SInv, NEW t \in Thread, NEW w \in Labels \ {"check", "mark", "unlock"},
         ~InRegister(t), Goto(t, w),
         UNCHANGED <<Initialized, StatInfo, StatLock>>,
         \A u \in Thread : u # t => stat'[u] = stat[u]
  PROVE  LockInv' /\ MarkInv' /\ Injective'
<1> USE DEF SInv, TypeOK, Goto
<1>1. LockInv'
  BY DEF LockInv, InRegister, Labels
<1>2. Registered' = Registered /\ Injective'
  BY DEF Registered, Injective
<1>3. \A u \in Thread : pc[u] = "mark" => u # t /\ pc'[u] = "mark"
  BY DEF InRegister
<1>4. MarkInv'
  <2> SUFFICES ASSUME NEW s \in Registered
               PROVE  Initialized'[s] \/ \E u \in Thread : pc'[u] = "mark" /\ stat'[u] = s
    BY <1>2 DEF MarkInv
  <2>1. CASE Initialized[s]
    BY <2>1
  <2>2. ASSUME NEW u \in Thread, pc[u] = "mark", stat[u] = s
        PROVE  pc'[u] = "mark" /\ stat'[u] = s
    BY <1>3, <2>2
  <2> QED BY <2>1, <2>2 DEF MarkInv
<1> QED BY <1>1, <1>2, <1>4

LEMMA AddKeeps ==
  ASSUME SInv, NEW t \in Thread, Add(t)
  PROVE  LockInv' /\ MarkInv' /\ Injective'
<1> USE DEF SInv, TypeOK, Add, Goto, locals
<1>1. LockInv'
  BY DEF LockInv, InRegister
<1>2. CASE Initialized[stat[t]] \/ ~Enabled
  <2>1. StatInfo' = StatInfo
    BY <1>2
  <2>2. Registered' = Registered /\ Injective'
    BY <2>1 DEF Registered, Injective
  <2>3. \A u \in Thread : pc[u] = "mark" => pc'[u] = "mark"
    OBVIOUS
  <2>4. MarkInv'
    BY <2>2, <2>3 DEF MarkInv
  <2> QED BY <1>1, <2>2, <2>4
<1>3. CASE ~Initialized[stat[t]] /\ Enabled
  <2>1. StatInfo' = Append(StatInfo, stat[t]) /\ stat[t] \in Stat
    BY <1>3
  <2>2. Registered' = Registered \cup {stat[t]}
    BY <2>1, AppendRange DEF Registered
  <2>3. stat[t] \notin Registered
    BY <1>3, NotRegisteredYet
  <2>4. Injective'
    BY <2>1, <2>3, AppendInjective DEF Injective, Registered
  <2>5. MarkInv'
    <3> SUFFICES ASSUME NEW s \in Registered'
                 PROVE  Initialized'[s] \/ \E u \in Thread : pc'[u] = "mark" /\ stat'[u] = s
      BY DEF MarkInv
    <3>1. CASE s = stat[t]
      BY <1>3, <3>1
    <3>2. CASE s \in Registered
      BY <3>2, <1>3 DEF MarkInv
    <3> QED BY <2>2, <3>1, <3>2
  <2> QED BY <1>1, <2>4, <2>5
<1> QED BY <1>2, <1>3

LEMMA RegisterKeeps ==
  ASSUME SInv, NEW t \in Thread, Lock(t) \/ Mark(t) \/ Unlock(t)
  PROVE  LockInv' /\ MarkInv' /\ Injective'
<1> USE DEF SInv, TypeOK, Goto, locals
<1>1. Registered' = Registered /\ Injective'
  BY DEF Registered, Injective, Lock, Mark, Unlock
<1>2. LockInv'
  <2>1. CASE Lock(t)
    <3>1. \A u \in Thread : ~InRegister(u)
      <4>1. StatLock = None /\ None \notin Thread
        BY <2>1, StatisticAssumption DEF Lock
      <4> QED BY <4>1 DEF LockInv
    <3>2. \A u \in Thread : InRegister(u)' => u = t
      BY <2>1, <3>1 DEF Lock, InRegister
    <3> QED BY <2>1, <3>2 DEF Lock, LockInv
  <2>2. CASE Mark(t)
    BY <2>2 DEF Mark, LockInv, InRegister
  <2>3. CASE Unlock(t)
    BY <2>3 DEF Unlock, AfterInit, LockInv, InRegister
  <2> QED BY <2>1, <2>2, <2>3
<1>3. MarkInv'
  <2> SUFFICES ASSUME NEW s \in Registered
               PROVE  Initialized'[s] \/ \E u \in Thread : pc'[u] = "mark" /\ stat'[u] = s
    BY <1>1 DEF MarkInv
  <2>0. s \in Stat
    BY DEF Registered
  <2>1. CASE Initialized[s]
    BY <2>0, <2>1 DEF Lock, Mark, Unlock
  <2>2. ASSUME NEW u \in Thread, pc[u] = "mark", stat[u] = s
        PROVE  Initialized'[s] \/ (pc'[u] = "mark" /\ stat'[u] = s)
    BY <2>0, <2>2 DEF Lock, Mark, Unlock
  <2> QED BY <2>1, <2>2 DEF MarkInv
<1> QED BY <1>1, <1>2, <1>3

LEMMA NextSInv == ASSUME SInv, [Next]_vars PROVE SInv'
<1>0. TypeOK'
  BY NextTypeOK DEF SInv
<1> SUFFICES LockInv' /\ MarkInv' /\ Injective'
  BY <1>0 DEF SInv
<1>1. ASSUME NEW t \in Thread, Increment(t) \/ Load(t) \/ Swap(t) \/ Test(t)
      PROVE  LockInv' /\ MarkInv' /\ Injective'
  <2>1. /\ ~InRegister(t)
        /\ UNCHANGED <<Initialized, StatInfo, StatLock, stat>>
        /\ \E w \in Labels \ {"check", "mark", "unlock"} : Goto(t, w)
        /\ \A u \in Thread : u # t => stat'[u] = stat[u]
    BY <1>1 DEF Increment, Load, Swap, Test, InRegister, AfterChange, AfterInit, locals,
                Labels
  <2> QED BY <2>1, OutsideKeeps
<1>2. ASSUME NEW t \in Thread, Register(t)
      PROVE  LockInv' /\ MarkInv' /\ Injective'
  BY <1>2, AddKeeps, RegisterKeeps DEF Register
<1>3. ASSUME NEW t \in Thread, NEW s \in Stat, NEW k \in Kinds, Bump(t, s, k)
      PROVE  LockInv' /\ MarkInv' /\ Injective'
  <2>1. /\ ~InRegister(t)
        /\ UNCHANGED <<Initialized, StatInfo, StatLock>>
        /\ \E w \in Labels \ {"check", "mark", "unlock"} : Goto(t, w)
        /\ \A u \in Thread : u # t => stat'[u] = stat[u]
    BY <1>3 DEF Bump, InRegister, Labels, SInv, TypeOK
  <2> QED BY <2>1, OutsideKeeps
<1>4. CASE UNCHANGED <<Initialized, StatInfo, StatLock, pc, stat>>
  <2>1. Registered' = Registered
    BY <1>4 DEF Registered
  <2> QED BY <1>4, <2>1 DEF SInv, LockInv, MarkInv, Injective, InRegister
<1>5. CASE ParseCommandLine \/ UNCHANGED vars
  BY <1>4, <1>5 DEF ParseCommandLine, vars, locals
<1>6. CASE Shutdown
  <2>1. StatInfo' = << >> /\ Registered' = {}
    BY <1>6 DEF Shutdown, Registered
  <2>2. \A t \in Thread : ~InRegister(t)'
    BY <1>6 DEF Shutdown, Quiescent, InRegister
  <2> QED BY <2>1, <2>2 DEF LockInv, MarkInv, Injective
<1> QED BY <1>1, <1>2, <1>3, <1>4, <1>5, <1>6 DEF Next, Step

\* In every reachable state the lock is held by whoever is inside
\* RegisterStatistic, and what is in StatInfo is marked or about to be.
THEOREM StatisticInvariance == Spec => []SInv
<1>1. Init => SInv
  BY InitSInv
<1>2. SInv /\ [Next]_vars => SInv'
  BY NextSInv
<1> QED BY <1>1, <1>2, PTL DEF Spec

\* A statistic that several threads bump for the first time at once is
\* registered once (the double-checked test in RegisterStatistic).
THEOREM RegistersOnce == Spec => []RegisteredOnce
<1>1. SInv => RegisteredOnce
  BY DEF SInv, MarkInv, Injective, RegisteredOnce
<1> QED BY <1>1, StatisticInvariance, PTL

-----------------------------------------------------------------------------
\* A step that lists nothing keeps what is listed.
LEMMA SameListed ==
  ASSUME StatInfo' = StatInfo
  PROVE  Registered' = Registered
BY DEF Registered

LEMMA ModifyKeepsReporting ==
  ASSUME SInv, Reporting, NEW t \in Thread, Increment(t) \/ Load(t) \/ Swap(t)
  PROVE  Reporting'
<1> USE DEF SInv, TypeOK, Goto, locals, history
<1>1. UNCHANGED <<Initialized, Enabled, StatInfo, stat, kind, missed>> /\ Registered' = Registered
  BY SameListed DEF Increment, Load, Swap, Change
<1>2. /\ pc[t] \in {"modify", "swap"}
      /\ pc'[t] \in {"modify", "swap", "idle", "test"}
      /\ \A u \in Thread : u # t => pc'[u] = pc[u]
      /\ pc'[t] = "idle" => kind[t] = "postfix"
      /\ pc'[t] = "test" => bumped' = bumped \cup {stat[t]} /\ kind[t] # "postfix"
      /\ pc'[t] \in {"modify", "swap"} => bumped' = bumped
      /\ pc'[t] = "idle" => bumped' = bumped \cup {stat[t]}
  BY DEF Increment, Load, Swap, Change, AfterChange
<1>3. NoneListed' /\ MarkedListed'
  BY <1>1, <1>2 DEF Reporting, NoneListed, MarkedListed
<1>4. PassedMarked' /\ PrefixBumped'
  BY <1>1, <1>2 DEF Reporting, PassedMarked, PrefixBumped, Registering
<1>5. BumpedMarked'
  <2> SUFFICES ASSUME NEW s \in bumped'
               PROVE  Initialized[s] \/ \E u \in Thread : stat[u] = s /\ pc'[u] \in Registering
    BY <1>1 DEF BumpedMarked
  <2>1. CASE s \in bumped
    <3>1. ASSUME NEW u \in Thread, stat[u] = s, pc[u] \in Registering
          PROVE  pc'[u] \in Registering
      BY <1>2, <3>1 DEF Registering
    <3> QED BY <2>1, <3>1 DEF Reporting, BumpedMarked
  <2>2. CASE s = stat[t] /\ pc'[t] = "test"
    BY <2>2 DEF Registering
  <2>3. CASE s = stat[t] /\ pc'[t] = "idle"
    BY <1>2, <2>3 DEF Reporting, PassedMarked
  <2> QED BY <1>2, <2>1, <2>2, <2>3
<1>6. ListedBumped'
  <2> SUFFICES ASSUME NEW s \in Registered
               PROVE  s \in bumped' \/ \E u \in Thread :
                        /\ stat[u] = s
                        /\ kind[u] = "postfix"
                        /\ pc'[u] \in {"mark", "unlock", "modify", "swap"}
    BY <1>1 DEF ListedBumped
  <2>1. bumped \subseteq bumped'
    BY <1>2
  <2>2. ASSUME NEW u \in Thread, stat[u] = s, kind[u] = "postfix",
               pc[u] \in {"mark", "unlock", "modify", "swap"}
        PROVE  s \in bumped' \/ pc'[u] \in {"mark", "unlock", "modify", "swap"}
    BY <1>2, <2>2
  <2> QED BY <2>1, <2>2 DEF Reporting, ListedBumped
<1>7. MarkedBumped'
  <2> SUFFICES ASSUME NEW s \in Stat, Initialized[s]
               PROVE  s \in bumped' \cup missed \/ \E u \in Thread :
                        /\ stat[u] = s
                        /\ kind[u] = "postfix"
                        /\ pc'[u] \in {"unlock", "modify", "swap"}
    BY <1>1 DEF MarkedBumped
  <2>1. bumped \subseteq bumped'
    BY <1>2
  <2>2. ASSUME NEW u \in Thread, stat[u] = s, kind[u] = "postfix",
               pc[u] \in {"unlock", "modify", "swap"}
        PROVE  s \in bumped' \/ pc'[u] \in {"unlock", "modify", "swap"}
    BY <1>2, <2>2
  <2> QED BY <2>1, <2>2 DEF Reporting, MarkedBumped
<1>8. MissedMarked'
  BY <1>1 DEF Reporting, MissedMarked
<1> QED BY <1>3, <1>4, <1>5, <1>6, <1>7, <1>8 DEF Reporting

LEMMA TestKeepsReporting ==
  ASSUME SInv, Reporting, NEW t \in Thread,
         Test(t) \/ Lock(t) \/ Unlock(t) \/ Mark(t)
  PROVE  Reporting'
<1> USE DEF SInv, TypeOK, Goto, locals, history
<1>1. UNCHANGED <<Enabled, StatInfo, stat, kind, bumped, missed>> /\ Registered' = Registered
  BY SameListed DEF Test, Lock, Unlock, Mark
<1>2. /\ \A u \in Thread : u # t => pc'[u] = pc[u]
      /\ \A s \in Stat : Initialized[s] => Initialized'[s]
      /\ \A s \in Stat : Initialized'[s] => Initialized[s] \/ (s = stat[t] /\ pc[t] = "mark")
      /\ \/ pc[t] = "test" /\ pc'[t] = "lock"
         \/ pc[t] = "test" /\ pc'[t] = "idle" /\ Initialized[stat[t]]
         \/ pc[t] = "test" /\ pc'[t] = "modify" /\ Initialized[stat[t]] /\ kind[t] = "postfix"
         \/ pc[t] = "lock" /\ pc'[t] = "check"
         \/ pc[t] = "mark" /\ pc'[t] = "unlock" /\ Initialized'[stat[t]]
         \/ pc[t] = "unlock" /\ pc'[t] = "idle" /\ kind[t] # "postfix"
         \/ pc[t] = "unlock" /\ pc'[t] = "modify" /\ kind[t] = "postfix"
  BY DEF Test, Lock, Unlock, Mark, AfterInit
<1>3. NoneListed' /\ MarkedListed'
  BY <1>1, <1>2 DEF Reporting, NoneListed, MarkedListed
<1>4. PassedMarked' /\ PrefixBumped'
  <2>1. PassedMarked'
    <3> SUFFICES ASSUME NEW u \in Thread,
                        \/ pc'[u] = "unlock"
                        \/ pc'[u] \in {"modify", "swap"} /\ kind[u] = "postfix"
                 PROVE  Initialized'[stat[u]]
      BY <1>1 DEF PassedMarked
    <3>1. CASE u # t
      BY <1>2, <3>1 DEF Reporting, PassedMarked
    <3>2. CASE u = t
      BY <1>2, <3>2 DEF Reporting, PassedMarked
    <3> QED BY <3>1, <3>2
  <2>2. PrefixBumped'
    <3> SUFFICES ASSUME NEW u \in Thread, kind[u] # "postfix",
                        pc'[u] \in Registering \cup {"unlock"}
                 PROVE  stat[u] \in bumped
      BY <1>1 DEF PrefixBumped
    <3>1. pc[u] \in Registering \cup {"unlock"}
      BY <1>2 DEF Registering
    <3> QED BY <3>1 DEF Reporting, PrefixBumped
  <2> QED BY <2>1, <2>2
<1>5. BumpedMarked'
  <2> SUFFICES ASSUME NEW s \in bumped
               PROVE  Initialized'[s] \/ \E u \in Thread : stat[u] = s /\ pc'[u] \in Registering
    BY <1>1 DEF BumpedMarked
  <2>1. CASE Initialized[s]
    BY <1>2, <2>1
  <2>2. ASSUME NEW u \in Thread, stat[u] = s, pc[u] \in Registering
        PROVE  Initialized'[s] \/ pc'[u] \in Registering
    BY <1>2, <2>2 DEF Registering
  <2> QED BY <2>1, <2>2 DEF Reporting, BumpedMarked
<1>6. ListedBumped'
  <2> SUFFICES ASSUME NEW s \in Registered
               PROVE  s \in bumped \/ \E u \in Thread :
                        /\ stat[u] = s
                        /\ kind[u] = "postfix"
                        /\ pc'[u] \in {"mark", "unlock", "modify", "swap"}
    BY <1>1 DEF ListedBumped
  <2>1. ASSUME NEW u \in Thread, stat[u] = s, kind[u] = "postfix",
               pc[u] \in {"mark", "unlock", "modify", "swap"}
        PROVE  pc'[u] \in {"mark", "unlock", "modify", "swap"}
    BY <1>2, <2>1
  <2> QED BY <2>1 DEF Reporting, ListedBumped
<1>7. MarkedBumped'
  <2> SUFFICES ASSUME NEW s \in Stat, Initialized'[s]
               PROVE  s \in bumped \cup missed \/ \E u \in Thread :
                        /\ stat[u] = s
                        /\ kind[u] = "postfix"
                        /\ pc'[u] \in {"unlock", "modify", "swap"}
    BY <1>1 DEF MarkedBumped
  <2>1. CASE Initialized[s]
    <3>1. ASSUME NEW u \in Thread, stat[u] = s, kind[u] = "postfix",
                 pc[u] \in {"unlock", "modify", "swap"}
          PROVE  pc'[u] \in {"unlock", "modify", "swap"}
      BY <1>2, <3>1
    <3> QED BY <2>1, <3>1 DEF Reporting, MarkedBumped
  <2>2. CASE s = stat[t] /\ pc[t] = "mark"
    <3>1. pc'[t] = "unlock"
      BY <1>2, <2>2
    <3>2. kind[t] # "postfix" => stat[t] \in bumped
      BY <2>2 DEF Reporting, PrefixBumped, Registering
    <3> QED BY <2>2, <3>1, <3>2
  <2> QED BY <1>2, <2>1, <2>2
<1>8. MissedMarked'
  BY <1>1, <1>2 DEF Reporting, MissedMarked
<1> QED BY <1>3, <1>4, <1>5, <1>6, <1>7, <1>8 DEF Reporting

LEMMA AddKeepsReporting ==
  ASSUME SInv, Reporting, NEW t \in Thread, Add(t)
  PROVE  Reporting'
<1> USE DEF SInv, TypeOK, Goto, locals, history
<1>1. /\ UNCHANGED <<Initialized, Enabled, stat, kind, bumped, missed>>
      /\ pc[t] = "check"
      /\ \A u \in Thread : u # t => pc'[u] = pc[u]
  BY DEF Add
<1>2. \/ /\ StatInfo' = StatInfo /\ Registered' = Registered
         /\ \/ pc'[t] = "unlock" /\ Initialized[stat[t]]
            \/ pc'[t] = "mark" /\ ~Enabled
      \/ /\ Registered' = Registered \cup {stat[t]}
         /\ pc'[t] = "mark" /\ Enabled /\ ~Initialized[stat[t]]
  <2>1. CASE ~Initialized[stat[t]] /\ Enabled
    <3>1. StatInfo' = Append(StatInfo, stat[t]) /\ stat[t] \in Stat /\ pc'[t] = "mark"
      BY <2>1 DEF Add
    <3>2. Registered' = Registered \cup {stat[t]}
      BY <2>1, <3>1, AppendRange DEF Registered, Add
    <3> QED BY <2>1, <3>1, <3>2
  <2>2. CASE Initialized[stat[t]]
    <3>1. StatInfo' = StatInfo /\ pc'[t] = "unlock"
      BY <2>2 DEF Add
    <3>2. Registered' = Registered
      BY <3>1, SameListed
    <3> QED BY <2>2, <3>1, <3>2
  <2>3. CASE ~Initialized[stat[t]] /\ ~Enabled
    <3>1. StatInfo' = StatInfo /\ pc'[t] = "mark"
      BY <2>3 DEF Add
    <3>2. Registered' = Registered
      BY <3>1, SameListed
    <3> QED BY <2>3, <3>1, <3>2
  <2> QED BY <2>1, <2>2, <2>3
<1>3. \/ pc'[t] = "mark" /\ (Enabled => stat[t] \in Registered')
      \/ pc'[t] = "unlock" /\ Initialized[stat[t]]
  BY <1>2
<1>4. NoneListed' /\ MarkedListed'
  BY <1>1, <1>2, <1>3 DEF Reporting, NoneListed, MarkedListed
<1>5. PassedMarked' /\ PrefixBumped'
  BY <1>1, <1>3 DEF Reporting, PassedMarked, PrefixBumped, Registering
<1>6. BumpedMarked'
  <2> SUFFICES ASSUME NEW s \in bumped
               PROVE  Initialized[s] \/ \E u \in Thread : stat[u] = s /\ pc'[u] \in Registering
    BY <1>1 DEF BumpedMarked
  <2>1. ASSUME NEW u \in Thread, stat[u] = s, pc[u] \in Registering
        PROVE  Initialized[s] \/ pc'[u] \in Registering
    BY <1>1, <1>3, <2>1 DEF Registering
  <2> QED BY <2>1 DEF Reporting, BumpedMarked
<1>7. ListedBumped'
  <2> SUFFICES ASSUME NEW s \in Registered'
               PROVE  s \in bumped \/ \E u \in Thread :
                        /\ stat[u] = s
                        /\ kind[u] = "postfix"
                        /\ pc'[u] \in {"mark", "unlock", "modify", "swap"}
    BY <1>1 DEF ListedBumped
  <2>1. CASE s \in Registered
    <3>1. ASSUME NEW u \in Thread, stat[u] = s, kind[u] = "postfix",
                 pc[u] \in {"mark", "unlock", "modify", "swap"}
          PROVE  pc'[u] \in {"mark", "unlock", "modify", "swap"}
      BY <1>1, <3>1
    <3> QED BY <2>1, <3>1 DEF Reporting, ListedBumped
  <2>2. CASE s = stat[t] /\ pc'[t] = "mark"
    <3>1. kind[t] # "postfix" => stat[t] \in bumped
      BY <1>1 DEF Reporting, PrefixBumped, Registering
    <3> QED BY <2>2, <3>1
  <2> QED BY <1>2, <2>1, <2>2
<1>8. MarkedBumped'
  <2> SUFFICES ASSUME NEW s \in Stat, Initialized[s]
               PROVE  s \in bumped \cup missed \/ \E u \in Thread :
                        /\ stat[u] = s
                        /\ kind[u] = "postfix"
                        /\ pc'[u] \in {"unlock", "modify", "swap"}
    BY <1>1 DEF MarkedBumped
  <2>1. ASSUME NEW u \in Thread, pc[u] \in {"unlock", "modify", "swap"}
        PROVE  pc'[u] = pc[u]
    BY <1>1, <2>1
  <2> QED BY <2>1 DEF Reporting, MarkedBumped
<1>9. MissedMarked'
  BY <1>1, <1>2 DEF Reporting, MissedMarked
<1> QED BY <1>4, <1>5, <1>6, <1>7, <1>8, <1>9 DEF Reporting

LEMMA BumpKeepsReporting ==
  ASSUME SInv, Reporting, NEW t \in Thread, NEW x \in Stat, NEW k \in Kinds, Bump(t, x, k)
  PROVE  Reporting'
<1> USE DEF SInv, TypeOK, Goto, history
<1>1. /\ UNCHANGED <<Initialized, Enabled, StatInfo, bumped, missed>> /\ Registered' = Registered
      /\ pc[t] = "idle"
      /\ pc'[t] = IF kind'[t] = "postfix" THEN "test" ELSE "modify"
      /\ \A u \in Thread : u # t => pc'[u] = pc[u] /\ stat'[u] = stat[u] /\ kind'[u] = kind[u]
  BY SameListed DEF Bump
<1>2. NoneListed' /\ MarkedListed'
  BY <1>1 DEF Reporting, NoneListed, MarkedListed
<1>3. PassedMarked' /\ PrefixBumped'
  BY <1>1 DEF Reporting, PassedMarked, PrefixBumped, Registering
<1>4. BumpedMarked'
  <2>1. ASSUME NEW u \in Thread, pc[u] \in Registering
        PROVE  pc'[u] = pc[u] /\ stat'[u] = stat[u]
    BY <1>1, <2>1 DEF Registering
  <2> SUFFICES ASSUME NEW s \in bumped
               PROVE  Initialized[s] \/ \E u \in Thread : stat'[u] = s /\ pc'[u] \in Registering
    BY <1>1 DEF BumpedMarked
  <2>2. CASE Initialized[s]
    BY <2>2
  <2>3. ASSUME NEW u \in Thread, stat[u] = s, pc[u] \in Registering
        PROVE  stat'[u] = s /\ pc'[u] \in Registering
    BY <2>1, <2>3
  <2> QED BY <2>2, <2>3 DEF Reporting, BumpedMarked
<1>5. ListedBumped'
  <2>1. ASSUME NEW u \in Thread, pc[u] \in {"mark", "unlock", "modify", "swap"}
        PROVE  pc'[u] = pc[u] /\ stat'[u] = stat[u] /\ kind'[u] = kind[u]
    BY <1>1, <2>1
  <2> SUFFICES ASSUME NEW s \in Registered
               PROVE  s \in bumped \/ \E u \in Thread :
                        /\ stat'[u] = s
                        /\ kind'[u] = "postfix"
                        /\ pc'[u] \in {"mark", "unlock", "modify", "swap"}
    BY <1>1 DEF ListedBumped
  <2>2. ASSUME NEW u \in Thread, stat[u] = s, kind[u] = "postfix",
               pc[u] \in {"mark", "unlock", "modify", "swap"}
        PROVE  /\ stat'[u] = s
               /\ kind'[u] = "postfix"
               /\ pc'[u] \in {"mark", "unlock", "modify", "swap"}
    BY <2>1, <2>2
  <2> QED BY <2>2 DEF Reporting, ListedBumped
<1>6. MarkedBumped'
  <2>1. ASSUME NEW u \in Thread, pc[u] \in {"unlock", "modify", "swap"}
        PROVE  pc'[u] = pc[u] /\ stat'[u] = stat[u] /\ kind'[u] = kind[u]
    BY <1>1, <2>1
  <2> SUFFICES ASSUME NEW s \in Stat, Initialized[s]
               PROVE  s \in bumped \cup missed \/ \E u \in Thread :
                        /\ stat'[u] = s
                        /\ kind'[u] = "postfix"
                        /\ pc'[u] \in {"unlock", "modify", "swap"}
    BY <1>1 DEF MarkedBumped
  <2>2. ASSUME NEW u \in Thread, stat[u] = s, kind[u] = "postfix",
               pc[u] \in {"unlock", "modify", "swap"}
        PROVE  /\ stat'[u] = s
               /\ kind'[u] = "postfix"
               /\ pc'[u] \in {"unlock", "modify", "swap"}
    BY <2>1, <2>2
  <2> QED BY <2>2 DEF Reporting, MarkedBumped
<1>7. MissedMarked'
  BY <1>1 DEF Reporting, MissedMarked
<1> QED BY <1>2, <1>3, <1>4, <1>5, <1>6, <1>7 DEF Reporting

\* Between two operations what was bumped is what is marked.
LEMMA QuiescentMarked ==
  ASSUME SInv, Reporting, Quiescent
  PROVE  /\ \A s \in bumped : Initialized[s]
         /\ \A s \in Stat : Initialized[s] => s \in bumped \cup missed
         /\ Registered \subseteq bumped
         /\ \A t \in Thread : pc[t] = "idle"
BY DEF Quiescent, Reporting, BumpedMarked, MarkedBumped, ListedBumped, Registering

LEMMA ParseKeepsReporting == ASSUME SInv, Reporting, ParseCommandLine PROVE Reporting'
<1> USE DEF SInv, TypeOK
<1>1. /\ UNCHANGED <<Initialized, StatInfo, stat, kind, pc, bumped>>
      /\ missed' = missed \cup bumped
      /\ Enabled' /\ ~Enabled /\ Quiescent
  BY DEF ParseCommandLine, locals
<1>2. Registered = {} /\ Registered' = {}
  BY <1>1 DEF Reporting, NoneListed, Registered
<1>3. NoneListed' /\ MarkedListed' /\ PassedMarked'
  BY <1>1, <1>2, QuiescentMarked DEF NoneListed, MarkedListed, PassedMarked
<1>4. BumpedMarked' /\ PrefixBumped' /\ ListedBumped'
  BY <1>1, <1>2, QuiescentMarked DEF BumpedMarked, PrefixBumped, ListedBumped, Registering
<1>5. MarkedBumped' /\ MissedMarked'
  BY <1>1, <1>2, QuiescentMarked DEF Reporting, MarkedBumped, MissedMarked
<1> QED BY <1>3, <1>4, <1>5 DEF Reporting

LEMMA ShutdownKeepsReporting == ASSUME SInv, Reporting, Shutdown PROVE Reporting'
<1> USE DEF SInv, TypeOK
<1>1. /\ UNCHANGED <<Initialized, Enabled, stat, kind, pc>>
      /\ StatInfo' = << >>
      /\ missed' = missed \cup bumped /\ bumped' = {}
      /\ Quiescent
  BY DEF Shutdown
<1>2. Registered' = {}
  BY <1>1 DEF Registered
<1>3. NoneListed' /\ MarkedListed' /\ PassedMarked'
  BY <1>1, <1>2, QuiescentMarked DEF NoneListed, MarkedListed, PassedMarked
<1>4. BumpedMarked' /\ PrefixBumped' /\ ListedBumped'
  BY <1>1, <1>2, QuiescentMarked DEF BumpedMarked, PrefixBumped, ListedBumped, Registering
<1>5. MarkedBumped' /\ MissedMarked'
  BY <1>1, <1>2, QuiescentMarked DEF Reporting, MarkedBumped, MissedMarked
<1> QED BY <1>3, <1>4, <1>5 DEF Reporting

LEMMA NextReporting == ASSUME SInv, Reporting, [Next]_vars PROVE Reporting'
<1>1. ASSUME NEW t \in Thread, Increment(t) \/ Load(t) \/ Swap(t)  PROVE Reporting'
  BY <1>1, ModifyKeepsReporting
<1>2. ASSUME NEW t \in Thread, Test(t) \/ Lock(t) \/ Unlock(t) \/ Mark(t)  PROVE Reporting'
  BY <1>2, TestKeepsReporting
<1>3. ASSUME NEW t \in Thread, Add(t)  PROVE Reporting'
  BY <1>3, AddKeepsReporting
<1>4. ASSUME NEW t \in Thread, NEW s \in Stat, NEW k \in Kinds, Bump(t, s, k)
      PROVE  Reporting'
  BY <1>4, BumpKeepsReporting
<1>5. CASE UNCHANGED vars
  <2>1. Registered' = Registered
    BY <1>5, SameListed DEF vars
  <2> QED BY <1>5, <2>1 DEF vars, locals, history, Reporting, NoneListed, MarkedListed,
            PassedMarked, BumpedMarked, PrefixBumped, ListedBumped, MarkedBumped, MissedMarked
<1> QED BY <1>1, <1>2, <1>3, <1>4, <1>5, ParseKeepsReporting, ShutdownKeepsReporting
        DEF Next, Step, Register

LEMMA InitReporting == ASSUME Init PROVE Reporting
<1>1. Registered = {}
  BY DEF Init, Registered
<1> QED BY <1>1 DEF Init, Reporting, NoneListed, MarkedListed, PassedMarked, BumpedMarked,
                    PrefixBumped, ListedBumped, MarkedBumped, MissedMarked, Registering

\* llvm_shutdown prints exactly the statistics first bumped since -stats was
\* parsed and since the previous llvm_shutdown, whatever the threads raced for.
THEOREM FirstBumpsPrinted == Spec => BumpedPrinted
<1> DEFINE Reports == Shutdown => {printed'[i] : i \in 1..Len(printed')}
                                  = IF Enabled THEN bumped \ missed ELSE {}
<1>1. Init => SInv /\ Reporting
  BY InitSInv, InitReporting
<1>2. SInv /\ Reporting /\ [Next]_vars => (SInv /\ Reporting)'
  BY NextSInv, NextReporting
<1>3. ASSUME SInv, Reporting, Shutdown  PROVE Reports
  <2>1. {printed'[i] : i \in 1..Len(printed')} = Registered
    BY <1>3 DEF Shutdown, Registered
  <2>2. Quiescent
    BY <1>3 DEF Shutdown
  <2>3. CASE ~Enabled
    BY <1>3, <2>1, <2>3 DEF Reporting, NoneListed, Registered
  <2>4. CASE Enabled
    <3>1. Registered \subseteq bumped \ missed
      BY <1>3, <2>2, QuiescentMarked DEF Reporting, MissedMarked
    <3>2. bumped \ missed \subseteq Registered
      BY <1>3, <2>2, <2>4, QuiescentMarked DEF Reporting, MarkedListed, SInv, TypeOK
    <3> QED BY <2>1, <2>4, <3>1, <3>2
  <2> QED BY <2>3, <2>4
<1>4. SInv /\ Reporting => [Reports]_vars
  BY <1>3
<1> QED BY <1>1, <1>2, <1>4, PTL DEF Spec, BumpedPrinted

-----------------------------------------------------------------------------
(***************************************************************************)
(* No change is lost.                                                      *)
(***************************************************************************)
Counts == Nat \X Nat \X Nat

\* Holds <<n, m, v>> if n increments and m doublings can make v of 0, in a set of
\* such triples that one more change does not leave.
Closed(S) ==
  /\ <<0, 0, 0>> \in S
  /\ \A x \in S : /\ <<x[1] + 1, x[2], x[3] + 1>> \in S
                  /\ <<x[1], x[2] + 1, 2 * x[3]>> \in S

Possible == {x \in Counts : \A S \in SUBSET Counts : Closed(S) => x \in S}

LEMMA PossibleClosed == Closed(Possible)
<1>1. Closed(Counts)
  BY DEF Closed, Counts
<1>2. <<0, 0, 0>> \in Possible
  BY DEF Possible, Closed, Counts
<1>3. ASSUME NEW x \in Possible
      PROVE  <<x[1] + 1, x[2], x[3] + 1>> \in Possible /\ <<x[1], x[2] + 1, 2 * x[3]>> \in Possible
  <2>1. <<x[1] + 1, x[2], x[3] + 1>> \in Counts /\ <<x[1], x[2] + 1, 2 * x[3]>> \in Counts
    BY DEF Possible, Counts
  <2>2. ASSUME NEW S \in SUBSET Counts, Closed(S)
        PROVE  <<x[1] + 1, x[2], x[3] + 1>> \in S /\ <<x[1], x[2] + 1, 2 * x[3]>> \in S
    BY <2>2 DEF Possible, Closed
  <2> QED BY <2>1, <2>2 DEF Possible
<1> QED BY <1>2, <1>3 DEF Closed

\* What is possible came about by some last change: otherwise it could be left out.
LEMMA LastChange ==
  ASSUME NEW x \in Possible
  PROVE  \/ x = <<0, 0, 0>>
         \/ \E y \in Possible : x = <<y[1] + 1, y[2], y[3] + 1>>
         \/ \E y \in Possible : x = <<y[1], y[2] + 1, 2 * y[3]>>
<1> DEFINE Made(y) == \/ y = <<0, 0, 0>>
                      \/ \E z \in Possible : y = <<z[1] + 1, z[2], z[3] + 1>>
                      \/ \E z \in Possible : y = <<z[1], z[2] + 1, 2 * z[3]>>
           S == {y \in Possible : Made(y)}
<1>1. S \in SUBSET Counts
  BY DEF Possible
<1>2. Closed(S)
  BY PossibleClosed DEF Closed
<1>3. x \in S
  BY <1>1, <1>2 DEF Possible
<1> QED BY <1>3

\* Results is what is possible: its equation has a solution, this one.
LEMMA ResultsUnfold ==
  ASSUME NEW c \in Nat \X Nat
  PROVE  Results[c] =
           IF c = <<0, 0>> THEN {0}
           ELSE (IF c[1] > 0 THEN {v + 1 : v \in Results[<<c[1] - 1, c[2]>>]} ELSE {})
                \cup (IF c[2] > 0 THEN {2 * v : v \in Results[<<c[1], c[2] - 1>>]} ELSE {})
<1>1. PICK R : R = [p \in Nat \X Nat |-> {v \in Nat : <<p[1], p[2], v>> \in Possible}]
  OBVIOUS
<1>2. \A i, j \in Nat : R[<<i, j>>] = {v \in Nat : <<i, j, v>> \in Possible}
  BY <1>1
<1>3. ASSUME NEW p \in Nat \X Nat
      PROVE  R[p] = IF p = <<0, 0>> THEN {0}
                    ELSE (IF p[1] > 0 THEN {v + 1 : v \in R[<<p[1] - 1, p[2]>>]} ELSE {})
                         \cup (IF p[2] > 0 THEN {2 * v : v \in R[<<p[1], p[2] - 1>>]} ELSE {})
  <2>1. PICK i \in Nat, j \in Nat : p = <<i, j>> /\ p[1] = i /\ p[2] = j
    OBVIOUS
  <2> DEFINE One == IF i > 0 THEN {v + 1 : v \in R[<<i - 1, j>>]} ELSE {}
             Two == IF j > 0 THEN {2 * v : v \in R[<<i, j - 1>>]} ELSE {}
  <2>2. ASSUME NEW x \in R[<<i, j>>]
        PROVE  IF i = 0 /\ j = 0 THEN x = 0 ELSE x \in One \cup Two
    <3>1. <<i, j, x>> \in Possible /\ x \in Nat
      BY <1>2, <2>2
    <3>2. CASE <<i, j, x>> = <<0, 0, 0>>
      BY <3>2
    <3>3. CASE \E y \in Possible : <<i, j, x>> = <<y[1] + 1, y[2], y[3] + 1>>
      <4>1. PICK y \in Possible : <<i, j, x>> = <<y[1] + 1, y[2], y[3] + 1>>
        BY <3>3
      <4>2. y = <<y[1], y[2], y[3]>> /\ y[1] \in Nat /\ y[2] \in Nat /\ y[3] \in Nat
        BY DEF Possible, Counts
      <4>3. y[1] = i - 1 /\ y[2] = j /\ x = y[3] + 1 /\ i > 0
        BY <4>1, <4>2
      <4>4. y[3] \in R[<<i - 1, j>>]
        BY <1>2, <4>2, <4>3
      <4> QED BY <4>3, <4>4
    <3>4. CASE \E y \in Possible : <<i, j, x>> = <<y[1], y[2] + 1, 2 * y[3]>>
      <4>1. PICK y \in Possible : <<i, j, x>> = <<y[1], y[2] + 1, 2 * y[3]>>
        BY <3>4
      <4>2. y = <<y[1], y[2], y[3]>> /\ y[1] \in Nat /\ y[2] \in Nat /\ y[3] \in Nat
        BY DEF Possible, Counts
      <4>3. y[1] = i /\ y[2] = j - 1 /\ x = 2 * y[3] /\ j > 0
        BY <4>1, <4>2
      <4>4. y[3] \in R[<<i, j - 1>>]
        BY <1>2, <4>2, <4>3
      <4> QED BY <4>3, <4>4
    <3> QED BY <3>1, <3>2, <3>3, <3>4, LastChange
  <2>3. 0 \in R[<<0, 0>>]
    BY <1>2, PossibleClosed DEF Closed
  <2>4. ASSUME NEW x \in One PROVE x \in R[<<i, j>>]
    <3>1. i - 1 \in Nat /\ \E v \in R[<<i - 1, j>>] : x = v + 1
      BY <2>4
    <3>2. PICK v \in Nat : <<i - 1, j, v>> \in Possible /\ x = v + 1
      BY <1>2, <3>1
    <3>3. <<(i - 1) + 1, j, v + 1>> \in Possible
      BY <3>2, PossibleClosed DEF Closed
    <3> QED BY <1>2, <3>2, <3>3
  <2>5. ASSUME NEW x \in Two PROVE x \in R[<<i, j>>]
    <3>1. j - 1 \in Nat /\ \E v \in R[<<i, j - 1>>] : x = 2 * v
      BY <2>5
    <3>2. PICK v \in Nat : <<i, j - 1, v>> \in Possible /\ x = 2 * v
      BY <1>2, <3>1
    <3>3. <<i, (j - 1) + 1, 2 * v>> \in Possible
      BY <3>2, PossibleClosed DEF Closed
    <3> QED BY <1>2, <3>2, <3>3
  <2> HIDE DEF One, Two
  <2>6. R[<<i, j>>] = IF i = 0 /\ j = 0 THEN {0} ELSE One \cup Two
    BY <2>2, <2>3, <2>4, <2>5
  <2>7. p = <<0, 0>> <=> i = 0 /\ j = 0
    BY <2>1
  <2> QED BY <2>1, <2>6, <2>7 DEF One, Two
<1>4. R = [p \in Nat \X Nat |->
             IF p = <<0, 0>> THEN {0}
             ELSE (IF p[1] > 0 THEN {v + 1 : v \in R[<<p[1] - 1, p[2]>>]} ELSE {})
                  \cup (IF p[2] > 0 THEN {2 * v : v \in R[<<p[1], p[2] - 1>>]} ELSE {})]
  BY <1>1, <1>3
<1>5. \E f : f = [p \in Nat \X Nat |->
             IF p = <<0, 0>> THEN {0}
             ELSE (IF p[1] > 0 THEN {v + 1 : v \in f[<<p[1] - 1, p[2]>>]} ELSE {})
                  \cup (IF p[2] > 0 THEN {2 * v : v \in f[<<p[1], p[2] - 1>>]} ELSE {})]
  BY <1>4, Zenon
<1>6. Results = [p \in Nat \X Nat |->
             IF p = <<0, 0>> THEN {0}
             ELSE (IF p[1] > 0 THEN {v + 1 : v \in Results[<<p[1] - 1, p[2]>>]} ELSE {})
                  \cup (IF p[2] > 0 THEN {2 * v : v \in Results[<<p[1], p[2] - 1>>]} ELSE {})]
  BY <1>5, Zenon DEF Results
<1> QED BY <1>6, Zenon

\* One change more.
LEMMA OneMore ==
  ASSUME NEW n \in Nat, NEW m \in Nat, NEW v \in Results[<<n, m>>]
  PROVE  v + 1 \in Results[<<n + 1, m>>] /\ 2 * v \in Results[<<n, m + 1>>]
<1>1. v + 1 \in Results[<<n + 1, m>>]
  <2>1. PICK c : c = <<n + 1, m>>
    OBVIOUS
  <2>2. c \in Nat \X Nat /\ c # <<0, 0>> /\ c[1] > 0 /\ <<c[1] - 1, c[2]>> = <<n, m>>
    BY <2>1
  <2>3. Results[c] =
          (IF c[1] > 0 THEN {w + 1 : w \in Results[<<c[1] - 1, c[2]>>]} ELSE {})
            \cup (IF c[2] > 0 THEN {2 * w : w \in Results[<<c[1], c[2] - 1>>]} ELSE {})
    BY <2>2, ResultsUnfold
  <2>4. v + 1 \in {w + 1 : w \in Results[<<c[1] - 1, c[2]>>]}
    BY <2>2
  <2> QED BY <2>1, <2>2, <2>3, <2>4
<1>2. 2 * v \in Results[<<n, m + 1>>]
  <2>1. PICK c : c = <<n, m + 1>>
    OBVIOUS
  <2>2. c \in Nat \X Nat /\ c # <<0, 0>> /\ c[2] > 0 /\ <<c[1], c[2] - 1>> = <<n, m>>
    BY <2>1
  <2>3. Results[c] =
          (IF c[1] > 0 THEN {w + 1 : w \in Results[<<c[1] - 1, c[2]>>]} ELSE {})
            \cup (IF c[2] > 0 THEN {2 * w : w \in Results[<<c[1], c[2] - 1>>]} ELSE {})
    BY <2>2, ResultsUnfold
  <2>4. 2 * v \in {2 * w : w \in Results[<<c[1], c[2] - 1>>]}
    BY <2>2
  <2> QED BY <2>1, <2>2, <2>3, <2>4
<1> QED BY <1>1, <1>2

LEMMA ChangeCounted ==
  ASSUME TypeOK, NothingLost, NEW t \in Thread, NEW v, NEW c \in Changes, Change(t, v, c),
         \/ c = "increment" /\ v = Value[stat[t]] + 1
         \/ c = "multiply" /\ v = 2 * Value[stat[t]]
  PROVE  NothingLost'
<1>1. PICK x \in Stat, n \in Nat, m \in Nat :
        /\ x = stat[t] /\ n = effects[x]["increment"] /\ m = effects[x]["multiply"]
  BY DEF TypeOK, Changes
<1>2. /\ Value'[x] = v /\ \A s \in Stat : s # x => Value'[s] = Value[s] /\ effects'[s] = effects[s]
      /\ effects'[x][c] = effects[x][c] + 1
      /\ \A d \in Changes : d # c => effects'[x][d] = effects[x][d]
  BY <1>1 DEF Change, TypeOK
<1>3. Value[x] \in Results[<<n, m>>]
  BY <1>1 DEF NothingLost
<1>4. Value[x] + 1 \in Results[<<n + 1, m>>] /\ 2 * Value[x] \in Results[<<n, m + 1>>]
  BY <1>3, OneMore
<1>5. Value'[x] \in Results[<<effects'[x]["increment"], effects'[x]["multiply"]>>]
  <2>1. CASE c = "increment" /\ v = Value[stat[t]] + 1
    <3>1. effects'[x]["increment"] = n + 1 /\ effects'[x]["multiply"] = m
      BY <1>1, <1>2, <2>1 DEF Changes
    <3> QED BY <1>1, <1>2, <1>4, <2>1, <3>1
  <2>2. CASE c = "multiply" /\ v = 2 * Value[stat[t]]
    <3>1. effects'[x]["increment"] = n /\ effects'[x]["multiply"] = m + 1
      BY <1>1, <1>2, <2>2 DEF Changes
    <3> QED BY <1>1, <1>2, <1>4, <2>2, <3>1
  <2> QED BY <2>1, <2>2
<1> QED BY <1>2, <1>5 DEF NothingLost

LEMMA NothingLostKept == ASSUME TypeOK, NothingLost, [Next]_vars PROVE NothingLost'
<1>1. ASSUME UNCHANGED <<Value, effects>> PROVE NothingLost'
  BY <1>1 DEF NothingLost
<1>2. ASSUME NEW t \in Thread, Increment(t) PROVE NothingLost'
  BY <1>2, ChangeCounted DEF Increment, Changes
<1>3. ASSUME NEW t \in Thread, Swap(t) PROVE NothingLost'
  <2>1. CASE Value[stat[t]] = original[t] /\ Change(t, 2 * original[t], "multiply")
    BY <2>1, ChangeCounted DEF Changes
  <2>2. CASE UNCHANGED <<Value, history>>
    BY <1>1, <2>2 DEF history
  <2> QED BY <1>3, <2>1, <2>2 DEF Swap
<1>4. ASSUME NEW t \in Thread, Load(t) \/ Test(t) \/ Register(t) PROVE NothingLost'
  BY <1>1, <1>4 DEF Load, Test, Register, Lock, Add, Mark, Unlock, history
<1>5. ASSUME NEW t \in Thread, NEW s \in Stat, NEW k \in Kinds, Bump(t, s, k) PROVE NothingLost'
  BY <1>1, <1>5 DEF Bump, history
<1>6. CASE ParseCommandLine \/ Shutdown \/ UNCHANGED vars
  BY <1>1, <1>6 DEF ParseCommandLine, Shutdown, vars, history
<1> QED BY <1>2, <1>3, <1>4, <1>5, <1>6 DEF Next, Step

\* Whatever increments and products of the threads interleave, a statistic has a
\* value that some order of those that took effect gives: the CompareAndSwap of
\* AtomicMul stores no product of a value that has changed since it was loaded.
THEOREM NoChangeLost == Spec => []NothingLost
<1>1. Init => NothingLost
  <2>1. Results[<<0, 0>>] = {0}
    BY ResultsUnfold
  <2> QED BY <2>1 DEF Init, NothingLost, Changes
<1>2. SInv => TypeOK
  BY DEF SInv
<1>3. SInv /\ NothingLost /\ [Next]_vars => NothingLost'
  BY <1>2, NothingLostKept
<1> QED BY <1>1, <1>3, StatisticInvariance, PTL DEF Spec
=============================================================================
