--------------------------- MODULE Recursion_proofs ---------------------------
(***************************************************************************)
(* What the proofs about functions defined by recursion on a number share: *)
(* induction, and that such a function has the values its definition says. *)
(***************************************************************************)
EXTENDS Integers, FiniteSets, FiniteSetTheorems, WellFoundedInduction, TLAPS

\* A set of numbers has a least one: that 0..m is finite orders them.
LEMMA LeastNat ==
  ASSUME NEW T \in SUBSET Nat, T # {}
  PROVE  \E m \in T : \A k \in T : m <= k
<1>1. PICK F : F = {0..m : m \in T}
  OBVIOUS
<1>2. F \subseteq FiniteSubsetsOf(Nat) /\ F # {}
  <2>1. \A m \in T : 0..m \in SUBSET Nat /\ IsFiniteSet(0..m)
    BY FS_Interval
  <2> QED BY <1>1, <2>1 DEF FiniteSubsetsOf
<1>3. PICK A \in F : \A B \in F : ~(<<B, A>> \in StrictSubsetOrdering(Nat))
  BY <1>2, FS_StrictSubsetOrderingWellFounded, WFMin
<1>4. PICK m \in T : A = 0..m
  BY <1>1
<1>5. ASSUME NEW k \in T PROVE m <= k
  <2>1. SUFFICES ASSUME k < m PROVE FALSE
    BY <1>4
  <2>2. 0..k \in F /\ 0..k \subseteq A /\ 0..k # A /\ 0..k \in SUBSET Nat /\ A \in SUBSET Nat
    BY <1>1, <1>4, <2>1
  <2> QED BY <1>3, <2>2 DEF StrictSubsetOrdering
<1> QED BY <1>5

\* Induction, for the property of being in a set.
LEMMA InductionInSet ==
  ASSUME NEW T, 0 \in T, \A n \in Nat : n \in T => n + 1 \in T
  PROVE  Nat \subseteq T
<1> SUFFICES ASSUME Nat \ T # {} PROVE FALSE
  OBVIOUS
<1>1. PICK m \in Nat \ T : \A k \in Nat \ T : m <= k
  BY LeastNat
<1>2. m # 0 /\ m - 1 \in Nat /\ m - 1 \in T
  BY <1>1
<1> QED BY <1>1, <1>2

\* g is what step makes of a, up to n times.
Iterates(g, a, step, n) ==
  DOMAIN g = 0..n /\ g[0] = a /\ \A i \in 1..n : g[i] = step[g[i - 1]]

LEMMA IteratesExist ==
  ASSUME NEW a, NEW step, NEW n \in Nat
  PROVE  \E g : Iterates(g, a, step, n)
<1>1. PICK T : T = {m \in Nat : \E g : Iterates(g, a, step, m)}
  OBVIOUS
<1>2. 0 \in T
  <2>1. PICK g : g = [i \in 0..0 |-> a]
    OBVIOUS
  <2>2. Iterates(g, a, step, 0)
    BY <2>1 DEF Iterates
  <2> QED BY <1>1, <2>2
<1>3. ASSUME NEW m \in Nat, m \in T PROVE m + 1 \in T
  <2>1. PICK g : Iterates(g, a, step, m)
    BY <1>1, <1>3
  <2>2. PICK f : f = [i \in 0..(m + 1) |-> IF i <= m THEN g[i] ELSE step[g[m]]]
    OBVIOUS
  <2>3. Iterates(f, a, step, m + 1)
    BY <2>1, <2>2 DEF Iterates
  <2> QED BY <1>1, <2>3
<1> QED BY <1>1, <1>2, <1>3, InductionInSet

LEMMA IteratesUnique ==
  ASSUME NEW a, NEW step, NEW n \in Nat, NEW m \in Nat, n <= m, NEW g, NEW f,
         Iterates(g, a, step, n), Iterates(f, a, step, m)
  PROVE  \A i \in 0..n : g[i] = f[i]
<1>1. PICK T : T = {i \in Nat : i <= n => g[i] = f[i]}
  OBVIOUS
<1>2. 0 \in T
  BY <1>1 DEF Iterates
<1>3. ASSUME NEW i \in Nat, i \in T PROVE i + 1 \in T
  <2>1. CASE i + 1 <= n
    <3>1. i + 1 \in 1..n /\ i + 1 \in 1..m /\ (i + 1) - 1 = i /\ g[i] = f[i]
      BY <1>1, <1>3, <2>1
    <3>2. g[i + 1] = step[g[i]] /\ f[i + 1] = step[f[i]]
      BY <3>1 DEF Iterates
    <3> QED BY <1>1, <3>1, <3>2
  <2>2. CASE ~(i + 1 <= n)
    BY <1>1, <2>2
  <2> QED BY <2>1, <2>2
<1>4. Nat \subseteq T
  BY <1>2, <1>3, InductionInSet
<1> QED BY <1>1, <1>4

\* A function defined by recursion on a number exists.
Iteration(f, a, step) ==
  DOMAIN f = Nat /\ f[0] = a /\ \A n \in Nat : f[n + 1] = step[f[n]]

LEMMA IterationExists ==
  ASSUME NEW a, NEW step
  PROVE  \E f : Iteration(f, a, step)
<1>1. PICK f : f = [n \in Nat |-> CHOOSE x : \E g : Iterates(g, a, step, n) /\ x = g[n]]
  OBVIOUS
<1>2. \A n \in Nat : \E g : Iterates(g, a, step, n) /\ f[n] = g[n]
  BY <1>1, IteratesExist
<1>3. f[0] = a
  BY <1>2 DEF Iterates
<1>4. ASSUME NEW n \in Nat PROVE f[n + 1] = step[f[n]]
  <2>1. PICK g : Iterates(g, a, step, n) /\ f[n] = g[n]
    BY <1>2
  <2>2. PICK h : Iterates(h, a, step, n + 1) /\ f[n + 1] = h[n + 1]
    BY <1>2
  <2>3. PICK m \in Nat : m = n + 1 /\ n <= m /\ n \in 0..n
    OBVIOUS
  <2>4. Iterates(h, a, step, m)
    BY <2>2, <2>3
  <2>5. \A i \in 0..n : g[i] = h[i]
    BY <2>1, <2>3, <2>4, IteratesUnique
  <2>6. n + 1 \in 1..(n + 1) /\ (n + 1) - 1 = n
    OBVIOUS
  <2>7. h[n + 1] = step[h[n]]
    BY <2>2, <2>6 DEF Iterates
  <2> QED BY <2>1, <2>2, <2>3, <2>5, <2>7
<1>5. DOMAIN f = Nat
  BY <1>1
<1>6. Iteration(f, a, step)
  BY <1>3, <1>4, <1>5 DEF Iteration
<1> QED BY <1>6
=============================================================================
