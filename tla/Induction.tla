------------------------------- MODULE Induction -------------------------------
(***************************************************************************)
(* Induction for sets of numbers, and what it gives for values computed    *)
(* one from the other.  The induction theorems of the library take an      *)
(* operator as a parameter; these take a set and a function, so a proof    *)
(* can cite them for the set or the function it defines.                   *)
(***************************************************************************)
EXTENDS Naturals, Sequences, FiniteSetTheorems, SequenceTheorems, TLAPS

\* A set with 0 and with the successor of each number in it has all numbers: the
\* least number outside it would be the largest of an interval that is minimal.
LEMMA SetInduction ==
    ASSUME NEW S, 0 \in S, \A n \in Nat : n \in S => n + 1 \in S
    PROVE  Nat \subseteq S
<1> DEFINE T == {0..n : n \in Nat \ S}
<1> SUFFICES ASSUME NEW n0 \in Nat, n0 \notin S PROVE FALSE
  OBVIOUS
<1>1. T \subseteq FiniteSubsetsOf(Nat) /\ T # {}
  <2>1. ASSUME NEW n \in Nat PROVE IsFiniteSet(0..n) /\ 0..n \in SUBSET Nat
    BY FS_Interval
  <2>2. 0..n0 \in T
    OBVIOUS
  <2>3. QED
    BY <2>1, <2>2 DEF FiniteSubsetsOf
<1>2. IsWellFoundedOn(StrictSubsetOrdering(Nat), FiniteSubsetsOf(Nat))
  BY FS_StrictSubsetOrderingWellFounded
<1>3. \E x \in T : \A y \in T : ~ (<<y, x>> \in StrictSubsetOrdering(Nat))
  <2> HIDE DEF T
  <2>1. QED
    BY <1>1, <1>2, WFMin
<1>4. PICK n \in Nat \ S : \A y \in T : <<y, 0..n>> \notin StrictSubsetOrdering(Nat)
  BY <1>3
<1>5. n # 0 /\ n - 1 \in Nat /\ (n - 1) + 1 = n
  BY <1>4
<1>6. n - 1 \notin S
  BY <1>4, <1>5
<1>7. 0..(n - 1) \in T
  BY <1>5, <1>6
<1>8. PICK a, b : a = 0..(n - 1) /\ b = 0..n
  OBVIOUS
<1>9. a \subseteq b /\ a # b /\ a \in SUBSET Nat /\ b \in SUBSET Nat
  BY <1>5, <1>8
<1>10. <<a, b>> \in StrictSubsetOrdering(Nat)
  BY <1>9 DEF StrictSubsetOrdering
<1>11. QED
  BY <1>4, <1>7, <1>8, <1>10

\* The same up to a number.
LEMMA BoundedInduction ==
    ASSUME NEW N \in Nat, NEW S, 0 \in S, \A n \in 0..(N - 1) : n \in S => n + 1 \in S
    PROVE  0..N \subseteq S
<1> DEFINE T == {n \in Nat : n <= N => n \in S}
<1>1. 0 \in T
  OBVIOUS
<1>2. ASSUME NEW n \in Nat, n \in T PROVE n + 1 \in T
  <2>1. n + 1 <= N => n \in 0..(N - 1) /\ n \in S
    BY <1>2
  <2>2. QED
    BY <2>1
<1>3. Nat \subseteq T
  <2> HIDE DEF T
  <2>1. QED
    BY <1>1, <1>2, SetInduction
<1>4. QED
  BY <1>3

\* The values of A that base and N steps from each value to the next give.
Carries(f, A, base, step, N) ==
    /\ f \in [0..N -> A] /\ f[0] = base
    /\ \A n \in 1..N : f[n] = step[<<f[n - 1], n>>]

\* There always are such values.
LEMMA Carried ==
    ASSUME NEW N \in Nat, NEW A, NEW base \in A, NEW step \in [A \X (1..N) -> A]
    PROVE  \E f : Carries(f, A, base, step, N)
<1> DEFINE Upto(f, m) == /\ f \in [0..m -> A] /\ f[0] = base
                         /\ \A n \in 1..m : f[n] = step[<<f[n - 1], n>>]
           S == {m \in 0..N : \E f : Upto(f, m)}
<1>1. 0 \in S
  <2>1. PICK f : f = [n \in 0..0 |-> base]
    OBVIOUS
  <2>2. Upto(f, 0)
    BY <2>1
  <2>3. QED
    BY <2>2
<1>2. ASSUME NEW m \in 0..(N - 1), m \in S PROVE m + 1 \in S
  <2>1. PICK f : Upto(f, m)
    BY <1>2
  <2>2. m + 1 \in 1..N /\ f[m] \in A /\ m \in Nat
    BY <2>1
  <2>3. PICK v : v = step[<<f[m], m + 1>>]
    OBVIOUS
  <2>4. v \in A
    BY <2>2, <2>3
  <2>5. PICK g : g = [n \in 0..(m + 1) |-> IF n = m + 1 THEN v ELSE f[n]]
    OBVIOUS
  <2>6. g \in [0..(m + 1) -> A] /\ g[0] = base
    BY <2>1, <2>2, <2>4, <2>5
  <2>7. ASSUME NEW n \in 1..(m + 1) PROVE g[n] = step[<<g[n - 1], n>>]
    <3>1. n - 1 \in 0..m /\ n - 1 # m + 1 /\ n - 1 \in 0..(m + 1)
      BY <2>2
    <3>2. g[n - 1] = f[n - 1]
      BY <2>5, <3>1
    <3>3. CASE n = m + 1
      <4>1. n - 1 = m /\ g[n] = v
        BY <2>2, <2>5, <3>3
      <4>2. QED
        BY <2>3, <3>2, <3>3, <4>1
    <3>4. CASE n \in 1..m
      <4>1. g[n] = f[n]
        BY <2>2, <2>5, <3>4
      <4>2. QED
        BY <2>1, <3>2, <3>4, <4>1
    <3>5. QED
      BY <2>2, <3>3, <3>4
  <2>8. Upto(g, m + 1)
    BY <2>6, <2>7
  <2>9. QED
    <3> HIDE DEF Upto
    <3>1. QED
      BY <2>2, <2>8
<1>3. 0..N \subseteq S
  <2> HIDE DEF S
  <2>1. QED
    BY <1>1, <1>2, BoundedInduction
<1>4. N \in S
  BY <1>3
<1>5. QED
  BY <1>4 DEF Carries

\* Values that start alike and step alike are alike.
StepAlike(f, g, N) == f[0] = g[0] /\ \A n \in 0..(N - 1) : f[n] = g[n] => f[n + 1] = g[n + 1]
SameUpto(f, g, N) == \A n \in 0..N : f[n] = g[n]

\* Values that start alike and step alike up to a number are alike up to it.
LEMMA SameValues ==
    ASSUME NEW N \in Nat, NEW f, NEW g, StepAlike(f, g, N)
    PROVE  SameUpto(f, g, N)
<1> DEFINE S == {n \in 0..N : f[n] = g[n]}
<1>1. 0 \in S
  BY DEF StepAlike
<1>2. \A n \in 0..(N - 1) : n \in S => n + 1 \in S
  BY DEF StepAlike
<1>3. 0..N \subseteq S
  <2> HIDE DEF S
  <2>1. QED
    BY <1>1, <1>2, BoundedInduction
<1>4. QED
  BY <1>3 DEF SameUpto
================================================================================
