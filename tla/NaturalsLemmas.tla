--------------------------- MODULE NaturalsLemmas ---------------------------
(* Facts that the proofs cite: Min and Max of FiniteSetsExt, and the existence *)
(* of functions that are defined by recursion over a segment of the naturals.  *)
EXTENDS Naturals, FiniteSetsExt, WellFoundedInduction, TLAPS

\* A nonempty set of naturals has a least element, and Min picks it.
LEMMA MinOfNaturals ==
    ASSUME NEW T, T \subseteq Nat, T # {}
    PROVE  /\ Min(T) \in T
           /\ \A y \in T : Min(T) =< y
<1>1. PICK x \in T : \A y \in T : ~ (<<y, x>> \in OpToRel(<, Nat))
  BY NatLessThanWellFounded, WFMin, Zenon
<1>2. ASSUME NEW y \in T, y < x
      PROVE  <<y, x>> \in OpToRel(<, Nat)
  <2>1. <<y, x>> \in Nat \X Nat
    BY SMT
  <2>2. <<y, x>>[1] < <<y, x>>[2]
    BY <1>2, SMT
  <2> QED
    BY <2>1, <2>2, Zenon DEF OpToRel
<1>3. \A y \in T : ~ (y < x)
  BY <1>1, <1>2, Zenon
<1>4. \A y \in T : x =< y
  BY <1>3, SMT
<1> QED
  BY <1>4 DEF Min

\* Max of two naturals.
LEMMA MaxOfTwo ==
    ASSUME NEW a \in Nat, NEW b \in Nat
    PROVE  Max({a, b}) = IF a >= b THEN a ELSE b
<1>1. \E x \in {a, b} : \A y \in {a, b} : x >= y
  OBVIOUS
<1> QED
  BY <1>1 DEF Max

\* Min of two naturals.
LEMMA MinOfTwo ==
    ASSUME NEW a \in Nat, NEW b \in Nat
    PROVE  Min({a, b}) = IF a =< b THEN a ELSE b
<1>1. \E x \in {a, b} : \A y \in {a, b} : x =< y
  OBVIOUS
<1> QED
  BY <1>1 DEF Min

\* Induction on 1 .. n, for a property that is given as the set of its elements.
LEMMA Induction ==
    ASSUME NEW n \in Nat, NEW T,
           1 \in 1 .. n => 1 \in T,
           \A i \in 2 .. n : i - 1 \in T => i \in T
    PROVE  1 .. n \subseteq T
<1> DEFINE Outside == (1 .. n) \ T
<1>1. SUFFICES ASSUME Outside # {} PROVE FALSE
  OBVIOUS
<1>2. Outside \subseteq Nat
  OBVIOUS
<1> DEFINE i == Min(Outside)
<1>3. i \in Outside /\ \A j \in Outside : i =< j
  <2> HIDE DEF Outside
  <2> QED
    BY <1>1, <1>2, MinOfNaturals
<1> HIDE DEF i
<1>4. i \in 1 .. n /\ i \notin T
  BY <1>3
<1>5. CASE i = 1
  BY <1>4, <1>5
<1>6. CASE i # 1
  <2>1. i \in 2 .. n /\ i - 1 \in 1 .. n
    BY <1>4, <1>6
  <2>2. i - 1 \notin Outside
    BY <1>3, <2>1
  <2> QED
    BY <1>4, <2>1, <2>2
<1> QED
  BY <1>5, <1>6

\* f begins with base and goes on by step.
Iterates(f, n, base, step) ==
    f = [i \in 1 .. n |-> IF i = 1 THEN base ELSE step[i - 1][f[i - 1]]]

\* Recursion: there is such a function.
LEMMA Recursion ==
    ASSUME NEW S, NEW base \in S, NEW n \in Nat, NEW step \in [1 .. n -> [S -> S]]
    PROVE  \E f \in [1 .. n -> S] : Iterates(f, n, base, step)
<1> DEFINE Until(m, f) == Iterates(f, m, base, step)
<1> USE DEF Iterates
<1> DEFINE Missing == {m \in 0 .. n : ~ \E f \in [1 .. m -> S] : Until(m, f)}
<1>1. SUFFICES Missing = {}
  <2>1. n \in 0 .. n
    OBVIOUS
  <2>2. \E f \in [1 .. n -> S] : Until(n, f)
    BY <1>1, <2>1, Zenon
  <2> QED
    BY <2>2, Zenon
<1>2. SUFFICES ASSUME Missing # {} PROVE FALSE
  OBVIOUS
<1> DEFINE m == Min(Missing)
<1>3. m \in Missing /\ \A k \in Missing : m =< k
  <2>1. Missing \subseteq Nat
    BY SMT
  <2> HIDE DEF Missing
  <2> QED
    BY <1>2, <2>1, MinOfNaturals
<1> HIDE DEF m
<1>4. m \in 0 .. n /\ ~ \E f \in [1 .. m -> S] : Until(m, f)
  BY <1>3
<1>5. CASE m = 0
  <2> DEFINE f == [i \in 1 .. 0 |-> base]
  <2>1. f \in [1 .. m -> S]
    BY <1>5
  <2>2. Until(m, f)
    BY <1>5
  <2> QED
    BY <1>4, <2>1, <2>2
<1>6. CASE m # 0
  <2>1. m - 1 \in 0 .. n /\ m - 1 \notin Missing
    BY <1>3, <1>4, <1>6
  <2>2. PICK g \in [1 .. (m - 1) -> S] : Until(m - 1, g)
    BY <2>1
  <2> DEFINE last == IF m = 1 THEN base ELSE step[m - 1][g[m - 1]]
  <2> DEFINE f == [i \in 1 .. m |-> IF i = m THEN last ELSE g[i]]
  <2>3. last \in S
    BY <1>4, <1>6
  <2>4. f \in [1 .. m -> S]
    BY <1>4, <1>6, <2>3
  <2>5. ASSUME NEW i \in 1 .. m
        PROVE  f[i] = IF i = 1 THEN base ELSE step[i - 1][f[i - 1]]
    <3>1. CASE i = m
      BY <1>4, <1>6, <3>1
    <3>2. CASE i # m
      <4>1. i \in 1 .. (m - 1) /\ (i # 1 => i - 1 \in 1 .. (m - 1))
        BY <1>4, <1>6, <3>2
      <4>2. g[i] = IF i = 1 THEN base ELSE step[i - 1][g[i - 1]]
        BY <2>2, <4>1
      <4> QED
        BY <3>2, <4>1, <4>2, <1>4
    <3> QED
      BY <3>1, <3>2
  <2>6. Until(m, f)
    <3> HIDE DEF last
    <3> QED
      BY <2>5
  <2> QED
    BY <1>4, <2>4, <2>6
<1> QED
  BY <1>5, <1>6
=============================================================================
