----------------------------- MODULE Induction -----------------------------
(***************************************************************************)
(* Induction and primitive recursion over the naturals, stated with sets   *)
(* and functions instead of operators, so that they can be cited.          *)
(***************************************************************************)
EXTENDS Integers, WellFoundedInduction, TLAPS

\* Every non-empty set of naturals has a least element.
LEMMA NatMin ==
    ASSUME NEW T, T \subseteq Nat, T # {}
    PROVE  \E x \in T : \A y \in T : x <= y
<1> DEFINE R == {ss \in Nat \X Nat : ss[1] < ss[2]}
<1>1. IsWellFoundedOn(R, Nat)
  BY NatLessThanWellFounded DEF OpToRel
<1>2. PICK x \in T : \A y \in T : <<y, x>> \notin R
  <2> HIDE DEF R
  <2> QED
    BY <1>1, WFMin
<1>3. \A y \in T : x <= y
  <2> SUFFICES ASSUME NEW y \in T, ~(x <= y) PROVE FALSE
    OBVIOUS
  <2>1. x \in Nat /\ y \in Nat /\ y < x
    OBVIOUS
  <2>2. <<y, x>> \in Nat \X Nat /\ <<y, x>>[1] < <<y, x>>[2]
    BY <2>1
  <2>3. <<y, x>> \in R
    BY <2>2
  <2> QED
    BY <1>2, <2>3
<1> QED
  BY <1>3

\* A set that has a and with each element below b the next one has all of
\* a .. b.
LEMMA Induct ==
    ASSUME NEW a \in Int, NEW b \in Int, NEW S, a \in S,
           \A n \in a .. b - 1 : n \in S => n + 1 \in S
    PROVE  \A n \in a .. b : n \in S
<1> DEFINE T == {i \in Nat : a + i <= b /\ a + i \notin S}
<1>1. SUFFICES ASSUME NEW n \in a .. b, n \notin S PROVE FALSE
  OBVIOUS
<1>2. n - a \in T
  <2>1. n - a \in Nat /\ a + (n - a) = n /\ n <= b
    OBVIOUS
  <2> QED
    BY <1>1, <2>1
<1>3. PICK x \in T : \A y \in T : x <= y
  <2>1. T \subseteq Nat
    OBVIOUS
  <2> HIDE DEF T
  <2> QED
    BY <1>2, <2>1, NatMin
<1>4. x \in Nat /\ a + x <= b /\ a + x \notin S
  OBVIOUS
<1>5. x # 0
  BY <1>4
<1>6. x - 1 \in Nat /\ x - 1 \notin T /\ a + (x - 1) \in a .. b - 1
  BY <1>3, <1>4, <1>5
<1>7. a + (x - 1) \in S /\ (a + (x - 1)) + 1 = a + x
  BY <1>4, <1>6
<1> QED
  BY <1>4, <1>6, <1>7

\* f is the function on a .. b with the first value c in which each value
\* follows from the one before: D[n] is the step from n to n + 1.
Recursion(f, a, b, V, c, D) ==
    /\ f \in [a .. b -> V] /\ f[a] = c
    /\ \A n \in a .. b - 1 : f[n + 1] = D[n][f[n]]

RecursionSteps(a, b, V) == [a .. b - 1 -> [V -> V]]

\* Such a function exists.
LEMMA PrimRec ==
    ASSUME NEW a \in Int, NEW b \in Int, a <= b, NEW V, NEW c \in V,
           NEW D \in RecursionSteps(a, b, V)
    PROVE  \E f : Recursion(f, a, b, V, c, D)
<1> USE DEF RecursionSteps
<1> DEFINE Upto(n, f) == f[a] = c /\ \A i \in a .. n - 1 : f[i + 1] = D[i][f[i]]
           S == {n \in a .. b : \E f \in [a .. b -> V] : Upto(n, f)}
<1>1. a \in S
  <2> DEFINE f == [i \in a .. b |-> c]
  <2>1. f \in [a .. b -> V] /\ Upto(a, f)
    OBVIOUS
  <2> HIDE DEF f, Upto
  <2> QED
    BY <2>1
<1>2. ASSUME NEW n \in a .. b - 1, n \in S PROVE n + 1 \in S
  <2>1. PICK f \in [a .. b -> V] : Upto(n, f)
    BY <1>2
  <2> DEFINE g == [f EXCEPT ![n + 1] = D[n][f[n]]]
  <2>2. n \in a .. b /\ n + 1 \in a .. b /\ f[n] \in V /\ (n + 1) - 1 = n
    OBVIOUS
  <2>3. D[n][f[n]] \in V
    BY <2>2
  <2>4. g \in [a .. b -> V]
    BY <2>3
  <2>5. g[n + 1] = D[n][f[n]] /\ \A i \in a .. n : g[i] = f[i]
    BY <2>2
  <2>6. Upto(n + 1, g)
    <3> HIDE DEF g
    <3>1. g[a] = c
      BY <2>1, <2>5
    <3>2. ASSUME NEW i \in a .. n PROVE g[i + 1] = D[i][g[i]]
      <4>1. CASE i = n
        BY <2>2, <2>5, <4>1
      <4>2. CASE i # n
        <5>1. i \in a .. n - 1 /\ i + 1 \in a .. n
          BY <2>2, <4>2
        <5> QED
          BY <2>1, <2>5, <5>1
      <4> QED
        BY <4>1, <4>2
    <3> QED
      BY <2>2, <3>1, <3>2
  <2> HIDE DEF g, Upto
  <2> QED
    BY <2>2, <2>4, <2>6
<1>3. b \in S
  <2> HIDE DEF S
  <2>1. \A n \in a .. b : n \in S
    BY <1>1, <1>2, Induct
  <2> QED
    BY <2>1
<1>4. PICK f \in [a .. b -> V] : Upto(b, f)
  BY <1>3
<1>5. Recursion(f, a, b, V, c, D)
  BY <1>4 DEF Recursion
<1> QED
  BY <1>5

=============================================================================
