-------------------------------- MODULE Induction --------------------------------
(***************************************************************************)
(* Induction in a form the provers can use: over a set of numbers, where   *)
(* the theorems of the library take an operator.                           *)
(***************************************************************************)
EXTENDS Integers, TLAPS, WellFoundedInduction

\* A set that holds zero and the successor of each of its numbers holds them all.
LEMMA NatSetInduction ==
    ASSUME NEW G, 0 \in G, \A n \in Nat : n \in G => n + 1 \in G
    PROVE  Nat \subseteq G
<1> DEFINE T == Nat \ G
           R == OpToRel(<, Nat)
<1>1. SUFFICES ASSUME T # {} PROVE FALSE
  OBVIOUS
<1>2. IsWellFoundedOn(R, Nat)
  BY NatLessThanWellFounded
<1> HIDE DEF R
<1>3. PICK x \in T : \A y \in T : ~(<<y, x>> \in R)
  <2>1. T \subseteq Nat
    OBVIOUS
  <2> HIDE DEF T
  <2> QED
    BY <1>1, <1>2, <2>1, WFMin
<1>4. x # 0 /\ x - 1 \in Nat
  BY <1>3
<1>5. x - 1 \in T
  BY <1>3, <1>4
<1>6. <<x - 1, x>> \in R
  BY <1>3, <1>4 DEF R, OpToRel
<1> QED
  BY <1>3, <1>5, <1>6

\* A bounded set of numbers has a largest one.
LEMMA Largest ==
    ASSUME NEW S, S \subseteq Nat, S # {}, NEW b \in Nat, \A x \in S : x < b
    PROVE  \E x \in S : \A y \in S : y <= x
<1> SUFFICES ASSUME \A x \in S : \E y \in S : y > x
             PROVE  FALSE
  OBVIOUS
<1> DEFINE G == {n \in Nat : \E y \in S : y >= n}
<1>1. 0 \in G
  <2>1. PICK y \in S : TRUE
    OBVIOUS
  <2> QED
    BY <2>1
<1>2. \A n \in Nat : n \in G => n + 1 \in G
  <2> SUFFICES ASSUME NEW n \in Nat, n \in G PROVE n + 1 \in G
    OBVIOUS
  <2>1. PICK y \in S : y >= n
    OBVIOUS
  <2>2. PICK z \in S : z > y
    BY <2>1
  <2>3. z >= n + 1
    BY <2>1, <2>2
  <2> QED
    BY <2>3
<1>3. b \in G
  <2> HIDE DEF G
  <2> QED
    BY <1>1, <1>2, NatSetInduction
<1> QED
  BY <1>3

\* A function from 0..n to V with a value at 0 and, at each other number, a step of the
\* value before.
Recursive(n, V, base, step) ==
    \E f \in [0 .. n -> V] :
        f[0] = base /\ \A i \in 1 .. n : f[i] = step[i][f[i - 1]]

\* There is one: what the prover needs to expand a recursive definition.
LEMMA Recursion ==
    ASSUME NEW n \in Nat, NEW V, NEW base \in V, NEW step \in [1 .. n -> [V -> V]]
    PROVE  Recursive(n, V, base, step)
<1> DEFINE Def(f, m) ==
              /\ f \in [0 .. m -> V]
              /\ \A i \in 0 .. m : f[i] = IF i = 0 THEN base ELSE step[i][f[i - 1]]
           G == {m \in Nat : m <= n => \E f : Def(f, m)}
<1>1. 0 \in G
  <2>1. Def([i \in 0 .. 0 |-> base], 0)
    OBVIOUS
  <2> QED
    BY <2>1
<1>2. \A m \in Nat : m \in G => m + 1 \in G
  <2> TAKE m \in Nat
  <2> HAVE m \in G
  <2> SUFFICES ASSUME m + 1 <= n
               PROVE  \E f : Def(f, m + 1)
    OBVIOUS
  <2>1. PICK f : Def(f, m)
    <3> HIDE DEF Def
    <3> QED
      OBVIOUS
  <2> DEFINE new == step[m + 1][f[m]]
             g == [i \in 0 .. (m + 1) |-> IF i = m + 1 THEN new ELSE f[i]]
  <2>2. new \in V
    BY <2>1
  <2>3. g \in [0 .. (m + 1) -> V]
    <3> HIDE DEF new
    <3> QED
      BY <2>1, <2>2
  <2>4. \A i \in 0 .. (m + 1) : g[i] = IF i = 0 THEN base ELSE step[i][g[i - 1]]
    <3> TAKE i \in 0 .. (m + 1)
    <3>1. CASE i = m + 1
      <4>1. g[i] = new /\ g[i - 1] = f[m] /\ i # 0
        BY <3>1
      <4> QED
        BY <4>1, <3>1
    <3>2. CASE i # m + 1 /\ i # 0
      <4>1. g[i] = f[i] /\ g[i - 1] = f[i - 1]
        BY <3>2
      <4> QED
        BY <4>1, <3>2, <2>1
    <3>3. CASE i = 0
      BY <3>3, <2>1
    <3> QED
      BY <3>1, <3>2, <3>3
  <2>5. Def(g, m + 1)
    BY <2>3, <2>4
  <2> QED
    BY <2>5
<1>3. \E f : Def(f, n)
  <2>1. n \in G
    <3> HIDE DEF G
    <3> QED
      BY <1>1, <1>2, NatSetInduction
  <2> HIDE DEF Def
  <2> QED
    BY <2>1
<1>4. PICK f : Def(f, n)
  BY <1>3
<1>5. f[0] = base /\ \A i \in 1 .. n : f[i] = step[i][f[i - 1]]
  BY <1>4
<1> QED
  BY <1>4, <1>5 DEF Recursive

\* A set of numbers that has one has a smallest.
LEMMA Smallest ==
    ASSUME NEW S, S \subseteq Nat, S # {}
    PROVE  \E x \in S : \A y \in S : x <= y
<1> SUFFICES ASSUME \A x \in S : \E y \in S : y < x
             PROVE  FALSE
  OBVIOUS
<1> DEFINE G == {n \in Nat : \A y \in S : y >= n}
<1>1. 0 \in G
  OBVIOUS
<1>2. \A n \in Nat : n \in G => n + 1 \in G
  <2> SUFFICES ASSUME NEW n \in Nat, n \in G PROVE n + 1 \in G
    OBVIOUS
  <2>1. n \notin S
    <3> SUFFICES ASSUME n \in S PROVE FALSE
      OBVIOUS
    <3>1. PICK y \in S : y < n
      OBVIOUS
    <3> QED
      BY <3>1
  <2>2. \A y \in S : y >= n /\ y # n /\ y \in Nat
    BY <2>1
  <2>3. \A y \in S : y >= n + 1
    BY <2>2
  <2> QED
    BY <2>3
<1>3. \A n \in Nat : n \in G
  <2> HIDE DEF G
  <2> QED
    BY <1>1, <1>2, NatSetInduction
<1>4. PICK x \in S : TRUE
  OBVIOUS
<1>5. x + 1 \in G
  <2> HIDE DEF G
  <2> QED
    BY <1>3, <1>4
<1> QED
  BY <1>4, <1>5

\* A function that follows the recursion has its values in V.
LEMMA RecursionType ==
    ASSUME NEW n \in Nat, NEW V, NEW g,
           g[0] \in V, \A i \in 1 .. n : g[i - 1] \in V => g[i] \in V
    PROVE  \A i \in 0 .. n : g[i] \in V
<1> DEFINE A == {i \in Nat : i <= n => g[i] \in V}
<1>1. 0 \in A
  OBVIOUS
<1>2. \A i \in Nat : i \in A => i + 1 \in A
  <2> TAKE i \in Nat
  <2> HAVE i \in A
  <2>1. i + 1 <= n => i + 1 \in 1 .. n /\ (i + 1) - 1 = i /\ i <= n
    OBVIOUS
  <2> QED
    BY <2>1
<1>3. Nat \subseteq A
  <2> HIDE DEF A
  <2> QED
    BY <1>1, <1>2, NatSetInduction
<1> QED
  BY <1>3
================================================================================
