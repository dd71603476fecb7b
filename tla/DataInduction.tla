---------------------------- MODULE DataInduction ----------------------------
(***************************************************************************)
(* Induction over numbers, stated of sets instead of predicates so that a  *)
(* proof can cite it, and what it gives for the definitions the models are *)
(* built from: a recursive function over 0 .. n exists and obeys its       *)
(* equation.                                                               *)
(***************************************************************************)
EXTENDS Integers, WellFoundedInduction, TLAPS

\* A set of naturals that is not empty has a least member.
LEMMA Least ==
  ASSUME NEW T, T \subseteq Nat, T # {}
  PROVE  \E x \in T : \A y \in T : x <= y
<1>1. PICK x \in T : \A y \in T : <<y, x>> \notin OpToRel(<, Nat)
  BY NatLessThanWellFounded, WFMin
<1>2. \A y \in T : ~ (y < x)
  BY <1>1 DEF OpToRel
<1> QED BY <1>2

\* Induction: a set with zero and with the successor of each of its members has
\* every natural number.
LEMMA Induction ==
  ASSUME NEW T, 0 \in T, \A n \in Nat : n \in T => n + 1 \in T
  PROVE  Nat \subseteq T
<1> SUFFICES ASSUME Nat \ T # {} PROVE FALSE
  OBVIOUS
<1>1. PICK x \in Nat \ T : \A y \in Nat \ T : x <= y
  BY Least
<1>2. x # 0 /\ x - 1 \in Nat /\ x - 1 \notin Nat \ T
  BY <1>1
<1> QED BY <1>2

\* What holds of the first value, and of each next one if of the one before, holds
\* of all.
LEMMA Carried ==
  ASSUME NEW S, NEW n \in Nat, NEW h, h[0] \in S,
         \A i \in 1 .. n : h[i - 1] \in S => h[i] \in S
  PROVE  \A i \in 0 .. n : h[i] \in S
<1> DEFINE T == {k \in Nat : k <= n => h[k] \in S}
<1>1. 0 \in T
  OBVIOUS
<1>2. ASSUME NEW k \in Nat, k \in T PROVE k + 1 \in T
  <2>1. k + 1 <= n => k + 1 \in 1 .. n /\ (k + 1) - 1 = k
    OBVIOUS
  <2> QED BY <1>2, <2>1
<1>3. Nat \subseteq T
  <2> HIDE DEF T
  <2> QED BY <1>1, <1>2, Induction
<1> QED BY <1>3

\* The functions on 0 .. n that start with b and take each value from the one
\* before: step[i] makes the i-th of it.
Iterations(S, b, n, step) ==
  {g \in [0 .. n -> S] : g[0] = b /\ \A i \in 1 .. n : g[i] = step[i][g[i - 1]]}

\* There is one, for any number of steps.
LEMMA Recursion ==
  ASSUME NEW S, NEW b, b \in S, NEW n, n \in Nat, NEW step, step \in [1 .. n -> [S -> S]]
  PROVE  Iterations(S, b, n, step) # {}
<1> DEFINE Obeys(g, k) == g[0] = b /\ \A i \in 1 .. k : g[i] = step[i][g[i - 1]]
           T == {k \in Nat : k <= n => \E g \in [0 .. k -> S] : Obeys(g, k)}
<1>1. 0 \in T
  <2>1. [i \in 0 .. 0 |-> b] \in [0 .. 0 -> S] /\ Obeys([i \in 0 .. 0 |-> b], 0)
    OBVIOUS
  <2> QED BY <2>1
<1>2. ASSUME NEW k \in Nat, k \in T PROVE k + 1 \in T
  <2>1. SUFFICES ASSUME k + 1 <= n PROVE \E g \in [0 .. k + 1 -> S] : Obeys(g, k + 1)
    OBVIOUS
  <2>2. PICK g \in [0 .. k -> S] : Obeys(g, k)
    BY <1>2, <2>1
  <2>3. step[k + 1][g[k]] \in S
    BY <2>1
  <2> DEFINE h == [i \in 0 .. k + 1 |-> IF i = k + 1 THEN step[k + 1][g[k]] ELSE g[i]]
  <2>4. h \in [0 .. k + 1 -> S]
    BY <2>3
  <2>5. h[0] = b
    BY <2>2
  <2>6. ASSUME NEW i \in 1 .. k + 1 PROVE h[i] = step[i][h[i - 1]]
    <3>1. CASE i = k + 1
      <4>1. h[i - 1] = g[k] /\ h[i] = step[k + 1][g[k]]
        BY <3>1
      <4> HIDE DEF h
      <4> QED BY <3>1, <4>1
    <3>2. CASE i # k + 1
      <4>1. i \in 1 .. k /\ h[i - 1] = g[i - 1] /\ h[i] = g[i]
        BY <3>2
      <4> HIDE DEF h
      <4> QED BY <2>2, <4>1
    <3> QED BY <3>1, <3>2
  <2> HIDE DEF h
  <2> QED BY <2>4, <2>5, <2>6
<1>3. n \in T
  <2> HIDE DEF T
  <2> QED BY <1>1, <1>2, Induction
<1> QED BY <1>3 DEF Iterations
==============================================================================
