------------------------------- MODULE Induction -------------------------------
(***************************************************************************)
(* Induction over the natural numbers, with a set for the predicate, and   *)
(* what it gives for functions defined by recursion on a number.           *)
(***************************************************************************)
EXTENDS Integers, WellFoundedInduction, TLAPS

LEMMA NatMinimum ==
  ASSUME NEW T \in SUBSET Nat, T # {}
  PROVE  \E x \in T : \A y \in T : ~(y < x)
<1>1. IsWellFoundedOn(OpToRel(<, Nat), Nat)
  BY NatLessThanWellFounded, Zenon
<1>2. \E x \in T : \A y \in T : ~(<<y, x>> \in OpToRel(<, Nat))
  BY <1>1, WFMin, Zenon
<1>3. \A x, y \in T : y < x => <<y, x>> \in OpToRel(<, Nat)
  BY DEF OpToRel
<1> QED
  BY <1>2, <1>3

LEMMA SetInduction ==
  ASSUME NEW T \in SUBSET Nat, 0 \in T, \A n \in T : n + 1 \in T
  PROVE  T = Nat
<1> SUFFICES ASSUME Nat \ T # {} PROVE FALSE
  OBVIOUS
<1>1. PICK x \in Nat \ T : \A y \in Nat \ T : ~(y < x)
  BY NatMinimum
<1>2. x # 0 /\ x - 1 \in Nat /\ x - 1 < x /\ (x - 1) + 1 = x
  OBVIOUS
<1>3. x - 1 \in T
  BY <1>1, <1>2
<1> QED
  BY <1>2, <1>3

LEMMA BoundedInduction ==
  ASSUME NEW m \in Nat, NEW T, 0 \in T, \A n \in 0..m : n \in T /\ n # m => n + 1 \in T
  PROVE  \A n \in 0..m : n \in T
<1> DEFINE U == {n \in Nat : n <= m => n \in T}
<1>1. 0 \in U
  OBVIOUS
<1>2. ASSUME NEW n \in U PROVE n + 1 \in U
  <2>1. n + 1 <= m => n \in 0..m /\ n # m
    OBVIOUS
  <2> QED
    BY <2>1
<1>3. U \in SUBSET Nat
  OBVIOUS
<1> HIDE DEF U
<1>4. U = Nat
  BY <1>1, <1>2, <1>3, SetInduction
<1> QED
  BY <1>4 DEF U

Unfolds(f, m, first, step) == f[0] = first /\ \A n \in 1..m : f[n] = step[n][f[n - 1]]

\* A function on 0..m may be defined by its first value and its steps.
LEMMA Recursion ==
  ASSUME NEW m \in Nat, NEW S, NEW first \in S, NEW step \in [1..m -> [S -> S]]
  PROVE  \E f \in [0..m -> S] : Unfolds(f, m, first, step)
<1> DEFINE T == {k \in Nat : k <= m => \E f \in [0..k -> S] : Unfolds(f, k, first, step)}
<1>1. 0 \in T
  <2>1. [i \in 0..0 |-> first] \in [0..0 -> S]
    OBVIOUS
  <2>2. Unfolds([i \in 0..0 |-> first], 0, first, step)
    BY DEF Unfolds
  <2> QED
    BY <2>1, <2>2
<1>2. ASSUME NEW k \in T PROVE k + 1 \in T
  <2> SUFFICES ASSUME k + 1 <= m
               PROVE  \E f \in [0..k + 1 -> S] : Unfolds(f, k + 1, first, step)
    OBVIOUS
  <2>1. PICK g \in [0..k -> S] : Unfolds(g, k, first, step)
    OBVIOUS
  <2> DEFINE f == [i \in 0..k + 1 |-> IF i = k + 1 THEN step[k + 1][g[k]] ELSE g[i]]
  <2>2. step[k + 1] \in [S -> S] /\ g[k] \in S
    OBVIOUS
  <2>3. f \in [0..k + 1 -> S]
    BY <2>2
  <2>4. f[0] = first
    BY <2>1 DEF Unfolds
  <2>5. ASSUME NEW n \in 1..k + 1 PROVE f[n] = step[n][f[n - 1]]
    <3>1. CASE n = k + 1
      BY <3>1
    <3>2. CASE n # k + 1
      BY <2>1, <3>2 DEF Unfolds
    <3> QED
      BY <3>1, <3>2
  <2>6. Unfolds(f, k + 1, first, step)
    BY <2>4, <2>5 DEF Unfolds
  <2> QED
    BY <2>3, <2>6
<1> HIDE DEF T
<1>3. T = Nat
  <2>1. T \in SUBSET Nat
    BY DEF T
  <2> QED
    BY <1>1, <1>2, <2>1, SetInduction
<1>4. m \in T
  BY <1>3
<1> QED
  BY <1>4 DEF T

===============================================================================
