------------------------------ MODULE Recursion ------------------------------
(***************************************************************************)
(* Functions defined by recursion over a set whose elements have ranks.    *)
(* The parameters are constants of the module, so that a proof about one   *)
(* such function instantiates it.                                          *)
(***************************************************************************)
EXTENDS Naturals, TLAPS, WellFoundedInduction

CONSTANTS
  Dom,       \* the function's domain
  Rank(_),   \* of an element of it,
  Bound,     \* below this number
  Def(_, _)  \* value at an element, of smaller ones' values

-----------------------------------------------------------------------------
\* Induction, for a predicate given as the set of numbers that have it.
LEMMA NumberInduction ==
  ASSUME NEW S, 0 \in S, \A n \in Nat : n \in S => n + 1 \in S
  PROVE  \A n \in Nat : n \in S
<1>1. SUFFICES ASSUME NEW k \in Nat, k \notin S PROVE FALSE
  OBVIOUS
<1> DEFINE Less == OpToRel(<, Nat)
           Others == {n \in Nat : n \notin S}
<1>2. IsWellFoundedOn(Less, Nat)
  BY NatLessThanWellFounded
<1>3. Others \subseteq Nat /\ Others # {}
  BY <1>1
<1> HIDE DEF Less, Others
<1>4. PICK n \in Others : \A j \in Others : ~ (<<j, n>> \in Less)
  BY <1>2, <1>3, WFMin
<1>5. n \in Nat /\ n \notin S /\ n # 0
  BY <1>4 DEF Others
<1>6. n - 1 \in Nat /\ (n - 1) + 1 = n /\ n - 1 < n
  BY <1>5
<1>7. n - 1 \in S
  <2>1. <<n - 1, n>> \in Less
    BY <1>5, <1>6 DEF Less, OpToRel
  <2> QED
    BY <1>4, <1>6, <2>1 DEF Others
<1> QED
  BY <1>5, <1>6, <1>7

Below(n) == {x \in Dom : Rank(x) < n}

Solution == CHOOSE g : g = [x \in Dom |-> Def(g, x)]

\* The parameters are those of a recursion.
IsRecursion ==
  /\ Bound \in Nat
  /\ \A x \in Dom : Rank(x) \in Nat /\ Rank(x) < Bound
  /\ \A g, h : \A x \in Dom :
       (\A y \in Dom : Rank(y) < Rank(x) => g[y] = h[y]) => Def(g, x) = Def(h, x)

\* A recursive definition does define a function, with the values it says.
LEMMA RecursionEquation ==
  ASSUME IsRecursion
  PROVE  Solution = [x \in Dom |-> Def(Solution, x)]
<1> USE DEF IsRecursion
<1> DEFINE S == {n \in Nat : \E g : g = [x \in Below(n) |-> Def(g, x)]}
<1>1. 0 \in S
  <2>1. Below(0) = {}
    BY DEF Below
  <2>2. \A g : g = [x \in Below(0) |-> 0] => g = [x \in Below(0) |-> Def(g, x)]
    BY <2>1
  <2> QED
    BY <2>2
<1>2. ASSUME NEW n \in Nat, n \in S PROVE n + 1 \in S
  <2>1. PICK g : g = [x \in Below(n) |-> Def(g, x)]
    BY <1>2
  <2> DEFINE h == [x \in Below(n + 1) |-> IF x \in Below(n) THEN g[x] ELSE Def(g, x)]
  <2>2. ASSUME NEW x \in Below(n + 1) PROVE h[x] = Def(h, x)
    <3>1. \A y \in Dom : Rank(y) < Rank(x) => h[y] = g[y]
      BY DEF Below
    <3>2. Def(h, x) = Def(g, x)
      <4> HIDE DEF h
      <4> QED
        BY <3>1 DEF Below
    <3>3. h[x] = Def(g, x)
      BY <2>1
    <3> QED
      BY <3>2, <3>3
  <2>3. h = [x \in Below(n + 1) |-> Def(h, x)]
    <3> HIDE DEF h
    <3>1. h = [x \in Below(n + 1) |-> h[x]]
      BY DEF h
    <3> QED
      BY <2>2, <3>1
  <2> HIDE DEF h
  <2> QED
    BY <2>3
<1> HIDE DEF S
<1>3. Bound \in S
  BY <1>1, <1>2, NumberInduction
<1>4. Below(Bound) = Dom
  BY DEF Below
<1>5. \E g : g = [x \in Dom |-> Def(g, x)]
  BY <1>3, <1>4 DEF S
<1> QED
  BY <1>5 DEF Solution

\* Induction over the set, for a predicate given as the subset that has it.
LEMMA RankInduction ==
  ASSUME IsRecursion, NEW S,
         \A x \in Dom : (\A y \in Dom : Rank(y) < Rank(x) => y \in S) => x \in S
  PROVE  Dom \subseteq S
<1> DEFINE T == {n \in Nat : Below(n) \subseteq S}
<1>1. 0 \in T
  BY DEF Below, IsRecursion
<1>2. ASSUME NEW n \in Nat, n \in T PROVE n + 1 \in T
  BY <1>2 DEF Below, IsRecursion
<1> HIDE DEF T
<1>3. Bound \in T
  BY <1>1, <1>2, NumberInduction DEF IsRecursion
<1> QED
  BY <1>3 DEF T, Below, IsRecursion
=============================================================================
