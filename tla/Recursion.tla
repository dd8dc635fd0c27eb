------------------------------ MODULE Recursion -------------------------------
(***************************************************************************)
(* Induction over the natural numbers, and the functions that recursive    *)
(* definitions define: for each of them the proofs take an instance of     *)
(* this module, with the equation of the definition as Def.                *)
(***************************************************************************)
EXTENDS Naturals, TLAPS, WellFoundedInduction

CONSTANTS Domain,      \* the arguments of the function
          Measure(_),  \* a number that recursive calls make smaller
          Def(_, _, _, _) \* the value at an argument, from two parameters and the
                          \* function

\* Def reads the function only where the measure is smaller.
Descends(p, q) ==
    \A x \in Domain :
        /\ Measure(x) \in Nat
        /\ \A f, g : (\A y \in Domain : Measure(y) < Measure(x) => f[y] = g[y])
                        => Def(p, q, f, x) = Def(p, q, g, x)

\* The arguments below n, and the functions that satisfy the equation on them.
Below(n)     == {x \in Domain : Measure(x) < n}
Solves(p, q, f, D) == f = [x \in D |-> Def(p, q, f, x)]
------------------------------------------------------------------------------
\* A set of numbers that is not empty has a least element.
LEMMA LeastOf == ASSUME NEW T \in SUBSET Nat, T # {} PROVE \E x \in T : \A y \in T : x <= y
<1> DEFINE R == OpToRel(<, Nat)
<1>1. IsWellFoundedOn(R, Nat)
  BY NatLessThanWellFounded
<1>2. \A x, y \in Nat : <<x, y>> \in R <=> x < y
  BY DEF OpToRel
<1> HIDE DEF R
<1>3. PICK x \in T : \A y \in T : ~(<<y, x>> \in R)
  BY <1>1, WFMin
<1>4. ASSUME NEW y \in T PROVE x <= y
  <2>1. x \in Nat /\ y \in Nat
    OBVIOUS
  <2>2. ~(<<y, x>> \in R)
    BY <1>3
  <2>3. ~(y < x)
    BY <1>2, <2>1, <2>2
  <2> QED
    BY <2>1, <2>3
<1> QED
  BY <1>4

\* Induction: a set of numbers with 0 and with every successor has all numbers.
LEMMA NatInd == ASSUME NEW T, 0 \in T, \A n \in Nat : n \in T => n + 1 \in T PROVE Nat \subseteq T
<1> SUFFICES ASSUME Nat \ T # {} PROVE FALSE
  OBVIOUS
<1>1. PICK x \in Nat \ T : \A y \in Nat \ T : x <= y
  BY LeastOf
<1>2. x # 0 /\ x - 1 \in Nat
  BY <1>1
<1>3. x - 1 \in T
  BY <1>1, <1>2
<1> QED
  BY <1>1, <1>2, <1>3

\* Two solutions agree where both are defined.
LEMMA SolutionsAgree ==
    ASSUME NEW p, NEW q, Descends(p, q), NEW n \in Nat, NEW m \in Nat, NEW f, NEW g,
           Solves(p, q, f, Below(n)), Solves(p, q, g, Below(m)),
           NEW x \in Below(n) \cap Below(m)
    PROVE  f[x] = g[x]
<1> DEFINE Wrong == {k \in Nat : \E y \in Below(n) \cap Below(m) : Measure(y) = k /\ f[y] # g[y]}
<1> SUFFICES ASSUME f[x] # g[x] PROVE FALSE
  OBVIOUS
<1>1. Measure(x) \in Wrong
  BY DEF Descends, Below
<1>2. PICK k \in Wrong : \A l \in Wrong : k <= l
  <2>1. Wrong # {} /\ Wrong \in SUBSET Nat
    BY <1>1
  <2> HIDE DEF Wrong
  <2> QED
    BY <2>1, LeastOf
<1>3. PICK y \in Below(n) \cap Below(m) : Measure(y) = k /\ f[y] # g[y]
  BY <1>2
<1>4. ASSUME NEW z \in Domain, Measure(z) < Measure(y) PROVE f[z] = g[z]
  <2>1. z \in Below(n) \cap Below(m) /\ Measure(z) \in Nat
    BY <1>2, <1>3, <1>4 DEF Descends, Below
  <2>2. CASE f[z] # g[z]
    <3>1. Measure(z) \in Wrong
      BY <2>1, <2>2
    <3> QED
      BY <1>2, <1>3, <1>4, <2>1, <3>1
  <2> QED
    BY <2>2
<1>5. Def(p, q, f, y) = Def(p, q, g, y)
  BY <1>4 DEF Descends, Below
<1>6. f[y] = Def(p, q, f, y) /\ g[y] = Def(p, q, g, y)
  <2>1. y \in Below(n) /\ y \in Below(m)
    OBVIOUS
  <2> HIDE DEF Below
  <2> QED
    BY <2>1 DEF Solves
<1> QED
  BY <1>3, <1>5, <1>6

\* For every bound, some function satisfies the equation below it.
LEMMA SolvedBelow ==
    ASSUME NEW p, NEW q, Descends(p, q), NEW n \in Nat
    PROVE  \E f : Solves(p, q, f, Below(n))
<1> DEFINE Solved == {k \in Nat : \E f : Solves(p, q, f, Below(k))}
<1>1. 0 \in Solved
  <2>1. Below(0) = {}
    BY DEF Descends, Below
  <2>2. Solves(p, q, [x \in {} |-> x], Below(0))
    BY <2>1 DEF Solves
  <2> QED
    BY <2>2
<1>2. ASSUME NEW k \in Solved PROVE k + 1 \in Solved
  <2>1. PICK f : Solves(p, q, f, Below(k))
    OBVIOUS
  <2> DEFINE g == [x \in Below(k + 1) |-> Def(p, q, f, x)]
  <2>2. \A x \in Below(k) : g[x] = f[x]
    <3>1. \A x \in Below(k) : f[x] = Def(p, q, f, x)
      BY <2>1 DEF Solves
    <3>2. Below(k) \subseteq Below(k + 1)
      BY DEF Descends, Below
    <3> QED
      BY <3>1, <3>2
  <2>3. ASSUME NEW x \in Below(k + 1) PROVE Def(p, q, f, x) = Def(p, q, g, x)
    <3>1. ASSUME NEW y \in Domain, Measure(y) < Measure(x) PROVE f[y] = g[y]
      <4>1. y \in Below(k)
        BY <3>1 DEF Descends, Below
      <4> QED
        BY <2>2, <4>1
    <3>2. x \in Domain
      BY DEF Below
    <3> HIDE DEF g
    <3> QED
      BY <3>1, <3>2 DEF Descends
  <2>4. Solves(p, q, g, Below(k + 1))
    BY <2>3 DEF Solves
  <2> QED
    BY <2>4
<1> HIDE DEF Solved
<1>3. Nat \subseteq Solved
  BY <1>1, <1>2, NatInd
<1> QED
  BY <1>3 DEF Solved

\* A recursive definition whose calls descend has a function that satisfies it.
THEOREM RecursionSolved ==
    ASSUME NEW p, NEW q, Descends(p, q)
    PROVE  \E f : Solves(p, q, f, Domain)
<1> DEFINE F(n) == CHOOSE f : Solves(p, q, f, Below(n))
           f == [x \in Domain |-> F(Measure(x) + 1)[x]]
<1>1. \A n \in Nat : Solves(p, q, F(n), Below(n))
  BY SolvedBelow
<1> HIDE DEF F
<1>2. ASSUME NEW x \in Domain PROVE f[x] = Def(p, q, f, x)
  <2>1. Measure(x) \in Nat /\ Measure(x) + 1 \in Nat /\ x \in Below(Measure(x) + 1)
    BY DEF Descends, Below
  <2>2. f[x] = Def(p, q, F(Measure(x) + 1), x)
    BY <1>1, <2>1 DEF Solves
  <2>3. ASSUME NEW y \in Domain, Measure(y) < Measure(x) PROVE f[y] = F(Measure(x) + 1)[y]
    <3>1. Measure(y) + 1 \in Nat
      BY DEF Descends
    <3>2. y \in Below(Measure(y) + 1) \cap Below(Measure(x) + 1)
      BY <2>1, <2>3, <3>1 DEF Descends, Below
    <3>3. F(Measure(y) + 1)[y] = F(Measure(x) + 1)[y]
      BY <1>1, <2>1, <3>1, <3>2, SolutionsAgree
    <3> QED
      BY <3>3
  <2>4. Def(p, q, f, x) = Def(p, q, F(Measure(x) + 1), x)
    <3> HIDE DEF f
    <3> QED
      BY <2>3 DEF Descends
  <2> QED
    BY <2>2, <2>4
<1>3. Solves(p, q, f, Domain)
  BY <1>2 DEF Solves
<1> QED
  BY <1>3

\* So the function that TLA+ chooses for the definition satisfies it.
THEOREM DefinedByEquation ==
    ASSUME NEW p, NEW q, Descends(p, q), NEW f, f = CHOOSE g : g = [x \in Domain |-> Def(p, q, g, x)]
    PROVE  /\ f = [x \in Domain |-> Def(p, q, f, x)]
           /\ \A x \in Domain : f[x] = Def(p, q, f, x)
<1>1. \E g : g = [x \in Domain |-> Def(p, q, g, x)]
  BY RecursionSolved DEF Solves
<1>2. f = [x \in Domain |-> Def(p, q, f, x)]
  BY <1>1
<1> QED
  BY <1>2
==============================================================================
