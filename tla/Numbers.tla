------------------------------ MODULE Numbers ------------------------------
(***************************************************************************)
(* Facts about numbers that the proofs of several modules rest on: least   *)
(* and greatest elements exist, and division is monotonic.                 *)
(***************************************************************************)
EXTENDS Integers, FiniteSetsExt, WellFoundedInduction, TLAPS

\* A set of natural numbers that is not empty has a least element.
LEMMA LeastExists ==
  ASSUME NEW S \in SUBSET Nat, S # {}
  PROVE  \E x \in S : \A y \in S : x <= y
<1> DEFINE R == OpToRel(<, Nat)
<1>1. IsWellFoundedOn(R, Nat) BY NatLessThanWellFounded
<1> HIDE DEF R
<1>2. PICK x \in S : \A y \in S : ~ (<<y, x>> \in R) BY <1>1, WFMin
<1>3. \A y \in S : ~ (y < x) BY <1>2 DEF R, OpToRel
<1> QED BY <1>3

\* Induction up to n, over the set of the numbers for which a fact holds.
LEMMA InductionTo ==
  ASSUME NEW n \in Nat, NEW D, 0 \in D, \A m \in 0 .. n - 1 : m \in D => m + 1 \in D
  PROVE  \A m \in 0 .. n : m \in D
<1> DEFINE S == {m \in 0 .. n : m \notin D}
<1> SUFFICES ASSUME S # {} PROVE FALSE
  OBVIOUS
<1> HIDE DEF S
<1>1. S \in SUBSET Nat BY DEF S
<1>2. PICK x \in S : \A y \in S : x <= y BY <1>1, LeastExists
<1> USE DEF S
<1>3. x \in Nat /\ x # 0 /\ x - 1 \in 0 .. n - 1 OBVIOUS
<1>4. x - 1 \in D BY <1>2, <1>3
<1> QED BY <1>3, <1>4

\* step makes of a number up to n and a value in S the value at that number of a
\* function f that begins with a.
IsStep(step, n, S) == \A i \in 1 .. n : \A x \in S : step[i][x] \in S

Recurs(f, a, step, n, S) ==
  f \in [0 .. n -> S] /\ f[0] = a /\ \A i \in 1 .. n : f[i] = step[i][f[i - 1]]

\* A function defined by recursion up to n exists.
LEMMA RecursionTo ==
  ASSUME NEW n \in Nat, NEW S, NEW a \in S, NEW step, IsStep(step, n, S)
  PROVE  \E f : Recurs(f, a, step, n, S)
<1> USE DEF IsStep
<1> DEFINE Fits(m, f) == f[0] = a /\ \A i \in 1 .. m : f[i] = step[i][f[i - 1]]
           D == {m \in 0 .. n : \E f \in [0 .. m -> S] : Fits(m, f)}
<1>1. 0 \in D
  <2> DEFINE g == [i \in 0 .. 0 |-> a]
  <2>1. g \in [0 .. 0 -> S] /\ Fits(0, g) OBVIOUS
  <2> HIDE DEF g
  <2> QED BY <2>1
<1>2. ASSUME NEW m \in 0 .. n - 1, m \in D PROVE m + 1 \in D
  <2>1. PICK f \in [0 .. m -> S] : Fits(m, f) BY <1>2
  <2> DEFINE g == [i \in 0 .. m + 1 |-> IF i = m + 1 THEN step[m + 1][f[m]] ELSE f[i]]
  <2>2. f[m] \in S /\ m + 1 \in 1 .. n OBVIOUS
  <2>3. step[m + 1][f[m]] \in S BY <2>2
  <2>4. g \in [0 .. m + 1 -> S] BY <2>3
  <2>5. Fits(m + 1, g)
    <3>1. g[0] = a BY <2>1
    <3>2. ASSUME NEW i \in 1 .. m + 1 PROVE g[i] = step[i][g[i - 1]]
      <4>1. g[i - 1] = f[i - 1] OBVIOUS
      <4>2. CASE i = m + 1 BY <4>1, <4>2
      <4>3. CASE i # m + 1 BY <2>1, <4>1, <4>3
      <4> QED BY <4>2, <4>3
    <3> QED BY <3>1, <3>2
  <2> HIDE DEF g, Fits
  <2> QED BY <2>4, <2>5
<1> HIDE DEF D
<1>3. \A m \in 0 .. n : m \in D
  <2>1. \A m \in 0 .. n - 1 : m \in D => m + 1 \in D BY <1>2
  <2> QED BY <1>1, <2>1, InductionTo
<1> QED BY <1>3 DEF D, Recurs

\* Min is the least element.
LEMMA MinIsLeast ==
  ASSUME NEW S \in SUBSET Nat, S # {}
  PROVE  Min(S) \in S /\ \A y \in S : Min(S) <= y
BY LeastExists DEF Min

\* Max is the greatest element of a set with an upper bound.
LEMMA MaxIsGreatest ==
  ASSUME NEW S \in SUBSET Int, S # {}, NEW b \in Int, \A x \in S : x <= b
  PROVE  Max(S) \in S /\ \A y \in S : y <= Max(S)
<1> DEFINE T == {b - x : x \in S}
<1>1. T # {} OBVIOUS
<1>2. \A x \in S : b - x \in Nat OBVIOUS
<1>3. T \in SUBSET Nat BY <1>2
<1>4. PICK t \in T : \A u \in T : t <= u BY <1>1, <1>3, LeastExists
<1>5. PICK x \in S : t = b - x BY <1>4
<1>6. \A y \in S : b - x <= b - y BY <1>4, <1>5
<1>7. \A y \in S : x >= y BY <1>6
<1> QED BY <1>7 DEF Max

\* The quotient is the number of times the divisor fits.
LEMMA DivisionBounds ==
  ASSUME NEW a \in Int, NEW d \in Nat \ {0}
  PROVE  /\ a \div d \in Int
         /\ d * (a \div d) <= a
         /\ a < d * (a \div d) + d
         /\ a \in Nat => a \div d \in Nat
OBVIOUS

\* A quotient grows with what is divided, and shrinks with the divisor.
LEMMA DivisionMonotonic ==
  ASSUME NEW a \in Int, NEW b \in Int, a <= b, NEW d \in Nat \ {0}
  PROVE  a \div d <= b \div d
<1> DEFINE p == a \div d
           q == b \div d
<1>1. p \in Int /\ q \in Int /\ d * p <= a /\ b < d * q + d BY DivisionBounds
<1> HIDE DEF p, q
<1>2. d * p < d * (q + 1) BY <1>1
<1>3. p < q + 1 BY <1>1, <1>2
<1> QED BY <1>1, <1>3 DEF p, q

\* More divided by less is no less.
LEMMA DivisionOfMore ==
  ASSUME NEW m \in Nat, NEW n \in Nat, m <= n,
         NEW d \in Nat \ {0}, NEW e \in Nat \ {0}, e <= d
  PROVE  (100 * m) \div d \in 0 .. (100 * n) \div e
<1> DEFINE p == (100 * m) \div d
           q == (100 * n) \div e
<1>1. /\ p \in Nat /\ q \in Nat
      /\ d * p <= 100 * m /\ 100 * n < e * q + e
  BY DivisionBounds
<1> HIDE DEF p, q
<1>2. e * p <= d * p BY <1>1
<1>3. e * p < e * (q + 1) BY <1>1, <1>2
<1>4. p < q + 1 BY <1>1, <1>3
<1> QED BY <1>1, <1>4 DEF p, q

==============================================================================
