----------------------------- MODULE NatRecursion -----------------------------
(***************************************************************************)
(* Induction over the naturals for a set of naturals, recursion by a       *)
(* function, and the lesser of two and the quotient: facts with values, not*)
(* operators, as parameters.                                               *)
(***************************************************************************)
EXTENDS Integers, FiniteSetsExt, WellFoundedInduction, TLAPS

\* A set of naturals that has 0 and every successor has them all.
LEMMA SetInduction ==
  ASSUME NEW T, T \subseteq Nat, 0 \in T, \A n \in T : n + 1 \in T
  PROVE  T = Nat
<1> DEFINE R == OpToRel(<, Nat)
           U == Nat \ T
<1>1. IsWellFoundedOn(R, Nat)
  BY NatLessThanWellFounded
<1>2. \A x, y \in Nat : y < x => <<y, x>> \in R
  BY DEF OpToRel
<1> HIDE DEF R
<1>3. ASSUME U # {} PROVE FALSE
  <2>1. U \subseteq Nat
    OBVIOUS
  <2>2. PICK x \in U : \A y \in U : ~ (<<y, x>> \in R)
    <3> HIDE DEF U
    <3> QED
      BY <1>1, <1>3, <2>1, WFMin, Zenon
  <2>3. x \in Nat /\ x # 0
    OBVIOUS
  <2>4. x - 1 \in Nat /\ x - 1 < x /\ (x - 1) + 1 = x
    BY <2>3
  <2>5. x - 1 \notin U
    BY <1>2, <2>2, <2>3, <2>4
  <2>6. x - 1 \in T
    BY <2>4, <2>5
  <2>7. x \in T
    BY <2>4, <2>6
  <2> QED
    BY <2>7
<1> QED
  BY <1>3

\* What holds of 0 and, up to n, of every successor holds up to n.
LEMMA InductionTo ==
  ASSUME NEW N \in Nat, NEW T, 0 \in T, \A n \in 0 .. N - 1 : n \in T => n + 1 \in T
  PROVE  0 .. N \subseteq T
<1> DEFINE U == {n \in Nat : n <= N => n \in T}
<1>1. U \subseteq Nat /\ 0 \in U
  OBVIOUS
<1>2. \A n \in U : n + 1 \in U
  <2> TAKE n \in U
  <2>1. n \in Nat /\ n + 1 \in Nat
    OBVIOUS
  <2>2. ASSUME n + 1 <= N PROVE n + 1 \in T
    <3>1. n \in 0 .. N - 1 /\ n <= N
      BY <2>1, <2>2
    <3> QED
      BY <3>1
  <2> QED
    BY <2>1, <2>2
<1> HIDE DEF U
<1>3. U = Nat
  BY <1>1, <1>2, SetInduction
<1> QED
  BY <1>3 DEF U

\* Recursion: there is a function with a first value and a next one to each.
Solutions(N, E, b, F) ==
  {f \in [0 .. N -> E] : f[0] = b /\ \A n \in 0 .. N - 1 : f[n + 1] = F[<<n, f[n]>>]}

LEMMA RecursionTo ==
  ASSUME NEW N \in Nat, NEW E, NEW b \in E, NEW F \in [Nat \X E -> E]
  PROVE  Solutions(N, E, b, F) # {}
<1> DEFINE Has(m, f) == f[0] = b /\ \A n \in 0 .. m - 1 : f[n + 1] = F[<<n, f[n]>>]
           T == {m \in 0 .. N : \E f \in [0 .. m -> E] : Has(m, f)}
<1>1. 0 \in T
  <2>1. [n \in 0 .. 0 |-> b] \in [0 .. 0 -> E] /\ Has(0, [n \in 0 .. 0 |-> b])
    OBVIOUS
  <2>2. 0 \in 0 .. N
    OBVIOUS
  <2> QED
    BY <2>1, <2>2, Zenon
<1>2. \A m \in 0 .. N - 1 : m \in T => m + 1 \in T
  <2> SUFFICES ASSUME NEW m \in 0 .. N - 1, NEW f \in [0 .. m -> E], Has(m, f)
               PROVE  \E g \in [0 .. m + 1 -> E] : Has(m + 1, g)
    OBVIOUS
  <2> DEFINE g == [n \in 0 .. m + 1 |-> IF n = m + 1 THEN F[<<m, f[m]>>] ELSE f[n]]
  <2>1. f[m] \in E /\ F[<<m, f[m]>>] \in E
    OBVIOUS
  <2>2. g \in [0 .. m + 1 -> E]
    BY <2>1
  <2>3. g[0] = b
    OBVIOUS
  <2>4. \A n \in 0 .. (m + 1) - 1 : g[n + 1] = F[<<n, g[n]>>]
    <3> TAKE n \in 0 .. (m + 1) - 1
    <3>1. CASE n = m
      <4>1. g[m + 1] = F[<<m, f[m]>>] /\ g[m] = f[m]
        OBVIOUS
      <4> QED
        BY <3>1, <4>1
    <3>2. CASE n \in 0 .. m - 1
      BY <3>2
    <3> QED
      BY <3>1, <3>2
  <2> QED
    BY <2>2, <2>3, <2>4
<1> HIDE DEF T
<1>3. 0 .. N \subseteq T
  BY <1>1, <1>2, InductionTo
<1>4. N \in T
  BY <1>3
<1> QED
  BY <1>4 DEF T, Solutions

-----------------------------------------------------------------------------
LEMMA MinIs ==
  ASSUME NEW a \in Int, NEW b \in Int
  PROVE  Min({a, b}) = IF a <= b THEN a ELSE b
<1>1. Min({a, b}) = CHOOSE x \in {a, b} : \A y \in {a, b} : x =< y
  BY DEF Min
<1> DEFINE m == IF a <= b THEN a ELSE b
<1>2. m \in {a, b} /\ \A y \in {a, b} : m =< y
  OBVIOUS
<1>3. \A x \in {a, b} : (\A y \in {a, b} : x =< y) => x = m
  OBVIOUS
<1> QED
  BY <1>1, <1>2, <1>3

LEMMA MaxIs ==
  ASSUME NEW a \in Int, NEW b \in Int
  PROVE  Max({a, b}) = IF a <= b THEN b ELSE a
<1>1. Max({a, b}) = CHOOSE x \in {a, b} : \A y \in {a, b} : x >= y
  BY DEF Max
<1> DEFINE m == IF a <= b THEN b ELSE a
<1>2. m \in {a, b} /\ \A y \in {a, b} : m >= y
  OBVIOUS
<1>3. \A x \in {a, b} : (\A y \in {a, b} : x >= y) => x = m
  OBVIOUS
<1> QED
  BY <1>1, <1>2, <1>3

\* The quotient and the remainder are unique.
LEMMA DivisionIs ==
  ASSUME NEW k \in Nat \ {0}, NEW j \in Int, NEW r \in 0 .. k - 1
  PROVE  (k * j + r) % k = r /\ (k * j + r) \div k = j
<1> DEFINE x == k * j + r
           m == x % k
           d == x \div k
<1>1. x \in Int /\ m \in 0 .. k - 1 /\ d \in Int /\ x = k * d + m
  OBVIOUS
<1>2. x = k * j + r
  OBVIOUS
<1> HIDE DEF x, m, d
<1>3. j - d \in Int /\ k * (j - d) = m - r
  BY <1>1, <1>2
<1>4. j - d = 0
  <2> DEFINE e == j - d
  <2>1. e \in Int /\ k * e = m - r /\ m - r < k /\ m - r > -k
    BY <1>1, <1>3
  <2> HIDE DEF e
  <2>2. CASE e >= 1
    BY <2>1, <2>2
  <2>3. CASE e <= -1
    BY <2>1, <2>3
  <2> QED
    BY <2>1, <2>2, <2>3 DEF e
<1>5. j = d /\ m = r
  BY <1>1, <1>3, <1>4
<1> QED
  BY <1>5 DEF x, m, d

===============================================================================
