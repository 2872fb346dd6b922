-------------------------- MODULE PipelineGraphProofs --------------------------
(***************************************************************************)
(* The stage graph for any names, formats and bounds, of an application    *)
(* that names only stages of its own; and the graph it implements.         *)
(***************************************************************************)
EXTENDS PipelineGraph, NatRecursion, FiniteSetTheorems

-----------------------------------------------------------------------------
\* How often a value occurs in a list.
LEMMA CountIs ==
  ASSUME NEW T, NEW s \in Seq(T), NEW x
  PROVE  /\ Count(s, x) \in Nat
         /\ Count(s, x) = 0 <=> x \notin Elements(s)
<1> DEFINE P == {i \in DOMAIN s : s[i] = x}
<1>1. IsFiniteSet(P)
  <2>1. IsFiniteSet(1 .. Len(s))
    BY FS_Interval
  <2> QED
    BY <2>1, FS_Subset
<1>2. Cardinality(P) \in Nat /\ (Cardinality(P) = 0 <=> P = {})
  BY <1>1, FS_CardinalityType, FS_EmptySet
<1>3. P = {} <=> x \notin Elements(s)
  BY DEF Elements
<1> QED
  BY <1>2, <1>3 DEF Count

LEMMA CountAppend ==
  ASSUME NEW T, NEW s \in Seq(T), NEW e \in T, NEW x
  PROVE  Count(Append(s, e), x) = Count(s, x) + (IF e = x THEN 1 ELSE 0)
<1> DEFINE P == {i \in DOMAIN s : s[i] = x}
           a == Append(s, e)
           Q == {i \in DOMAIN a : a[i] = x}
<1>1. IsFiniteSet(P)
  <2>1. IsFiniteSet(1 .. Len(s))
    BY FS_Interval
  <2> QED
    BY <2>1, FS_Subset
<1>2. Q = IF e = x THEN P \cup {Len(s) + 1} ELSE P
  OBVIOUS
<1>3. Len(s) + 1 \notin P
  OBVIOUS
<1>4. Cardinality(P \cup {Len(s) + 1}) = Cardinality(P) + 1
  BY <1>1, <1>3, FS_AddElement
<1>5. Cardinality(P) \in Nat
  BY <1>1, FS_CardinalityType
<1>6. Count(a, x) = Cardinality(Q) /\ Count(s, x) = Cardinality(P)
  BY DEF Count
<1> HIDE DEF P, Q, a
<1>7. Count(a, x) = Count(s, x) + (IF e = x THEN 1 ELSE 0)
  BY <1>2, <1>4, <1>5, <1>6
<1> QED
  BY <1>7 DEF a

LEMMA AppendElements ==
  ASSUME NEW T, NEW s \in Seq(T), NEW e \in T
  PROVE  Elements(Append(s, e)) = Elements(s) \cup {e}
<1> DEFINE a == Append(s, e)
<1>1. /\ a \in Seq(T) /\ DOMAIN a = 1 .. Len(s) + 1 /\ DOMAIN s = 1 .. Len(s) /\ Len(s) \in Nat
      /\ a[Len(s) + 1] = e /\ \A i \in 1 .. Len(s) : a[i] = s[i]
  OBVIOUS
<1> HIDE DEF a
<1>2. Elements(a) = Elements(s) \cup {e}
  BY <1>1 DEF Elements
<1> QED
  BY <1>2 DEF a

\* Only() goes through its list; what it has kept after each element.
Sievings(T, s, S) ==
  {K \in [0 .. Len(s) -> Seq(T)] :
     /\ K[0] = <<>>
     /\ \A i \in 0 .. Len(s) - 1 :
          K[i + 1] = IF s[i + 1] \in S THEN Append(K[i], s[i + 1]) ELSE K[i]
     /\ Only(s, S) = K[Len(s)]}

LEMMA OnlySieves ==
  ASSUME NEW T, NEW s \in Seq(T), NEW S
  PROVE  Sievings(T, s, S) # {}
<1> DEFINE N == Len(s)
           E == Seq(T)
           F == [z \in Nat \X E |->
                   IF z[1] < N /\ s[z[1] + 1] \in S THEN Append(z[2], s[z[1] + 1]) ELSE z[2]]
           Equation(f) == f = [i \in 0 .. N |->
              IF i = 0 THEN <<>> ELSE IF s[i] \in S THEN Append(f[i - 1], s[i]) ELSE f[i - 1]]
<1>1. N \in Nat /\ \A i \in 1 .. N : s[i] \in T
  OBVIOUS
<1>2. <<>> \in E /\ \A q \in E, e \in T : Append(q, e) \in E
  OBVIOUS
<1>3. F \in [Nat \X E -> E]
  <2>1. ASSUME NEW z \in Nat \X E
        PROVE  (IF z[1] < N /\ s[z[1] + 1] \in S THEN Append(z[2], s[z[1] + 1]) ELSE z[2]) \in E
    <3>1. z[1] \in Nat /\ z[2] \in E
      OBVIOUS
    <3>2. CASE z[1] < N
      <4>1. s[z[1] + 1] \in T
        BY <1>1, <3>1, <3>2
      <4> HIDE DEF E
      <4> QED
        BY <1>2, <3>1, <4>1
    <3> QED
      BY <3>1, <3>2
  <2> HIDE DEF E
  <2> QED
    BY <2>1
<1> HIDE DEF E
<1>4. PICK g \in [0 .. N -> E] : g[0] = <<>> /\ \A i \in 0 .. N - 1 : g[i + 1] = F[<<i, g[i]>>]
  <2> HIDE DEF N, F
  <2>1. Solutions(N, E, <<>>, F) # {}
    BY <1>1, <1>2, <1>3, RecursionTo
  <2> QED
    BY <2>1 DEF Solutions
<1>5. \A i \in 0 .. N - 1 :
        g[i + 1] = IF s[i + 1] \in S THEN Append(g[i], s[i + 1]) ELSE g[i]
  <2> TAKE i \in 0 .. N - 1
  <2>1. i \in Nat /\ i < N /\ g[i] \in E
    BY <1>1
  <2>2. F[<<i, g[i]>>] = IF s[i + 1] \in S THEN Append(g[i], s[i + 1]) ELSE g[i]
    BY <2>1
  <2> QED
    BY <1>4, <2>2
<1>6. Equation(g)
  <2>1. \A i \in 0 .. N : g[i] = IF i = 0 THEN <<>>
           ELSE IF s[i] \in S THEN Append(g[i - 1], s[i]) ELSE g[i - 1]
    <3> TAKE i \in 0 .. N
    <3>1. CASE i = 0
      BY <1>4, <3>1
    <3>2. CASE i # 0
      <4>1. i - 1 \in 0 .. N - 1 /\ (i - 1) + 1 = i
        BY <1>1, <3>2
      <4> QED
        BY <1>5, <3>2, <4>1
    <3> QED
      BY <3>1, <3>2
  <2> QED
    BY <2>1
<1> DEFINE K == CHOOSE f : Equation(f)
<1>7. Equation(K)
  <2> HIDE DEF Equation
  <2> QED
    BY <1>6
<1>8. Only(s, S) = K[N]
  BY DEF Only
<1> HIDE DEF K
<1>9. K[0] = <<>>
  <2>1. 0 \in 0 .. N
    BY <1>1
  <2> QED
    BY <1>7, <2>1
<1>10. \A i \in 0 .. N - 1 :
         K[i + 1] = IF s[i + 1] \in S THEN Append(K[i], s[i + 1]) ELSE K[i]
  <2> TAKE i \in 0 .. N - 1
  <2>1. i + 1 \in 0 .. N /\ i + 1 # 0 /\ (i + 1) - 1 = i
    BY <1>1
  <2> QED
    BY <1>7, <2>1
<1>11. K \in [0 .. N -> E]
  <2> DEFINE U == {i \in 0 .. N : K[i] \in E}
  <2>1. 0 \in U
    BY <1>1, <1>2, <1>9
  <2>2. \A i \in 0 .. N - 1 : i \in U => i + 1 \in U
    <3> SUFFICES ASSUME NEW i \in 0 .. N - 1, K[i] \in E
                 PROVE  i + 1 \in 0 .. N /\ K[i + 1] \in E
      OBVIOUS
    <3>1. s[i + 1] \in T /\ i + 1 \in 0 .. N
      BY <1>1
    <3> QED
      BY <1>2, <1>10, <3>1
  <2> HIDE DEF U
  <2>3. 0 .. N \subseteq U
    BY <1>1, <2>1, <2>2, InductionTo
  <2> QED
    BY <1>7, <2>3 DEF U
<1> QED
  BY <1>8, <1>9, <1>10, <1>11 DEF E, Sievings

\* q is what is kept of p: each value of S as often as it was there, in the order in
\* which they were; and everything, if there is nothing else.
Keeps(S, p, q) ==
  /\ Len(q) <= Len(p)
  /\ \A x : Count(q, x) = IF x \in S THEN Count(p, x) ELSE 0
  /\ \A a, b \in DOMAIN q : a < b =>
       \E i, j \in DOMAIN p : i < j /\ q[a] = p[i] /\ q[b] = p[j]
  /\ Elements(p) \subseteq S => q = p

LEMMA KeepsOneMore ==
  ASSUME NEW T, NEW S, NEW p \in Seq(T), NEW q \in Seq(T), NEW e \in T, Keeps(S, p, q)
  PROVE  Keeps(S, Append(p, e), IF e \in S THEN Append(q, e) ELSE q)
<1> DEFINE pe == Append(p, e)
           qe == Append(q, e)
<1>1. /\ pe \in Seq(T) /\ DOMAIN pe = 1 .. Len(p) + 1 /\ DOMAIN p = 1 .. Len(p) /\ Len(p) \in Nat
      /\ pe[Len(p) + 1] = e /\ \A a \in 1 .. Len(p) : pe[a] = p[a]
  OBVIOUS
<1>2. /\ qe \in Seq(T) /\ DOMAIN qe = 1 .. Len(q) + 1 /\ DOMAIN q = 1 .. Len(q) /\ Len(q) \in Nat
      /\ qe[Len(q) + 1] = e /\ \A a \in 1 .. Len(q) : qe[a] = q[a]
  OBVIOUS
<1>3. \A x : /\ Count(pe, x) = Count(p, x) + (IF e = x THEN 1 ELSE 0)
             /\ Count(qe, x) = Count(q, x) + (IF e = x THEN 1 ELSE 0)
             /\ Count(p, x) \in Nat
  BY CountAppend, CountIs
<1>4. Elements(pe) = Elements(p) \cup {e}
  BY <1>1 DEF Elements
<1>5. \A a \in DOMAIN q : \E i \in DOMAIN p : q[a] = p[i]
  <2> TAKE a \in DOMAIN q
  <2>1. q[a] \in Elements(q)
    BY DEF Elements
  <2>2. Count(q, q[a]) # 0
    BY <2>1, CountIs
  <2>3. Count(p, q[a]) # 0
    BY <2>2 DEF Keeps
  <2>4. q[a] \in Elements(p)
    BY <2>3, CountIs
  <2> QED
    BY <2>4 DEF Elements
<1>6. (Elements(p) \subseteq S => q = p) /\ Len(q) <= Len(p)
  BY DEF Keeps
<1>7. \A a, b \in DOMAIN q : a < b =>
        \E i, j \in DOMAIN p : i < j /\ q[a] = p[i] /\ q[b] = p[j]
  BY DEF Keeps
<1>8. \A x : Count(q, x) = IF x \in S THEN Count(p, x) ELSE 0
  BY DEF Keeps
<1>9. CASE e \in S
  <2>1. \A x : Count(qe, x) = IF x \in S THEN Count(pe, x) ELSE 0
    BY <1>3, <1>8, <1>9
  <2>2. ASSUME NEW a \in DOMAIN qe, NEW b \in DOMAIN qe, a < b
        PROVE  \E i, j \in DOMAIN pe : i < j /\ qe[a] = pe[i] /\ qe[b] = pe[j]
    <3> HIDE DEF pe, qe
    <3>1. a \in DOMAIN q
      BY <1>2, <2>2
    <3>2. CASE b = Len(q) + 1
      <4>1. PICK i \in DOMAIN p : q[a] = p[i]
        BY <1>5, <3>1
      <4>2. i \in DOMAIN pe /\ Len(p) + 1 \in DOMAIN pe /\ i < Len(p) + 1
        BY <1>1
      <4> QED
        BY <1>1, <1>2, <3>1, <3>2, <4>1, <4>2
    <3>3. CASE b \in DOMAIN q
      <4>1. PICK i \in DOMAIN p, j \in DOMAIN p : i < j /\ q[a] = p[i] /\ q[b] = p[j]
        BY <1>7, <2>2, <3>1, <3>3
      <4>2. i \in DOMAIN pe /\ j \in DOMAIN pe
        BY <1>1
      <4> QED
        BY <1>1, <1>2, <3>1, <3>3, <4>1, <4>2
    <3> QED
      BY <1>2, <3>2, <3>3
  <2>3. Elements(pe) \subseteq S => qe = pe
    BY <1>4, <1>6
  <2>4. Len(qe) <= Len(pe)
    BY <1>6
  <2> HIDE DEF pe, qe
  <2>5. Keeps(S, pe, qe)
    BY <2>1, <2>2, <2>3, <2>4 DEF Keeps
  <2> QED
    BY <1>9, <2>5 DEF pe, qe
<1>10. CASE e \notin S
  <2>1. \A x : Count(q, x) = IF x \in S THEN Count(pe, x) ELSE 0
    BY <1>3, <1>8, <1>10
  <2>2. \A a, b \in DOMAIN q : a < b =>
          \E i, j \in DOMAIN pe : i < j /\ q[a] = pe[i] /\ q[b] = pe[j]
    <3> HIDE DEF pe, qe
    <3> SUFFICES ASSUME NEW a \in DOMAIN q, NEW b \in DOMAIN q, a < b
                 PROVE  \E i, j \in DOMAIN pe : i < j /\ q[a] = pe[i] /\ q[b] = pe[j]
      OBVIOUS
    <3>1. PICK i \in DOMAIN p, j \in DOMAIN p : i < j /\ q[a] = p[i] /\ q[b] = p[j]
      BY <1>7
    <3>2. i \in DOMAIN pe /\ j \in DOMAIN pe
      BY <1>1
    <3> QED
      BY <1>1, <3>1, <3>2
  <2>3. ~ (Elements(pe) \subseteq S)
    BY <1>4, <1>10
  <2>4. Len(q) <= Len(pe)
    BY <1>6
  <2> HIDE DEF pe, qe
  <2>5. Keeps(S, pe, q)
    BY <2>1, <2>2, <2>3, <2>4 DEF Keeps
  <2> QED
    BY <1>10, <2>5 DEF pe
<1> QED
  BY <1>9, <1>10

LEMMA OnlyIs ==
  ASSUME NEW T, NEW s \in Seq(T), NEW S
  PROVE  Only(s, S) \in Seq(T) /\ Keeps(S, s, Only(s, S))
<1>1. PICK K \in [0 .. Len(s) -> Seq(T)] :
           /\ K[0] = <<>>
           /\ \A i \in 0 .. Len(s) - 1 :
                K[i + 1] = IF s[i + 1] \in S THEN Append(K[i], s[i + 1]) ELSE K[i]
           /\ Only(s, S) = K[Len(s)]
  <2>1. Sievings(T, s, S) # {}
    BY OnlySieves
  <2> QED
    BY <2>1 DEF Sievings
<1> DEFINE N == Len(s)
           seen(i) == SubSeq(s, 1, i)
           U == {i \in 0 .. N : Keeps(S, seen(i), K[i])}
<1>2. N \in Nat /\ \A i \in 1 .. N : s[i] \in T
  OBVIOUS
<1>3. seen(0) = <<>> /\ seen(N) = s
  OBVIOUS
<1>4. \A i \in 0 .. N - 1 : seen(i) \in Seq(T) /\ seen(i + 1) = Append(seen(i), s[i + 1])
  OBVIOUS
<1> HIDE DEF seen
<1>5. 0 \in U
  <2>1. <<>> \in Seq(T) /\ Elements(<<>>) = {} /\ DOMAIN <<>> = {}
    BY DEF Elements
  <2>2. \A x : Count(<<>>, x) = 0
    BY <2>1, CountIs
  <2>3. Keeps(S, <<>>, <<>>)
    <3>1. Len(<<>>) <= Len(<<>>)
      OBVIOUS
    <3> QED
      BY <2>1, <2>2, <3>1 DEF Keeps
  <2> QED
    BY <1>1, <1>2, <1>3, <2>3
<1>6. \A i \in 0 .. N - 1 : i \in U => i + 1 \in U
  <2> SUFFICES ASSUME NEW i \in 0 .. N - 1, Keeps(S, seen(i), K[i])
               PROVE  i + 1 \in 0 .. N /\ Keeps(S, seen(i + 1), K[i + 1])
    OBVIOUS
  <2>1. i \in 0 .. N /\ i + 1 \in 0 .. N /\ i + 1 \in 1 .. N
    BY <1>2
  <2>2. K[i] \in Seq(T) /\ s[i + 1] \in T
    BY <1>2, <2>1
  <2>3. seen(i) \in Seq(T) /\ seen(i + 1) = Append(seen(i), s[i + 1])
    BY <1>4
  <2>4. K[i + 1] = IF s[i + 1] \in S THEN Append(K[i], s[i + 1]) ELSE K[i]
    BY <1>1
  <2>5. Keeps(S, Append(seen(i), s[i + 1]), IF s[i + 1] \in S THEN Append(K[i], s[i + 1]) ELSE K[i])
    BY <2>2, <2>3, KeepsOneMore
  <2> QED
    BY <2>1, <2>3, <2>4, <2>5, Zenon
<1> HIDE DEF U
<1>7. 0 .. N \subseteq U
  BY <1>2, <1>5, <1>6, InductionTo
<1>8. N \in U /\ N \in 0 .. N
  BY <1>2, <1>7
<1>9. Keeps(S, s, K[N]) /\ K[N] \in Seq(T)
  BY <1>1, <1>3, <1>8 DEF U
<1> QED
  BY <1>1, <1>9

LEMMA OnlyElements ==
  ASSUME NEW T, NEW s \in Seq(T), NEW S
  PROVE  Elements(Only(s, S)) = Elements(s) \cap S
<1>1. Only(s, S) \in Seq(T) /\ \A x : Count(Only(s, S), x) = IF x \in S THEN Count(s, x) ELSE 0
  BY OnlyIs DEF Keeps
<1> QED
  BY <1>1, CountIs

\* Without() takes out one value altogether and leaves the others.
LEMMA WithoutIs ==
  ASSUME NEW T, NEW s \in Seq(T), NEW n
  PROVE  /\ Without(s, n) \in Seq(T \ {n})
         /\ Elements(Without(s, n)) = Elements(s) \ {n}
         /\ n \notin Elements(s) => Without(s, n) = s
         /\ Len(Without(s, n)) <= Len(s)
<1> DEFINE w == Only(s, Elements(s) \ {n})
<1>1. w \in Seq(T) /\ Elements(w) = Elements(s) \ {n}
  BY OnlyIs, OnlyElements
<1>2. n \notin Elements(s) => w = s
  <2> SUFFICES ASSUME n \notin Elements(s) PROVE w = s
    OBVIOUS
  <2>1. Elements(s) \subseteq Elements(s) \ {n}
    OBVIOUS
  <2> QED
    BY <2>1, OnlyIs DEF Keeps
<1>3. Len(w) <= Len(s)
  BY OnlyIs DEF Keeps
<1> HIDE DEF w
<1>4. w \in Seq(T \ {n})
  <2>1. \A i \in 1 .. Len(w) : w[i] \in T /\ w[i] \in Elements(w)
    BY <1>1 DEF Elements
  <2>2. \A i \in 1 .. Len(w) : w[i] \in T \ {n}
    BY <1>1, <2>1
  <2> QED
    BY <1>1, <2>2
<1>5. Without(s, n) = w
  BY DEF Without, w
<1> QED
  BY <1>1, <1>2, <1>3, <1>4, <1>5

LEMMA WithoutCount ==
  ASSUME NEW T, NEW s \in Seq(T), NEW n, NEW x
  PROVE  Count(Without(s, n), x) = IF x = n THEN 0 ELSE Count(s, x)
<1> DEFINE S == Elements(s) \ {n}
<1>1. Count(Only(s, S), x) = IF x \in S THEN Count(s, x) ELSE 0
  BY OnlyIs DEF Keeps
<1>2. x \notin Elements(s) => Count(s, x) = 0
  BY CountIs
<1> QED
  BY <1>1, <1>2 DEF Without

-----------------------------------------------------------------------------
\* A search that only ever adds to a set has settled after as many rounds as there are
\* names: a round that adds nothing is the last, and the others add a name each.
LEMMA Settles ==
  ASSUME NEW T, IsFiniteSet(T), NEW G \in [SUBSET T -> SUBSET T],
         NEW W \in [0 .. Cardinality(T) -> SUBSET T],
         \A k \in 0 .. Cardinality(T) - 1 : W[k + 1] = G[W[k]],
         \A k \in 0 .. Cardinality(T) : W[k] \subseteq G[W[k]]
  PROVE  G[W[Cardinality(T)]] = W[Cardinality(T)]
<1> DEFINE N == Cardinality(T)
           U == {k \in 0 .. N : G[W[k]] = W[k] \/ Cardinality(W[k]) >= k}
<1>1. N \in Nat
  BY FS_CardinalityType
<1>2. \A S \in SUBSET T : IsFiniteSet(S) /\ Cardinality(S) \in Nat
  BY FS_Subset, FS_CardinalityType
<1>3. \A S \in SUBSET T : \A R \in SUBSET S : R # S => Cardinality(R) < Cardinality(S)
  <2> TAKE S \in SUBSET T
  <2> TAKE R \in SUBSET S
  <2>1. IsFiniteSet(S)
    BY <1>2
  <2> QED
    BY <2>1, FS_Subset, FS_CardinalityType
<1> HIDE DEF N
<1>4. \A k \in 0 .. N : W[k] \in SUBSET T /\ G[W[k]] \in SUBSET T /\ W[k] \subseteq G[W[k]]
  BY DEF N
<1>5. 0 \in U
  <2>1. 0 \in 0 .. N
    BY <1>1
  <2>2. Cardinality(W[0]) \in Nat
    BY <1>2, <1>4, <2>1
  <2> QED
    BY <2>1, <2>2
<1>6. \A k \in 0 .. N - 1 : k \in U => k + 1 \in U
  <2> SUFFICES ASSUME NEW k \in 0 .. N - 1, k \in U PROVE k + 1 \in U
    OBVIOUS
  <2>1. k \in 0 .. N /\ k + 1 \in 0 .. N /\ k \in Nat
    BY <1>1
  <2>2. W[k + 1] = G[W[k]]
    BY DEF N
  <2>3. CASE G[W[k]] = W[k]
    BY <2>1, <2>2, <2>3
  <2>4. CASE G[W[k]] # W[k]
    <3>1. Cardinality(W[k]) >= k
      BY <2>4
    <3>2. Cardinality(W[k]) < Cardinality(W[k + 1])
      BY <1>3, <1>4, <2>1, <2>2, <2>4
    <3>3. Cardinality(W[k]) \in Nat /\ Cardinality(W[k + 1]) \in Nat
      BY <1>2, <1>4, <2>1
    <3>4. Cardinality(W[k + 1]) >= k + 1
      BY <2>1, <3>1, <3>2, <3>3
    <3> QED
      BY <2>1, <3>4
  <2> QED
    BY <2>3, <2>4
<1> HIDE DEF U
<1>7. N \in U
  <2>1. 0 .. N \subseteq U
    BY <1>1, <1>5, <1>6, InductionTo
  <2> QED
    BY <1>1, <2>1
<1>8. ASSUME Cardinality(W[N]) >= N PROVE W[N] = T
  <2>1. N \in 0 .. N
    BY <1>1
  <2>2. W[N] \in SUBSET T
    BY <1>4, <2>1
  <2>3. W[N] # T => Cardinality(W[N]) < Cardinality(T)
    BY <1>3, <2>2
  <2>4. Cardinality(W[N]) \in Nat
    BY <1>2, <2>2
  <2> QED
    BY <1>1, <1>8, <2>3, <2>4 DEF N
<1>9. N \in 0 .. N
  BY <1>1
<1>10. W[N] = T => G[W[N]] = W[N]
  <2>1. G[W[N]] \subseteq T /\ W[N] \subseteq G[W[N]]
    BY <1>4, <1>9
  <2> QED
    BY <2>1, Zenon
<1>11. G[W[N]] = W[N]
  BY <1>7, <1>8, <1>10 DEF U
<1> QED
  BY <1>11 DEF N

\* The names that edges lead to from those of near that are in via.
Beyond(outs, via, near) == UNION {Elements(outs[m]) : m \in near \cap via}

Searches(St, outs, first, via) ==
  {W \in [0 .. Cardinality(St) -> SUBSET St] :
     /\ W[0] = first
     /\ \A k \in 0 .. Cardinality(St) - 1 : W[k + 1] = W[k] \cup Beyond(outs, via, W[k])
     /\ Reached(outs, first, via) = W[Cardinality(St)]}

LEMMA ReachedSearches ==
  ASSUME NEW St, IsFiniteSet(St), NEW outs \in [St -> Seq(St)],
         NEW first \in SUBSET St, NEW via \in SUBSET St
  PROVE  Searches(St, outs, first, via) # {}
<1> DEFINE N == Cardinality(St)
           E == SUBSET St
           F == [z \in Nat \X E |-> z[2] \cup Beyond(outs, via, z[2])]
           Equation(f) == f = [k \in 0 .. N |->
              IF k = 0 THEN first
              ELSE f[k - 1] \cup UNION {Elements(outs[m]) : m \in f[k - 1] \cap via}]
<1>1. N \in Nat
  BY FS_CardinalityType
<1>2. \A S \in E : S \cup Beyond(outs, via, S) \in E
  BY DEF Beyond, Elements
<1>3. F \in [Nat \X E -> E]
  <2> HIDE DEF E
  <2> QED
    BY <1>2
<1> HIDE DEF E
<1>4. PICK g \in [0 .. N -> E] : g[0] = first /\ \A k \in 0 .. N - 1 : g[k + 1] = F[<<k, g[k]>>]
  <2>1. first \in E
    BY DEF E
  <2> HIDE DEF N, F
  <2>2. Solutions(N, E, first, F) # {}
    BY <1>1, <1>3, <2>1, RecursionTo
  <2> QED
    BY <2>2 DEF Solutions
<1>5. \A k \in 0 .. N - 1 : g[k + 1] = g[k] \cup Beyond(outs, via, g[k])
  <2> TAKE k \in 0 .. N - 1
  <2>1. k \in Nat /\ g[k] \in E
    BY <1>1
  <2> QED
    BY <1>4, <2>1
<1>6. Equation(g)
  <2>1. \A k \in 0 .. N : g[k] =
           IF k = 0 THEN first
           ELSE g[k - 1] \cup UNION {Elements(outs[m]) : m \in g[k - 1] \cap via}
    <3> TAKE k \in 0 .. N
    <3>1. CASE k = 0
      BY <1>4, <3>1
    <3>2. CASE k # 0
      <4>1. k - 1 \in 0 .. N - 1 /\ (k - 1) + 1 = k
        BY <1>1, <3>2
      <4>2. g[k] = g[k - 1] \cup Beyond(outs, via, g[k - 1])
        BY <1>5, <4>1
      <4> QED
        BY <3>2, <4>2 DEF Beyond
    <3> QED
      BY <3>1, <3>2
  <2> QED
    BY <2>1
<1> DEFINE W == CHOOSE f : Equation(f)
<1>7. Equation(W)
  <2> HIDE DEF Equation
  <2> QED
    BY <1>6
<1>8. Reached(outs, first, via) = W[N]
  <2>1. DOMAIN outs = St
    OBVIOUS
  <2> QED
    BY <2>1 DEF Reached
<1> HIDE DEF W
<1>9. W[0] = first
  <2>1. 0 \in 0 .. N
    BY <1>1
  <2> QED
    BY <1>7, <2>1
<1>10. \A k \in 0 .. N - 1 : W[k + 1] = W[k] \cup Beyond(outs, via, W[k])
  <2> TAKE k \in 0 .. N - 1
  <2>1. k + 1 \in 0 .. N /\ k + 1 # 0 /\ (k + 1) - 1 = k
    BY <1>1
  <2> QED
    BY <1>7, <2>1 DEF Beyond
<1>11. W \in [0 .. N -> E]
  <2> DEFINE U == {k \in 0 .. N : W[k] \in E}
  <2>1. 0 \in U
    BY <1>1, <1>9 DEF E
  <2>2. \A k \in 0 .. N - 1 : k \in U => k + 1 \in U
    <3> SUFFICES ASSUME NEW k \in 0 .. N - 1, W[k] \in E PROVE k + 1 \in 0 .. N /\ W[k + 1] \in E
      OBVIOUS
    <3>1. k + 1 \in 0 .. N
      BY <1>1
    <3> QED
      BY <1>2, <1>10, <3>1
  <2> HIDE DEF U
  <2>3. 0 .. N \subseteq U
    BY <1>1, <2>1, <2>2, InductionTo
  <2> QED
    BY <1>7, <2>3 DEF U
<1> QED
  BY <1>8, <1>9, <1>10, <1>11 DEF E, Searches

\* A search finds the least set that has the names it began with and whatever edges lead
\* to from those that it goes on from.
LEMMA ReachedIs ==
  ASSUME NEW St, IsFiniteSet(St), NEW outs \in [St -> Seq(St)],
         NEW first \in SUBSET St, NEW via \in SUBSET St
  PROVE  /\ first \subseteq Reached(outs, first, via)
         /\ Reached(outs, first, via) \subseteq St
         /\ \A m \in Reached(outs, first, via) \cap via :
              Elements(outs[m]) \subseteq Reached(outs, first, via)
         /\ \A C : first \subseteq C /\ (\A m \in C \cap via : Elements(outs[m]) \subseteq C)
                     => Reached(outs, first, via) \subseteq C
<1>1. PICK W \in Searches(St, outs, first, via) : TRUE
  BY ReachedSearches
<1> DEFINE N == Cardinality(St)
           G == [S \in SUBSET St |-> S \cup Beyond(outs, via, S)]
<1>2. /\ W \in [0 .. N -> SUBSET St] /\ W[0] = first
      /\ \A k \in 0 .. N - 1 : W[k + 1] = W[k] \cup Beyond(outs, via, W[k])
      /\ Reached(outs, first, via) = W[N]
  BY DEF Searches
<1>3. N \in Nat /\ N \in 0 .. N
  BY FS_CardinalityType
<1>4. \A S \in SUBSET St : S \cup Beyond(outs, via, S) \in SUBSET St
  BY DEF Beyond, Elements
<1>5. W[N] \cup Beyond(outs, via, W[N]) = W[N]
  <2>1. G \in [SUBSET St -> SUBSET St]
    BY <1>4
  <2>2. \A S \in SUBSET St : G[S] = S \cup Beyond(outs, via, S)
    OBVIOUS
  <2> HIDE DEF G
  <2>3. \A k \in 0 .. N : W[k] \in SUBSET St /\ W[k] \subseteq G[W[k]]
    BY <1>2, <2>2
  <2>4. \A k \in 0 .. N - 1 : W[k + 1] = G[W[k]]
    <3> TAKE k \in 0 .. N - 1
    <3>1. k \in 0 .. N
      BY <1>3
    <3> QED
      BY <1>2, <2>2, <2>3, <3>1
  <2>5. G[W[N]] = W[N]
    BY <1>2, <2>1, <2>3, <2>4, Settles
  <2> QED
    BY <1>3, <2>2, <2>3, <2>5
<1>6. \A m \in W[N] \cap via : Elements(outs[m]) \subseteq W[N]
  BY <1>5 DEF Beyond
<1>7. first \subseteq W[N]
  <2> DEFINE U == {k \in 0 .. N : first \subseteq W[k]}
  <2>1. 0 \in U
    BY <1>2, <1>3
  <2>2. \A k \in 0 .. N - 1 : k \in U => k + 1 \in U
    BY <1>2, <1>3
  <2> HIDE DEF U
  <2>3. 0 .. N \subseteq U
    BY <1>3, <2>1, <2>2, InductionTo
  <2> QED
    BY <1>3, <2>3 DEF U
<1>8. ASSUME NEW C, first \subseteq C, \A m \in C \cap via : Elements(outs[m]) \subseteq C
      PROVE  W[N] \subseteq C
  <2> DEFINE U == {k \in 0 .. N : W[k] \subseteq C}
  <2>1. 0 \in U
    BY <1>2, <1>3, <1>8
  <2>2. \A k \in 0 .. N - 1 : k \in U => k + 1 \in U
    <3> SUFFICES ASSUME NEW k \in 0 .. N - 1, W[k] \subseteq C
                 PROVE  k + 1 \in 0 .. N /\ W[k + 1] \subseteq C
      OBVIOUS
    <3>1. Beyond(outs, via, W[k]) \subseteq C
      BY <1>8 DEF Beyond
    <3> QED
      BY <1>2, <1>3, <3>1
  <2> HIDE DEF U
  <2>3. 0 .. N \subseteq U
    BY <1>3, <2>1, <2>2, InductionTo
  <2> QED
    BY <1>3, <2>3 DEF U
<1>9. W[N] \subseteq St
  BY <1>2, <1>3
<1> QED
  BY <1>2, <1>6, <1>7, <1>8, <1>9

-----------------------------------------------------------------------------
\* No set of stages in which each is fed by another of the set: the graph, converters
\* included, has no cycle.
Grounded ==
  \A S \in SUBSET stages :
    (\A n \in S : \E m \in S : n \in Elements(outEdges[m])) => S = {}

\* Kahn's algorithm takes out every stage of such a graph.
LEMMA AllAreVisited ==
  ASSUME IsFiniteSet(stages), outEdges \in [stages -> Seq(stages)], Grounded
  PROVE  visited = stages
<1> DEFINE preds(n) == {m \in stages : n \in Elements(outEdges[m])}
           free(S) == {n \in stages : preds(n) \subseteq S}
           N == Cardinality(stages)
           E == SUBSET stages
           F == [z \in Nat \X E |-> free(z[2])]
           G == [S \in E |-> free(S)]
           Equation(f) == f = [k \in 0 .. N |-> IF k = 0 THEN {} ELSE free(f[k - 1])]
           Expanded(f) == f = [k \in 0 .. N |-> IF k = 0 THEN {}
              ELSE {n \in stages : {m \in stages : n \in Elements(outEdges[m])} \subseteq f[k - 1]}]
<1>1. N \in Nat /\ N \in 0 .. N /\ 0 \in 0 .. N
  BY FS_CardinalityType
<1>2. stages \cup UNION {Elements(outEdges[m]) : m \in stages} = stages
  BY DEF Elements
<1>3. visited = (CHOOSE f : Expanded(f))[N]
  BY <1>2 DEF visited
<1>4. visited = (CHOOSE f : Equation(f))[N]
  BY <1>3
<1> HIDE DEF Expanded
<1>5. /\ F \in [Nat \X E -> E] /\ \A k \in Nat, S \in E : F[<<k, S>>] = free(S)
      /\ G \in [E -> E] /\ \A S \in E : G[S] = free(S)
  OBVIOUS
<1>6. {} \in E /\ \A S \in E : free(S) \in E
  OBVIOUS
<1>7. \A R, S \in E : R \subseteq S => free(R) \subseteq free(S)
  OBVIOUS
<1> HIDE DEF F, G, N
<1>8. \A n \in stages, S \in E : n \in free(S) <=> preds(n) \subseteq S
  OBVIOUS
<1>9. \A S \in E : free(S) \subseteq S => S = stages
  <2> SUFFICES ASSUME NEW S \in E, free(S) \subseteq S PROVE stages \ S = {}
    OBVIOUS
  <2>1. \A n \in stages \ S : \E m \in stages \ S : n \in Elements(outEdges[m])
    <3> SUFFICES ASSUME NEW n \in stages \ S
                 PROVE  \E m \in stages \ S : n \in Elements(outEdges[m])
      OBVIOUS
    <3>1. ~ (preds(n) \subseteq S)
      BY <1>8
    <3> QED
      BY <3>1
  <2>2. stages \ S \in SUBSET stages
    OBVIOUS
  <2> QED
    BY <2>1, <2>2, Zenon DEF Grounded
<1> HIDE DEF free, preds, E
<1>10. PICK g \in [0 .. N -> E] : g[0] = {} /\ \A k \in 0 .. N - 1 : g[k + 1] = F[<<k, g[k]>>]
  <2>1. Solutions(N, E, {}, F) # {}
    BY <1>1, <1>5, <1>6, RecursionTo
  <2> QED
    BY <2>1 DEF Solutions
<1>11. \A k \in 0 .. N - 1 : g[k + 1] = free(g[k])
  <2> TAKE k \in 0 .. N - 1
  <2>1. k \in Nat /\ g[k] \in E
    BY <1>1
  <2> QED
    BY <1>5, <1>10, <2>1
<1>12. Equation(g)
  <2>1. \A k \in 0 .. N : g[k] = IF k = 0 THEN {} ELSE free(g[k - 1])
    <3> TAKE k \in 0 .. N
    <3>1. CASE k = 0
      BY <1>10, <3>1
    <3>2. CASE k # 0
      <4>1. k - 1 \in 0 .. N - 1 /\ (k - 1) + 1 = k
        BY <1>1, <3>2
      <4> QED
        BY <1>11, <3>2, <4>1
    <3> QED
      BY <3>1, <3>2
  <2> QED
    BY <2>1
<1> DEFINE W == CHOOSE f : Equation(f)
<1>13. Equation(W)
  <2> HIDE DEF Equation
  <2> QED
    BY <1>12
<1>14. visited = W[N]
  BY <1>4
<1> HIDE DEF W
<1>15. W[0] = {}
  BY <1>1, <1>13
<1>16. \A k \in 0 .. N - 1 : W[k + 1] = free(W[k])
  <2> TAKE k \in 0 .. N - 1
  <2>1. k + 1 \in 0 .. N /\ k + 1 # 0 /\ (k + 1) - 1 = k
    BY <1>1
  <2> QED
    BY <1>13, <2>1
<1>17. \A k \in 0 .. N : W[k] \in E /\ W[k] \subseteq free(W[k])
  <2> DEFINE U == {k \in 0 .. N : W[k] \in E /\ W[k] \subseteq free(W[k])}
  <2>1. 0 \in U
    BY <1>1, <1>6, <1>15
  <2>2. \A k \in 0 .. N - 1 : k \in U => k + 1 \in U
    <3> SUFFICES ASSUME NEW k \in 0 .. N - 1, W[k] \in E, W[k] \subseteq free(W[k])
                 PROVE  k + 1 \in 0 .. N /\ W[k + 1] \in E /\ W[k + 1] \subseteq free(W[k + 1])
      OBVIOUS
    <3>1. k + 1 \in 0 .. N
      BY <1>1
    <3> QED
      BY <1>6, <1>7, <1>16, <3>1
  <2> HIDE DEF U
  <2>3. 0 .. N \subseteq U
    BY <1>1, <2>1, <2>2, InductionTo
  <2> QED
    BY <2>3 DEF U
<1>18. W \in [0 .. N -> E]
  BY <1>13, <1>17
<1>19. G[W[N]] = W[N]
  <2>1. \A k \in 0 .. N - 1 : W[k + 1] = G[W[k]]
    <3> TAKE k \in 0 .. N - 1
    <3>1. k \in 0 .. N
      BY <1>1
    <3> QED
      BY <1>5, <1>16, <1>17, <3>1
  <2>2. \A k \in 0 .. N : W[k] \subseteq G[W[k]]
    BY <1>5, <1>17
  <2> QED
    BY <1>5, <1>18, <2>1, <2>2, Settles DEF N, E
<1>20. free(W[N]) \subseteq W[N] /\ W[N] \in E
  BY <1>1, <1>5, <1>17, <1>19
<1> QED
  BY <1>9, <1>14, <1>20

-----------------------------------------------------------------------------
(***************************************************************************)
(* The graph of an application that names its own stages only.             *)
(***************************************************************************)
KindSet == {"fmt", "resampler", "chmix"}
Before == {<<"fmt", "resampler">>, <<"fmt", "chmix">>, <<"resampler", "chmix">>}
Converters == Users \X Users \X KindSet

Typed ==
  /\ state \in {"Created", "Running", "Stopped", "Reset"}
  /\ IsFiniteSet(stages) /\ stages \subseteq Users \cup Converters
  /\ DOMAIN format = stages
  /\ outEdges \in [stages -> Seq(stages)] /\ inEdges \in [stages -> Seq(stages)]
  /\ \A n \in stages : Len(outEdges[n]) <= MaxEdges
  /\ Cardinality(entry) <= 1 /\ Cardinality(exit) <= 1

EdgesCounted ==
  \A n, m \in stages :
    /\ Count(inEdges[n], m) <= Count(outEdges[m], n)
    /\ n \in Users => Count(inEdges[n], m) = Count(outEdges[m], n)

\* An edge of a converter leads to the stage it was made for or to a converter further on
\* in the chain; an edge to a converter comes from the stage it was made for or from one
\* before it.
Leads(n, m) ==
  IF n \in Users THEN m \in Users \/ (m \in Converters /\ m[1] = n)
  ELSE m = n[2] \/ (m \in Converters /\ m[1] = n[1] /\ m[2] = n[2] /\ <<n[3], m[3]>> \in Before)

EdgeShape == \A n \in stages : \A m \in Elements(outEdges[n]) : Leads(n, m)

IInv == Typed /\ EdgesCounted /\ EdgeShape /\ Grounded /\ WiringMatchesEdges

LEMMA ConverterIsNoUser ==
  /\ Users \cap Converters = {}
  /\ \A n \in Converters : /\ n[1] \in Users /\ n[2] \in Users /\ n[3] \in KindSet
                           /\ n = <<n[1], n[2], n[3]>>
  /\ \A s, d \in Users, k \in KindSet : <<s, d, k>> \in Converters
<1>1. \A s, d \in Users, k \in KindSet : <<s, d, k>> \notin Users
  BY NamesAssumption DEF KindSet
<1>2. \A n \in Converters : \E s, d \in Users, k \in KindSet : n = <<s, d, k>>
  BY DEF Converters
<1>3. \A s, d \in Users, k \in KindSet : <<s, d, k>> \in Converters
  BY DEF Converters
<1> QED
  BY <1>1, <1>2, <1>3

\* The route of a connection: from s through converters, in the order of their kinds, to d.
IsRoute(P, s, d) ==
  /\ P \in Seq(Users \cup Converters) /\ Len(P) >= 2
  /\ P[1] = s /\ P[Len(P)] = d
  /\ \A i \in 2 .. Len(P) - 1 : \E k \in KindSet : P[i] = <<s, d, k>>
  /\ \A i, j \in 2 .. Len(P) - 1 : i < j => <<P[i][3], P[j][3]>> \in Before

LEMMA NeedsIs ==
  ASSUME NEW s, NEW d
  PROVE  /\ needs(s, d) \in Seq(KindSet)
         /\ \A a, b \in DOMAIN needs(s, d) : a < b => <<needs(s, d)[a], needs(s, d)[b]>> \in Before
<1> DEFINE S == {k \in Elements(Kinds) : /\ format[s].output[k] # Unset
                                         /\ format[d].input[k] # Unset
                                         /\ format[s].output[k] # format[d].input[k]}
           q == Only(Kinds, S)
<1>1. needs(s, d) = q
  BY DEF needs
<1> HIDE DEF S
<1>2. Kinds \in Seq(KindSet) /\ DOMAIN Kinds = 1 .. 3
  BY DEF Kinds, KindSet
<1>3. Kinds[1] = "fmt" /\ Kinds[2] = "resampler" /\ Kinds[3] = "chmix"
  BY DEF Kinds
<1>4. q \in Seq(KindSet) /\ Keeps(S, Kinds, q)
  BY <1>2, OnlyIs
<1>5. \A i, j \in 1 .. 3 : i < j => <<Kinds[i], Kinds[j]>> \in Before
  BY <1>3 DEF Before
<1>6. \A a, b \in DOMAIN q : a < b =>
        \E i, j \in 1 .. 3 : i < j /\ q[a] = Kinds[i] /\ q[b] = Kinds[j]
  BY <1>2, <1>4 DEF Keeps
<1> HIDE DEF q
<1>7. \A a, b \in DOMAIN q : a < b => <<q[a], q[b]>> \in Before
  BY <1>5, <1>6
<1> QED
  BY <1>1, <1>4, <1>7

LEMMA RouteIs ==
  ASSUME NEW s \in Users, NEW d \in Users
  PROVE  IsRoute(route(s, d), s, d)
<1> DEFINE q == needs(s, d)
           c == [i \in DOMAIN q |-> <<s, d, q[i]>>]
           P == <<s>> \o c \o <<d>>
           V == Users \cup Converters
<1>1. /\ q \in Seq(KindSet) /\ \A a, b \in DOMAIN q : a < b => <<q[a], q[b]>> \in Before
      /\ DOMAIN q = 1 .. Len(q) /\ Len(q) \in Nat
  BY NeedsIs
<1>2. route(s, d) = P
  BY DEF route
<1> HIDE DEF q
<1>3. c \in Seq(V) /\ Len(c) = Len(q) /\ \A i \in 1 .. Len(q) : c[i] = <<s, d, q[i]>>
  <2>1. \A i \in 1 .. Len(q) : <<s, d, q[i]>> \in V
    BY <1>1, ConverterIsNoUser
  <2> QED
    BY <1>1, <2>1
<1> HIDE DEF c
<1>4. <<s>> \in Seq(V) /\ <<d>> \in Seq(V)
  OBVIOUS
<1>5. /\ P \in Seq(V) /\ Len(P) = Len(q) + 2 /\ P[1] = s /\ P[Len(q) + 2] = d
      /\ \A i \in 2 .. Len(q) + 1 : P[i] = c[i - 1]
  <2> HIDE DEF V
  <2> QED
    BY <1>1, <1>3, <1>4
<1> HIDE DEF P
<1>6. Len(P) - 1 = Len(q) + 1 /\ Len(P) >= 2 /\ P[Len(P)] = d
  BY <1>1, <1>5
<1>7. \A i \in 2 .. Len(q) + 1 : i - 1 \in 1 .. Len(q) /\ P[i] = <<s, d, q[i - 1]>>
  BY <1>1, <1>3, <1>5
<1>8. \A i \in 2 .. Len(P) - 1 : \E k \in KindSet : P[i] = <<s, d, k>>
  <2> TAKE i \in 2 .. Len(P) - 1
  <2>1. i - 1 \in 1 .. Len(q) /\ P[i] = <<s, d, q[i - 1]>>
    BY <1>6, <1>7
  <2>2. q[i - 1] \in KindSet
    BY <1>1, <2>1
  <2> QED
    BY <2>1, <2>2
<1>9. \A i, j \in 2 .. Len(P) - 1 : i < j => <<P[i][3], P[j][3]>> \in Before
  <2> SUFFICES ASSUME NEW i \in 2 .. Len(P) - 1, NEW j \in 2 .. Len(P) - 1, i < j
               PROVE  <<P[i][3], P[j][3]>> \in Before
    OBVIOUS
  <2>1. /\ i - 1 \in DOMAIN q /\ P[i] = <<s, d, q[i - 1]>>
        /\ j - 1 \in DOMAIN q /\ P[j] = <<s, d, q[j - 1]>> /\ i - 1 < j - 1
    BY <1>1, <1>6, <1>7
  <2>2. <<q[i - 1], q[j - 1]>> \in Before
    BY <1>1, <2>1
  <2> QED
    BY <2>1, <2>2
<1> QED
  BY <1>2, <1>5, <1>6, <1>8, <1>9 DEF IsRoute

\* No stage is on a route twice.
LEMMA RouteOnce ==
  ASSUME NEW s \in Users, NEW d \in Users, s # d, NEW P, IsRoute(P, s, d),
         NEW i \in 1 .. Len(P), NEW j \in 1 .. Len(P), P[i] = P[j]
  PROVE  i = j
<1>1. Len(P) \in Nat /\ Len(P) >= 2 /\ P[1] = s /\ P[Len(P)] = d
  BY DEF IsRoute
<1>2. \A h \in 2 .. Len(P) - 1 : P[h] \notin Users
  <2> TAKE h \in 2 .. Len(P) - 1
  <2>1. PICK k \in KindSet : P[h] = <<s, d, k>>
    BY DEF IsRoute
  <2>2. P[h] \in Converters
    BY <2>1, ConverterIsNoUser
  <2> QED
    BY <2>2, ConverterIsNoUser
<1>3. \A g, h \in 2 .. Len(P) - 1 : g < h => P[g] # P[h]
  <2> SUFFICES ASSUME NEW g \in 2 .. Len(P) - 1, NEW h \in 2 .. Len(P) - 1, g < h, P[g] = P[h]
               PROVE  FALSE
    OBVIOUS
  <2>1. <<P[g][3], P[g][3]>> \in Before
    BY DEF IsRoute
  <2> QED
    BY <2>1 DEF Before
<1>4. \A h \in 1 .. Len(P) : h = 1 \/ h = Len(P) \/ h \in 2 .. Len(P) - 1
  BY <1>1
<1>5. CASE i = 1 \/ i = Len(P) \/ j = 1 \/ j = Len(P)
  BY <1>1, <1>2, <1>4, <1>5
<1>6. CASE i \in 2 .. Len(P) - 1 /\ j \in 2 .. Len(P) - 1
  <2>1. i < j \/ j < i \/ i = j
    BY <1>1
  <2> QED
    BY <1>3, <1>6, <2>1
<1> QED
  BY <1>4, <1>5, <1>6

\* What is between the ends of a route are converters.
LEMMA RouteMembers ==
  ASSUME NEW s \in Users, NEW d \in Users, NEW P, IsRoute(P, s, d)
  PROVE  \A i \in 2 .. Len(P) - 1 :
           P[i] \in Converters /\ P[i] \notin Users /\ P[i][1] = s /\ P[i][2] = d
<1> TAKE i \in 2 .. Len(P) - 1
<1>1. PICK k \in KindSet : P[i] = <<s, d, k>>
  BY DEF IsRoute
<1>2. P[i] \in Converters
  BY <1>1, ConverterIsNoUser
<1> QED
  BY <1>1, <1>2, ConverterIsNoUser

LEMMA RouteOnceAll ==
  ASSUME NEW s \in Users, NEW d \in Users, s # d, NEW P, IsRoute(P, s, d)
  PROVE  \A i, j \in 1 .. Len(P) : P[i] = P[j] => i = j
BY RouteOnce

\* The edges that leave n before a connection, none if there is no such stage.
OutsBefore(n) == IF n \in stages THEN outEdges[n] ELSE <<>>

\* What connectStages() does, told along the route.
Connected(s, d, P) ==
  /\ s \in stages \cap Users /\ d \in stages \cap Users /\ s # d /\ s \notin Downstream(d)
  /\ IsRoute(P, s, d)
  /\ stages' = stages \cup Elements(P)
  /\ DOMAIN format' = stages'
  /\ outEdges' = [n \in stages' |-> outEdges'[n]] /\ inEdges' = [n \in stages' |-> inEdges'[n]]
  /\ \A i \in 1 .. Len(P) - 1 :
       outEdges'[P[i]] = Append(OutsBefore(P[i]), P[i + 1]) /\ Len(OutsBefore(P[i])) < MaxEdges
  /\ \A n \in stages' : n \notin {P[i] : i \in 1 .. Len(P) - 1} =>
       n \in stages /\ outEdges'[n] = outEdges[n]
  /\ inEdges'[d] = Append(inEdges[d], P[Len(P) - 1])
  /\ \A n \in stages \ {d} : inEdges'[n] = inEdges[n]
  /\ \A i \in 2 .. Len(P) - 1 : P[i] \notin stages => inEdges'[P[i]] = <<P[i - 1]>>
  /\ next' = outEdges'
  /\ UNCHANGED <<state, entry, exit>>

LEMMA ConnectIs ==
  ASSUME IInv, NEW s \in stages \cap Users, NEW d \in stages \cap Users, connectStages(s, d)
  PROVE  Connected(s, d, route(s, d))
<1> DEFINE path == route(s, d)
           L == Len(path)
           at(n) == CHOOSE i \in DOMAIN path : path[i] = n
           OnPath == Elements(path)
           outs(n) == IF n \in stages THEN outEdges[n] ELSE <<>>
           through(n) == Append(outs(n), path[at(n) + 1])
           single(n, f) == [NoFormat EXCEPT ![n[3]] = f[n[3]]]
<1>1. /\ s # d /\ d \notin Elements(outEdges[s]) /\ ~wouldCreateCycle(s, d)
      /\ \A n \in OnPath \ {d} : Len(outs(n)) < MaxEdges
      /\ stages' = stages \cup OnPath
      /\ format' = [n \in stages' |->
           IF n \in stages THEN format[n]
           ELSE [input |-> single(n, format[s].output), output |-> single(n, format[d].input)]]
      /\ outEdges' = [n \in stages' |-> IF n \in OnPath \ {d} THEN through(n) ELSE outEdges[n]]
      /\ inEdges' = [n \in stages' |->
           IF n = d THEN Append(inEdges[d], path[L - 1])
           ELSE IF n \in stages THEN inEdges[n] ELSE <<path[at(n) - 1]>>]
      /\ next' = [n \in stages' |->
           IF n \in OnPath \ {d}
           THEN wireStageConnections(through(n), stages \cup {path[i] : i \in 1 .. at(n) + 1},
                                     IF n \in stages THEN next[n] ELSE <<>>)
           ELSE next[n]]
      /\ UNCHANGED <<state, entry, exit>>
  BY DEF connectStages
<1>2. IsRoute(path, s, d)
  BY RouteIs
<1>3. /\ path \in Seq(Users \cup Converters) /\ L \in Nat /\ L >= 2 /\ DOMAIN path = 1 .. L
      /\ path[1] = s /\ path[L] = d
  BY <1>2 DEF IsRoute
<1> HIDE DEF path, single
<1>4. \A i, j \in 1 .. L : path[i] = path[j] => i = j
  BY <1>1, <1>2, RouteOnceAll
<1>5. \A i \in 1 .. L : at(path[i]) = i
  BY <1>3, <1>4
<1> HIDE DEF at
<1>6. \A i \in 1 .. L - 1 : i \in 1 .. L /\ i + 1 \in 1 .. L /\ path[i] \in OnPath \ {d}
  BY <1>3, <1>4 DEF Elements
<1>7. \A n \in OnPath \ {d} : \E i \in 1 .. L - 1 : n = path[i]
  BY <1>3 DEF Elements
<1>8. OnPath \subseteq stages'
  BY <1>1
<1> HIDE DEF OnPath
<1>9. \A i \in 1 .. L - 1 : through(path[i]) = Append(OutsBefore(path[i]), path[i + 1])
  BY <1>5, <1>6 DEF OutsBefore
<1>10. \A i \in 1 .. L - 1 : outEdges'[path[i]] = Append(OutsBefore(path[i]), path[i + 1])
  BY <1>1, <1>6, <1>8, <1>9
<1>11. \A n \in stages' : n \notin {path[i] : i \in 1 .. L - 1} =>
         n \notin OnPath \ {d} /\ n \in stages /\ outEdges'[n] = outEdges[n]
  BY <1>1, <1>7
<1>12. inEdges'[d] = Append(inEdges[d], path[L - 1]) /\ \A n \in stages \ {d} : inEdges'[n] = inEdges[n]
  BY <1>1
<1>13. \A i \in 2 .. L - 1 : path[i] \notin stages => inEdges'[path[i]] = <<path[i - 1]>>
  <2> SUFFICES ASSUME NEW i \in 2 .. L - 1, path[i] \notin stages
               PROVE  inEdges'[path[i]] = <<path[i - 1]>>
    OBVIOUS
  <2>1. i \in 1 .. L - 1 /\ i \in 1 .. L
    BY <1>3
  <2>2. path[i] \in stages' /\ path[i] # d /\ at(path[i]) = i
    BY <1>5, <1>6, <1>8, <2>1
  <2> QED
    BY <1>1, <2>2
<1>14. \A i \in 1 .. L - 1 : next'[path[i]] = outEdges'[path[i]]
  <2> TAKE i \in 1 .. L - 1
  <2> DEFINE known == stages \cup {path[j] : j \in 1 .. i + 1}
             w == Append(OutsBefore(path[i]), path[i + 1])
             V == Users \cup Converters
  <2>1. next'[path[i]] = wireStageConnections(w, known, IF path[i] \in stages THEN next[path[i]] ELSE <<>>)
    <3>1. path[i] \in OnPath \ {d} /\ path[i] \in stages' /\ at(path[i]) = i
      BY <1>5, <1>6, <1>8
    <3> HIDE DEF through
    <3> QED
      BY <1>1, <1>9, <3>1
  <2>2. OutsBefore(path[i]) \in Seq(V) /\ Elements(OutsBefore(path[i])) \subseteq stages
    <3>1. stages \subseteq V
      BY DEF IInv, Typed
    <3>2. CASE path[i] \in stages
      <4>1. outEdges[path[i]] \in Seq(stages)
        BY <3>2 DEF IInv, Typed
      <4>2. OutsBefore(path[i]) = outEdges[path[i]]
        BY <3>2 DEF OutsBefore
      <4> HIDE DEF V
      <4> QED
        BY <3>1, <4>1, <4>2 DEF Elements
    <3>3. CASE path[i] \notin stages
      BY <3>3 DEF OutsBefore, Elements
    <3> QED
      BY <3>2, <3>3
  <2>3. path[i + 1] \in V
    BY <1>3, <1>6
  <2>4. w \in Seq(V) /\ Elements(w) = Elements(OutsBefore(path[i])) \cup {path[i + 1]}
    <3> HIDE DEF V
    <3> DEFINE o == OutsBefore(path[i])
    <3>1. o \in Seq(V)
      BY <2>2
    <3> HIDE DEF o
    <3>2. Elements(Append(o, path[i + 1])) = Elements(o) \cup {path[i + 1]}
      BY <2>3, <3>1, AppendElements
    <3>3. Append(o, path[i + 1]) \in Seq(V)
      BY <2>3, <3>1
    <3> QED
      BY <3>2, <3>3 DEF o
  <2>5. path[i + 1] \in known
    BY <1>3
  <2> HIDE DEF V, known, w
  <2>6. Elements(w) \subseteq known
    BY <2>2, <2>4, <2>5 DEF known
  <2>7. Only(w, known) = w
    BY <2>4, <2>6, OnlyIs DEF Keeps
  <2>8. ~ (Len(w) = 1 /\ w[1] \notin known)
    BY <2>4, <2>6 DEF Elements
  <2>9. next'[path[i]] = w
    BY <2>1, <2>7, <2>8 DEF wireStageConnections
  <2> QED
    BY <1>10, <2>9 DEF w
<1>15. next' = outEdges'
  <2>1. \A n \in stages' : next'[n] = outEdges'[n]
    <3> TAKE n \in stages'
    <3>1. CASE n \in {path[i] : i \in 1 .. L - 1}
      BY <1>14, <3>1
    <3>2. CASE n \notin {path[i] : i \in 1 .. L - 1}
      <4>1. n \notin OnPath \ {d} /\ n \in stages /\ outEdges'[n] = outEdges[n]
        BY <1>11, <3>2
      <4>2. next'[n] = next[n]
        BY <1>1, <4>1
      <4> QED
        BY <4>1, <4>2 DEF IInv, WiringMatchesEdges
    <3> QED
      BY <3>1, <3>2
  <2>2. next' = [n \in stages' |-> next'[n]] /\ outEdges' = [n \in stages' |-> outEdges'[n]]
    BY <1>1
  <2> QED
    BY <2>1, <2>2
<1>16. \A i \in 1 .. L - 1 : Len(OutsBefore(path[i])) < MaxEdges
  BY <1>1, <1>6 DEF OutsBefore
<1>17. s \notin Downstream(d)
  BY <1>1 DEF wouldCreateCycle
<1>18. /\ DOMAIN format' = stages'
       /\ outEdges' = [n \in stages' |-> outEdges'[n]] /\ inEdges' = [n \in stages' |-> inEdges'[n]]
  BY <1>1
<1>19. stages' = stages \cup Elements(path)
  BY <1>1 DEF OnPath
<1> HIDE DEF L
<1>20. Connected(s, d, path)
  BY <1>1, <1>2, <1>10, <1>11, <1>12, <1>13, <1>15, <1>16, <1>17, <1>18, <1>19, Zenon DEF Connected, L
<1> QED
  BY <1>20 DEF path

-----------------------------------------------------------------------------
\* Connecting: types, and the edges there are afterwards.
LEMMA ElementsFinite ==
  ASSUME NEW T, NEW s \in Seq(T)
  PROVE  IsFiniteSet(Elements(s))
<1>1. IsFiniteSet(1 .. Len(s))
  BY FS_Interval
<1>2. s \in Surjection(1 .. Len(s), Elements(s))
  BY DEF Surjection, Elements
<1> QED
  BY <1>1, <1>2, FS_Surjection

LEMMA SeqWider ==
  ASSUME NEW S, NEW T, S \subseteq T, NEW s \in Seq(S)
  PROVE  s \in Seq(T)
OBVIOUS

LEMMA ConnectTyped ==
  ASSUME IInv, NEW s, NEW d, NEW P, Connected(s, d, P)
  PROVE  Typed' /\ \A n : OutsBefore(n) \in Seq(stages)
<1> DEFINE L == Len(P)
<1>1. /\ P \in Seq(Users \cup Converters) /\ L \in Nat /\ L >= 2 /\ DOMAIN P = 1 .. L
      /\ stages' = stages \cup Elements(P) /\ s \in stages /\ d \in stages
      /\ DOMAIN format' = stages'
      /\ outEdges' = [n \in stages' |-> outEdges'[n]]
      /\ inEdges' = [n \in stages' |-> inEdges'[n]]
      /\ UNCHANGED <<state, entry, exit>>
  BY DEF Connected, IsRoute
<1>2. /\ IsFiniteSet(stages) /\ stages \subseteq Users \cup Converters
      /\ outEdges \in [stages -> Seq(stages)] /\ inEdges \in [stages -> Seq(stages)]
      /\ \A n \in stages : Len(outEdges[n]) <= MaxEdges
  BY DEF IInv, Typed
<1> HIDE DEF L
<1>3. \A i \in 1 .. L : P[i] \in stages'
  BY <1>1 DEF Elements
<1>4. IsFiniteSet(stages') /\ stages' \subseteq Users \cup Converters
  <2>1. IsFiniteSet(Elements(P))
    BY <1>1, ElementsFinite
  <2>2. Elements(P) \subseteq Users \cup Converters
    BY <1>1 DEF Elements
  <2>3. IsFiniteSet(stages \cup Elements(P))
    BY <1>2, <2>1, FS_Union
  <2> QED
    BY <1>1, <1>2, <2>2, <2>3
<1>5. \A n : OutsBefore(n) \in Seq(stages)
  BY <1>2 DEF OutsBefore
<1>6. \A q \in Seq(stages) : q \in Seq(stages')
  BY <1>1, SeqWider
<1>7. \A n \in stages' : outEdges'[n] \in Seq(stages') /\ Len(outEdges'[n]) <= MaxEdges
  <2> TAKE n \in stages'
  <2>1. CASE \E i \in 1 .. L - 1 : n = P[i]
    <3>1. PICK i \in 1 .. L - 1 : n = P[i]
      BY <2>1
    <3>2. /\ outEdges'[n] = Append(OutsBefore(n), P[i + 1])
          /\ Len(OutsBefore(n)) < MaxEdges
      BY <3>1 DEF Connected, L
    <3>3. P[i + 1] \in stages'
      BY <1>1, <1>3
    <3> DEFINE o == OutsBefore(n)
    <3>4. o \in Seq(stages')
      BY <1>5, <1>6
    <3> HIDE DEF o
    <3>5. Append(o, P[i + 1]) \in Seq(stages') /\ Len(Append(o, P[i + 1])) = Len(o) + 1 /\ Len(o) \in Nat
      BY <3>3, <3>4
    <3>6. Len(o) + 1 <= MaxEdges
      BY <3>2, <3>5, BoundsAssumption DEF o
    <3> QED
      BY <3>2, <3>5, <3>6 DEF o
  <2>2. CASE ~ \E i \in 1 .. L - 1 : n = P[i]
    <3>1. n \in stages /\ outEdges'[n] = outEdges[n]
      BY <2>2 DEF Connected, L
    <3> QED
      BY <1>2, <1>6, <3>1
  <2> QED
    BY <2>1, <2>2
<1>8. \A n \in stages' : inEdges'[n] \in Seq(stages')
  <2> TAKE n \in stages'
  <2>1. CASE n = d
    <3>1. inEdges'[n] = Append(inEdges[d], P[L - 1])
      BY <2>1 DEF Connected, L
    <3>2. P[L - 1] \in stages'
      BY <1>1, <1>3
    <3>3. inEdges[d] \in Seq(stages')
      BY <1>1, <1>2, <1>6
    <3> QED
      BY <3>1, <3>2, <3>3
  <2>2. CASE n \in stages \ {d}
    BY <1>2, <1>6, <2>2 DEF Connected
  <2>3. CASE n \notin stages
    <3>1. PICK i \in 1 .. L : n = P[i]
      BY <1>1, <2>3 DEF Elements
    <3>2. i # 1 /\ i # L
      BY <2>3, <3>1 DEF Connected, IsRoute, L
    <3>3. i \in 2 .. L - 1 /\ i - 1 \in 1 .. L
      BY <1>1, <3>2
    <3>4. inEdges'[n] = <<P[i - 1]>>
      BY <2>3, <3>1, <3>3 DEF Connected, L
    <3>5. P[i - 1] \in stages'
      BY <1>3, <3>3
    <3> QED
      BY <3>4, <3>5
  <2> QED
    BY <2>1, <2>2, <2>3
<1>9. outEdges' \in [stages' -> Seq(stages')] /\ inEdges' \in [stages' -> Seq(stages')]
  <2>1. ASSUME NEW D, NEW f, f = [n \in D |-> f[n]], \A n \in D : f[n] \in Seq(D)
        PROVE  f \in [D -> Seq(D)]
    BY <2>1
  <2> QED
    BY <1>1, <1>7, <1>8, <2>1
<1> QED
  BY <1>1, <1>4, <1>5, <1>7, <1>9 DEF Typed, IInv

\* The one edge from n that a connection along P adds.
Added(P, n, m) == \E i \in 1 .. Len(P) - 1 : n = P[i] /\ m = P[i + 1]

LEMMA ConnectEdges ==
  ASSUME IInv, NEW s, NEW d, NEW P, Connected(s, d, P), NEW n \in stages'
  PROVE  /\ \A m : Count(outEdges'[n], m)
                     = Count(OutsBefore(n), m) + (IF Added(P, n, m) THEN 1 ELSE 0)
         /\ \A m : m \in Elements(outEdges'[n]) <=> m \in Elements(OutsBefore(n)) \/ Added(P, n, m)
         /\ \A m : Count(OutsBefore(n), m) \in Nat
<1> DEFINE L == Len(P)
           o == OutsBefore(n)
           V == Users \cup Converters
<1>1. /\ s \in Users /\ d \in Users /\ s # d /\ IsRoute(P, s, d)
      /\ P \in Seq(V) /\ L \in Nat /\ L >= 2
  BY DEF Connected, IsRoute
<1>2. \A i, j \in 1 .. L : P[i] = P[j] => i = j
  BY <1>1, RouteOnceAll
<1>3. o \in Seq(V)
  <2>1. o \in Seq(stages) /\ stages \subseteq V
    BY ConnectTyped DEF IInv, Typed
  <2> HIDE DEF o, V
  <2> QED
    BY <2>1, SeqWider
<1>4. \A m : Count(o, m) \in Nat
  BY <1>3, CountIs
<1>5. CASE \E i \in 1 .. L - 1 : n = P[i]
  <2>1. PICK i \in 1 .. L - 1 : n = P[i]
    BY <1>5
  <2>2. outEdges'[n] = Append(o, P[i + 1])
    BY <2>1 DEF Connected
  <2>3. P[i + 1] \in V /\ i \in 1 .. L
    BY <1>1
  <2>4. \A m : Added(P, n, m) <=> m = P[i + 1]
    <3>1. \A j \in 1 .. L - 1 : n = P[j] => j = i
      <4> TAKE j \in 1 .. L - 1
      <4>1. j \in 1 .. L
        BY <1>1
      <4> QED
        BY <1>2, <2>1, <2>3, <4>1
    <3> QED
      BY <2>1, <3>1 DEF Added
  <2> HIDE DEF o, V
  <2>5. \A m : Count(outEdges'[n], m) = Count(o, m) + (IF P[i + 1] = m THEN 1 ELSE 0)
    BY <1>3, <2>2, <2>3, CountAppend
  <2>6. Elements(outEdges'[n]) = Elements(o) \cup {P[i + 1]}
    BY <1>3, <2>2, <2>3, AppendElements
  <2>7. \A m : Count(outEdges'[n], m) = Count(o, m) + (IF Added(P, n, m) THEN 1 ELSE 0)
    BY <2>4, <2>5
  <2>8. \A m : m \in Elements(outEdges'[n]) <=> m \in Elements(o) \/ Added(P, n, m)
    BY <2>4, <2>6
  <2> QED
    BY <1>4, <2>7, <2>8 DEF o
<1>6. CASE ~ \E i \in 1 .. L - 1 : n = P[i]
  <2>1. outEdges'[n] = o
    BY <1>6 DEF Connected, OutsBefore
  <2>2. \A m : ~ Added(P, n, m)
    BY <1>6 DEF Added
  <2> HIDE DEF o
  <2> QED
    BY <1>4, <2>1, <2>2 DEF o
<1> QED
  BY <1>5, <1>6

\* What an added edge joins: the ends of the route, or a converter of theirs.
LEMMA AddedIs ==
  ASSUME NEW s \in Users, NEW d \in Users, s # d, NEW P, IsRoute(P, s, d), NEW n, NEW m,
         Added(P, n, m)
  PROVE  /\ n = s \/ (n \in Converters /\ n \notin Users /\ n[1] = s /\ n[2] = d)
         /\ m = d \/ (m \in Converters /\ m \notin Users /\ m[1] = s /\ m[2] = d)
         /\ Leads(n, m)
         /\ m # s /\ n # d /\ (m = d => n = P[Len(P) - 1])
<1> DEFINE L == Len(P)
<1>1. L \in Nat /\ L >= 2 /\ P[1] = s /\ P[L] = d
  BY DEF IsRoute
<1>2. PICK i \in 1 .. L - 1 : n = P[i] /\ m = P[i + 1]
  BY DEF Added
<1>3. i = 1 \/ i \in 2 .. L - 1
  BY <1>1
<1>4. i + 1 = L \/ i + 1 \in 2 .. L - 1
  BY <1>1
<1>5. \A j \in 2 .. L - 1 : P[j] \in Converters /\ P[j] \notin Users /\ P[j][1] = s /\ P[j][2] = d
  BY RouteMembers
<1>6. n = s \/ (n \in Converters /\ n \notin Users /\ n[1] = s /\ n[2] = d)
  BY <1>1, <1>2, <1>3, <1>5
<1>7. m = d \/ (m \in Converters /\ m \notin Users /\ m[1] = s /\ m[2] = d)
  BY <1>1, <1>2, <1>4, <1>5
<1>8. Leads(n, m)
  <2>1. CASE n = s
    BY <1>7, <2>1 DEF Leads
  <2>2. CASE n # s /\ m = d
    BY <1>6, <2>2 DEF Leads
  <2>3. CASE n # s /\ m # d
    <3>1. i \in 2 .. L - 1 /\ i + 1 \in 2 .. L - 1 /\ i < i + 1
      BY <1>1, <1>2, <1>3, <1>4, <2>3
    <3>2. <<n[3], m[3]>> \in Before
      BY <1>2, <3>1 DEF IsRoute
    <3> QED
      BY <1>6, <1>7, <2>3, <3>2 DEF Leads
  <2> QED
    BY <2>1, <2>2, <2>3
<1>9. m # s /\ n # d
  BY <1>6, <1>7
<1>10. m = d => n = P[L - 1]
  <2> SUFFICES ASSUME m = d PROVE n = P[L - 1]
    OBVIOUS
  <2>1. i + 1 \in 1 .. L /\ L \in 1 .. L
    BY <1>1
  <2>2. i + 1 = L
    BY <1>1, <1>2, <2>1, RouteOnce
  <2>3. i = L - 1
    BY <1>1, <2>2
  <2> QED
    BY <1>2, <2>3
<1> QED
  BY <1>6, <1>7, <1>8, <1>9, <1>10

LEMMA ConnectCounted ==
  ASSUME IInv, NEW s, NEW d, NEW P, Connected(s, d, P)
  PROVE  EdgesCounted' /\ EdgeShape'
<1> DEFINE L == Len(P)
<1>1. /\ s \in Users /\ d \in Users /\ s # d /\ IsRoute(P, s, d) /\ s \in stages /\ d \in stages
      /\ L \in Nat /\ L >= 2 /\ P[1] = s /\ P[L] = d
      /\ P \in Seq(Users \cup Converters) /\ stages' = stages \cup Elements(P)
  BY DEF Connected, IsRoute
<1>2. /\ outEdges \in [stages -> Seq(stages)] /\ inEdges \in [stages -> Seq(stages)]
      /\ \A n : OutsBefore(n) \in Seq(stages)
  BY ConnectTyped DEF IInv, Typed
<1>3. \A n, m \in stages : /\ Count(inEdges[n], m) <= Count(outEdges[m], n)
                           /\ n \in Users => Count(inEdges[n], m) = Count(outEdges[m], n)
  BY DEF IInv, EdgesCounted
<1>4. \A n \in stages' : \A m :
        /\ Count(outEdges'[n], m) = Count(OutsBefore(n), m) + (IF Added(P, n, m) THEN 1 ELSE 0)
        /\ m \in Elements(outEdges'[n]) <=> m \in Elements(OutsBefore(n)) \/ Added(P, n, m)
        /\ Count(OutsBefore(n), m) \in Nat
  BY ConnectEdges
<1>5. \A n \in stages : OutsBefore(n) = outEdges[n]
  BY DEF OutsBefore
<1>6. \A n : n \notin stages => OutsBefore(n) = <<>>
  BY DEF OutsBefore
<1>7. \A m : Count(<<>>, m) = 0 /\ Elements(<<>>) = {}
  <2>1. <<>> \in Seq({}) /\ Elements(<<>>) = {}
    BY DEF Elements
  <2> QED
    BY <2>1, CountIs
<1>8. \A n \in stages : \A m : Count(inEdges[n], m) \in Nat /\ (m \notin stages => Count(inEdges[n], m) = 0)
  <2> TAKE n \in stages
  <2> TAKE m
  <2>1. inEdges[n] \in Seq(stages)
    BY <1>2
  <2>2. Elements(inEdges[n]) \subseteq stages
    BY <2>1 DEF Elements
  <2> QED
    BY <2>1, <2>2, CountIs
<1>9. /\ inEdges'[d] = Append(inEdges[d], P[L - 1])
      /\ \A n \in stages \ {d} : inEdges'[n] = inEdges[n]
      /\ \A i \in 2 .. L - 1 : P[i] \notin stages => inEdges'[P[i]] = <<P[i - 1]>>
  BY DEF Connected
<1>10. Added(P, P[L - 1], d)
  <2>1. L - 1 \in 1 .. L - 1 /\ (L - 1) + 1 = L
    BY <1>1
  <2> QED
    BY <1>1, <2>1 DEF Added
<1>11. \A n, m : Added(P, n, m) =>
         /\ m = d \/ m \notin Users
         /\ m = d => n = P[L - 1]
         /\ Leads(n, m)
  BY <1>1, AddedIs
<1> HIDE DEF L
<1>12. \A m \in stages' : Count(inEdges'[d], m) = Count(outEdges'[m], d)
  <2> TAKE m \in stages'
  <2>1. Count(inEdges'[d], m) = Count(inEdges[d], m) + (IF P[L - 1] = m THEN 1 ELSE 0)
    <3>1. P[L - 1] \in Users \cup Converters
      <4>1. L - 1 \in 1 .. Len(P)
        BY <1>1 DEF L
      <4> QED
        BY <1>1, <4>1
    <3>2. inEdges[d] \in Seq(Users \cup Converters)
      <4>1. stages \subseteq Users \cup Converters
        BY DEF IInv, Typed
      <4> QED
        BY <1>1, <1>2, <4>1, SeqWider
    <3> QED
      BY <1>9, <3>1, <3>2, CountAppend
  <2>2. Added(P, m, d) <=> P[L - 1] = m
    BY <1>10, <1>11
  <2>3. Count(outEdges'[m], d) = Count(OutsBefore(m), d) + (IF P[L - 1] = m THEN 1 ELSE 0)
    BY <1>4, <2>2
  <2>4. Count(inEdges[d], m) = Count(OutsBefore(m), d)
    <3>1. CASE m \in stages
      BY <1>1, <1>3, <1>5, <3>1
    <3>2. CASE m \notin stages
      BY <1>1, <1>6, <1>7, <1>8, <3>2
    <3> QED
      BY <3>1, <3>2
  <2> QED
    BY <2>1, <2>3, <2>4
<1>13. \A n \in stages \ {d} : \A m \in stages' :
         /\ Count(inEdges'[n], m) <= Count(outEdges'[m], n)
         /\ n \in Users => Count(inEdges'[n], m) = Count(outEdges'[m], n)
  <2> TAKE n \in stages \ {d}
  <2> TAKE m \in stages'
  <2>1. Count(inEdges'[n], m) = Count(inEdges[n], m)
    BY <1>9
  <2>2. /\ Count(outEdges'[m], n) = Count(OutsBefore(m), n) + (IF Added(P, m, n) THEN 1 ELSE 0)
        /\ Count(OutsBefore(m), n) \in Nat
    BY <1>4
  <2>3. n \in Users => ~Added(P, m, n)
    BY <1>11
  <2>4. /\ Count(inEdges[n], m) <= Count(OutsBefore(m), n)
        /\ n \in Users => Count(inEdges[n], m) = Count(OutsBefore(m), n)
    <3>1. CASE m \in stages
      BY <1>3, <1>5, <3>1
    <3>2. CASE m \notin stages
      BY <1>6, <1>7, <1>8, <3>2
    <3> QED
      BY <3>1, <3>2
  <2>5. Count(inEdges[n], m) \in Nat
    BY <1>8
  <2> QED
    BY <2>1, <2>2, <2>3, <2>4, <2>5
<1>14. \A n \in stages' \ stages : \A m \in stages' :
         n \notin Users /\ Count(inEdges'[n], m) <= Count(outEdges'[m], n)
  <2> TAKE n \in stages' \ stages
  <2> TAKE m \in stages'
  <2>1. PICK i \in 1 .. L : n = P[i]
    BY <1>1 DEF Elements, L
  <2>2. i \in 2 .. L - 1 /\ i - 1 \in 1 .. L - 1 /\ (i - 1) + 1 = i
    BY <1>1, <2>1
  <2>3. inEdges'[n] = <<P[i - 1]>>
    BY <1>9, <2>1, <2>2
  <2>4. Added(P, P[i - 1], n)
    BY <2>1, <2>2 DEF Added, L
  <2>5. \A x : Count(<<P[i - 1]>>, x) = IF P[i - 1] = x THEN 1 ELSE 0
    <3> TAKE x
    <3> DEFINE e == P[i - 1]
    <3> HIDE DEF e
    <3>1. <<>> \in Seq({e}) /\ e \in {e} /\ Append(<<>>, e) = <<e>>
      OBVIOUS
    <3>2. Count(Append(<<>>, e), x) = Count(<<>>, x) + (IF e = x THEN 1 ELSE 0)
      <4>1. \A q \in Seq({e}) : Count(Append(q, e), x) = Count(q, x) + (IF e = x THEN 1 ELSE 0)
        BY <3>1, CountAppend
      <4> QED
        BY <3>1, <4>1
    <3>3. Count(<<e>>, x) = IF e = x THEN 1 ELSE 0
      BY <1>7, <3>1, <3>2
    <3> QED
      BY <3>3 DEF e
  <2>6. n \notin Users
    BY <1>1, <2>1, <2>2, RouteMembers DEF L
  <2>7. /\ Count(outEdges'[m], n) = Count(OutsBefore(m), n) + (IF Added(P, m, n) THEN 1 ELSE 0)
        /\ Count(OutsBefore(m), n) \in Nat
    BY <1>4
  <2> QED
    BY <2>3, <2>4, <2>5, <2>6, <2>7
<1>15. EdgesCounted'
  <2> SUFFICES ASSUME NEW n \in stages', NEW m \in stages'
               PROVE  /\ Count(inEdges'[n], m) <= Count(outEdges'[m], n)
                      /\ n \in Users => Count(inEdges'[n], m) = Count(outEdges'[m], n)
    BY DEF EdgesCounted
  <2>1. CASE n = d
    <3>1. Count(outEdges'[m], d) \in Nat
      BY <1>4
    <3> QED
      BY <1>12, <2>1, <3>1
  <2> QED
    BY <1>13, <1>14, <2>1
<1>16. EdgeShape'
  <2> SUFFICES ASSUME NEW n \in stages', NEW m \in Elements(outEdges'[n]) PROVE Leads(n, m)
    BY DEF EdgeShape, Leads
  <2>1. m \in Elements(OutsBefore(n)) \/ Added(P, n, m)
    BY <1>4
  <2>2. CASE m \in Elements(OutsBefore(n))
    <3>1. n \in stages /\ m \in Elements(outEdges[n])
      BY <1>5, <1>6, <1>7, <2>2
    <3> QED
      BY <3>1 DEF IInv, EdgeShape
  <2> QED
    BY <1>11, <2>1, <2>2
<1> QED
  BY <1>15, <1>16

\* Connecting closes no cycle.  Let R be what the search found from d, without the
\* converters of s and d: neither s nor one of these is in it, and no edge leaves it.  A
\* set in which each stage is fed by another has then nothing outside R (where all that
\* is new leads to a converter, and these are in the order of their kinds), and inside
\* there is nothing new.
LEMMA ConnectGrounded ==
  ASSUME IInv, NEW s, NEW d, NEW P, Connected(s, d, P)
  PROVE  Grounded'
<1> DEFINE D == Downstream(d)
           Q == {n \in Converters : n[1] = s /\ n[2] = d}
           R == D \ Q
           Old(n, x) == n \in stages /\ x \in Elements(outEdges[n])
<1>1. /\ s \in Users /\ d \in Users /\ s # d /\ IsRoute(P, s, d) /\ s \in stages /\ d \in stages
      /\ s \notin D
  BY DEF Connected
<1>2. /\ IsFiniteSet(stages) /\ stages \subseteq Users \cup Converters
      /\ outEdges \in [stages -> Seq(stages)]
  BY DEF IInv, Typed
<1>3. D \subseteq stages /\ d \in D /\ \A m \in D : Elements(outEdges[m]) \subseteq D
  <2>1. {d} \in SUBSET stages /\ stages \in SUBSET stages
    BY <1>1
  <2>2. ASSUME NEW F \in SUBSET stages
        PROVE  /\ F \subseteq Reached(outEdges, F, stages)
               /\ Reached(outEdges, F, stages) \subseteq stages
               /\ \A m \in Reached(outEdges, F, stages) \cap stages :
                    Elements(outEdges[m]) \subseteq Reached(outEdges, F, stages)
    <3>1. stages \in SUBSET stages
      OBVIOUS
    <3> QED
      BY <1>2, <3>1, ReachedIs
  <2> DEFINE X == Reached(outEdges, {d}, stages)
  <2>3. /\ {d} \subseteq X /\ X \subseteq stages
        /\ \A m \in X \cap stages : Elements(outEdges[m]) \subseteq X
    BY <2>1, <2>2
  <2>4. D = X
    BY DEF Downstream
  <2> HIDE DEF X, D
  <2> QED
    BY <2>3, <2>4
<1> HIDE DEF D
<1>4. /\ Users \cap Converters = {}
      /\ \A n \in Converters : n[1] \in Users /\ n[2] \in Users /\ n[3] \in KindSet
  BY ConverterIsNoUser
<1>5. \A n, x : Old(n, x) => Leads(n, x) /\ x \in stages
  <2> SUFFICES ASSUME NEW n \in stages, NEW x \in Elements(outEdges[n])
               PROVE  Leads(n, x) /\ x \in stages
    OBVIOUS
  <2>1. outEdges[n] \in Seq(stages)
    BY <1>2
  <2>2. x \in stages
    BY <2>1 DEF Elements
  <2> QED
    BY <2>2 DEF IInv, EdgeShape
<1>6. \A n \in stages' : \A x : x \in Elements(outEdges'[n]) <=> Old(n, x) \/ Added(P, n, x)
  <2> TAKE n \in stages'
  <2> TAKE x
  <2>1. x \in Elements(outEdges'[n]) <=> x \in Elements(OutsBefore(n)) \/ Added(P, n, x)
    BY ConnectEdges
  <2>2. x \in Elements(OutsBefore(n)) <=> Old(n, x)
    BY DEF OutsBefore, Elements
  <2> QED
    BY <2>1, <2>2
<1>7. \A n, x : Added(P, n, x) =>
        n \in {s} \cup Q /\ n \notin R /\ x \in {d} \cup Q /\ Leads(n, x)
  <2> SUFFICES ASSUME NEW n, NEW x, Added(P, n, x)
               PROVE  n \in {s} \cup Q /\ n \notin R /\ x \in {d} \cup Q /\ Leads(n, x)
    OBVIOUS
  <2>1. n \in {s} \cup Q /\ x \in {d} \cup Q /\ Leads(n, x)
    BY <1>1, AddedIs
  <2> QED
    BY <1>1, <2>1
<1>8. d \in R /\ R \subseteq stages
  BY <1>1, <1>3, <1>4
<1> HIDE DEF Old
<1>9. \A n \in R : \A x : Old(n, x) => x \in R
  <2> SUFFICES ASSUME NEW n \in R, NEW x, Old(n, x), x \in Q PROVE FALSE
    BY <1>3 DEF Old
  <2>1. Leads(n, x) /\ n \in stages /\ n # s /\ n \notin Q
    BY <1>1, <1>3, <1>5
  <2>2. n \in Users \/ n \in Converters
    BY <1>2, <2>1
  <2> QED
    BY <1>4, <2>1, <2>2 DEF Leads
<1>10. \A n \in Q : \A x : Leads(n, x) => x = d \/ (x \in Q /\ <<n[3], x[3]>> \in Before)
  BY <1>4 DEF Leads
<1> HIDE DEF Q, R
<1> SUFFICES ASSUME NEW S \in SUBSET stages',
                    \A x \in S : \E n \in S : x \in Elements(outEdges'[n])
             PROVE  S = {}
  BY DEF Grounded
<1>11. \A x \in S : \E n \in S : Old(n, x) \/ Added(P, n, x)
  BY <1>6
<1>12. \A T : (T \subseteq S /\ \A x \in T : \E n \in T : Old(n, x)) => T = {}
  <2> SUFFICES ASSUME NEW T, \A x \in T : \E n \in T : Old(n, x) PROVE T = {}
    OBVIOUS
  <2>1. T \in SUBSET stages
    BY <1>5
  <2>2. \A x \in T : \E n \in T : x \in Elements(outEdges[n])
    BY DEF Old
  <2> QED
    BY <2>1, <2>2 DEF IInv, Grounded
<1>13. S \ (R \cup Q) = {}
  <2> DEFINE T == S \ (R \cup Q)
  <2>1. \A x \in T : \E n \in T : Old(n, x)
    <3> TAKE x \in T
    <3>1. PICK n \in S : Old(n, x) \/ Added(P, n, x)
      BY <1>11
    <3>2. Old(n, x)
      BY <1>7, <1>8, <3>1
    <3>3. n \notin R
      BY <1>9, <3>2
    <3>4. n \notin Q
      BY <1>5, <1>8, <1>10, <3>2
    <3> QED
      BY <3>2, <3>3, <3>4
  <2> QED
    BY <1>12, <2>1
<1>14. S \cap Q = {}
  <2>1. \A x \in S \cap Q : x \notin R /\ x # d /\ x[3] \in KindSet
    BY <1>1, <1>4, <1>8 DEF Q, R
  <2>2. \A x \in S \cap Q : \E n \in S \cap Q : <<n[3], x[3]>> \in Before
    <3> TAKE x \in S \cap Q
    <3>1. PICK n \in S : Old(n, x) \/ Added(P, n, x)
      BY <1>11
    <3>2. n \notin R
      BY <1>7, <1>9, <2>1, <3>1
    <3>3. n \in Q /\ Leads(n, x)
      BY <1>5, <1>7, <1>13, <3>1, <3>2
    <3> QED
      BY <1>10, <2>1, <3>3
  <2>3. \A x \in S \cap Q : x[3] # "fmt"
    BY <2>2 DEF Before
  <2>4. \A x \in S \cap Q : x[3] # "resampler"
    BY <2>2, <2>3 DEF Before
  <2>5. \A x \in S \cap Q : x[3] # "chmix"
    BY <2>2, <2>3, <2>4 DEF Before
  <2> QED
    BY <2>1, <2>3, <2>4, <2>5 DEF KindSet
<1>15. S \subseteq R
  BY <1>13, <1>14
<1>16. \A x \in S : \E n \in S : Old(n, x)
  BY <1>7, <1>11, <1>15
<1> QED
  BY <1>12, <1>16

-----------------------------------------------------------------------------
\* Removing: every edge of the stage is found, at both of its ends.
LEMMA RemoveIs ==
  ASSUME IInv, NEW n \in stages \cap Users, removeStage(n)
  PROVE  /\ stages' = stages \ {n} /\ DOMAIN format' = stages'
         /\ outEdges' = [m \in stages' |-> Without(outEdges[m], n)]
         /\ inEdges' = [m \in stages' |-> Without(inEdges[m], n)]
         /\ next' = outEdges'
         /\ UNCHANGED <<state, entry, exit>>
<1> DEFINE sources == Elements(inEdges[n])
           to(m) == IF m \in sources
                    THEN wireStageConnections(Without(outEdges[m], n), stages, next[m])
                    ELSE next[m]
           held(m) == [i \in DOMAIN to(m) |-> IF to(m)[i] = n THEN Gone ELSE to(m)[i]]
<1>1. /\ stages' = stages \ {n} /\ format' = [m \in stages' |-> format[m]]
      /\ outEdges' = [m \in stages \ {n} |->
           IF m \in sources THEN Without(outEdges[m], n) ELSE outEdges[m]]
      /\ inEdges' = [m \in stages \ {n} |->
           IF m \in Elements(outEdges[n]) THEN Without(inEdges[m], n) ELSE inEdges[m]]
      /\ next' = [m \in stages \ {n} |-> held(m)]
      /\ UNCHANGED <<state, entry, exit>>
  BY DEF removeStage, detached, wired
<1>2. outEdges \in [stages -> Seq(stages)] /\ inEdges \in [stages -> Seq(stages)] /\ next = outEdges
  BY DEF IInv, Typed, WiringMatchesEdges
<1>3. \A m \in stages : m \in sources <=> n \in Elements(outEdges[m])
  <2> TAKE m \in stages
  <2>1. Count(inEdges[n], m) = Count(outEdges[m], n)
    BY DEF IInv, EdgesCounted
  <2>2. inEdges[n] \in Seq(stages) /\ outEdges[m] \in Seq(stages)
    BY <1>2
  <2>3. Count(inEdges[n], m) = 0 <=> m \notin Elements(inEdges[n])
    BY <2>2, CountIs
  <2>4. Count(outEdges[m], n) = 0 <=> n \notin Elements(outEdges[m])
    BY <2>2, CountIs
  <2> QED
    BY <2>1, <2>3, <2>4
<1>4. \A m \in stages : m \notin Elements(outEdges[n]) => n \notin Elements(inEdges[m])
  <2> SUFFICES ASSUME NEW m \in stages, m \notin Elements(outEdges[n])
               PROVE  n \notin Elements(inEdges[m])
    OBVIOUS
  <2>1. Count(inEdges[m], n) <= Count(outEdges[n], m)
    BY DEF IInv, EdgesCounted
  <2>2. inEdges[m] \in Seq(stages) /\ outEdges[n] \in Seq(stages)
    BY <1>2
  <2>3. Count(outEdges[n], m) = 0
    BY <2>2, CountIs
  <2>4. Count(inEdges[m], n) \in Nat /\ (Count(inEdges[m], n) = 0 <=> n \notin Elements(inEdges[m]))
    BY <2>2, CountIs
  <2> QED
    BY <2>1, <2>3, <2>4
<1> HIDE DEF sources, held
<1>5. \A m \in stages \ {n} :
        /\ outEdges[m] \in Seq(stages) /\ inEdges[m] \in Seq(stages)
        /\ n \notin Elements(outEdges[m]) => Without(outEdges[m], n) = outEdges[m]
        /\ n \notin Elements(inEdges[m]) => Without(inEdges[m], n) = inEdges[m]
        /\ Without(outEdges[m], n) \in Seq(stages)
        /\ Elements(Without(outEdges[m], n)) = Elements(outEdges[m]) \ {n}
  <2> TAKE m \in stages \ {n}
  <2>1. outEdges[m] \in Seq(stages) /\ inEdges[m] \in Seq(stages)
    BY <1>2
  <2>2. Without(outEdges[m], n) \in Seq(stages \ {n})
    BY <2>1, WithoutIs
  <2>3. Without(outEdges[m], n) \in Seq(stages)
    BY <2>2, SeqWider
  <2>4. /\ n \notin Elements(outEdges[m]) => Without(outEdges[m], n) = outEdges[m]
        /\ Elements(Without(outEdges[m], n)) = Elements(outEdges[m]) \ {n}
    BY <2>1, WithoutIs
  <2>5. n \notin Elements(inEdges[m]) => Without(inEdges[m], n) = inEdges[m]
    BY <2>1, WithoutIs
  <2> QED
    BY <2>1, <2>3, <2>4, <2>5
<1>6. \A m \in stages \ {n} : held(m) = Without(outEdges[m], n)
  <2> TAKE m \in stages \ {n}
  <2> DEFINE w == Without(outEdges[m], n)
  <2>1. w \in Seq(stages) /\ Elements(w) \subseteq stages \ {n}
    <3>1. Elements(outEdges[m]) \subseteq stages
      BY <1>5 DEF Elements
    <3> QED
      BY <1>5, <3>1
  <2>2. to(m) = w
    <3>1. CASE m \in sources
      <4> HIDE DEF w
      <4>1. Only(w, stages) = w
        BY <2>1, OnlyIs DEF Keeps
      <4>2. ~ (Len(w) = 1 /\ w[1] \notin stages)
        BY <2>1
      <4>3. wireStageConnections(w, stages, next[m]) = w
        BY <4>1, <4>2 DEF wireStageConnections
      <4> QED
        BY <3>1, <4>3 DEF w
    <3>2. CASE m \notin sources
      BY <1>2, <1>3, <1>5, <3>2
    <3> QED
      BY <3>1, <3>2
  <2> HIDE DEF w, to
  <2>3. \A i \in DOMAIN w : w[i] # n
    BY <2>1 DEF Elements
  <2>4. held(m) = [i \in DOMAIN w |-> IF w[i] = n THEN Gone ELSE w[i]]
    BY <2>2 DEF held
  <2>5. held(m) = [i \in DOMAIN w |-> w[i]]
    BY <2>3, <2>4
  <2>6. [i \in DOMAIN w |-> w[i]] = w
    BY <2>1
  <2> QED
    BY <2>5, <2>6 DEF w
<1>7. outEdges' = [m \in stages' |-> Without(outEdges[m], n)]
  BY <1>1, <1>3, <1>5
<1>8. inEdges' = [m \in stages' |-> Without(inEdges[m], n)]
  BY <1>1, <1>4, <1>5
<1>9. next' = outEdges'
  BY <1>1, <1>6, <1>7
<1> QED
  BY <1>1, <1>7, <1>8, <1>9

LEMMA RemoveInv ==
  ASSUME IInv, NEW n \in stages \cap Users, removeStage(n)
  PROVE  IInv'
<1>1. /\ stages' = stages \ {n} /\ DOMAIN format' = stages'
      /\ outEdges' = [m \in stages' |-> Without(outEdges[m], n)]
      /\ inEdges' = [m \in stages' |-> Without(inEdges[m], n)]
      /\ next' = outEdges'
      /\ UNCHANGED <<state, entry, exit>>
  BY RemoveIs
<1>2. /\ IsFiniteSet(stages) /\ stages \subseteq Users \cup Converters
      /\ outEdges \in [stages -> Seq(stages)] /\ inEdges \in [stages -> Seq(stages)]
      /\ \A m \in stages : Len(outEdges[m]) <= MaxEdges
  BY DEF IInv, Typed
<1>0. ASSUME NEW q \in Seq(stages), NEW x
      PROVE  Count(Without(q, n), x) = IF x = n THEN 0 ELSE Count(q, x)
  BY WithoutCount
<1>3. \A m \in stages' :
        /\ outEdges'[m] \in Seq(stages') /\ Len(outEdges'[m]) <= MaxEdges
        /\ Elements(outEdges'[m]) = Elements(outEdges[m]) \ {n}
        /\ \A x : Count(outEdges'[m], x) = IF x = n THEN 0 ELSE Count(outEdges[m], x)
  <2> TAKE m \in stages'
  <2>1. outEdges[m] \in Seq(stages) /\ Len(outEdges[m]) <= MaxEdges
    BY <1>1, <1>2
  <2>2. outEdges'[m] = Without(outEdges[m], n)
    BY <1>1
  <2>3. Len(Without(outEdges[m], n)) <= Len(outEdges[m])
    BY <2>1, WithoutIs
  <2>4. /\ Without(outEdges[m], n) \in Seq(stages \ {n})
        /\ Elements(Without(outEdges[m], n)) = Elements(outEdges[m]) \ {n}
        /\ \A x : Count(Without(outEdges[m], n), x) = IF x = n THEN 0 ELSE Count(outEdges[m], x)
    <3>1. /\ Without(outEdges[m], n) \in Seq(stages \ {n})
          /\ Elements(Without(outEdges[m], n)) = Elements(outEdges[m]) \ {n}
      BY <2>1, WithoutIs
    <3>2. \A x : Count(Without(outEdges[m], n), x) = IF x = n THEN 0 ELSE Count(outEdges[m], x)
      BY <2>1, <1>0
    <3> QED
      BY <3>1, <3>2
  <2> DEFINE w == Without(outEdges[m], n)
  <2>5. Len(w) \in Nat /\ Len(outEdges[m]) \in Nat
    <3> HIDE DEF w
    <3>1. w \in Seq(stages \ {n})
      BY <2>4 DEF w
    <3> QED
      BY <2>1, <3>1
  <2>6. Len(w) <= MaxEdges
    BY <2>1, <2>3, <2>5, BoundsAssumption
  <2> HIDE DEF w
  <2> QED
    BY <1>1, <2>2, <2>4, <2>6 DEF w
<1>4. \A m \in stages' :
        /\ inEdges'[m] \in Seq(stages')
        /\ \A x : Count(inEdges'[m], x) = IF x = n THEN 0 ELSE Count(inEdges[m], x)
  <2> TAKE m \in stages'
  <2>1. inEdges[m] \in Seq(stages)
    BY <1>1, <1>2
  <2>2. inEdges'[m] = Without(inEdges[m], n)
    BY <1>1
  <2>3. /\ Without(inEdges[m], n) \in Seq(stages \ {n})
        /\ \A x : Count(Without(inEdges[m], n), x) = IF x = n THEN 0 ELSE Count(inEdges[m], x)
    <3>1. Without(inEdges[m], n) \in Seq(stages \ {n})
      BY <2>1, WithoutIs
    <3>2. \A x : Count(Without(inEdges[m], n), x) = IF x = n THEN 0 ELSE Count(inEdges[m], x)
      BY <2>1, <1>0
    <3> QED
      BY <3>1, <3>2
  <2> QED
    BY <1>1, <2>2, <2>3
<1>5. Typed'
  <2>1. IsFiniteSet(stages') /\ stages' \subseteq Users \cup Converters
    BY <1>1, <1>2, FS_Subset
  <2>2. outEdges' \in [stages' -> Seq(stages')] /\ inEdges' \in [stages' -> Seq(stages')]
    <3>1. \A m \in stages' : outEdges'[m] \in Seq(stages') /\ inEdges'[m] \in Seq(stages')
      BY <1>3, <1>4
    <3>2. outEdges' = [m \in stages' |-> outEdges'[m]] /\ inEdges' = [m \in stages' |-> inEdges'[m]]
      BY <1>1
    <3>3. ASSUME NEW D, NEW f, f = [m \in D |-> f[m]], \A m \in D : f[m] \in Seq(D)
          PROVE  f \in [D -> Seq(D)]
      BY <3>3
    <3> QED
      BY <3>1, <3>2, <3>3
  <2> QED
    BY <1>1, <1>3, <2>1, <2>2 DEF Typed, IInv
<1>6. EdgesCounted'
  <2> SUFFICES ASSUME NEW a \in stages', NEW b \in stages'
               PROVE  /\ Count(inEdges'[a], b) <= Count(outEdges'[b], a)
                      /\ a \in Users => Count(inEdges'[a], b) = Count(outEdges'[b], a)
    BY DEF EdgesCounted
  <2>1. a # n /\ b # n /\ a \in stages /\ b \in stages
    BY <1>1
  <2>2. Count(inEdges'[a], b) = Count(inEdges[a], b) /\ Count(outEdges'[b], a) = Count(outEdges[b], a)
    BY <1>3, <1>4, <2>1
  <2> QED
    BY <2>1, <2>2 DEF IInv, EdgesCounted
<1>7. EdgeShape'
  <2> SUFFICES ASSUME NEW a \in stages', NEW b \in Elements(outEdges'[a]) PROVE Leads(a, b)
    BY DEF EdgeShape, Leads
  <2>1. a \in stages /\ b \in Elements(outEdges[a])
    BY <1>1, <1>3
  <2> QED
    BY <2>1 DEF IInv, EdgeShape
<1>8. Grounded'
  <2> SUFFICES ASSUME NEW S \in SUBSET stages',
                      \A a \in S : \E b \in S : a \in Elements(outEdges'[b])
               PROVE  S = {}
    BY DEF Grounded
  <2>1. S \in SUBSET stages
    BY <1>1
  <2>2. \A a \in S : \E b \in S : a \in Elements(outEdges[b])
    <3> TAKE a \in S
    <3>1. PICK b \in S : a \in Elements(outEdges'[b])
      OBVIOUS
    <3>2. a \in Elements(outEdges[b])
      BY <1>3, <3>1
    <3> QED
      BY <3>2
  <2> QED
    BY <2>1, <2>2 DEF IInv, Grounded
<1>9. WiringMatchesEdges'
  BY <1>1 DEF WiringMatchesEdges
<1> QED
  BY <1>5, <1>6, <1>7, <1>8, <1>9 DEF IInv

-----------------------------------------------------------------------------
\* Adding: a stage that nothing leads to yet.
LEMMA AddInv ==
  ASSUME IInv, NEW n \in Users, NEW f, addStage(n, f)
  PROVE  IInv'
<1>1. /\ n \notin stages /\ stages' = stages \cup {n} /\ DOMAIN format' = stages'
      /\ outEdges' = [m \in stages' |-> IF m = n THEN <<>> ELSE outEdges[m]]
      /\ inEdges' = [m \in stages' |-> IF m = n THEN <<>> ELSE inEdges[m]]
      /\ next' = [m \in stages' |-> IF m = n THEN <<>> ELSE next[m]]
      /\ UNCHANGED <<state, entry, exit>>
  BY DEF addStage
<1>2. /\ IsFiniteSet(stages) /\ stages \subseteq Users \cup Converters
      /\ outEdges \in [stages -> Seq(stages)] /\ inEdges \in [stages -> Seq(stages)]
      /\ \A m \in stages : Len(outEdges[m]) <= MaxEdges
  BY DEF IInv, Typed
<1>3. \A x : Count(<<>>, x) = 0 /\ Elements(<<>>) = {}
  <2>1. <<>> \in Seq({}) /\ Elements(<<>>) = {}
    BY DEF Elements
  <2> QED
    BY <2>1, CountIs
<1>4. \A m \in stages :
        /\ Elements(outEdges[m]) \subseteq stages
        /\ Count(outEdges[m], n) = 0 /\ Count(inEdges[m], n) = 0
  <2> TAKE m \in stages
  <2>1. outEdges[m] \in Seq(stages) /\ inEdges[m] \in Seq(stages)
    BY <1>2
  <2>2. Elements(outEdges[m]) \subseteq stages /\ Elements(inEdges[m]) \subseteq stages
    BY <2>1 DEF Elements
  <2>3. n \notin Elements(outEdges[m]) /\ n \notin Elements(inEdges[m])
    BY <1>1, <2>2
  <2> QED
    BY <2>1, <2>2, <2>3, CountIs
<1>5. /\ outEdges'[n] = <<>> /\ inEdges'[n] = <<>>
      /\ \A m \in stages : outEdges'[m] = outEdges[m] /\ inEdges'[m] = inEdges[m]
  BY <1>1
<1>6. Typed'
  <2>1. IsFiniteSet(stages \cup {n})
    BY <1>2, FS_AddElement
  <2>2. stages' \subseteq Users \cup Converters
    BY <1>1, <1>2
  <2>3. \A q \in Seq(stages) : q \in Seq(stages')
    BY <1>1, SeqWider
  <2>4. <<>> \in Seq(stages') /\ Len(<<>>) <= MaxEdges
    BY BoundsAssumption
  <2>5. \A m \in stages' :
          outEdges'[m] \in Seq(stages') /\ inEdges'[m] \in Seq(stages') /\ Len(outEdges'[m]) <= MaxEdges
    <3> TAKE m \in stages'
    <3>1. CASE m = n
      BY <1>5, <2>4, <3>1
    <3>2. CASE m \in stages
      BY <1>2, <1>5, <2>3, <3>2
    <3> QED
      BY <1>1, <3>1, <3>2
  <2>6. outEdges' \in [stages' -> Seq(stages')] /\ inEdges' \in [stages' -> Seq(stages')]
    <3>1. outEdges' = [m \in stages' |-> outEdges'[m]] /\ inEdges' = [m \in stages' |-> inEdges'[m]]
      BY <1>1
    <3>2. ASSUME NEW D, NEW g, g = [m \in D |-> g[m]], \A m \in D : g[m] \in Seq(D)
          PROVE  g \in [D -> Seq(D)]
      BY <3>2
    <3> QED
      BY <2>5, <3>1, <3>2
  <2> QED
    BY <1>1, <2>1, <2>2, <2>5, <2>6 DEF Typed, IInv
<1>7. EdgesCounted'
  <2> SUFFICES ASSUME NEW a \in stages', NEW b \in stages'
               PROVE  /\ Count(inEdges'[a], b) <= Count(outEdges'[b], a)
                      /\ a \in Users => Count(inEdges'[a], b) = Count(outEdges'[b], a)
    BY DEF EdgesCounted
  <2>1. CASE a \in stages /\ b \in stages
    BY <1>5, <2>1 DEF IInv, EdgesCounted
  <2>2. CASE a = n
    <3>1. Count(inEdges'[a], b) = 0
      BY <1>3, <1>5, <2>2
    <3>2. Count(outEdges'[b], a) = 0
      <4>1. CASE b = n
        BY <1>3, <1>5, <4>1
      <4>2. CASE b \in stages
        BY <1>4, <1>5, <2>2, <4>2
      <4> QED
        BY <1>1, <4>1, <4>2
    <3> QED
      BY <3>1, <3>2
  <2>3. CASE a \in stages /\ b = n
    <3>1. Count(inEdges'[a], b) = 0 /\ Count(outEdges'[b], a) = 0
      BY <1>3, <1>4, <1>5, <2>3
    <3> QED
      BY <3>1
  <2> QED
    BY <1>1, <2>1, <2>2, <2>3
<1>8. EdgeShape'
  <2> SUFFICES ASSUME NEW a \in stages', NEW b \in Elements(outEdges'[a]) PROVE Leads(a, b)
    BY DEF EdgeShape, Leads
  <2>1. a \in stages /\ b \in Elements(outEdges[a])
    BY <1>1, <1>3, <1>5
  <2> QED
    BY <2>1 DEF IInv, EdgeShape
<1>9. Grounded'
  <2> SUFFICES ASSUME NEW S \in SUBSET stages',
                      \A a \in S : \E b \in S : a \in Elements(outEdges'[b])
               PROVE  S = {}
    BY DEF Grounded
  <2>1. \A a \in S : \E b \in S : b \in stages /\ a \in stages /\ a \in Elements(outEdges[b])
    <3> TAKE a \in S
    <3>1. PICK b \in S : a \in Elements(outEdges'[b])
      OBVIOUS
    <3>2. b \in stages
      BY <1>1, <1>3, <1>5, <3>1
    <3> QED
      BY <1>4, <1>5, <3>1, <3>2
  <2>2. S \in SUBSET stages /\ \A a \in S : \E b \in S : a \in Elements(outEdges[b])
    BY <2>1
  <2> QED
    BY <2>2 DEF IInv, Grounded
<1>10. WiringMatchesEdges'
  BY <1>1, <1>2 DEF IInv, WiringMatchesEdges
<1> QED
  BY <1>6, <1>7, <1>8, <1>9, <1>10 DEF IInv

-----------------------------------------------------------------------------
\* The invariant.
LEMMA InitInv == Init => IInv
<1> SUFFICES ASSUME Init PROVE IInv
  OBVIOUS
<1>1. /\ state = "Created" /\ stages = {} /\ entry = {} /\ exit = {}
      /\ format = <<>> /\ outEdges = <<>> /\ inEdges = <<>> /\ next = <<>>
  BY DEF Init
<1>2. IsFiniteSet({}) /\ Cardinality({}) = 0
  BY FS_EmptySet
<1>3. DOMAIN <<>> = {} /\ <<>> \in [{} -> Seq({})]
  OBVIOUS
<1>4. Typed
  BY <1>1, <1>2, <1>3 DEF Typed
<1> QED
  BY <1>1, <1>4 DEF IInv, EdgesCounted, EdgeShape, Grounded, WiringMatchesEdges

LEMMA ResetInv == IInv /\ reset => IInv'
<1> SUFFICES ASSUME reset PROVE IInv'
  OBVIOUS
<1>1. /\ state' = "Reset" /\ stages' = {} /\ entry' = {} /\ exit' = {}
      /\ format' = <<>> /\ outEdges' = <<>> /\ inEdges' = <<>> /\ next' = <<>>
  BY DEF reset
<1>2. IsFiniteSet({}) /\ Cardinality({}) = 0
  BY FS_EmptySet
<1>3. DOMAIN <<>> = {} /\ <<>> \in [{} -> Seq({})]
  OBVIOUS
<1>4. Typed'
  BY <1>1, <1>2, <1>3 DEF Typed
<1>5. EdgesCounted' /\ EdgeShape' /\ Grounded' /\ WiringMatchesEdges'
  BY <1>1 DEF EdgesCounted, EdgeShape, Grounded, WiringMatchesEdges
<1> QED
  BY <1>4, <1>5 DEF IInv

\* A step that leaves the graph as it is.
LEMMA GraphStays ==
  ASSUME IInv, UNCHANGED <<stages, format, outEdges, inEdges, next>>,
         state' \in {"Created", "Running", "Stopped", "Reset"},
         Cardinality(entry') <= 1, Cardinality(exit') <= 1
  PROVE  IInv'
<1>1. Typed'
  BY DEF IInv, Typed
<1>2. EdgesCounted' /\ EdgeShape' /\ Grounded' /\ WiringMatchesEdges'
  BY DEF IInv, EdgesCounted, EdgeShape, Leads, Grounded, WiringMatchesEdges
<1> QED
  BY <1>1, <1>2 DEF IInv

LEMMA EndIsOne ==
  ASSUME NEW edges, NEW e \in endStage(edges)
  PROVE  Cardinality(e) <= 1
<1>1. e = {} \/ \E n : e = {n}
  BY DEF endStage
<1>2. CASE e = {}
  BY <1>2, FS_EmptySet
<1>3. ASSUME NEW n, e = {n} PROVE Cardinality(e) <= 1
  <2>1. Cardinality({n}) = 1
    BY FS_Singleton
  <2> QED
    BY <1>3, <2>1
<1> QED
  BY <1>1, <1>2, <1>3

LEMMA NextInv ==
  ASSUME ~UseInserted, IInv, [Next]_vars
  PROVE  IInv'
<1>1. Named = stages \cap Users
  BY DEF Named
<1>2. ASSUME NEW n \in Users, NEW f \in StageFormats, addStage(n, f) PROVE IInv'
  BY <1>2, AddInv
<1>3. ASSUME NEW s \in Named, NEW d \in Named, connectStages(s, d) PROVE IInv'
  <2>1. Connected(s, d, route(s, d))
    BY <1>1, <1>3, ConnectIs
  <2>2. Typed'
    BY <2>1, ConnectTyped
  <2>3. EdgesCounted' /\ EdgeShape'
    BY <2>1, ConnectCounted
  <2>4. Grounded'
    BY <2>1, ConnectGrounded
  <2>5. WiringMatchesEdges'
    BY <2>1 DEF Connected, WiringMatchesEdges
  <2> QED
    BY <2>2, <2>3, <2>4, <2>5 DEF IInv
<1>4. ASSUME NEW n \in Named, removeStage(n) PROVE IInv'
  BY <1>1, <1>4, RemoveInv
<1>5. CASE start
  <2>1. Cardinality(entry') <= 1 /\ Cardinality(exit') <= 1
    BY <1>5, EndIsOne DEF start
  <2> QED
    BY <1>5, <2>1, GraphStays DEF start
<1>6. CASE stop
  BY <1>6, GraphStays DEF stop, IInv, Typed
<1>7. CASE reset
  BY <1>7, ResetInv
<1>8. CASE UNCHANGED vars
  BY <1>8, GraphStays DEF vars, IInv, Typed
<1> QED
  BY <1>2, <1>3, <1>4, <1>5, <1>6, <1>7, <1>8 DEF Next

THEOREM Invariance ==
  ASSUME ~UseInserted
  PROVE  Spec => []IInv
<1>1. IInv /\ [Next]_vars => IInv'
  BY NextInv
<1> QED
  BY <1>1, InitInv, PTL DEF Spec

\* Names, domains and ends keep their types.
THEOREM TypeCorrect ==
  ASSUME ~UseInserted
  PROVE  Spec => []TypeOK
<1>1. IInv => TypeOK
  <2> SUFFICES ASSUME IInv PROVE TypeOK
    OBVIOUS
  <2>1. Elements(Kinds) = KindSet
    BY DEF Elements, Kinds, KindSet
  <2>2. \A n \in stages \ Users : n[3] \in KindSet
    BY ConverterIsNoUser DEF IInv, Typed
  <2>3. DOMAIN next = stages
    BY DEF IInv, Typed, WiringMatchesEdges
  <2> QED
    BY <2>1, <2>2, <2>3 DEF TypeOK, IInv, Typed
<1> QED
  BY <1>1, Invariance, PTL

\* removeStage() finds every edge it must take back.
THEOREM EdgesAlwaysAgree ==
  ASSUME ~UseInserted
  PROVE  Spec => []EdgesAgree
<1>1. IInv => EdgesAgree
  <2> SUFFICES ASSUME IInv, NEW n \in stages
               PROVE  Elements(outEdges[n]) \cup Elements(inEdges[n]) \subseteq stages
    BY DEF EdgesAgree, IInv, EdgesCounted
  <2>1. outEdges[n] \in Seq(stages) /\ inEdges[n] \in Seq(stages)
    BY DEF IInv, Typed
  <2> QED
    BY <2>1 DEF Elements
<1> QED
  BY <1>1, Invariance, PTL

\* The handlers forward to what the graph has edges to, through every insertion of
\* converters and every removal.
THEOREM HandlersFollowEdges ==
  ASSUME ~UseInserted
  PROVE  Spec => []WiringMatchesEdges
<1>1. IInv => WiringMatchesEdges
  BY DEF IInv
<1> QED
  BY <1>1, Invariance, PTL

\* start() never refuses a graph that was built through the API: the search that
\* connectStages() makes is enough, and Kahn's algorithm takes out every stage.
THEOREM StartAccepts ==
  ASSUME ~UseInserted
  PROVE  Spec => []StartNeverRefused
<1>1. IInv => StartNeverRefused
  <2> SUFFICES ASSUME IInv PROVE StartNeverRefused
    OBVIOUS
  <2>1. visited = stages
    BY AllAreVisited DEF IInv, Typed
  <2> QED
    BY <2>1 DEF StartNeverRefused, validateAcyclic
<1> QED
  BY <1>1, Invariance, PTL

-----------------------------------------------------------------------------
(***************************************************************************)
(* The abstract topology, StageDag, for any set of names: the reachability *)
(* test that connectStages makes before it adds an edge is sufficient.     *)
(***************************************************************************)
\* A stage reaches itself, what it reaches is closed under the edges, and is
\* the least such set.
LEMMA ReachClosed ==
  ASSUME NEW E \in SUBSET (Users \X Users), NEW n \in Users
  PROVE  /\ Dag!Reach(E, n) \in SUBSET Users
         /\ n \in Dag!Reach(E, n)
         /\ Dag!Closed(Dag!Reach(E, n), E)
BY DEF Dag!Reach, Dag!Closed

LEMMA ReachLeast ==
  ASSUME NEW E \in SUBSET (Users \X Users), NEW n \in Users,
         NEW S \in SUBSET Users, n \in S, Dag!Closed(S, E)
  PROVE  Dag!Reach(E, n) \subseteq S
BY DEF Dag!Reach

\* Fewer edges, or a path that goes on from a reached stage, reach no more.
LEMMA ReachMonotonic ==
  ASSUME NEW E \in SUBSET (Users \X Users), NEW F \in SUBSET E, NEW n \in Users
  PROVE  Dag!Reach(F, n) \subseteq Dag!Reach(E, n)
<1>1. Dag!Closed(Dag!Reach(E, n), F)
  BY ReachClosed DEF Dag!Closed
<1>. QED
  BY <1>1, ReachClosed, ReachLeast

LEMMA ReachTransitive ==
  ASSUME NEW E \in SUBSET (Users \X Users), NEW n \in Users, NEW m \in Dag!Reach(E, n)
  PROVE  Dag!Reach(E, m) \subseteq Dag!Reach(E, n)
BY ReachClosed, ReachLeast

\* With one more edge <<s, d>>, a stage reaches at most what it reached before
\* and, if it reached s, what d reached before.
LEMMA ReachOneMoreEdge ==
  ASSUME NEW E \in SUBSET (Users \X Users), NEW s \in Users, NEW d \in Users,
         NEW n \in Users
  PROVE  Dag!Reach(E \cup {<<s, d>>}, n) \subseteq
           IF s \in Dag!Reach(E, n) THEN Dag!Reach(E, n) \cup Dag!Reach(E, d) ELSE Dag!Reach(E, n)
<1>1. CASE s \in Dag!Reach(E, n)
  <2>1. Dag!Closed(Dag!Reach(E, n) \cup Dag!Reach(E, d), E \cup {<<s, d>>})
    BY ReachClosed DEF Dag!Closed
  <2>. QED
    BY <1>1, <2>1, ReachClosed, ReachLeast
<1>2. CASE s \notin Dag!Reach(E, n)
  <2>1. Dag!Closed(Dag!Reach(E, n), E \cup {<<s, d>>})
    BY <1>2, ReachClosed DEF Dag!Closed
  <2>. QED
    BY <1>2, <2>1, ReachClosed, ReachLeast
<1>. QED
  BY <1>1, <1>2

\* The test that connectStages makes is sufficient: an edge to a stage from
\* which the source cannot be reached closes no cycle.
THEOREM ConnectKeepsAcyclic ==
  ASSUME NEW E \in SUBSET (Users \X Users), Dag!AcyclicEdges(E),
         NEW s \in Users, NEW d \in Users, s \notin Dag!Reach(E, d)
  PROVE  Dag!AcyclicEdges(E \cup {<<s, d>>})
<1>. DEFINE F == E \cup {<<s, d>>}
<1>1. SUFFICES ASSUME NEW e \in F, e[1] \in Dag!Reach(F, e[2])
               PROVE  FALSE
  BY DEF Dag!AcyclicEdges
<1>2. e[1] \in Users /\ e[2] \in Users
  BY <1>1
<1>3. CASE e \in E
  <2>1. e[1] \notin Dag!Reach(E, e[2])
    BY <1>3 DEF Dag!AcyclicEdges
  <2>2. s \in Dag!Reach(E, e[2]) /\ e[1] \in Dag!Reach(E, d)
    BY <1>1, <1>2, <2>1, ReachOneMoreEdge
  <2>3. e[2] \in Dag!Reach(E, d)
    BY <1>3, <2>2, ReachClosed DEF Dag!Closed
  <2>. QED
    BY <2>2, <2>3, ReachTransitive
<1>4. CASE e = <<s, d>>
  BY <1>1, <1>4, ReachOneMoreEdge
<1>. QED
  BY <1>1, <1>3, <1>4

LEMMA RemoveKeepsAcyclic ==
  ASSUME NEW E \in SUBSET (Users \X Users), Dag!AcyclicEdges(E), NEW F \in SUBSET E
  PROVE  Dag!AcyclicEdges(F)
<1>1. SUFFICES ASSUME NEW e \in F PROVE e[1] \notin Dag!Reach(F, e[2])
  BY DEF Dag!AcyclicEdges
<1>2. e[2] \in Users /\ e[1] \notin Dag!Reach(E, e[2])
  BY <1>1 DEF Dag!AcyclicEdges
<1>. QED
  BY <1>2, ReachMonotonic

\* Whatever is added, connected and removed, in any order, the topology is
\* acyclic and its edges join registered stages.
THEOREM AlwaysAcyclic == Dag!Spec => [](Dag!Acyclic /\ Dag!EdgesPresent)
<1>. DEFINE present == stages \cap Users
            Inv == Dag!EdgesPresent /\ Dag!Acyclic
<1>1. Dag!Init => Inv
  BY DEF Dag!Init, Dag!EdgesPresent, Dag!Acyclic, Dag!AcyclicEdges
<1>2. Inv /\ [Dag!Next]_(Dag!vars) => Inv'
  <2>1. SUFFICES ASSUME Inv, [Dag!Next]_(Dag!vars) PROVE Inv'
    OBVIOUS
  <2>. USE DEF Dag!EdgesPresent, Dag!Acyclic
  <2>2. Connections \in SUBSET (Users \X Users)
    BY <2>1
  <2>3. ASSUME NEW n \in Users, Dag!Add(n) PROVE Inv'
    BY <2>1, <2>3 DEF Dag!Add
  <2>4. ASSUME NEW s \in Users, NEW d \in Users, Dag!Connect(s, d) PROVE Inv'
    <3>1. Dag!AcyclicEdges(Connections')
      BY <2>1, <2>2, <2>4, ConnectKeepsAcyclic DEF Dag!Connect
    <3>. QED
      BY <2>1, <2>4, <3>1 DEF Dag!Connect
  <2>5. ASSUME NEW n \in Users, Dag!Remove(n) PROVE Inv'
    <3>1. Connections' \in SUBSET Connections
      BY <2>5 DEF Dag!Remove
    <3>2. Dag!AcyclicEdges(Connections')
      BY <2>1, <2>2, <3>1, RemoveKeepsAcyclic
    <3>3. Connections' \subseteq present' \X present'
      BY <2>1, <2>5 DEF Dag!Remove
    <3>. QED
      BY <2>1, <2>5, <3>2, <3>3 DEF Dag!Remove
  <2>6. CASE Dag!Clear
    BY <2>6 DEF Dag!Clear, Dag!AcyclicEdges
  <2>7. CASE UNCHANGED Dag!vars
    BY <2>1, <2>7 DEF Dag!vars
  <2>. QED
    BY <2>1, <2>3, <2>4, <2>5, <2>6, <2>7 DEF Dag!Next
<1>. QED
  BY <1>1, <1>2, PTL DEF Dag!Spec

-----------------------------------------------------------------------------
(***************************************************************************)
(* The graph implements the abstract topology.                             *)
(***************************************************************************)

\* The stages, converters included, that u feeds: the least set that has those that u
\* leads to and those that converters in it lead to.
Hull(St, outs, u) == Reached(outs, Elements(outs[u]), St \ Users)

LEMMA HullIs ==
  ASSUME NEW St, IsFiniteSet(St), NEW outs \in [St -> Seq(St)], NEW u \in St
  PROVE  /\ Elements(outs[u]) \subseteq Hull(St, outs, u)
         /\ Hull(St, outs, u) \subseteq St
         /\ \A m \in Hull(St, outs, u) \ Users : Elements(outs[m]) \subseteq Hull(St, outs, u)
<1> DEFINE F == Elements(outs[u])
           V == St \ Users
<1>1. F \in SUBSET St /\ V \in SUBSET St
  BY DEF Elements
<1>2. /\ F \subseteq Reached(outs, F, V)
      /\ Reached(outs, F, V) \subseteq St
      /\ \A m \in Reached(outs, F, V) \cap V : Elements(outs[m]) \subseteq Reached(outs, F, V)
  <2> HIDE DEF F, V
  <2> QED
    BY <1>1, ReachedIs
<1> QED
  BY <1>2 DEF Hull

LEMMA HullLeast ==
  ASSUME NEW St, IsFiniteSet(St), NEW outs \in [St -> Seq(St)], NEW u \in St,
         NEW C, Elements(outs[u]) \subseteq C,
         \A m \in (C \cap St) \ Users : Elements(outs[m]) \subseteq C
  PROVE  Hull(St, outs, u) \subseteq C
<1> DEFINE F == Elements(outs[u])
           V == St \ Users
<1>1. F \in SUBSET St /\ V \in SUBSET St
  BY DEF Elements
<1>2. F \subseteq C /\ \A m \in C \cap V : Elements(outs[m]) \subseteq C
  OBVIOUS
<1>3. Reached(outs, F, V) \subseteq C
  <2> HIDE DEF F, V
  <2> QED
    BY <1>1, <1>2, ReachedIs
<1> QED
  BY <1>3 DEF Hull

LEMMA ConnectionsAre ==
  /\ \A e \in Connections : e \in Users \X Users
  /\ \A a, b : <<a, b>> \in Connections <=>
       a \in stages \cap Users /\ b \in Hull(stages, outEdges, a) \cap stages \cap Users
BY DEF Connections, Feeds, Hull

LEMMA ConnectionsAreThen ==
  /\ \A e \in Connections' : e \in Users \X Users
  /\ \A a, b : <<a, b>> \in Connections' <=>
       a \in stages' \cap Users /\ b \in Hull(stages', outEdges', a) \cap stages' \cap Users
BY DEF Connections, Feeds, Hull

\* Two sets of pairs are the same if they have the same pairs.
LEMMA SamePairs ==
  ASSUME NEW E \in SUBSET (Users \X Users), NEW F \in SUBSET (Users \X Users),
         \A a, b \in Users : <<a, b>> \in E <=> <<a, b>> \in F
  PROVE  E = F
OBVIOUS

LEMMA AddImplements ==
  ASSUME IInv, IInv', NEW n \in Users, NEW f, addStage(n, f)
  PROVE  Dag!Add(n)
<1>1. /\ n \notin stages /\ stages' = stages \cup {n}
      /\ outEdges' = [m \in stages' |-> IF m = n THEN <<>> ELSE outEdges[m]]
  BY DEF addStage
<1>2. /\ IsFiniteSet(stages) /\ outEdges \in [stages -> Seq(stages)]
      /\ IsFiniteSet(stages') /\ outEdges' \in [stages' -> Seq(stages')]
  BY DEF IInv, Typed
<1>3. outEdges'[n] = <<>> /\ \A m \in stages : outEdges'[m] = outEdges[m]
  BY <1>1
<1>4. ASSUME NEW u \in stages PROVE Hull(stages', outEdges', u) = Hull(stages, outEdges, u)
  <2>1. /\ Elements(outEdges[u]) \subseteq Hull(stages, outEdges, u)
        /\ Hull(stages, outEdges, u) \subseteq stages
        /\ \A m \in Hull(stages, outEdges, u) \ Users :
             Elements(outEdges[m]) \subseteq Hull(stages, outEdges, u)
    BY <1>2, HullIs
  <2>2. u \in stages'
    BY <1>1
  <2>3. /\ Elements(outEdges'[u]) \subseteq Hull(stages', outEdges', u)
        /\ \A m \in Hull(stages', outEdges', u) \ Users :
             Elements(outEdges'[m]) \subseteq Hull(stages', outEdges', u)
    BY <1>2, <2>2, HullIs
  <2> DEFINE H == Hull(stages, outEdges, u)
             G == Hull(stages', outEdges', u)
  <2>4. Elements(outEdges'[u]) \subseteq H /\ \A m \in (H \cap stages') \ Users : Elements(outEdges'[m]) \subseteq H
    BY <1>3, <2>1
  <2>5. Elements(outEdges[u]) \subseteq G /\ \A m \in (G \cap stages) \ Users : Elements(outEdges[m]) \subseteq G
    BY <1>3, <2>3
  <2> HIDE DEF H, G
  <2>6. Hull(stages', outEdges', u) \subseteq H
    BY <1>2, <2>2, <2>4, HullLeast
  <2>7. Hull(stages, outEdges, u) \subseteq G
    BY <1>2, <2>5, HullLeast
  <2> QED
    BY <2>6, <2>7 DEF H, G
<1>5. Hull(stages', outEdges', n) = {}
  <2> DEFINE C == {}
  <2>1. Elements(outEdges'[n]) \subseteq C /\ n \in stages'
    BY <1>1, <1>3 DEF Elements
  <2>2. \A m \in (C \cap stages') \ Users : Elements(outEdges'[m]) \subseteq C
    OBVIOUS
  <2> HIDE DEF C
  <2>3. Hull(stages', outEdges', n) \subseteq C
    BY <1>2, <2>1, <2>2, HullLeast
  <2> QED
    BY <2>3 DEF C
<1>6. \A u \in stages : Hull(stages, outEdges, u) \subseteq stages
  BY <1>2, HullIs
<1>7. \A a, b \in Users : <<a, b>> \in Connections' <=> <<a, b>> \in Connections
  <2> TAKE a, b \in Users
  <2>1. <<a, b>> \in Connections <=>
          a \in stages /\ b \in Hull(stages, outEdges, a) \cap stages
    BY ConnectionsAre
  <2>2. <<a, b>> \in Connections' <=>
          a \in stages' /\ b \in Hull(stages', outEdges', a) \cap stages'
    BY ConnectionsAreThen
  <2>3. CASE a = n
    BY <1>1, <1>5, <2>1, <2>2, <2>3
  <2>4. CASE a \in stages
    BY <1>1, <1>4, <1>6, <2>1, <2>2, <2>4
  <2>5. CASE a \notin stages'
    BY <1>1, <2>1, <2>2, <2>5
  <2> QED
    BY <1>1, <2>3, <2>4, <2>5
<1>8. Connections \in SUBSET (Users \X Users) /\ Connections' \in SUBSET (Users \X Users)
  BY ConnectionsAre, ConnectionsAreThen
<1>9. Connections' = Connections
  BY <1>7, <1>8, SamePairs
<1>10. (stages \cap Users)' = (stages \cap Users) \cup {n} /\ n \in Users \ (stages \cap Users)
  BY <1>1
<1> QED
  BY <1>9, <1>10 DEF Dag!Add

\* Connecting s to d lets s feed d, through the converters of the route, and changes
\* nothing else: every converter there is belongs to one source.
LEMMA ConnectHulls ==
  ASSUME IInv, IInv', NEW s, NEW d, NEW P, Connected(s, d, P), NEW u \in stages \cap Users
  PROVE  Hull(stages', outEdges', u) \cap Users
           = (Hull(stages, outEdges, u) \cap Users) \cup (IF u = s THEN {d} ELSE {})
<1> DEFINE H == Hull(stages, outEdges, u)
           G == Hull(stages', outEdges', u)
<1>1. /\ IsFiniteSet(stages) /\ outEdges \in [stages -> Seq(stages)]
      /\ IsFiniteSet(stages') /\ outEdges' \in [stages' -> Seq(stages')]
      /\ stages \subseteq Users \cup Converters /\ stages' \subseteq Users \cup Converters
  BY DEF IInv, Typed
<1>2. /\ s \in stages \cap Users /\ d \in stages \cap Users /\ s # d /\ IsRoute(P, s, d)
      /\ stages' = stages \cup Elements(P) /\ u \in stages' /\ u \in Users
  BY DEF Connected
<1>3. \A n \in stages' : \A m :
        m \in Elements(outEdges'[n]) <=> m \in Elements(OutsBefore(n)) \/ Added(P, n, m)
  BY ConnectEdges
<1>4. /\ \A n \in stages : OutsBefore(n) = outEdges[n]
      /\ \A n \in stages' \ stages : Elements(OutsBefore(n)) = {}
  BY DEF OutsBefore, Elements
<1>5. \A n, m : Added(P, n, m) =>
        /\ n = s \/ (n \in Converters /\ n \notin Users /\ n[1] = s /\ n[2] = d)
        /\ m = d \/ (m \in Converters /\ m \notin Users /\ m[1] = s /\ m[2] = d)
  BY <1>2, AddedIs
<1>6. /\ \A n \in stages : \A m \in Elements(outEdges[n]) : Leads(n, m)
      /\ \A n \in stages' : \A m \in Elements(outEdges'[n]) : Leads(n, m)
  BY DEF IInv, EdgeShape
<1>7. /\ Elements(outEdges[u]) \subseteq H /\ H \subseteq stages
      /\ \A m \in H \ Users : Elements(outEdges[m]) \subseteq H
  BY <1>1, HullIs
<1>8. /\ Elements(outEdges'[u]) \subseteq G /\ G \subseteq stages'
      /\ \A m \in G \ Users : Elements(outEdges'[m]) \subseteq G
  BY <1>1, <1>2, HullIs
<1>9. H \subseteq G
  <2>1. \A m \in stages : Elements(outEdges[m]) \subseteq Elements(outEdges'[m])
    BY <1>2, <1>3, <1>4
  <2>2. /\ Elements(outEdges[u]) \subseteq G
        /\ \A m \in (G \cap stages) \ Users : Elements(outEdges[m]) \subseteq G
    BY <1>8, <2>1
  <2> HIDE DEF G
  <2> QED
    BY <1>1, <2>2, HullLeast
<1>10. CASE u # s
  <2> DEFINE C == {x \in H : x \in Users \/ x[1] = u}
  <2>1. ASSUME NEW x \in Elements(outEdges'[u]) PROVE x \in C
    <3>1. ~Added(P, u, x)
      BY <1>2, <1>5, <1>10
    <3>2. x \in Elements(outEdges[u])
      BY <1>2, <1>3, <1>4, <3>1
    <3> QED
      BY <1>2, <1>6, <1>7, <3>2 DEF Leads
  <2>2. ASSUME NEW m \in (C \cap stages') \ Users, NEW x \in Elements(outEdges'[m])
        PROVE  x \in C
    <3>1. m \in stages /\ m \in H /\ m[1] = u /\ m \in Converters
      BY <1>1, <1>7, <2>2
    <3>2. ~Added(P, m, x)
      BY <1>2, <1>5, <1>10, <2>2, <3>1
    <3>3. x \in Elements(outEdges[m])
      BY <1>3, <1>4, <2>2, <3>1, <3>2
    <3>4. x \in H
      BY <1>7, <2>2, <3>1, <3>3
    <3>5. Leads(m, x) /\ m[2] \in Users
      BY <1>6, <3>1, <3>3, ConverterIsNoUser
    <3> QED
      BY <2>2, <3>1, <3>4, <3>5 DEF Leads
  <2>3. C \subseteq H
    OBVIOUS
  <2>4. /\ Elements(outEdges'[u]) \subseteq C
        /\ \A m \in (C \cap stages') \ Users : Elements(outEdges'[m]) \subseteq C
    BY <2>1, <2>2
  <2> HIDE DEF C
  <2>5. G \subseteq C
    BY <1>1, <1>2, <2>4, HullLeast
  <2> HIDE DEF G, H
  <2>6. G = H
    BY <1>9, <2>3, <2>5
  <2> QED
    BY <1>10, <2>6 DEF G, H
<1>11. CASE u = s
  <2> DEFINE Q == {x \in Converters : x[1] = s /\ x[2] = d}
             C == H \cup Q \cup {d}
  <2>1. \A n, x : Added(P, n, x) => x \in C
    BY <1>5
  <2>2. Elements(outEdges'[u]) \subseteq C
    BY <1>2, <1>3, <1>4, <1>7, <2>1
  <2>3. ASSUME NEW m \in (C \cap stages') \ Users, NEW x \in Elements(outEdges'[m])
        PROVE  x \in C
    <3>1. CASE m \in H
      <4>1. m \in stages /\ m \in stages'
        BY <1>7, <2>3, <3>1
      <4>2. x \in Elements(outEdges[m]) \/ Added(P, m, x)
        BY <1>3, <1>4, <2>3, <4>1
      <4> QED
        BY <1>7, <2>1, <2>3, <3>1, <4>2
    <3>2. CASE m \in Q
      <4>1. Leads(m, x)
        BY <1>6, <2>3
      <4> QED
        BY <2>3, <3>2, <4>1 DEF Leads
    <3>3. m # d
      BY <1>2, <2>3
    <3> QED
      BY <2>3, <3>1, <3>2, <3>3
  <2>4. C \cap Users \subseteq (H \cap Users) \cup {d}
    BY ConverterIsNoUser
  <2>5. \A m \in (C \cap stages') \ Users : Elements(outEdges'[m]) \subseteq C
    BY <2>3
  <2>6. G \subseteq C
    <3> HIDE DEF C
    <3> QED
      BY <1>1, <1>2, <2>2, <2>5, HullLeast
  <2>7. d \in G
    <3> DEFINE M == Len(P) - 2
               T == {i \in 0 .. M : P[i + 2] \in G}
    <3>1. /\ Len(P) \in Nat /\ Len(P) >= 2 /\ M \in Nat /\ P[1] = s /\ P[M + 2] = d
      BY <1>2 DEF IsRoute
    <3>2. \A i \in 1 .. Len(P) : P[i] \in stages'
      BY <1>2 DEF IsRoute, Elements
    <3>3. \A i \in 1 .. Len(P) - 1 : P[i + 1] \in Elements(outEdges'[P[i]])
      <4> TAKE i \in 1 .. Len(P) - 1
      <4>1. P[i] \in stages'
        BY <3>1, <3>2
      <4>2. Added(P, P[i], P[i + 1])
        BY DEF Added
      <4> QED
        BY <1>3, <4>1, <4>2
    <3>4. 0 \in T
      <4>1. 1 \in 1 .. Len(P) - 1 /\ 0 \in 0 .. M /\ 0 + 2 = 2 /\ 1 + 1 = 2
        BY <3>1
      <4>2. P[1 + 1] \in Elements(outEdges'[u])
        BY <1>11, <3>1, <3>3, <4>1
      <4> QED
        BY <1>8, <4>1, <4>2
    <3>5. ASSUME NEW i \in 0 .. M - 1, i \in T PROVE i + 1 \in T
      <4>1. /\ i + 2 \in 2 .. Len(P) - 1 /\ i + 2 \in 1 .. Len(P) - 1
            /\ i + 1 \in 0 .. M /\ (i + 1) + 2 = (i + 2) + 1
        BY <3>1
      <4>2. P[i + 2] \in G \ Users
        BY <1>2, <3>5, <4>1, RouteMembers
      <4>3. P[(i + 2) + 1] \in G
        <5> HIDE DEF G
        <5> QED
          BY <1>8, <3>3, <4>1, <4>2
      <4> QED
        BY <4>1, <4>3
    <3>6. \A i \in 0 .. M - 1 : i \in T => i + 1 \in T
      BY <3>5
    <3> HIDE DEF T
    <3>7. 0 .. M \subseteq T
      BY <3>1, <3>4, <3>6, InductionTo
    <3>8. M \in T
      BY <3>1, <3>7
    <3> QED
      BY <3>1, <3>8 DEF T
  <2> HIDE DEF G, H, C
  <2>8. G \cap Users = (H \cap Users) \cup {d}
    BY <1>2, <1>9, <2>4, <2>6, <2>7
  <2> QED
    BY <1>11, <2>8 DEF G, H
<1> QED
  BY <1>10, <1>11

LEMMA ConnectImplements ==
  ASSUME IInv, IInv', NEW s, NEW d, NEW P, Connected(s, d, P)
  PROVE  Dag!Connect(s, d)
<1>1. /\ s \in stages \cap Users /\ d \in stages \cap Users /\ s # d /\ IsRoute(P, s, d)
      /\ stages' = stages \cup Elements(P) /\ s \notin Downstream(d)
  BY DEF Connected
<1>2. /\ IsFiniteSet(stages) /\ outEdges \in [stages -> Seq(stages)]
      /\ IsFiniteSet(stages') /\ outEdges' \in [stages' -> Seq(stages')]
  BY DEF IInv, Typed
<1>3. stages' \cap Users = stages \cap Users
  <2>1. ASSUME NEW x \in Elements(P), x \in Users PROVE x \in stages
    <3>1. PICK i \in 1 .. Len(P) : x = P[i]
      BY <1>1, <2>1 DEF IsRoute, Elements
    <3>2. i = 1 \/ i = Len(P) \/ i \in 2 .. Len(P) - 1
      BY <1>1, <3>1 DEF IsRoute
    <3> QED
      BY <1>1, <2>1, <3>1, <3>2, RouteMembers DEF IsRoute
  <2> QED
    BY <1>1, <2>1
<1>4. Connections' = Connections \cup {<<s, d>>}
  <2> DEFINE F == Connections \cup {<<s, d>>}
  <2>1. Connections' \in SUBSET (Users \X Users) /\ F \in SUBSET (Users \X Users)
    BY <1>1, ConnectionsAre, ConnectionsAreThen
  <2>2. ASSUME NEW a \in Users, NEW b \in Users PROVE <<a, b>> \in Connections' <=> <<a, b>> \in F
    <3>1. <<a, b>> \in F <=> (a \in stages /\ b \in Hull(stages, outEdges, a) /\ b \in stages)
                               \/ (a = s /\ b = d)
      BY ConnectionsAre
    <3>2. <<a, b>> \in Connections' <=>
            a \in stages' /\ b \in Hull(stages', outEdges', a) /\ b \in stages'
      BY ConnectionsAreThen
    <3>3. CASE a \in stages
      <4>1. Hull(stages', outEdges', a) \cap Users
              = (Hull(stages, outEdges, a) \cap Users) \cup (IF a = s THEN {d} ELSE {})
        BY <3>3, ConnectHulls
      <4>2. b \in Hull(stages', outEdges', a) <=>
              b \in Hull(stages, outEdges, a) \/ (a = s /\ b = d)
        BY <4>1
      <4>3. a \in stages' /\ (b \in stages' <=> b \in stages)
        BY <1>3, <3>3
      <4> QED
        BY <1>1, <3>1, <3>2, <3>3, <4>2, <4>3
    <3>4. CASE a \notin stages
      BY <1>1, <1>3, <3>1, <3>2, <3>4
    <3> QED
      BY <3>3, <3>4
  <2> HIDE DEF F
  <2>3. Connections' = F
    BY <2>1, <2>2, SamePairs
  <2> QED
    BY <2>3 DEF F
<1>5. s \notin Dag!Reach(Connections, d)
  <2> DEFINE D == Downstream(d)
             S == D \cap Users
             One == {d}
  <2>1. /\ d \in D /\ D \subseteq stages
        /\ \A m \in D : Elements(outEdges[m]) \subseteq D
    <3>1. One \in SUBSET stages
      BY <1>1
    <3> HIDE DEF One
    <3>2. /\ One \subseteq Reached(outEdges, One, stages)
          /\ Reached(outEdges, One, stages) \subseteq stages
          /\ \A m \in Reached(outEdges, One, stages) \cap stages :
               Elements(outEdges[m]) \subseteq Reached(outEdges, One, stages)
      <4>1. stages \in SUBSET stages
        OBVIOUS
      <4> QED
        BY <1>2, <3>1, <4>1, ReachedIs
    <3> QED
      BY <3>2 DEF One, Downstream
  <2>2. ASSUME NEW e \in Connections, e[1] \in S PROVE e[2] \in S
    <3>1. e \in Users \X Users /\ e = <<e[1], e[2]>> /\ <<e[1], e[2]>> \in Connections
      BY <2>2, ConnectionsAre
    <3>2. e[2] \in Hull(stages, outEdges, e[1]) /\ e[2] \in Users /\ e[1] \in stages
      BY <3>1, ConnectionsAre
    <3>3. Elements(outEdges[e[1]]) \subseteq D /\ \A m \in (D \cap stages) \ Users : Elements(outEdges[m]) \subseteq D
      BY <2>1, <2>2
    <3> HIDE DEF D
    <3>4. Hull(stages, outEdges, e[1]) \subseteq D
      BY <1>2, <3>2, <3>3, HullLeast
    <3> QED
      BY <3>2, <3>4
  <2>3. /\ Connections \in SUBSET (Users \X Users) /\ d \in Users
        /\ S \in SUBSET Users /\ d \in S /\ Dag!Closed(S, Connections)
    BY <1>1, <2>1, <2>2, ConnectionsAre DEF Dag!Closed
  <2>4. Dag!Reach(Connections, d) \subseteq S
    <3> HIDE DEF S
    <3> QED
      BY <2>3, ReachLeast
  <2> QED
    BY <1>1, <2>4
<1> QED
  BY <1>1, <1>3, <1>4, <1>5 DEF Dag!Connect

\* Removing n takes it from what the others feed and changes nothing else: n is a stage
\* of the application, through which nothing is fed.
LEMMA RemoveHulls ==
  ASSUME IInv, IInv', NEW n \in stages \cap Users, removeStage(n), NEW u \in stages \cap Users, u # n
  PROVE  Hull(stages', outEdges', u) = Hull(stages, outEdges, u) \ {n}
<1> DEFINE H == Hull(stages, outEdges, u)
           G == Hull(stages', outEdges', u)
<1>1. /\ IsFiniteSet(stages) /\ outEdges \in [stages -> Seq(stages)]
      /\ IsFiniteSet(stages') /\ outEdges' \in [stages' -> Seq(stages')]
  BY DEF IInv, Typed
<1>2. stages' = stages \ {n} /\ outEdges' = [m \in stages' |-> Without(outEdges[m], n)]
  BY RemoveIs
<1>3. \A m \in stages' : Elements(outEdges'[m]) = Elements(outEdges[m]) \ {n}
  <2> TAKE m \in stages'
  <2>1. outEdges[m] \in Seq(stages) /\ outEdges'[m] = Without(outEdges[m], n)
    BY <1>1, <1>2
  <2> QED
    BY <2>1, WithoutIs
<1>4. /\ Elements(outEdges[u]) \subseteq H /\ H \subseteq stages
      /\ \A m \in H \ Users : Elements(outEdges[m]) \subseteq H
  BY <1>1, HullIs
<1>5. u \in stages' /\ u \in Users /\ n \in Users
  BY <1>2
<1>6. /\ Elements(outEdges'[u]) \subseteq G /\ G \subseteq stages'
      /\ \A m \in G \ Users : Elements(outEdges'[m]) \subseteq G
  BY <1>1, <1>5, HullIs
<1>7. G \subseteq H \ {n}
  <2> DEFINE C == H \ {n}
  <2>1. /\ Elements(outEdges'[u]) \subseteq C
        /\ \A m \in (C \cap stages') \ Users : Elements(outEdges'[m]) \subseteq C
    <3> HIDE DEF H
    <3> QED
      BY <1>3, <1>4, <1>5
  <2> HIDE DEF C
  <2>2. G \subseteq C
    BY <1>1, <1>5, <2>1, HullLeast
  <2> QED
    BY <2>2 DEF C
<1>8. H \subseteq G \cup {n}
  <2> DEFINE C == G \cup {n}
  <2>1. /\ Elements(outEdges[u]) \subseteq C
        /\ \A m \in (C \cap stages) \ Users : Elements(outEdges[m]) \subseteq C
    <3> HIDE DEF G
    <3> QED
      BY <1>2, <1>3, <1>5, <1>6
  <2> HIDE DEF C
  <2>2. H \subseteq C
    BY <1>1, <2>1, HullLeast
  <2> QED
    BY <2>2 DEF C
<1> HIDE DEF G, H
<1>9. G = H \ {n}
  BY <1>2, <1>6, <1>7, <1>8
<1> QED
  BY <1>9 DEF G, H

LEMMA RemoveImplements ==
  ASSUME IInv, IInv', NEW n \in stages \cap Users, removeStage(n)
  PROVE  Dag!Remove(n)
<1> DEFINE F == {e \in Connections : n \notin {e[1], e[2]}}
<1>1. stages' = stages \ {n}
  BY RemoveIs
<1>2. Connections' \in SUBSET (Users \X Users) /\ F \in SUBSET (Users \X Users)
  BY ConnectionsAre, ConnectionsAreThen
<1>3. ASSUME NEW a \in Users, NEW b \in Users PROVE <<a, b>> \in Connections' <=> <<a, b>> \in F
  <2>1. <<a, b>> \in F <=> /\ a \in stages /\ b \in Hull(stages, outEdges, a) /\ b \in stages
                           /\ a # n /\ b # n
    BY ConnectionsAre
  <2>2. <<a, b>> \in Connections' <=>
          a \in stages' /\ b \in Hull(stages', outEdges', a) /\ b \in stages'
    BY ConnectionsAreThen
  <2>3. a \in stages /\ a # n => Hull(stages', outEdges', a) = Hull(stages, outEdges, a) \ {n}
    BY RemoveHulls
  <2> QED
    BY <1>1, <2>1, <2>2, <2>3
<1> HIDE DEF F
<1>4. Connections' = F
  BY <1>2, <1>3, SamePairs
<1>5. n \in stages \cap Users /\ (stages \cap Users)' = (stages \cap Users) \ {n}
  BY <1>1
<1> QED
  BY <1>4, <1>5 DEF Dag!Remove, F

\* Seen through its converters, the graph is a directed acyclic graph, to which
\* connecting adds one edge and from which removing takes those of one stage.
THEOREM Refinement ==
  ASSUME ~UseInserted
  PROVE  Spec => ImplementsStageDag
<1>1. Init => Dag!Init
  BY DEF Init, Dag!Init, Connections
<1>2. ASSUME IInv, IInv', [Next]_vars PROVE [Dag!Next]_(Dag!vars)
  <2>1. ASSUME NEW n \in Users, NEW f \in StageFormats, addStage(n, f) PROVE Dag!Next
    BY <1>2, <2>1, AddImplements DEF Dag!Next
  <2>2. ASSUME NEW s \in Named, NEW d \in Named, connectStages(s, d) PROVE Dag!Next
    <3>1. s \in stages \cap Users /\ d \in stages \cap Users
      BY DEF Named
    <3>2. Connected(s, d, route(s, d))
      BY <1>2, <2>2, <3>1, ConnectIs
    <3>3. Dag!Connect(s, d)
      BY <1>2, <3>2, ConnectImplements
    <3> QED
      BY <3>1, <3>3 DEF Dag!Next
  <2>3. ASSUME NEW n \in Named, removeStage(n) PROVE Dag!Next
    <3>1. n \in stages \cap Users
      BY DEF Named
    <3>2. Dag!Remove(n)
      BY <1>2, <2>3, <3>1, RemoveImplements
    <3> QED
      BY <3>1, <3>2 DEF Dag!Next
  <2>4. CASE UNCHANGED <<stages, outEdges>>
    BY <2>4 DEF Dag!vars, Connections, Feeds
  <2>5. CASE start
    BY <2>4, <2>5 DEF start
  <2>6. CASE stop
    BY <2>4, <2>6 DEF stop
  <2>7. CASE reset
    <3>1. stages' = {}
      BY <2>7 DEF reset
    <3>2. (stages \cap Users)' = {} /\ Connections' = {}
      BY <3>1 DEF Connections
    <3> QED
      BY <3>2 DEF Dag!Next, Dag!Clear
  <2>8. CASE UNCHANGED vars
    BY <2>4, <2>8 DEF vars
  <2> QED
    BY <1>2, <2>1, <2>2, <2>3, <2>5, <2>6, <2>7, <2>8 DEF Next
<1>3. Spec => []IInv
  BY Invariance
<1> QED
  BY <1>1, <1>2, <1>3, PTL DEF Spec, ImplementsStageDag, Dag!Spec

\* No sequence of calls makes connections of the application's stages into a cycle.
COROLLARY ConnectionsAcyclic ==
  ASSUME ~UseInserted
  PROVE  Spec => []Dag!Acyclic
BY Refinement, AlwaysAcyclic, PTL DEF ImplementsStageDag

=============================================================================
