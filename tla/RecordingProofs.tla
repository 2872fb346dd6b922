---------------------------- MODULE RecordingProofs ----------------------------
(***************************************************************************)
(* A recording and its playback for any sizes of fields, frames, buffers   *)
(* and reads, and any sequence of chunks.                                  *)
(***************************************************************************)
EXTENDS Recording, NatRecursion

-----------------------------------------------------------------------------
\* Quotients and remainders.
LEMMA DivIs ==
  ASSUME NEW k \in Nat \ {0}, NEW a \in Nat
  PROVE  a \div k \in Nat /\ (a \div k) * k <= a /\ a < (a \div k) * k + k
OBVIOUS

LEMMA DivUnique ==
  ASSUME NEW k \in Nat \ {0}, NEW a \in Nat, NEW q \in Nat, q * k <= a, a < q * k + k
  PROVE  a \div k = q
BY DivIs

LEMMA DivAdd ==
  ASSUME NEW k \in Nat \ {0}, NEW s \in Nat, NEW t \in Nat
  PROVE  (s * k + t) \div k = s + t \div k
<1> DEFINE q == t \div k
<1>1. q \in Nat /\ q * k <= t /\ t < q * k + k
  BY DivIs
<1> HIDE DEF q
<1>2. (s + q) * k = s * k + q * k /\ s * k \in Nat /\ q * k \in Nat /\ s + q \in Nat
  BY <1>1
<1>3. (s * k + t) \div k = s + q
  BY <1>1, <1>2, DivUnique
<1> QED
  BY <1>3 DEF q

LEMMA RestIs ==
  ASSUME NEW k \in Nat \ {0}, NEW m \in Nat, NEW r0 \in 0 .. k - 1
  PROVE  (m * k + r0) % k = r0
OBVIOUS

LEMMA NoRest ==
  ASSUME NEW k \in Nat \ {0}, NEW m \in Nat
  PROVE  (m * k) % k = 0
OBVIOUS

LEMMA WholeAdd ==
  ASSUME NEW k \in Nat \ {0}, NEW a \in Nat, NEW b \in Nat, a % k = 0, b % k = 0
  PROVE  (a + b) % k = 0
<1>1. ASSUME NEW n \in Nat, n % k = 0 PROVE \E m \in Nat : n = m * k
  <2> DEFINE m == n \div k
  <2>1. m \in Nat /\ m * k <= n /\ n < m * k + k
    BY DivIs
  <2> HIDE DEF m
  <2>2. m * k \in Nat /\ n - m * k \in 0 .. k - 1 /\ n = m * k + (n - m * k)
    BY <2>1
  <2>3. (m * k + (n - m * k)) % k = n - m * k
    BY <2>1, <2>2, RestIs
  <2>4. n = m * k
    BY <1>1, <2>2, <2>3
  <2> QED
    BY <2>1, <2>4
<1>2. PICK p \in Nat, q \in Nat : a = p * k /\ b = q * k
  BY <1>1
<1>3. (p + q) * k = a + b /\ p + q \in Nat
  BY <1>2
<1>4. ((p + q) * k) % k = 0
  BY <1>3, NoRest
<1> QED
  BY <1>3, <1>4

-----------------------------------------------------------------------------
(***************************************************************************)
(* parseHeader() walks over the chunks: what it knows after so many of     *)
(* them, by induction on their number.                                     *)
(***************************************************************************)
Walker == [at : Nat, there : Nat, fmt : BOOLEAN, data : Int, bad : BOOLEAN]

LEMMA ParsedIs ==
  ASSUME NEW x \in Walker, NEW c \in Chunk
  PROVE  /\ Parsed(x, c) \in Walker
         /\ x.fmt /\ x.data >= 0 => Parsed(x, c) = x
         /\ ~(x.fmt /\ x.data >= 0) =>
              /\ Parsed(x, c).at = x.at + 8 + Skipped(c)
              /\ Parsed(x, c).there = x.there + 8 + c.size + (c.size % 2)
              /\ Parsed(x, c).bad <=>
                   x.bad \/ x.at # x.there \/ (c.id = "fmt" /\ (c.size < 16 \/ ~c.valid))
              /\ Parsed(x, c).fmt <=> x.fmt \/ c.id = "fmt"
              /\ Parsed(x, c).data = IF c.id = "data" THEN x.at + 8 ELSE x.data
<1>1. Skipped(c) \in Nat /\ c.size + (c.size % 2) \in Nat /\ c.size \in Nat /\ c.size % 2 \in Nat
  BY DEF Skipped, Chunk
<1> DEFINE y == [at |-> x.at + 8 + Skipped(c), there |-> x.there + 8 + c.size + (c.size % 2),
                 bad |-> x.bad \/ x.at # x.there \/ (c.id = "fmt" /\ (c.size < 16 \/ ~c.valid)),
                 fmt |-> x.fmt \/ c.id = "fmt",
                 data |-> IF c.id = "data" THEN x.at + 8 ELSE x.data]
<1>2. Parsed(x, c) = IF x.fmt /\ x.data >= 0 THEN x ELSE y
  BY DEF Parsed
<1>3. y \in Walker
  BY <1>1 DEF Walker
<1>4. /\ y.at = x.at + 8 + Skipped(c) /\ y.there = x.there + 8 + c.size + (c.size % 2)
      /\ y.data = IF c.id = "data" THEN x.at + 8 ELSE x.data
  OBVIOUS
<1>5. y.bad <=> x.bad \/ x.at # x.there \/ (c.id = "fmt" /\ (c.size < 16 \/ ~c.valid))
  OBVIOUS
<1>6. y.fmt <=> x.fmt \/ c.id = "fmt"
  OBVIOUS
<1> HIDE DEF y
<1>7. CASE x.fmt /\ x.data >= 0
  BY <1>2, <1>7
<1>8. CASE ~(x.fmt /\ x.data >= 0)
  <2>1. Parsed(x, c) = y
    BY <1>2, <1>8
  <2> QED
    BY <1>3, <1>4, <1>5, <1>6, <1>8, <2>1, Zenon
<1> QED
  BY <1>7, <1>8

LEMMA WalkIs ==
  ASSUME NEW l \in Seq(Chunk)
  PROVE  /\ Walk(l) \in [0 .. Len(l) -> Walker]
         /\ Walk(l)[0] = Start
         /\ \A n \in 0 .. Len(l) - 1 : Walk(l)[n + 1] = Parsed(Walk(l)[n], l[n + 1])
<1> DEFINE N == Len(l)
           F == [z \in Nat \X Walker |->
                   IF z[1] < N THEN Parsed(z[2], l[z[1] + 1]) ELSE Start]
           Equation(f) == f = [n \in 0 .. N |-> IF n = 0 THEN Start ELSE Parsed(f[n - 1], l[n])]
<1>1. N \in Nat
  OBVIOUS
<1>2. Start \in Walker
  BY DEF Start, Walker
<1>3. \A n \in 0 .. N - 1 : l[n + 1] \in Chunk
  OBVIOUS
<1>4. F \in [Nat \X Walker -> Walker]
  <2>1. ASSUME NEW z \in Nat \X Walker
        PROVE  (IF z[1] < N THEN Parsed(z[2], l[z[1] + 1]) ELSE Start) \in Walker
    <3>1. CASE z[1] < N
      <4>1. z[1] \in 0 .. N - 1 /\ z[2] \in Walker
        BY <1>1, <3>1
      <4>2. Parsed(z[2], l[z[1] + 1]) \in Walker
        BY <1>3, <4>1, ParsedIs
      <4> QED
        BY <3>1, <4>2
    <3> QED
      BY <1>2, <3>1
  <2> QED
    BY <2>1
<1>5. PICK g \in [0 .. N -> Walker] :
         g[0] = Start /\ \A n \in 0 .. N - 1 : g[n + 1] = F[<<n, g[n]>>]
  <2> HIDE DEF N, F
  <2>1. Solutions(N, Walker, Start, F) # {}
    BY <1>1, <1>2, <1>4, RecursionTo
  <2> QED
    BY <2>1 DEF Solutions
<1>6. \A n \in 0 .. N - 1 : g[n + 1] = Parsed(g[n], l[n + 1])
  BY <1>1, <1>5
<1>7. Equation(g)
  <2>1. \A n \in 0 .. N : g[n] = IF n = 0 THEN Start ELSE Parsed(g[n - 1], l[n])
    <3> TAKE n \in 0 .. N
    <3>1. CASE n = 0
      BY <1>5, <3>1
    <3>2. CASE n # 0
      <4>1. n - 1 \in 0 .. N - 1 /\ (n - 1) + 1 = n
        BY <1>1, <3>2
      <4> QED
        BY <1>6, <3>2, <4>1
    <3> QED
      BY <3>1, <3>2
  <2> QED
    BY <2>1
<1>8. Walk(l) = CHOOSE f : Equation(f)
  BY DEF Walk
<1>9. Equation(Walk(l))
  <2> HIDE DEF Equation
  <2> QED
    BY <1>7, <1>8
<1> DEFINE w0 == Walk(l)
<1> HIDE DEF w0
<1>10. /\ w0 = [n \in 0 .. N |-> IF n = 0 THEN Start ELSE Parsed(w0[n - 1], l[n])]
  BY <1>9 DEF w0
<1>11. w0[0] = Start
  BY <1>1, <1>10
<1>12. \A n \in 0 .. N - 1 : w0[n + 1] = Parsed(w0[n], l[n + 1])
  BY <1>1, <1>10
<1>13. w0 \in [0 .. N -> Walker]
  <2> DEFINE T == {n \in 0 .. N : w0[n] \in Walker}
  <2>1. 0 \in T
    BY <1>1, <1>2, <1>11
  <2>2. \A n \in 0 .. N - 1 : n \in T => n + 1 \in T
    <3> SUFFICES ASSUME NEW n \in 0 .. N - 1, w0[n] \in Walker
                 PROVE  n + 1 \in 0 .. N /\ w0[n + 1] \in Walker
      OBVIOUS
    <3> QED
      BY <1>3, <1>12, ParsedIs
  <2>3. 0 .. N \subseteq T
    <3> HIDE DEF T, N
    <3> QED
      BY <1>1, <2>1, <2>2, InductionTo
  <2> QED
    BY <1>10, <2>3
<1> QED
  BY <1>11, <1>12, <1>13 DEF w0

\* What a walk keeps from one chunk to the next, it has at the end.
LEMMA WalkKeeps ==
  ASSUME NEW l \in Seq(Chunk), NEW T, <<0, Start>> \in T,
         \A n \in 0 .. Len(l) - 1 : \A x \in Walker :
           <<n, x>> \in T => <<n + 1, Parsed(x, l[n + 1])>> \in T
  PROVE  <<Len(l), parseHeader(l)>> \in T /\ parseHeader(l) \in Walker
<1> DEFINE N == Len(l)
           x(n) == Walk(l)[n]
           U == {n \in 0 .. N : <<n, x(n)>> \in T}
<1>1. /\ N \in Nat /\ x(0) = Start
      /\ \A n \in 0 .. N : x(n) \in Walker
      /\ \A n \in 0 .. N - 1 : x(n + 1) = Parsed(x(n), l[n + 1])
  BY WalkIs
<1> HIDE DEF x
<1>2. 0 \in U
  BY <1>1
<1>3. \A n \in 0 .. N - 1 : n \in U => n + 1 \in U
  BY <1>1
<1>4. 0 .. N \subseteq U
  <2> HIDE DEF U, N
  <2> QED
    BY <1>1, <1>2, <1>3, InductionTo
<1>5. <<N, x(N)>> \in T /\ x(N) \in Walker
  BY <1>1, <1>4
<1> QED
  BY <1>5 DEF x, parseHeader

\* A reader that has found format and data stands at the first byte of the data: had
\* the data come first, the chunk after it would have been none.
LEMMA StandsAtData ==
  ASSUME NEW l \in Seq(Chunk), \A i \in DOMAIN l : l[i].id = "data" => l[i].size > 0,
         parseHeader(l).fmt, parseHeader(l).data >= 0, ~parseHeader(l).bad
  PROVE  parseHeader(l).at = parseHeader(l).data
<1> DEFINE P(x) == ~x.bad /\ x.data >= 0 => IF x.fmt THEN x.at = x.data ELSE x.at < x.there
           T == {z \in (0 .. Len(l)) \X Walker : P(z[2])}
<1>1. Len(l) \in Nat /\ \A n \in 0 .. Len(l) - 1 : l[n + 1] \in Chunk /\ n + 1 \in DOMAIN l
  OBVIOUS
<1>2. <<0, Start>> \in T
  <2>1. Start \in Walker /\ ~(Start.data >= 0)
    BY DEF Start, Walker
  <2>2. P(Start) /\ 0 \in 0 .. Len(l)
    BY <1>1, <2>1
  <2> HIDE DEF P
  <2> QED
    BY <2>1, <2>2
<1>3. ASSUME NEW n \in 0 .. Len(l) - 1, NEW x \in Walker, P(x)
      PROVE  P(Parsed(x, l[n + 1]))
  <2> DEFINE c == l[n + 1]
             y == Parsed(x, c)
  <2>1. c \in Chunk /\ (c.id = "data" => c.size > 0)
    BY <1>1
  <2>2. c.size \in Nat /\ c.size % 2 \in Nat /\ (c.id = "data" => Skipped(c) = 0)
    BY <2>1 DEF Chunk, Skipped
  <2>3. x.at \in Nat /\ x.there \in Nat /\ x.data \in Int
    BY DEF Walker
  <2> HIDE DEF c
  <2>4. CASE x.fmt /\ x.data >= 0
    <3>1. y = x
      BY <2>1, <2>4, ParsedIs
    <3> QED
      BY <1>3, <3>1 DEF c
  <2>5. CASE ~(x.fmt /\ x.data >= 0)
    <3>1. /\ y.at = x.at + 8 + Skipped(c)
          /\ y.there = x.there + 8 + c.size + (c.size % 2)
          /\ y.bad <=> x.bad \/ x.at # x.there \/ (c.id = "fmt" /\ (c.size < 16 \/ ~c.valid))
          /\ y.data = IF c.id = "data" THEN x.at + 8 ELSE x.data
      BY <2>1, <2>5, ParsedIs
    <3> HIDE DEF y
    <3>2. ASSUME ~y.bad, y.data >= 0
          PROVE  y.at = y.data /\ y.at < y.there
      <4>1. ~x.bad /\ x.at = x.there
        BY <3>1, <3>2
      <4>2. ~(x.data >= 0)
        BY <1>3, <2>3, <2>5, <4>1
      <4>3. c.id = "data"
        BY <3>1, <3>2, <4>2
      <4> QED
        BY <2>1, <2>2, <2>3, <3>1, <4>1, <4>3
    <3>3. P(y)
      BY <3>2
    <3> QED
      BY <3>3 DEF y, c
  <2> QED
    BY <2>4, <2>5
<1>4. \A n \in 0 .. Len(l) - 1 : \A x \in Walker :
        <<n, x>> \in T => <<n + 1, Parsed(x, l[n + 1])>> \in T
  <2> TAKE n \in 0 .. Len(l) - 1
  <2> TAKE x \in Walker
  <2> HAVE <<n, x>> \in T
  <2>1. P(x)
    OBVIOUS
  <2>2. Parsed(x, l[n + 1]) \in Walker /\ n + 1 \in 0 .. Len(l)
    BY <1>1, ParsedIs
  <2>3. P(Parsed(x, l[n + 1]))
    BY <1>3, <2>1
  <2> HIDE DEF P
  <2> QED
    BY <2>2, <2>3
<1> HIDE DEF T
<1>5. <<Len(l), parseHeader(l)>> \in T
  BY <1>2, <1>4, WalkKeeps
<1>6. P(parseHeader(l))
  BY <1>5 DEF T
<1> QED
  BY <1>6

\* Chunks in order lead to format and data, and the reader stands at the data.
LEMMA InOrderIsFound ==
  ASSUME NEW l \in Seq(Chunk), InOrder(l)
  PROVE  /\ parseHeader(l).fmt /\ parseHeader(l).data >= 0 /\ ~parseHeader(l).bad
         /\ parseHeader(l).at = parseHeader(l).data
<1>1. PICK i, j \in DOMAIN l :
        /\ i < j /\ l[i].id = "fmt" /\ l[i].valid /\ l[i].size >= 16 /\ l[i].size % 2 = 0
        /\ l[j].id = "data"
        /\ \A k \in DOMAIN l \ {i, j} : l[k].id = "other"
  BY DEF InOrder
<1> DEFINE P(n, x) ==
             /\ ~x.bad /\ (x.fmt <=> n >= i) /\ (x.data >= 0 <=> n >= j)
             /\ IF n >= j THEN x.at = x.data ELSE x.at = x.there
           T == {z \in (0 .. Len(l)) \X Walker : P(z[1], z[2])}
<1>2. /\ Len(l) \in Nat /\ i \in 1 .. Len(l) /\ j \in 1 .. Len(l)
      /\ \A n \in 0 .. Len(l) - 1 : l[n + 1] \in Chunk /\ n + 1 \in DOMAIN l
  OBVIOUS
<1>3. <<0, Start>> \in T
  <2>1. /\ Start \in Walker /\ ~(Start.data >= 0) /\ ~Start.bad /\ ~Start.fmt
        /\ Start.at = Start.there
    BY DEF Start, Walker
  <2>2. ~(0 >= i) /\ ~(0 >= j) /\ 0 \in 0 .. Len(l)
    BY <1>2
  <2>3. P(0, Start)
    BY <2>1, <2>2
  <2> HIDE DEF P
  <2> QED
    BY <2>1, <2>2, <2>3
<1>4. ASSUME NEW n \in 0 .. Len(l) - 1, NEW x \in Walker, P(n, x)
      PROVE  P(n + 1, Parsed(x, l[n + 1]))
  <2> DEFINE c == l[n + 1]
             y == Parsed(x, c)
  <2>1. c \in Chunk /\ c.size \in Nat /\ c.size % 2 \in Nat
    BY <1>2 DEF Chunk
  <2>2. /\ n + 1 = i => c.id = "fmt" /\ c.valid /\ c.size >= 16 /\ c.size % 2 = 0
        /\ n + 1 = j => c.id = "data"
        /\ n + 1 # i /\ n + 1 # j => c.id = "other"
    BY <1>1, <1>2
  <2>3. Skipped(c) = IF c.id = "data" THEN 0 ELSE
                     IF c.id = "fmt" THEN c.size ELSE c.size + (c.size % 2)
    BY <2>1 DEF Skipped, Chunk
  <2>4. x.at \in Nat /\ x.there \in Nat /\ x.data \in Int /\ n \in Nat /\ i \in Nat /\ j \in Nat
    BY <1>2 DEF Walker
  <2> HIDE DEF c
  <2>5. CASE n >= j
    <3>1. x.fmt /\ x.data >= 0
      BY <1>1, <1>4, <2>4, <2>5
    <3>2. y = x
      BY <2>1, <3>1, ParsedIs
    <3>3. n + 1 >= i /\ n + 1 >= j /\ n >= i
      BY <1>1, <2>4, <2>5
    <3> QED
      BY <1>4, <2>5, <3>2, <3>3 DEF c
  <2>6. CASE ~(n >= j)
    <3>1. ~x.bad /\ (x.fmt <=> n >= i) /\ ~(x.data >= 0) /\ x.at = x.there
      BY <1>4, <2>6
    <3>2. /\ y.at = x.at + 8 + Skipped(c)
          /\ y.there = x.there + 8 + c.size + (c.size % 2)
          /\ y.bad <=> x.bad \/ x.at # x.there \/ (c.id = "fmt" /\ (c.size < 16 \/ ~c.valid))
          /\ y.fmt <=> x.fmt \/ c.id = "fmt"
          /\ y.data = IF c.id = "data" THEN x.at + 8 ELSE x.data
      BY <2>1, <3>1, ParsedIs
    <3> HIDE DEF y
    <3>3. CASE n + 1 = i
      <4>1. /\ c.id = "fmt" /\ c.valid /\ c.size >= 16 /\ c.size % 2 = 0
            /\ n + 1 >= i /\ ~(n + 1 >= j)
        BY <1>1, <2>2, <2>4, <3>3
      <4>2. ~y.bad /\ y.fmt /\ y.data = x.data /\ y.at = y.there
        BY <2>1, <2>3, <2>4, <3>1, <3>2, <4>1
      <4> QED
        BY <3>1, <4>1, <4>2 DEF y, c
    <3>4. CASE n + 1 = j
      <4>1. c.id = "data" /\ n >= i /\ n + 1 >= i /\ n + 1 >= j
        BY <1>1, <2>2, <2>4, <3>4
      <4>2. ~y.bad /\ y.fmt /\ y.data = y.at /\ y.data >= 0
        BY <2>1, <2>3, <2>4, <3>1, <3>2, <4>1
      <4> QED
        BY <3>1, <4>1, <4>2 DEF y, c
    <3>5. CASE n + 1 # i /\ n + 1 # j
      <4>1. c.id = "other" /\ (n + 1 >= i <=> n >= i) /\ ~(n + 1 >= j)
        BY <1>1, <2>2, <2>4, <2>6, <3>5
      <4>2. ~y.bad /\ y.data = x.data /\ y.at = y.there
        <5>1. Skipped(c) = c.size + (c.size % 2)
          BY <2>3, <4>1
        <5>2. y.at = y.there
          BY <2>1, <2>4, <3>1, <3>2, <5>1
        <5> QED
          BY <3>1, <3>2, <4>1, <5>2
      <4>3. y.fmt <=> x.fmt
        BY <3>2, <4>1
      <4> QED
        BY <3>1, <4>1, <4>2, <4>3 DEF y, c
    <3> QED
      BY <3>3, <3>4, <3>5
  <2> QED
    BY <2>5, <2>6
<1>5. \A n \in 0 .. Len(l) - 1 : \A x \in Walker :
        <<n, x>> \in T => <<n + 1, Parsed(x, l[n + 1])>> \in T
  <2> TAKE n \in 0 .. Len(l) - 1
  <2> TAKE x \in Walker
  <2> HAVE <<n, x>> \in T
  <2>1. P(n, x)
    OBVIOUS
  <2>2. Parsed(x, l[n + 1]) \in Walker /\ n + 1 \in 0 .. Len(l)
    BY <1>2, ParsedIs
  <2>3. P(n + 1, Parsed(x, l[n + 1]))
    BY <1>4, <2>1
  <2> HIDE DEF P
  <2> QED
    BY <2>2, <2>3
<1> HIDE DEF T
<1>6. <<Len(l), parseHeader(l)>> \in T
  BY <1>3, <1>5, WalkKeeps
<1>7. P(Len(l), parseHeader(l))
  BY <1>6 DEF T
<1>8. Len(l) >= i /\ Len(l) >= j
  BY <1>2
<1> QED
  BY <1>7, <1>8

-----------------------------------------------------------------------------
(***************************************************************************)
(* The invariant.  As long as its stream is good, what the writer has      *)
(* counted is on disk or in the buffer; the sizes are placeholders until   *)
(* the first seek of close() has put all of it there, and each seek after  *)
(* lands the field written before (WriterInv).  A reader whose stream is   *)
(* good stands where it counts; one that failed stands behind the end      *)
(* (ReaderInv).                                                            *)
(***************************************************************************)
Places == {"closed", "open", "chunkSize", "dataSize", "end", "done"}

WriterRecord ==
  [bad : BOOLEAN, dataBytes : Nat, at : Places, restart : BOOLEAN, headerBuffered : BOOLEAN,
   buffered : Nat, field : {"none", "chunkSize", "dataSize"}]

DiskRecord ==
  [header : BOOLEAN, chunkSize : Nat, dataSize : Nat, data : 0 .. UINT32_MAX,
   layout : Layouts \cup {Recorded}]

WriterTyped == w \in WriterRecord /\ disk \in DiskRecord

ReaderRecord ==
  [open : BOOLEAN, failed : BOOLEAN, totalSamples : Nat, samplesRead : Nat,
   position : Nat, ended : BOOLEAN, astray : BOOLEAN, refused : BOOLEAN]

ReaderTyped == r \in ReaderRecord

Placeholders == disk.chunkSize = UINT32_MAX /\ disk.dataSize = UINT32_MAX

WriterInv ==
  /\ w.dataBytes <= UINT32_MAX /\ w.dataBytes % SampleBytes = 0
  /\ w.bad \/ w.at = "closed" => w.buffered = 0 /\ ~w.headerBuffered /\ w.field = "none"
  /\ w.at \in {"open", "chunkSize"} => w.field = "none" /\ Placeholders
  /\ w.at # "closed" /\ ~w.bad =>
       /\ disk.data + w.buffered = w.dataBytes
       /\ w.at \in {"open", "chunkSize"} => disk.header \/ w.headerBuffered
       /\ w.at \in {"dataSize", "end", "done"} =>
            disk.header /\ w.buffered = 0 /\ ~w.headerBuffered
       /\ w.at = "dataSize" => w.field = "chunkSize"
       /\ w.at = "end" => w.field = "dataSize"
       /\ w.at \in {"end", "done"} => disk.chunkSize = ChunkSize(w.dataBytes)
       /\ w.at = "done" => w.field = "none" /\ disk.dataSize = w.dataBytes

InStep(x) ==
  /\ x.totalSamples = disk.dataSize \div FrameBytes
  /\ ~x.failed => /\ x.position = x.samplesRead * FrameBytes
                  /\ x.ended => x.samplesRead >= x.totalSamples
  /\ x.failed /\ ~x.astray => /\ x.position >= disk.data
                              /\ x.position \div FrameBytes = x.samplesRead

ReaderInv == r.open => w.at = "closed" /\ disk.header /\ InStep(r)

WInv == WriterTyped /\ WriterInv /\ SizeNeverAhead

IInv ==
  /\ WInv
  /\ sealed \in Nat \cup {-1} /\ SealedFileIsComplete
  /\ ReaderTyped /\ ReaderInv /\ WellFormedFileOpens

-----------------------------------------------------------------------------
LEMMA SizesAre ==
  /\ UINT32_MAX \in Nat /\ HeaderRest \in Nat
  /\ SampleBytes \in Nat \ {0} /\ FrameBytes \in Nat \ {0}
  /\ HeaderRest + 2 * FrameBytes <= UINT32_MAX
<1>1. /\ UINT32_MAX \in Nat /\ HeaderRest \in Nat /\ SampleBytes \in Nat \ {0}
      /\ HeaderRest + 2 * FrameBytes <= UINT32_MAX
  BY FileAssumption
<1>2. PICK c \in 1 .. UINT32_MAX : FrameBytes = SampleBytes * c
  BY FileAssumption
<1>3. SampleBytes * c \in Nat \ {0}
  BY <1>1
<1> QED
  BY <1>1, <1>2, <1>3

LEMMA ChunkSizeIs ==
  ASSUME NEW n \in Nat
  PROVE  /\ ChunkSize(n) \in Nat
         /\ HeaderRest + n <= UINT32_MAX => ChunkSize(n) = HeaderRest + n
<1>1. \A k \in Nat, a \in Nat : a % (k + 1) \in Nat /\ (a <= k => a % (k + 1) = a)
  OBVIOUS
<1> QED
  BY <1>1, SizesAre DEF ChunkSize

\* The disk after the buffer has been written out, and after a failure to.
LEMMA LandedIs ==
  ASSUME WriterTyped, NEW more \in Nat, disk.data + w.buffered + more <= UINT32_MAX,
         disk' = Landed(more)
  PROVE  /\ disk' \in DiskRecord
         /\ disk'.header <=> disk.header \/ w.headerBuffered
         /\ disk'.data = disk.data + w.buffered + more
         /\ disk'.chunkSize = IF w.field = "chunkSize" THEN ChunkSize(w.dataBytes)
                              ELSE disk.chunkSize
         /\ disk'.dataSize = IF w.field = "dataSize" THEN w.dataBytes ELSE disk.dataSize
<1> DEFINE d == [disk EXCEPT !.header = @ \/ w.headerBuffered, !.data = @ + w.buffered + more]
<1>1. /\ w.field \in {"none", "chunkSize", "dataSize"} /\ w.dataBytes \in Nat
      /\ w.buffered \in Nat /\ disk.data \in Nat
  BY DEF WriterTyped, WriterRecord, DiskRecord
<1>2. /\ d \in DiskRecord
      /\ d.data = disk.data + w.buffered + more
      /\ d.chunkSize = disk.chunkSize /\ d.dataSize = disk.dataSize
  <2> DEFINE hd == disk.header \/ w.headerBuffered
             n == disk.data + w.buffered + more
  <2>1. n \in 0 .. UINT32_MAX /\ hd \in BOOLEAN
    BY <1>1, SizesAre
  <2>2. d = [disk EXCEPT !.header = hd, !.data = n]
    OBVIOUS
  <2> HIDE DEF hd, n, d
  <2>3. /\ d \in DiskRecord
        /\ d.data = n /\ d.chunkSize = disk.chunkSize /\ d.dataSize = disk.dataSize
    BY <2>1, <2>2 DEF WriterTyped, WriterRecord, DiskRecord
  <2> QED
    BY <2>3 DEF n
<1>3. d.header <=> disk.header \/ w.headerBuffered
  BY DEF WriterTyped, WriterRecord, DiskRecord
<1>4. ChunkSize(w.dataBytes) \in Nat
  BY <1>1, ChunkSizeIs
<1>5. disk' = FieldWritten(d)
  BY DEF Landed
<1> HIDE DEF d
<1>6. CASE w.field = "chunkSize"
  <2>1. disk' = [d EXCEPT !.chunkSize = ChunkSize(w.dataBytes)]
    BY <1>5, <1>6 DEF FieldWritten
  <2> QED
    BY <1>2, <1>3, <1>4, <1>6, <2>1 DEF DiskRecord
<1>7. CASE w.field = "dataSize"
  <2>1. disk' = [d EXCEPT !.dataSize = w.dataBytes]
    BY <1>5, <1>7 DEF FieldWritten
  <2> QED
    BY <1>1, <1>2, <1>3, <1>7, <2>1 DEF DiskRecord
<1>8. CASE w.field = "none"
  <2>1. disk' = d
    BY <1>5, <1>8 DEF FieldWritten
  <2> QED
    BY <1>2, <1>3, <1>8, <2>1
<1> QED
  BY <1>1, <1>6, <1>7, <1>8

LEMMA TornIs ==
  ASSUME WriterTyped, NEW more \in Nat, disk.data + w.buffered + more <= UINT32_MAX,
         disk' \in Torn(more)
  PROVE  /\ disk' \in DiskRecord
         /\ disk'.header => disk.header \/ w.headerBuffered
         /\ w.buffered + more = 0 => disk'.data = disk.data
         /\ disk'.chunkSize = disk.chunkSize /\ disk'.dataSize = disk.dataSize
<1>1. w.buffered \in Nat /\ disk.data \in Nat
  BY DEF WriterTyped, WriterRecord, DiskRecord
<1>2. CASE disk' = disk
  BY <1>2 DEF WriterTyped, WriterRecord, DiskRecord
<1>3. ASSUME NEW n \in 0 .. w.buffered + more,
             disk' = [disk EXCEPT !.header = @ \/ w.headerBuffered, !.data = @ + n]
      PROVE  /\ disk' \in DiskRecord
             /\ disk'.header => disk.header \/ w.headerBuffered
             /\ w.buffered + more = 0 => disk'.data = disk.data
             /\ disk'.chunkSize = disk.chunkSize /\ disk'.dataSize = disk.dataSize
  <2>1. disk.data + n \in 0 .. UINT32_MAX /\ (w.buffered + more = 0 => n = 0)
    BY <1>1, SizesAre
  <2>2. /\ disk' \in DiskRecord
        /\ disk'.chunkSize = disk.chunkSize /\ disk'.dataSize = disk.dataSize
        /\ disk'.data = disk.data + n
    BY <1>3, <2>1 DEF WriterTyped, WriterRecord, DiskRecord
  <2>3. disk'.header => disk.header \/ w.headerBuffered
    BY <1>3 DEF WriterTyped, WriterRecord, DiskRecord
  <2> QED
    BY <1>1, <2>1, <2>2, <2>3
<1> QED
  BY <1>2, <1>3 DEF Torn

LEMMA RecordedIs == Recorded \in Seq(Chunk) /\ InOrder(Recorded)
<1>1. Recorded \in Seq(Chunk)
  BY DEF Recorded, Chunk
<1>2. DOMAIN Recorded = {1, 2}
  BY DEF Recorded
<1>3. 16 % 2 = 0
  OBVIOUS
<1>4. /\ Recorded[1].id = "fmt" /\ Recorded[1].valid /\ Recorded[1].size = 16
      /\ Recorded[2].id = "data"
  BY DEF Recorded
<1>5. InOrder(Recorded)
  BY <1>2, <1>3, <1>4 DEF InOrder
<1> QED
  BY <1>1, <1>5

LEMMA InitInv == Init => IInv
<1> SUFFICES ASSUME Init PROVE IInv
  OBVIOUS
<1>1. /\ disk \in {NoFile} \cup Foreign /\ w = Closed /\ r = NotOpen /\ sealed = -1
  BY DEF Init, WriterInit, ReaderInit
<1>2. /\ disk \in DiskRecord
      /\ SizeNeverAhead
  <2>1. CASE disk = NoFile
    BY <2>1, SizesAre DEF DiskRecord, NoFile, SizeNeverAhead
  <2>2. ASSUME NEW n \in {FrameBytes, 2 * FrameBytes}, NEW l \in Layouts,
               disk = [header |-> TRUE, chunkSize |-> HeaderRest + n, dataSize |-> n,
                       data |-> n, layout |-> l]
        PROVE  /\ disk \in DiskRecord
               /\ SizeNeverAhead
    <3>1. n \in Nat /\ HeaderRest + n <= UINT32_MAX /\ n \in 0 .. UINT32_MAX
      BY SizesAre
    <3>2. ChunkSize(n) = HeaderRest + n
      BY <3>1, ChunkSizeIs
    <3> QED
      BY <2>2, <3>1, <3>2, SizesAre DEF DiskRecord, SizeNeverAhead
  <2> QED
    BY <1>1, <2>1, <2>2 DEF Foreign
<1>3. WriterTyped
  BY <1>1, <1>2 DEF WriterTyped, WriterRecord, Closed, Places
<1>4. WriterInv
  <2>1. 0 % SampleBytes = 0
    BY SizesAre, NoRest
  <2> QED
    BY <1>1, <2>1, SizesAre DEF WriterInv, Closed
<1>5. ReaderTyped /\ ReaderInv /\ WellFormedFileOpens
  BY <1>1 DEF ReaderTyped, ReaderRecord, ReaderInv, WellFormedFileOpens, NotOpen
<1>6. sealed \in Nat \cup {-1} /\ SealedFileIsComplete
  BY <1>1 DEF SealedFileIsComplete
<1> QED
  BY <1>2, <1>3, <1>4, <1>5, <1>6 DEF IInv, WInv

-----------------------------------------------------------------------------
(***************************************************************************)
(* The writer, one action at a time.                                       *)
(***************************************************************************)
LEMMA OpenInv == ASSUME WInv, open PROVE WInv'
<1>1. CASE disk' = NoFile /\ w' = [Closed EXCEPT !.at = "open", !.headerBuffered = TRUE]
  <2>1. /\ w'.dataBytes = 0 /\ w'.buffered = 0 /\ ~w'.bad /\ w'.at = "open" /\ w'.headerBuffered
        /\ w'.field = "none" /\ w' \in WriterRecord
    BY <1>1 DEF Closed, WriterRecord, Places
  <2>2. /\ disk'.data = 0 /\ ~disk'.header /\ disk' \in DiskRecord
        /\ disk'.chunkSize = UINT32_MAX /\ disk'.dataSize = UINT32_MAX
    BY <1>1, SizesAre DEF NoFile, DiskRecord
  <2>3. 0 % SampleBytes = 0
    BY SizesAre, NoRest
  <2>4. WriterTyped' /\ SizeNeverAhead'
    BY <2>1, <2>2 DEF WriterTyped, SizeNeverAhead
  <2>5. WriterInv'
    BY <2>1, <2>2, <2>3, SizesAre DEF WriterInv, Placeholders
  <2> QED
    BY <2>4, <2>5 DEF WInv
<1>2. CASE w' = Closed /\ disk' = disk
  <2>1. /\ w'.dataBytes = 0 /\ w'.buffered = 0 /\ ~w'.bad /\ w'.at = "closed"
        /\ ~w'.headerBuffered /\ w'.field = "none" /\ w' \in WriterRecord
    BY <1>2 DEF Closed, WriterRecord, Places
  <2>2. 0 % SampleBytes = 0
    BY SizesAre, NoRest
  <2>3. WriterTyped' /\ SizeNeverAhead'
    BY <1>2, <2>1 DEF WInv, WriterTyped, SizeNeverAhead, ChunkSize
  <2>4. WriterInv'
    BY <2>1, <2>2, SizesAre DEF WriterInv
  <2> QED
    BY <2>3, <2>4 DEF WInv
<1> QED
  BY <1>1, <1>2 DEF open

\* The process ends: nothing is left but the file.
LEMMA CrashInv == ASSUME WInv, crash PROVE WInv'
<1>1. w' = Closed /\ disk' = disk
  BY DEF crash
<1>2. open
  BY <1>1 DEF open
<1> QED
  BY <1>2, OpenInv

LEMMA WriteInv == ASSUME WInv, NEW n \in FrameSizes, write(n) PROVE WInv'
<1>1. /\ w.at = "open" /\ ~w.bad /\ n % SampleBytes = 0 /\ w.dataBytes + n <= UINT32_MAX
      /\ \/ w' = [w EXCEPT !.dataBytes = @ + n, !.buffered = @ + n] /\ disk' = disk
         \/ /\ disk' = Landed(n)
            /\ w' = [w EXCEPT !.dataBytes = @ + n, !.headerBuffered = FALSE, !.buffered = 0]
         \/ /\ disk' \in Torn(n)
            /\ w' = [w EXCEPT !.bad = TRUE, !.headerBuffered = FALSE, !.buffered = 0]
  BY DEF write, Fits
<1>2. /\ n \in Nat /\ w \in WriterRecord /\ disk \in DiskRecord /\ WriterTyped
      /\ w.dataBytes \in Nat /\ w.buffered \in Nat /\ disk.data \in Nat
  BY FrameSizesAssumption DEF WInv, WriterTyped, WriterRecord, DiskRecord
<1>3. /\ w.dataBytes % SampleBytes = 0 /\ w.field = "none"
      /\ disk.chunkSize = UINT32_MAX /\ disk.dataSize = UINT32_MAX
      /\ disk.data + w.buffered = w.dataBytes /\ (disk.header \/ w.headerBuffered)
  BY <1>1 DEF WInv, WriterInv, Placeholders
<1>4. (w.dataBytes + n) % SampleBytes = 0 /\ w.dataBytes + n \in Nat
  BY <1>1, <1>2, <1>3, SizesAre, WholeAdd
<1>5. disk.data + w.buffered + n <= UINT32_MAX
  BY <1>1, <1>2, <1>3
<1>6. ASSUME w' = [w EXCEPT !.dataBytes = @ + n, !.buffered = @ + n], disk' = disk
      PROVE  WInv'
  <2>1. /\ w' \in WriterRecord /\ w'.at = "open" /\ ~w'.bad /\ w'.field = "none"
        /\ w'.dataBytes = w.dataBytes + n /\ w'.buffered = w.buffered + n
        /\ w'.headerBuffered = w.headerBuffered
    <3> DEFINE m == w.dataBytes + n
               b == w.buffered + n
    <3>1. m \in Nat /\ b \in Nat
      BY <1>2
    <3>2. w' = [w EXCEPT !.dataBytes = m, !.buffered = b]
      BY <1>6
    <3> HIDE DEF m, b
    <3>3. /\ w' \in WriterRecord /\ w'.at = "open" /\ ~w'.bad /\ w'.field = "none"
          /\ w'.dataBytes = m /\ w'.buffered = b /\ w'.headerBuffered = w.headerBuffered
      BY <1>1, <1>2, <1>3, <3>1, <3>2 DEF WriterRecord
    <3> QED
      BY <3>3 DEF m, b
  <2>2. disk.data + (w.buffered + n) = w.dataBytes + n
    BY <1>2, <1>3
  <2>3. WriterTyped' /\ SizeNeverAhead'
    BY <1>2, <1>3, <1>6, <2>1 DEF WriterTyped, SizeNeverAhead
  <2>4. WriterInv'
    BY <1>1, <1>3, <1>4, <1>6, <2>1, <2>2 DEF WriterInv, Placeholders
  <2> QED
    BY <2>3, <2>4 DEF WInv
<1>7. ASSUME disk' = Landed(n),
             w' = [w EXCEPT !.dataBytes = @ + n, !.headerBuffered = FALSE, !.buffered = 0]
      PROVE  WInv'
  <2>1. /\ w' \in WriterRecord /\ w'.at = "open" /\ ~w'.bad /\ w'.field = "none"
        /\ w'.dataBytes = w.dataBytes + n /\ w'.buffered = 0 /\ ~w'.headerBuffered
    <3> DEFINE m == w.dataBytes + n
    <3>1. m \in Nat
      BY <1>2
    <3>2. w' = [w EXCEPT !.dataBytes = m, !.headerBuffered = FALSE, !.buffered = 0]
      BY <1>7
    <3> HIDE DEF m
    <3>3. /\ w' \in WriterRecord /\ w'.at = "open" /\ ~w'.bad /\ w'.field = "none"
          /\ w'.dataBytes = m /\ w'.buffered = 0 /\ ~w'.headerBuffered
      BY <1>1, <1>2, <1>3, <3>1, <3>2 DEF WriterRecord
    <3> QED
      BY <3>3 DEF m
  <2>2. /\ disk' \in DiskRecord /\ disk'.header
        /\ disk'.data = disk.data + w.buffered + n
        /\ disk'.chunkSize = UINT32_MAX /\ disk'.dataSize = UINT32_MAX
    BY <1>2, <1>3, <1>5, <1>7, LandedIs
  <2>3. disk'.data + 0 = w.dataBytes + n
    BY <1>2, <1>3, <2>2
  <2>4. WriterTyped' /\ SizeNeverAhead'
    BY <2>1, <2>2 DEF WriterTyped, SizeNeverAhead
  <2>5. WriterInv'
    BY <1>1, <1>4, <2>1, <2>2, <2>3 DEF WriterInv, Placeholders
  <2> QED
    BY <2>4, <2>5 DEF WInv
<1>8. ASSUME disk' \in Torn(n),
             w' = [w EXCEPT !.bad = TRUE, !.headerBuffered = FALSE, !.buffered = 0]
      PROVE  WInv'
  <2>1. /\ w' \in WriterRecord /\ w'.at = "open" /\ w'.bad /\ w'.field = "none"
        /\ w'.dataBytes = w.dataBytes /\ w'.buffered = 0 /\ ~w'.headerBuffered
    BY <1>1, <1>2, <1>3, <1>8 DEF WriterRecord
  <2>2. /\ disk' \in DiskRecord
        /\ disk'.chunkSize = UINT32_MAX /\ disk'.dataSize = UINT32_MAX
    BY <1>2, <1>3, <1>5, <1>8, TornIs
  <2>3. WriterTyped' /\ SizeNeverAhead'
    BY <2>1, <2>2 DEF WriterTyped, SizeNeverAhead
  <2>4. WriterInv'
    BY <1>3, <2>1, <2>2 DEF WInv, WriterInv, Placeholders
  <2> QED
    BY <2>3, <2>4 DEF WInv
<1> QED
  BY <1>1, <1>6, <1>7, <1>8

LEMMA BeginCloseInv ==
  ASSUME WInv, NEW restart \in BOOLEAN, beginClose(restart)
  PROVE  WInv'
<1>1. /\ w.at = "open" /\ w' = [w EXCEPT !.at = "chunkSize", !.restart = restart]
      /\ disk' = disk
  BY DEF beginClose
<1>2. w \in WriterRecord
  BY DEF WInv, WriterTyped
<1>3. /\ w' \in WriterRecord /\ w'.at = "chunkSize" /\ w'.bad = w.bad /\ w'.field = w.field
      /\ w'.dataBytes = w.dataBytes /\ w'.buffered = w.buffered
      /\ w'.headerBuffered = w.headerBuffered
  BY <1>1, <1>2 DEF WriterRecord, Places
<1>4. WriterTyped' /\ SizeNeverAhead'
  BY <1>1, <1>3 DEF WInv, WriterTyped, SizeNeverAhead, ChunkSize
<1>5. WriterInv'
  BY <1>1, <1>3 DEF WInv, WriterInv, Placeholders
<1> QED
  BY <1>4, <1>5 DEF WInv

\* The three seeks of finalizeHeader().  The first lands the data, the second the size of
\* the RIFF chunk, the third that of the data.
LEMMA SeekInv ==
  ASSUME WInv, finalizeHeader
  PROVE  WInv'
<1>1. PICK from \in {"chunkSize", "dataSize", "end"}, to \in Places,
           field \in {"none", "chunkSize", "dataSize"} :
        /\ seek(from, to, field)
        /\ from = "chunkSize" => to = "dataSize" /\ field = "chunkSize"
        /\ from = "dataSize" => to = "end" /\ field = "dataSize"
        /\ from = "end" => to = "done" /\ field = "none"
  BY DEF finalizeHeader, Places
<1>2. w.at = from
  BY <1>1 DEF seek
<1>3. /\ w \in WriterRecord /\ disk \in DiskRecord /\ WriterTyped
      /\ w.dataBytes \in Nat /\ w.buffered \in Nat /\ disk.data \in Nat
      /\ w.dataBytes <= UINT32_MAX /\ w.dataBytes % SampleBytes = 0
  BY DEF WInv, WriterTyped, WriterRecord, DiskRecord, WriterInv
<1>4. to \in {"dataSize", "end", "done"}
  BY <1>1
<1>5. ASSUME w.bad, w' = [w EXCEPT !.at = to], disk' = disk
      PROVE  WInv'
  <2>1. /\ w' \in WriterRecord /\ w'.at = to /\ w'.bad /\ w'.field = w.field
        /\ w'.dataBytes = w.dataBytes /\ w'.buffered = w.buffered
        /\ w'.headerBuffered = w.headerBuffered
    BY <1>3, <1>5 DEF WriterRecord
  <2>2. WriterTyped' /\ SizeNeverAhead'
    BY <1>5, <2>1 DEF WInv, WriterTyped, SizeNeverAhead, ChunkSize
  <2>3. WriterInv'
    BY <1>4, <1>5, <2>1 DEF WInv, WriterInv
  <2> QED
    BY <2>2, <2>3 DEF WInv
<1>6. ASSUME ~w.bad
      PROVE  /\ disk.data + w.buffered = w.dataBytes
             /\ disk.header \/ w.headerBuffered
             /\ from = "chunkSize" => w.field = "none" /\ Placeholders
             /\ from = "dataSize" => w.field = "chunkSize"
             /\ from = "end" => w.field = "dataSize" /\ disk.chunkSize = ChunkSize(w.dataBytes)
             /\ from \in {"dataSize", "end"} => disk.header /\ w.buffered = 0 /\ ~w.headerBuffered
  BY <1>1, <1>2, <1>6 DEF WInv, WriterInv
<1>7. ASSUME ~w.bad, disk' = Landed(0),
             w' = [w EXCEPT !.headerBuffered = FALSE, !.buffered = 0, !.at = to, !.field = field]
      PROVE  WInv'
  <2>1. /\ w' \in WriterRecord /\ w'.at = to /\ ~w'.bad /\ w'.field = field
        /\ w'.dataBytes = w.dataBytes /\ w'.buffered = 0 /\ ~w'.headerBuffered
    BY <1>3, <1>7 DEF WriterRecord
  <2>2. disk.data + w.buffered + 0 <= UINT32_MAX
    BY <1>3, <1>6, <1>7
  <2>3. /\ disk' \in DiskRecord /\ disk'.header /\ disk'.data = w.dataBytes
        /\ disk'.chunkSize = IF w.field = "chunkSize" THEN ChunkSize(w.dataBytes)
                             ELSE disk.chunkSize
        /\ disk'.dataSize = IF w.field = "dataSize" THEN w.dataBytes ELSE disk.dataSize
    BY <1>3, <1>6, <1>7, <2>2, LandedIs
  <2>4. /\ disk'.chunkSize # UINT32_MAX => disk'.chunkSize = ChunkSize(w.dataBytes)
        /\ disk'.dataSize # UINT32_MAX => disk'.dataSize = w.dataBytes
    <3>1. CASE from = "chunkSize"
      BY <1>6, <1>7, <2>3, <3>1 DEF Placeholders
    <3>2. CASE from \in {"dataSize", "end"}
      <4>1. /\ disk.header /\ disk.data = w.dataBytes
        BY <1>3, <1>6, <1>7, <3>2
      <4>2. /\ disk.chunkSize # UINT32_MAX => disk.chunkSize = ChunkSize(w.dataBytes)
            /\ disk.dataSize # UINT32_MAX => disk.dataSize = w.dataBytes
        BY <4>1 DEF WInv, SizeNeverAhead
      <4> QED
        BY <2>3, <4>2
    <3> QED
      BY <3>1, <3>2
  <2>5. WriterTyped' /\ SizeNeverAhead'
    <3>1. ChunkSize(disk.data)' = ChunkSize(w.dataBytes)
      BY <2>3 DEF ChunkSize
    <3> QED
      BY <2>1, <2>3, <2>4, <3>1 DEF WriterTyped, SizeNeverAhead
  <2>6. disk'.data + 0 = w.dataBytes
    BY <1>3, <2>3
  <2>7. /\ to = "done" => disk'.dataSize = w.dataBytes
        /\ to \in {"end", "done"} => disk'.chunkSize = ChunkSize(w.dataBytes)
    BY <1>1, <1>4, <1>6, <1>7, <2>3
  <2>8. ChunkSize(w.dataBytes)' = ChunkSize(w.dataBytes)
    BY <2>1 DEF ChunkSize
  <2>9. WriterInv'
    BY <1>1, <1>3, <1>4, <2>1, <2>3, <2>6, <2>7, <2>8 DEF WriterInv
  <2> QED
    BY <2>5, <2>9 DEF WInv
<1>8. ASSUME ~w.bad, disk' \in Torn(0),
             w' = [w EXCEPT !.headerBuffered = FALSE, !.buffered = 0, !.at = to, !.field = "none",
                            !.bad = TRUE]
      PROVE  WInv'
  <2>1. /\ w' \in WriterRecord /\ w'.at = to /\ w'.bad /\ w'.field = "none"
        /\ w'.dataBytes = w.dataBytes /\ w'.buffered = 0 /\ ~w'.headerBuffered
    BY <1>3, <1>8 DEF WriterRecord
  <2>2. disk.data + w.buffered + 0 <= UINT32_MAX
    BY <1>3, <1>6, <1>8
  <2>3. /\ disk' \in DiskRecord
        /\ w.buffered + 0 = 0 => disk'.data = disk.data
        /\ disk'.chunkSize = disk.chunkSize /\ disk'.dataSize = disk.dataSize
    BY <1>3, <1>8, <2>2, TornIs
  <2>4. SizeNeverAhead'
    <3>1. CASE from = "chunkSize"
      BY <1>6, <1>8, <2>3, <3>1 DEF Placeholders, SizeNeverAhead
    <3>2. CASE from \in {"dataSize", "end"}
      <4>1. disk.header /\ disk'.data = disk.data
        BY <1>3, <1>6, <1>8, <2>3, <3>2
      <4> QED
        BY <2>3, <4>1 DEF WInv, SizeNeverAhead, ChunkSize
    <3> QED
      BY <3>1, <3>2
  <2>5. WriterTyped'
    BY <2>1, <2>3 DEF WriterTyped
  <2>6. WriterInv'
    BY <1>3, <1>4, <2>1 DEF WriterInv
  <2> QED
    BY <2>4, <2>5, <2>6 DEF WInv
<1> QED
  BY <1>1, <1>5, <1>7, <1>8 DEF seek, Flush

LEMMA EndCloseInv == ASSUME WInv, endClose PROVE WInv'
<1>1. CASE open
  BY <1>1, OpenInv
<1>2. CASE w.at = "done" /\ w' = [w EXCEPT !.at = "closed"] /\ disk' = disk
  <2>1. w \in WriterRecord
    BY DEF WInv, WriterTyped
  <2>2. /\ w' \in WriterRecord /\ w'.at = "closed" /\ w'.field = w.field
        /\ w'.dataBytes = w.dataBytes /\ w'.buffered = w.buffered /\ w'.bad = w.bad
        /\ w'.headerBuffered = w.headerBuffered
    BY <1>2, <2>1 DEF WriterRecord, Places
  <2>3. WriterTyped' /\ SizeNeverAhead'
    BY <1>2, <2>2 DEF WInv, WriterTyped, SizeNeverAhead, ChunkSize
  <2>4. w.buffered = 0 /\ ~w.headerBuffered /\ w.field = "none"
    BY <1>2 DEF WInv, WriterInv
  <2>5. WriterInv'
    BY <2>2, <2>4 DEF WInv, WriterInv
  <2> QED
    BY <2>3, <2>5 DEF WInv
<1> QED
  BY <1>1, <1>2 DEF endClose

LEMMA WriterInvNext == ASSUME WInv, WriterNext PROVE WInv'
<1>1. CASE startRecording
  BY <1>1, OpenInv, BeginCloseInv DEF startRecording
<1>2. CASE stopRecording
  BY <1>2, BeginCloseInv DEF stopRecording
<1>3. ASSUME NEW dir \in {"INCOMING", "OUTGOING"}, NEW n \in FrameSizes, record(dir, n)
      PROVE  WInv'
  BY <1>3, WriteInv DEF record
<1>4. CASE finalizeHeader
  BY <1>4, SeekInv
<1>5. CASE endClose
  BY <1>5, EndCloseInv
<1>6. CASE crash
  BY <1>6, CrashInv
<1> QED
  BY <1>1, <1>2, <1>3, <1>4, <1>5, <1>6 DEF WriterNext

\* A step of the writer: nobody reads, and what close() sealed stays as long as the
\* file does.
LEMMA WritersInv == ASSUME IInv, WritersStep PROVE IInv'
<1>1. /\ ~r.open /\ WriterNext /\ r' = [r EXCEPT !.refused = FALSE]
      /\ sealed' = IF w.at = "done" /\ ~w.bad /\ w'.at = "closed" THEN w.dataBytes
                   ELSE IF disk' = disk THEN sealed ELSE -1
  BY DEF WritersStep
<1>2. WInv'
  BY <1>1, WriterInvNext DEF IInv
<1>3. /\ r' \in ReaderRecord /\ ~r'.open /\ ~r'.refused
  BY <1>1 DEF IInv, ReaderTyped, ReaderRecord
<1>4. ReaderTyped' /\ ReaderInv' /\ WellFormedFileOpens'
  BY <1>3 DEF ReaderTyped, ReaderInv, WellFormedFileOpens
<1>5. sealed' \in Nat \cup {-1} /\ SealedFileIsComplete'
  <2>1. CASE w.at = "done" /\ ~w.bad /\ w'.at = "closed"
    <3>1. disk' = disk
      BY <1>1, <2>1 DEF WriterNext, startRecording, stopRecording, open, beginClose, record,
                        write, finalizeHeader, seek, endClose, crash, Closed
    <3>2. /\ disk.header /\ w.dataBytes \in Nat /\ disk.data \in Nat /\ w.buffered = 0
          /\ disk.data + w.buffered = w.dataBytes
          /\ disk.dataSize = w.dataBytes /\ w.dataBytes % SampleBytes = 0
          /\ disk.chunkSize = ChunkSize(w.dataBytes)
      BY <2>1 DEF IInv, WInv, WriterTyped, WriterRecord, DiskRecord, WriterInv
    <3>3. sealed' = w.dataBytes /\ disk.data = w.dataBytes
      BY <1>1, <2>1, <3>2
    <3>4. HeaderRest + w.dataBytes <= UINT32_MAX => disk.chunkSize = HeaderRest + w.dataBytes
      BY <3>2, ChunkSizeIs
    <3> QED
      BY <3>1, <3>2, <3>3, <3>4 DEF SealedFileIsComplete
  <2>2. CASE ~(w.at = "done" /\ ~w.bad /\ w'.at = "closed") /\ disk' = disk
    <3>1. sealed' = sealed
      BY <1>1, <2>2
    <3> QED
      BY <2>2, <3>1 DEF IInv, SealedFileIsComplete
  <2>3. CASE ~(w.at = "done" /\ ~w.bad /\ w'.at = "closed") /\ disk' # disk
    <3>1. sealed' = -1
      BY <1>1, <2>3
    <3> QED
      BY <3>1 DEF SealedFileIsComplete
  <2> QED
    BY <2>1, <2>2, <2>3
<1> QED
  BY <1>2, <1>4, <1>5 DEF IInv

-----------------------------------------------------------------------------
(***************************************************************************)
(* The reader.                                                             *)
(***************************************************************************)
LEMMA MinMaxOfTwo ==
  ASSUME NEW a \in Int, NEW b \in Int
  PROVE  /\ Min({a, b}) = IF a <= b THEN a ELSE b
         /\ Max({a, b}) = IF a >= b THEN a ELSE b
<1>1. CASE a <= b
  <2>1. Min({a, b}) = a
    BY <1>1 DEF Min
  <2>2. Max({a, b}) = b
    BY <1>1 DEF Max
  <2> QED
    BY <1>1, <2>1, <2>2
<1>2. CASE b < a
  <2>1. Min({a, b}) = b
    BY <1>2 DEF Min
  <2>2. Max({a, b}) = a
    BY <1>2 DEF Max
  <2> QED
    BY <1>2, <2>1, <2>2
<1> QED
  BY <1>1, <1>2

\* open(): format and data are there, and the stream stands at the data.
LEMMA OpenReaderInv ==
  ASSUME IInv, w.at = "closed", UNCHANGED w, openReader
  PROVE  ReaderTyped' /\ ReaderInv' /\ WellFormedFileOpens'
<1> DEFINE l == disk.layout
           p == parseHeader(l)
<1>1. disk.header /\ disk' = disk /\ r' = Opened(p, disk.dataSize)
  BY DEF openReader
<1>2. l \in Layouts \cup {Recorded} /\ disk.dataSize \in Nat
  BY DEF IInv, WInv, WriterTyped, DiskRecord
<1>3. l \in Seq(Chunk)
  BY <1>2, RecordedIs, LayoutAssumption
<1>4. p.fmt /\ p.data >= 0 /\ ~p.bad => p.at = p.data
  <2>1. CASE l \in Layouts
    BY <1>3, <2>1, LayoutAssumption, StandsAtData
  <2>2. CASE l = Recorded
    BY <2>2, RecordedIs, InOrderIsFound
  <2> QED
    BY <1>2, <2>1, <2>2
<1>5. InOrder(l) => p.fmt /\ p.data >= 0 /\ ~p.bad
  BY <1>3, InOrderIsFound
<1>6. p \in Walker
  <2> DEFINE T == Nat \X Walker
  <2>1. <<0, Start>> \in T
    <3>1. Start \in Walker
      BY DEF Start, Walker
    <3> QED
      BY <3>1
  <2>2. \A n \in 0 .. Len(l) - 1 : \A x \in Walker :
          <<n, x>> \in T => <<n + 1, Parsed(x, l[n + 1])>> \in T
    BY <1>3, ParsedIs
  <2> HIDE DEF T, l
  <2> QED
    BY <1>3, <2>1, <2>2, WalkKeeps
<1> HIDE DEF p
<1>7. CASE p.fmt /\ p.data >= 0 /\ ~p.bad
  <2> DEFINE total == disk.dataSize \div FrameBytes
  <2>1. total \in Nat
    BY <1>2, SizesAre, DivIs
  <2>2. p.at - p.data = 0
    BY <1>4, <1>6, <1>7 DEF Walker
  <2>3. r' = [NotOpen EXCEPT !.open = TRUE, !.totalSamples = total, !.position = 0]
    BY <1>1, <1>7, <2>2 DEF Opened
  <2> HIDE DEF total
  <2>4. /\ r' \in ReaderRecord /\ ~r'.refused /\ ~r'.failed /\ ~r'.ended
        /\ r'.totalSamples = total /\ r'.position = 0 /\ r'.samplesRead = 0
    BY <2>1, <2>3 DEF NotOpen, ReaderRecord
  <2>5. 0 = 0 * FrameBytes
    BY SizesAre
  <2> QED
    BY <1>1, <2>4, <2>5 DEF ReaderTyped, ReaderInv, InStep, WellFormedFileOpens, total
<1>8. CASE ~(p.fmt /\ p.data >= 0 /\ ~p.bad)
  <2>1. r' = [NotOpen EXCEPT !.refused = TRUE]
    BY <1>1, <1>8 DEF Opened
  <2>2. r' \in ReaderRecord /\ ~r'.open
    BY <2>1 DEF NotOpen, ReaderRecord
  <2> QED
    BY <1>1, <1>5, <1>8, <2>2 DEF ReaderTyped, ReaderInv, WellFormedFileOpens, InOrder
<1> QED
  BY <1>7, <1>8

\* read(), from a place where the reader is in step.  What comes short ends behind the
\* data, and the samples that it counts are those that it has passed.
LEMMA AfterReadIs ==
  ASSUME WriterTyped, NEW x \in ReaderRecord, NEW n \in Nat, InStep(x),
         n > 0 \/ (x.samplesRead = 0 /\ x.totalSamples = 0)
  PROVE  /\ AfterRead(x, n) \in ReaderRecord
         /\ AfterRead(x, n).open = x.open /\ AfterRead(x, n).refused = x.refused
         /\ InStep(AfterRead(x, n))
<1> DEFINE remaining == Remaining(x)
           some == Min({n, remaining})
           wanted == some * FrameBytes
           there == IF x.failed THEN 0 ELSE Max({0, Min({wanted, disk.data - x.position})})
           pos == x.position + there
           count == x.samplesRead + there \div FrameBytes
           y == AfterRead(x, n)
<1>1. /\ x.totalSamples \in Nat /\ x.samplesRead \in Nat /\ x.position \in Nat
      /\ disk.data \in Nat /\ FrameBytes \in Nat \ {0}
  BY SizesAre DEF WriterTyped, ReaderRecord, DiskRecord
<1>2. remaining \in Nat /\ (remaining = 0 => x.samplesRead >= x.totalSamples)
  BY <1>1 DEF Remaining
<1> HIDE DEF remaining
<1>3. some = IF n <= remaining THEN n ELSE remaining
  BY <1>2, MinMaxOfTwo
<1> HIDE DEF some
<1>4. some \in Nat /\ (some = 0 => x.samplesRead >= x.totalSamples)
  BY <1>1, <1>2, <1>3
<1>5. wanted \in Nat /\ (wanted = 0 => some = 0)
  BY <1>1, <1>4
<1>6. wanted \div FrameBytes = some
  BY <1>1, <1>4, <1>5, DivUnique
<1> HIDE DEF wanted
<1>7. /\ there \in Nat /\ there <= wanted
      /\ ~x.failed /\ there < wanted => x.position + there >= disk.data
      /\ x.failed => there = 0
  <2>1. disk.data - x.position \in Int
    BY <1>1
  <2>2. Min({wanted, disk.data - x.position}) =
          IF wanted <= disk.data - x.position THEN wanted ELSE disk.data - x.position
    BY <1>5, <2>1, MinMaxOfTwo
  <2> DEFINE most == Min({wanted, disk.data - x.position})
  <2> HIDE DEF most
  <2>3. /\ most \in Int
        /\ most = IF wanted <= disk.data - x.position THEN wanted ELSE disk.data - x.position
    BY <1>5, <2>1, <2>2 DEF most
  <2>4. Max({0, most}) = IF 0 >= most THEN 0 ELSE most
    <3>1. most \in Int /\ 0 \in Int
      BY <2>3
    <3> QED
      BY <3>1, MinMaxOfTwo
  <2>5. there = IF x.failed THEN 0 ELSE IF 0 >= most THEN 0 ELSE most
    BY <2>4 DEF most
  <2> HIDE DEF there
  <2> QED
    BY <1>1, <1>5, <2>3, <2>5
<1>8. y = [x EXCEPT !.position = @ + there, !.samplesRead = @ + there \div FrameBytes,
                    !.failed = @ \/ there < wanted, !.ended = there = 0]
  BY DEF AfterRead, wanted, some, remaining
<1> HIDE DEF there
<1>9. pos \in Nat /\ count \in Nat
  <2>1. there \div FrameBytes \in Nat
    BY <1>1, <1>7, DivIs
  <2> QED
    BY <1>1, <1>7, <2>1
<1>10. /\ y \in ReaderRecord /\ y.open = x.open /\ y.refused = x.refused
       /\ y.totalSamples = x.totalSamples /\ y.position = pos /\ y.samplesRead = count
       /\ y.astray = x.astray
  <2> DEFINE fails == x.failed \/ there < wanted
             ends == there = 0
  <2>1. y = [x EXCEPT !.position = pos, !.samplesRead = count, !.failed = fails, !.ended = ends]
    BY <1>8
  <2>2. fails \in BOOLEAN /\ ends \in BOOLEAN
    OBVIOUS
  <2> HIDE DEF y, pos, count, fails, ends
  <2> QED
    BY <1>9, <2>1, <2>2 DEF ReaderRecord
<1>11. /\ y.failed <=> x.failed \/ there < wanted
       /\ y.ended <=> there = 0
  BY <1>8 DEF ReaderRecord
<1> HIDE DEF y
<1>12. CASE x.failed
  <2>1. there = 0 /\ pos = x.position /\ y.failed
    BY <1>1, <1>7, <1>11, <1>12
  <2>2. count = x.samplesRead
    <3>1. 0 \div FrameBytes = 0
      BY <1>1
    <3> QED
      BY <1>1, <2>1, <3>1
  <2> QED
    BY <1>10, <1>12, <2>1, <2>2 DEF InStep, y
<1>13. CASE ~x.failed
  <2>1. x.position = x.samplesRead * FrameBytes
    BY <1>13 DEF InStep
  <2>2. pos \div FrameBytes = count
    BY <1>1, <1>7, <2>1, DivAdd
  <2>3. CASE there < wanted
    <3>1. pos >= disk.data /\ y.failed
      BY <1>7, <1>11, <1>13, <2>3
    <3> QED
      BY <1>10, <2>2, <3>1 DEF InStep, y
  <2>4. CASE ~(there < wanted)
    <3>1. there = wanted /\ ~y.failed
      BY <1>5, <1>7, <1>11, <1>13, <2>4
    <3>2. count = x.samplesRead + some
      BY <1>6, <3>1
    <3>3. pos = count * FrameBytes
      <4>1. (x.samplesRead + some) * FrameBytes = x.samplesRead * FrameBytes + some * FrameBytes
        BY <1>1, <1>4
      <4> QED
        BY <2>1, <3>1, <3>2, <4>1 DEF wanted
    <3>4. y.ended => count >= x.totalSamples
      BY <1>1, <1>4, <1>5, <1>11, <3>1, <3>2
    <3> QED
      BY <1>10, <3>1, <3>3, <3>4 DEF InStep, y
  <2> QED
    BY <2>3, <2>4
<1> QED
  BY <1>10, <1>12, <1>13 DEF y

\* seek(), and the start of readAll().
LEMMA SoughtIs ==
  ASSUME NEW x \in ReaderRecord, NEW n \in Nat, InStep(x)
  PROVE  /\ Sought(x, n) \in ReaderRecord
         /\ Sought(x, n).open = x.open /\ Sought(x, n).refused = x.refused
         /\ Sought(x, n).totalSamples = x.totalSamples /\ Sought(x, n).samplesRead = n
         /\ InStep(Sought(x, n))
<1> DEFINE pos == IF x.failed THEN x.position ELSE n * FrameBytes
           y == Sought(x, n)
<1>1. pos \in Nat
  BY SizesAre DEF ReaderRecord
<1>2. y = [x EXCEPT !.position = pos, !.samplesRead = n, !.ended = FALSE, !.astray = x.failed]
  BY DEF Sought
<1> HIDE DEF pos
<1>3. /\ y \in ReaderRecord /\ y.open = x.open /\ y.refused = x.refused
      /\ y.totalSamples = x.totalSamples /\ y.samplesRead = n /\ y.position = pos
      /\ y.failed = x.failed /\ y.astray = x.failed /\ ~y.ended
  BY <1>1, <1>2 DEF ReaderRecord
<1> HIDE DEF y
<1>4. InStep(y)
  BY <1>3 DEF InStep, pos
<1> QED
  BY <1>3, <1>4 DEF y

LEMMA ReadersInv == ASSUME IInv, ReadersStep PROVE IInv'
<1>1. /\ w.at = "closed" /\ ReaderNext /\ w' = w /\ direction' = direction /\ sealed' = sealed
  BY DEF ReadersStep, writerVars
<1>2. /\ WInv /\ WriterTyped /\ r \in ReaderRecord /\ ReaderInv /\ WellFormedFileOpens
  BY DEF IInv, WInv, ReaderTyped
<1>3. CASE disk' = disk /\ ReaderTyped' /\ ReaderInv' /\ WellFormedFileOpens'
  <2>1. WInv' /\ sealed' \in Nat \cup {-1} /\ SealedFileIsComplete'
    BY <1>1, <1>3 DEF IInv, WInv, WriterTyped, WriterInv, Placeholders, SizeNeverAhead,
                      SealedFileIsComplete, ChunkSize
  <2> QED
    BY <1>3, <2>1 DEF IInv
<1>4. ASSUME NEW y \in ReaderRecord, r' = y, y.refused = r.refused, disk' = disk,
             y.open => r.open /\ InStep(y)
      PROVE  IInv'
  <2>1. ReaderTyped' /\ ReaderInv' /\ WellFormedFileOpens'
    BY <1>1, <1>2, <1>4 DEF ReaderTyped, ReaderInv, InStep, WellFormedFileOpens, InOrder
  <2> QED
    BY <1>3, <1>4, <2>1
<1>5. CASE openReader
  <2>1. ReaderTyped' /\ ReaderInv' /\ WellFormedFileOpens'
    BY <1>1, <1>5, OpenReaderInv
  <2> QED
    BY <1>3, <1>5, <2>1 DEF openReader
<1>6. CASE closeReader
  <2>1. disk' = disk /\ r' = NotOpen
    BY <1>6 DEF closeReader
  <2>2. r' \in ReaderRecord /\ ~r'.open /\ ~r'.refused
    BY <2>1 DEF NotOpen, ReaderRecord
  <2>3. ReaderTyped' /\ ReaderInv' /\ WellFormedFileOpens'
    BY <2>2 DEF ReaderTyped, ReaderInv, WellFormedFileOpens
  <2> QED
    BY <1>3, <2>1, <2>3
<1>7. ASSUME NEW n \in ReadSizes, read(n) PROVE IInv'
  <2>1. r.open /\ disk' = disk /\ r' = AfterRead(r, n) /\ n \in Nat /\ n > 0 /\ InStep(r)
    BY <1>2, <1>7, ReadSizesAssumption DEF read, ReaderInv
  <2>2. /\ AfterRead(r, n) \in ReaderRecord /\ AfterRead(r, n).refused = r.refused
        /\ InStep(AfterRead(r, n))
    BY <1>2, <2>1, AfterReadIs
  <2> QED
    BY <1>4, <2>1, <2>2
<1>8. ASSUME NEW s \in 0 .. UINT32_MAX, seekReader(s) PROVE IInv'
  <2>1. r.open /\ disk' = disk /\ r' = Sought(r, s) /\ s \in Nat /\ InStep(r)
    BY <1>2, <1>8, SizesAre DEF seekReader, ReaderInv
  <2>2. /\ Sought(r, s) \in ReaderRecord /\ Sought(r, s).refused = r.refused
        /\ InStep(Sought(r, s))
    BY <1>2, <2>1, SoughtIs
  <2> QED
    BY <1>4, <2>1, <2>2
<1>9. CASE readAll
  <2> DEFINE x == Sought(r, 0)
             n == r.totalSamples
  <2>1. r.open /\ disk' = disk /\ r' = AfterRead(x, n) /\ n \in Nat /\ InStep(r)
    BY <1>2, <1>9 DEF readAll, ReaderInv, ReaderRecord
  <2>2. /\ x \in ReaderRecord /\ x.refused = r.refused /\ InStep(x)
        /\ x.totalSamples = n /\ x.samplesRead = 0
    BY <1>2, <2>1, SoughtIs
  <2> HIDE DEF x, n
  <2>3. n > 0 \/ (x.samplesRead = 0 /\ x.totalSamples = 0)
    BY <2>1, <2>2
  <2>4. /\ AfterRead(x, n) \in ReaderRecord /\ AfterRead(x, n).refused = r.refused
        /\ InStep(AfterRead(x, n))
    BY <1>2, <2>1, <2>2, <2>3, AfterReadIs
  <2> QED
    BY <1>4, <2>1, <2>4
<1> QED
  BY <1>1, <1>5, <1>6, <1>7, <1>8, <1>9 DEF ReaderNext

LEMMA Invariance == Spec => []IInv
<1>1. IInv /\ [Next]_vars => IInv'
  <2> SUFFICES ASSUME IInv, [Next]_vars PROVE IInv'
    OBVIOUS
  <2>1. CASE UNCHANGED vars
    <3>1. disk' = disk /\ w' = w /\ r' = r /\ sealed' = sealed
      BY <2>1 DEF vars, writerVars
    <3> QED
      BY <3>1 DEF IInv, WInv, WriterTyped, WriterInv, Placeholders, SizeNeverAhead, ChunkSize,
                  SealedFileIsComplete, ReaderTyped, ReaderInv, InStep, WellFormedFileOpens,
                  InOrder
  <2> QED
    BY <2>1, WritersInv, ReadersInv DEF Next
<1> QED
  BY InitInv, <1>1, PTL DEF Spec

-----------------------------------------------------------------------------
\* Whenever the process ends and whichever write or seek fails, no size in the header
\* runs ahead of the data: the placeholders stay until all of the data is on disk.
THEOREM HeaderIsNeverAhead == Spec => []SizeNeverAhead
<1>1. IInv => SizeNeverAhead
  BY DEF IInv, WInv
<1> QED
  BY Invariance, <1>1, PTL

\* close() on a good stream leaves a file with every byte that write() accepted.
THEOREM ClosedRecordingIsComplete == Spec => []SealedFileIsComplete
<1>1. IInv => SealedFileIsComplete
  BY DEF IInv
<1> QED
  BY Invariance, <1>1, PTL

\* parseHeader() finds format and data in every file that has them in order, whatever
\* other chunks there are, of whatever size.
THEOREM FilesInOrderOpen == Spec => []WellFormedFileOpens
<1>1. IInv => WellFormedFileOpens
  BY DEF IInv
<1> QED
  BY Invariance, <1>1, PTL

\* The reader's count of samples is its place in the data, from where open() leaves it
\* through reads that come short.
THEOREM ReaderCountsItsPlace == Spec => []ReaderInStep
<1>1. IInv => ReaderInStep
  <2> SUFFICES ASSUME IInv, r.open, ~r.astray
               PROVE  r.position >= 0 /\ r.position \div FrameBytes = r.samplesRead
    BY DEF ReaderInStep
  <2>1. InStep(r) /\ r.position \in Nat /\ r.samplesRead \in Nat
    BY DEF IInv, ReaderInv, ReaderTyped, ReaderRecord
  <2>2. CASE r.failed
    BY <2>1, <2>2 DEF InStep
  <2>3. CASE ~r.failed
    <3>1. r.position = r.samplesRead * FrameBytes
      BY <2>1, <2>3 DEF InStep
    <3>2. r.position < r.samplesRead * FrameBytes + FrameBytes
      BY <2>1, <3>1, SizesAre
    <3> QED
      BY <2>1, <3>1, <3>2, SizesAre, DivUnique
  <2> QED
    BY <2>2, <2>3
<1> QED
  BY Invariance, <1>1, PTL

\* An empty read is the end of the data: the size that limits the reader is that of the
\* data or a placeholder, which no data exceeds.
THEOREM NothingLeftAtTheEnd == Spec => []EndMeansNothingLeft
<1>1. IInv => EndMeansNothingLeft
  <2> SUFFICES ASSUME IInv, r.open, r.ended, ~r.astray
               PROVE  r.position + FrameBytes > disk.data
    BY DEF EndMeansNothingLeft
  <2>1. /\ InStep(r) /\ disk.header /\ r.position \in Nat /\ r.samplesRead \in Nat
        /\ disk.data \in 0 .. UINT32_MAX /\ disk.dataSize \in Nat
        /\ FrameBytes \in Nat \ {0}
    BY SizesAre DEF IInv, WInv, WriterTyped, DiskRecord, ReaderInv, ReaderTyped, ReaderRecord
  <2>2. CASE r.failed
    BY <2>1, <2>2, SizesAre DEF InStep
  <2>3. CASE ~r.failed
    <3> DEFINE q == disk.dataSize \div FrameBytes
    <3>1. /\ r.position = r.samplesRead * FrameBytes /\ r.samplesRead >= q
      BY <2>1, <2>3 DEF InStep
    <3>2. q \in Nat /\ disk.dataSize < q * FrameBytes + FrameBytes
      BY <2>1, DivIs
    <3> HIDE DEF q
    <3>3. q * FrameBytes <= r.samplesRead * FrameBytes
      BY <2>1, <3>1, <3>2
    <3>4. disk.data <= disk.dataSize
      BY <2>1, SizesAre DEF IInv, WInv, SizeNeverAhead
    <3>5. q * FrameBytes \in Nat
      BY <2>1, <3>2
    <3> QED
      BY <2>1, <3>1, <3>2, <3>3, <3>4, <3>5
  <2> QED
    BY <2>2, <2>3
<1> QED
  BY Invariance, <1>1, PTL

=============================================================================
