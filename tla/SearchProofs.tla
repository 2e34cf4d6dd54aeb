----------------------------- MODULE SearchProofs -----------------------------
(***************************************************************************)
(* Proofs about one search, for any answers of the services, any request   *)
(* and any limits.                                                         *)
(***************************************************************************)
EXTENDS SearchPipeline, FiniteSetTheorems, FunctionTheorems, SequenceTheorems, TLAPS

-----------------------------------------------------------------------------
(* Induction over the numbers, and loops.                                  *)

\* A set of numbers with 0 and the successor of each of its numbers has them all.
LEMMA SetInduction ==
  ASSUME NEW K, 0 \in K, \A n \in Nat : n \in K => n + 1 \in K
  PROVE  Nat \subseteq K
<1>. SUFFICES ASSUME NEW m \in Nat, m \notin K PROVE FALSE
  OBVIOUS
<1>. DEFINE R == StrictSubsetOrdering(Nat)
            S == FiniteSubsetsOf(Nat)
            T == {X \in S : \E n \in Nat \ K : X = 1..n}
<1>1. IsWellFoundedOn(R, S)
  BY FS_StrictSubsetOrderingWellFounded
<1>2. \A n \in Nat \ K : 1..n \in T
  <2>1. \A n \in Nat : IsFiniteSet(1..n)
    BY FS_Interval
  <2>. QED BY <2>1 DEF FiniteSubsetsOf
<1>3. T \subseteq S /\ T # {}
  BY <1>2
<1>4. \E X \in T : \A Y \in T : ~(<<Y, X>> \in R)
  <2>. HIDE DEF R, S, T
  <2>. QED BY <1>1, <1>3, WFMin
<1>5. PICK X \in T : \A Y \in T : ~(<<Y, X>> \in R)
  BY <1>4
<1>6. PICK n \in Nat \ K : X = 1..n
  BY <1>5
<1>7. n - 1 \in Nat \ K
  BY <1>6
<1>8. <<1..n - 1, 1..n>> \in R
  <2>1. 1..n - 1 \subseteq 1..n /\ n \in 1..n /\ n \notin 1..n - 1
    BY <1>6, <1>7
  <2>2. 1..n \in SUBSET Nat /\ 1..n - 1 \in SUBSET Nat
    BY <1>6, <1>7
  <2>. QED BY <2>1, <2>2 DEF StrictSubsetOrdering
<1>9. 1..n - 1 \in T
  BY <1>2, <1>7
<1>. HIDE DEF R, T
<1>. QED BY <1>5, <1>6, <1>8, <1>9

\* A function of the numbers up to n is a sequence.
LEMMA FunctionIsSeq ==
  ASSUME NEW T, NEW n \in Nat, NEW f \in [1..n -> T]
  PROVE  f \in Seq(T) /\ Len(f) = n /\ DOMAIN f = 1..n
<1>1. f \in Seq(T)
  BY SeqDef
<1>2. Len(f) \in Nat /\ DOMAIN f = 1..Len(f)
  BY <1>1, LenProperties
<1>3. 1..Len(f) = 1..n
  BY <1>2
<1>4. Len(f) = n
  BY <1>2, <1>3
<1>. QED BY <1>1, <1>3, <1>4

\* There are at most n values of n items.
LEMMA ValuesOfItems ==
  ASSUME NEW n \in Nat, NEW V, NEW f \in [1..n -> V], \A v \in V : \E i \in 1..n : f[i] = v
  PROVE  IsFiniteSet(V) /\ Cardinality(V) \in 0..n
<1>1. f \in Surjection(1..n, V)
  BY Fun_IsSurj
<1>2. IsFiniteSet(1..n) /\ Cardinality(1..n) = n
  BY FS_Interval
<1>3. IsFiniteSet(V) /\ Cardinality(V) <= n
  BY <1>1, <1>2, FS_Surjection
<1>4. Cardinality(V) \in Nat
  BY <1>3, FS_CardinalityType
<1>. QED BY <1>3, <1>4

-----------------------------------------------------------------------------
(* Orders.                                                                 *)

StrictOrder(S, R) ==
  /\ \A x \in S : <<x, x>> \notin R
  /\ \A x, y, z \in S : <<x, y>> \in R /\ <<y, z>> \in R => <<x, z>> \in R
  /\ \A x, y \in S : x = y \/ <<x, y>> \in R \/ <<y, x>> \in R

\* What comes before x.
Below(S, R, x) == {y \in S : <<y, x>> \in R}

\* Who comes later has more before it.
LEMMA BelowGrows ==
  ASSUME NEW S, IsFiniteSet(S), NEW R, StrictOrder(S, R)
  PROVE  /\ \A x \in S : Cardinality(Below(S, R, x)) \in 0..Cardinality(S) - 1
         /\ \A x, y \in S : <<x, y>> \in R =>
              Cardinality(Below(S, R, x)) < Cardinality(Below(S, R, y))
<1>1. \A x \in S : Cardinality(Below(S, R, x)) \in 0..Cardinality(S) - 1
  <2>. TAKE x \in S
  <2>1. Below(S, R, x) \in SUBSET S /\ x \notin Below(S, R, x)
    BY DEF Below, StrictOrder
  <2>2. /\ IsFiniteSet(Below(S, R, x)) /\ Cardinality(Below(S, R, x)) <= Cardinality(S)
        /\ Cardinality(S) # Cardinality(Below(S, R, x))
    BY <2>1, FS_Subset
  <2>3. Cardinality(Below(S, R, x)) \in Nat /\ Cardinality(S) \in Nat
    BY <2>2, FS_CardinalityType
  <2>. QED BY <2>2, <2>3
<1>2. ASSUME NEW x \in S, NEW y \in S, <<x, y>> \in R
      PROVE  Cardinality(Below(S, R, x)) < Cardinality(Below(S, R, y))
  <2>1. Below(S, R, x) \in SUBSET Below(S, R, y) /\ x \in Below(S, R, y) /\ x \notin Below(S, R, x)
    BY <1>2 DEF Below, StrictOrder
  <2>2. Below(S, R, y) \in SUBSET S
    BY DEF Below
  <2>3. IsFiniteSet(Below(S, R, y)) /\ IsFiniteSet(Below(S, R, x))
    BY <2>1, <2>2, FS_Subset
  <2>4. /\ Cardinality(Below(S, R, x)) <= Cardinality(Below(S, R, y))
        /\ Cardinality(Below(S, R, y)) # Cardinality(Below(S, R, x))
    BY <2>1, <2>3, FS_Subset
  <2>5. Cardinality(Below(S, R, x)) \in Nat /\ Cardinality(Below(S, R, y)) \in Nat
    BY <2>3, FS_CardinalityType
  <2>. QED BY <2>4, <2>5
<1>. QED BY <1>1, <1>2

\* The element with k - 1 before it.
Nth(S, R, k) == CHOOSE x \in S : Cardinality(Below(S, R, x)) = k - 1

\* Ranked lists every element of S once, in the order R.
LEMMA RankedInOrder ==
  ASSUME NEW S, IsFiniteSet(S), NEW R, StrictOrder(S, R)
  PROVE  /\ Cardinality(S) \in Nat
         /\ Ranked(S, R) \in [1..Cardinality(S) -> S]
         /\ \A x \in S : \E k \in 1..Cardinality(S) : Ranked(S, R)[k] = x
         /\ \A i, j \in 1..Cardinality(S) : i < j => <<Ranked(S, R)[i], Ranked(S, R)[j]>> \in R
<1>. DEFINE N == Cardinality(S)
            c == [x \in S |-> Cardinality(Below(S, R, x))]
            pos == [x \in S |-> c[x] + 1]
            r == Ranked(S, R)
<1>1. N \in Nat /\ IsFiniteSet(1..N) /\ Cardinality(1..N) = N
  <2>1. N \in Nat
    BY FS_CardinalityType
  <2>. QED BY <2>1, FS_Interval
<1>2. \A x \in S : c[x] \in 0..N - 1
  BY BelowGrows
<1>3. \A x, y \in S : <<x, y>> \in R => c[x] < c[y]
  BY BelowGrows
<1>4. \A x, y \in S : c[x] = c[y] => x = y
  <2>. HIDE DEF c, N
  <2>. SUFFICES ASSUME NEW x \in S, NEW y \in S, c[x] = c[y], x # y PROVE FALSE
    OBVIOUS
  <2>1. <<x, y>> \in R \/ <<y, x>> \in R
    BY DEF StrictOrder
  <2>2. c[x] \in Int /\ c[y] \in Int
    BY <1>1, <1>2
  <2>. QED BY <1>3, <2>1, <2>2
<1>5. pos \in [S -> 1..N] /\ \A x, y \in S : pos[x] = pos[y] => x = y
  <2>. HIDE DEF c, N
  <2>1. \A x \in S : pos[x] = c[x] + 1 /\ c[x] \in Int /\ pos[x] \in 1..N
    BY <1>1, <1>2
  <2>2. pos = [x \in S |-> pos[x]]
    OBVIOUS
  <2>. HIDE DEF pos
  <2>. QED BY <1>4, <2>1, <2>2
<1>6. \A k \in 1..N : \E x \in S : c[x] = k - 1
  <2>1. pos \in Surjection(S, 1..N)
    <3>. HIDE DEF pos
    <3>1. pos \in Injection(S, 1..N)
      BY <1>5, Fun_IsInj
    <3>. QED BY <1>1, <3>1, FS_Injection
  <2>2. \A k \in 1..N : \E x \in S : pos[x] = k
    <3>. HIDE DEF pos
    <3>. QED BY <2>1, Fun_SurjectionProperties
  <2>. HIDE DEF c, N
  <2>3. \A x \in S : pos[x] = c[x] + 1 /\ c[x] \in Int
    BY <1>1, <1>2
  <2>. HIDE DEF pos
  <2>. SUFFICES ASSUME NEW k \in 1..N PROVE \E x \in S : c[x] = k - 1
    OBVIOUS
  <2>4. PICK x \in S : pos[x] = k
    BY <2>2
  <2>5. c[x] = k - 1
    BY <1>1, <2>3, <2>4
  <2>. QED BY <2>5
<1>7. \A k \in 1..N : Nth(S, R, k) \in S /\ c[Nth(S, R, k)] = k - 1
  <2>. SUFFICES ASSUME NEW k \in 1..N PROVE Nth(S, R, k) \in S /\ c[Nth(S, R, k)] = k - 1
    OBVIOUS
  <2>1. \E x \in S : Cardinality(Below(S, R, x)) = k - 1
    BY <1>6
  <2>2. Nth(S, R, k) \in S /\ Cardinality(Below(S, R, Nth(S, R, k))) = k - 1
    BY <2>1 DEF Nth
  <2>. QED BY <2>2
<1>8. r = [k \in 1..N |-> Nth(S, R, k)]
  BY Zenon DEF Ranked, Nth, Below
<1>. HIDE DEF r, c, N
<1>9. r \in [1..N -> S] /\ \A k \in 1..N : c[r[k]] = k - 1
  BY <1>7, <1>8
<1>10. \A x \in S : \E k \in 1..N : r[k] = x
  <2>. TAKE x \in S
  <2>1. c[x] + 1 \in 1..N /\ c[x] \in Int
    BY <1>1, <1>2
  <2>2. r[c[x] + 1] \in S /\ c[r[c[x] + 1]] = c[x]
    BY <1>9, <2>1
  <2>3. r[c[x] + 1] = x
    BY <1>4, <2>2
  <2>. QED BY <2>1, <2>3
<1>11. ASSUME NEW i \in 1..N, NEW j \in 1..N, i < j PROVE <<r[i], r[j]>> \in R
  <2>1. c[r[i]] = i - 1 /\ c[r[j]] = j - 1 /\ r[i] \in S /\ r[j] \in S
    BY <1>9
  <2>2. r[i] # r[j] /\ ~(c[r[j]] < c[r[i]])
    BY <1>11, <2>1
  <2>. QED BY <1>3, <2>1, <2>2 DEF StrictOrder
<1>. QED BY <1>1, <1>9, <1>10, <1>11 DEF r, N

\* Nothing is listed twice.
LEMMA RankedOnce ==
  ASSUME NEW S, IsFiniteSet(S), NEW R, StrictOrder(S, R),
         NEW i \in 1..Cardinality(S), NEW j \in 1..Cardinality(S), Ranked(S, R)[i] = Ranked(S, R)[j]
  PROVE  i = j
<1>. DEFINE r == Ranked(S, R)
<1>1. Cardinality(S) \in Nat /\ r[i] \in S /\ r[j] \in S
  BY RankedInOrder
<1>2. i < j => <<r[i], r[j]>> \in R
  BY RankedInOrder
<1>3. j < i => <<r[j], r[i]>> \in R
  BY RankedInOrder
<1>4. <<r[i], r[i]>> \notin R
  BY <1>1 DEF StrictOrder
<1>. HIDE DEF r
<1>5. r[i] = r[j]
  BY DEF r
<1>. QED BY <1>1, <1>2, <1>3, <1>4, <1>5

\* Ascending lists the numbers of a finite set upwards.
LEMMA AscendingInOrder ==
  ASSUME NEW I \in SUBSET Int, IsFiniteSet(I)
  PROVE  /\ Cardinality(I) \in Nat /\ Ascending(I) \in [1..Cardinality(I) -> I]
         /\ \A x \in I : \E k \in 1..Cardinality(I) : Ascending(I)[k] = x
         /\ \A i, j \in 1..Cardinality(I) : i < j => Ascending(I)[i] < Ascending(I)[j]
<1>. DEFINE R == {p \in I \X I : p[1] < p[2]}
<1>1. Ascending(I) = Ranked(I, R)
  BY DEF Ascending, InOrder
<1>2. \A x, y \in I : <<x, y>> \in R <=> x < y
  OBVIOUS
<1>. HIDE DEF R
<1>3. StrictOrder(I, R)
  BY <1>2 DEF StrictOrder
<1>4. /\ Cardinality(I) \in Nat
      /\ Ranked(I, R) \in [1..Cardinality(I) -> I]
      /\ \A x \in I : \E k \in 1..Cardinality(I) : Ranked(I, R)[k] = x
      /\ \A i, j \in 1..Cardinality(I) : i < j => <<Ranked(I, R)[i], Ranked(I, R)[j]>> \in R
  BY <1>3, RankedInOrder
<1>. QED BY <1>1, <1>2, <1>4

\* Some of the numbers up to n.
LEMMA SomeIndexes ==
  ASSUME NEW n \in Nat, NEW I \in SUBSET (1..n)
  PROVE  /\ IsFiniteSet(I) /\ Cardinality(I) \in 0..n
         /\ I = {} <=> Cardinality(I) = 0
         /\ Cardinality(I) = n => I = 1..n
         /\ I \in SUBSET Int
<1>1. IsFiniteSet(1..n) /\ Cardinality(1..n) = n
  BY FS_Interval
<1>2. IsFiniteSet(I) /\ Cardinality(I) <= n /\ (Cardinality(I) = n => I = 1..n)
  BY <1>1, FS_Subset
<1>3. Cardinality(I) \in Nat /\ (Cardinality(I) = 0 <=> I = {})
  BY <1>2, FS_CardinalityType, FS_EmptySet
<1>. QED BY <1>2, <1>3

\* The items at some positions are items, and all those at these positions.
LEMMA ItemsAtKeeps ==
  ASSUME NEW T, NEW items \in Seq(T), NEW I \in SUBSET (1..Len(items))
  PROVE  /\ ItemsAt(items, I) \in Seq(T)
         /\ Len(ItemsAt(items, I)) = Cardinality(I) /\ Cardinality(I) \in 0..Len(items)
         /\ ItemsAt(items, I) = <<>> <=> I = {}
         /\ \A k \in 1..Cardinality(I) :
              Ascending(I)[k] \in I /\ ItemsAt(items, I)[k] = items[Ascending(I)[k]]
         /\ \A i \in I : \E k \in 1..Cardinality(I) :
              Ascending(I)[k] = i /\ ItemsAt(items, I)[k] = items[i]
<1>. DEFINE z == ItemsAt(items, I)
            a == Ascending(I)
            N == Cardinality(I)
<1>1. /\ Len(items) \in Nat /\ \A i \in 1..Len(items) : items[i] \in T
  BY LenProperties, ElementOfSeq
<1>2. IsFiniteSet(I) /\ N \in 0..Len(items) /\ (I = {} <=> N = 0) /\ I \in SUBSET Int
  BY <1>1, SomeIndexes
<1>3. N \in Nat /\ a \in [1..N -> I] /\ \A x \in I : \E k \in 1..N : a[k] = x
  BY <1>2, AscendingInOrder
<1>4. z = [k \in 1..N |-> items[a[k]]]
  BY DEF ItemsAt
<1>. HIDE DEF z, a, N
<1>5. \A k \in 1..N : a[k] \in I /\ z[k] = items[a[k]] /\ items[a[k]] \in T
  BY <1>1, <1>3, <1>4
<1>6. z \in [1..N -> T]
  BY <1>4, <1>5
<1>7. z \in Seq(T) /\ Len(z) = N
  BY <1>3, <1>6, SeqDef, LenProperties
<1>8. z = <<>> <=> N = 0
  BY <1>3, <1>7, EmptySeq
<1>9. ASSUME NEW i \in I PROVE \E k \in 1..N : a[k] = i /\ z[k] = items[i]
  <2>1. PICK k \in 1..N : a[k] = i
    BY <1>3, Zenon
  <2>. QED BY <1>5, <2>1, Zenon
<1>. QED BY <1>2, <1>3, <1>5, <1>7, <1>8, <1>9, Zenon DEF z, a, N

\* What the first value of a loop has, and each step hands on, all values have.
LEMMA LoopStays ==
  ASSUME NEW N \in Nat, NEW h, NEW B, h[0] \in B,
         \A n \in 1..N : h[n - 1] \in B => h[n] \in B
  PROVE  \A n \in 0..N : h[n] \in B
<1>. DEFINE K == {m \in Nat : m <= N => h[m] \in B}
<1>1. 0 \in K
  OBVIOUS
<1>2. ASSUME NEW m \in Nat, m \in K PROVE m + 1 \in K
  <2>. SUFFICES ASSUME m + 1 <= N PROVE h[m + 1] \in B
    OBVIOUS
  <2>1. m + 1 \in 1..N /\ (m + 1) - 1 = m /\ h[m] \in B
    BY <1>2
  <2>. QED BY <2>1
<1>3. Nat \subseteq K
  <2>. HIDE DEF K
  <2>. QED BY <1>1, <1>2, SetInduction
<1>. QED BY <1>3

-----------------------------------------------------------------------------
(* Sums.                                                                   *)

\* The sums of a sequence up to each of its items.
Sums(h, w) == h[0] = 0 /\ \A n \in 1..Len(w) : h[n] = h[n - 1] + w[n]

LEMMA TotalSums ==
  ASSUME NEW w, Len(w) \in Nat
  PROVE  \E h : Sums(h, w) /\ Total(w) = h[Len(w)]
<1>. DEFINE N == Len(w)
            Row(h, m) == [n \in 0..m |-> IF n = 0 THEN 0 ELSE h[n - 1] + w[n]]
            K == {m \in Nat : \E h : h = Row(h, m)}
            h0 == CHOOSE h : h = Row(h, N)
<1>1. Total(w) = h0[N]
  BY DEF Total, Looped
<1>. HIDE DEF N
<1>2. 0 \in K
  <2>1. [n \in 0..0 |-> 0] = Row([n \in 0..0 |-> 0], 0)
    OBVIOUS
  <2>. QED BY <2>1
<1>3. ASSUME NEW m \in Nat, m \in K PROVE m + 1 \in K
  <2>1. PICK g : g = Row(g, m)
    BY <1>3
  <2>. DEFINE h == [n \in 0..m + 1 |-> IF n = m + 1 THEN g[m] + w[m + 1] ELSE g[n]]
  <2>2. ASSUME NEW n \in 0..m + 1
        PROVE  h[n] = IF n = 0 THEN 0 ELSE h[n - 1] + w[n]
    <3>1. CASE n = m + 1
      BY <3>1
    <3>2. CASE n # m + 1
      <4>1. n \in 0..m /\ h[n] = g[n] /\ (n # 0 => n - 1 \in 0..m /\ h[n - 1] = g[n - 1])
        BY <3>2
      <4>2. g[n] = IF n = 0 THEN 0 ELSE g[n - 1] + w[n]
        BY <2>1, <4>1
      <4>. HIDE DEF h
      <4>. QED BY <4>1, <4>2
    <3>. QED BY <3>1, <3>2
  <2>3. h = Row(h, m + 1)
    BY <2>2
  <2>. HIDE DEF h, Row
  <2>. QED BY <2>3
<1>4. N \in K
  <2>. HIDE DEF K
  <2>1. Nat \subseteq K
    BY <1>2, <1>3, SetInduction
  <2>. QED BY <2>1 DEF N
<1>5. h0 = Row(h0, N)
  <2>. HIDE DEF Row
  <2>. QED BY <1>4
<1>. HIDE DEF h0
<1>6. h0[0] = 0 /\ \A n \in 1..N : h0[n] = h0[n - 1] + w[n]
  <2>1. N \in Nat
    BY DEF N
  <2>2. h0[0] = 0
    BY <1>5, <2>1
  <2>3. ASSUME NEW n \in 1..N PROVE h0[n] = h0[n - 1] + w[n]
    <3>1. n \in 0..N /\ n # 0
      BY <2>1
    <3>. QED BY <1>5, <3>1
  <2>. QED BY <2>2, <2>3
<1>. QED BY <1>1, <1>6 DEF Sums, N

\* Nothing adds up to 0.
LEMMA TotalOfNothing == Total(<<>>) = 0
<1>1. Len(<<>>) = 0
  OBVIOUS
<1>2. PICK h : Sums(h, <<>>) /\ Total(<<>>) = h[Len(<<>>)]
  BY <1>1, TotalSums
<1>. QED BY <1>1, <1>2 DEF Sums

\* One weight more adds to the sum.
LEMMA TotalOfOneMore ==
  ASSUME NEW v \in Seq(Int), NEW w \in Seq(Int), Len(w) = Len(v) + 1,
         \A i \in 1..Len(v) : w[i] = v[i]
  PROVE  Total(w) = Total(v) + w[Len(w)] /\ Total(v) \in Int
<1>1. Len(v) \in Nat /\ Len(w) \in Nat /\ \A i \in 1..Len(v) : v[i] \in Int
  BY LenProperties, ElementOfSeq
<1>2. PICK g : Sums(g, v) /\ Total(v) = g[Len(v)]
  BY <1>1, TotalSums
<1>3. PICK h : Sums(h, w) /\ Total(w) = h[Len(w)]
  BY <1>1, TotalSums
<1>. DEFINE N == Len(v)
            same == [n \in 0..N |-> <<g[n], h[n]>>]
            B == {p \in Int \X Int : p[1] = p[2]}
<1>4. \A n \in 0..N : same[n] \in B
  <2>1. same[0] \in B
    BY <1>1, <1>2, <1>3 DEF Sums
  <2>2. ASSUME NEW n \in 1..N, same[n - 1] \in B PROVE same[n] \in B
    <3>1. n \in 0..N /\ n - 1 \in 0..N
      BY <1>1
    <3>2. g[n - 1] \in Int /\ h[n - 1] = g[n - 1]
      BY <2>2, <3>1
    <3>3. g[n] = g[n - 1] + v[n] /\ h[n] = h[n - 1] + v[n] /\ v[n] \in Int
      BY <1>1, <1>2, <1>3 DEF Sums
    <3>4. g[n] \in Int /\ h[n] = g[n]
      BY <3>2, <3>3
    <3>. QED BY <3>1, <3>4
  <2>3. N \in Nat
    BY <1>1
  <2>. HIDE DEF same, B, N
  <2>. QED BY <2>1, <2>2, <2>3, LoopStays
<1>5. g[N] \in Int /\ h[N] = g[N]
  <2>1. N \in 0..N
    BY <1>1
  <2>. QED BY <1>4, <2>1
<1>6. h[N + 1] = h[N] + w[N + 1]
  <2>1. N + 1 \in 1..Len(w) /\ (N + 1) - 1 = N
    BY <1>1
  <2>. QED BY <1>3, <2>1 DEF Sums
<1>. QED BY <1>1, <1>2, <1>3, <1>5, <1>6

\* Smaller weights have a smaller sum.
LEMMA TotalGrows ==
  ASSUME NEW v \in Seq(Int), NEW w \in Seq(Int), Len(w) = Len(v),
         \A i \in 1..Len(v) : v[i] <= w[i]
  PROVE  Total(v) <= Total(w) /\ Total(v) \in Int /\ Total(w) \in Int
<1>1. /\ Len(v) \in Nat /\ Len(w) \in Nat
      /\ \A i \in 1..Len(v) : v[i] \in Int /\ w[i] \in Int
  BY LenProperties, ElementOfSeq
<1>2. PICK g : Sums(g, v) /\ Total(v) = g[Len(v)]
  BY <1>1, TotalSums
<1>3. PICK h : Sums(h, w) /\ Total(w) = h[Len(w)]
  BY <1>1, TotalSums
<1>. DEFINE N == Len(v)
            both == [n \in 0..N |-> <<g[n], h[n]>>]
            B == {p \in Int \X Int : p[1] <= p[2]}
<1>4. \A n \in 0..N : both[n] \in B
  <2>1. both[0] \in B
    BY <1>1, <1>2, <1>3 DEF Sums
  <2>2. ASSUME NEW n \in 1..N, both[n - 1] \in B PROVE both[n] \in B
    <3>1. n \in 0..N /\ n - 1 \in 0..N
      BY <1>1
    <3>2. g[n - 1] \in Int /\ h[n - 1] \in Int /\ g[n - 1] <= h[n - 1]
      BY <2>2, <3>1
    <3>3. /\ g[n] = g[n - 1] + v[n] /\ h[n] = h[n - 1] + w[n]
          /\ v[n] \in Int /\ w[n] \in Int /\ v[n] <= w[n]
      BY <1>1, <1>2, <1>3 DEF Sums
    <3>4. g[n] \in Int /\ h[n] \in Int /\ g[n] <= h[n]
      BY ONLY <3>2, <3>3
    <3>. QED BY <3>1, <3>4
  <2>3. N \in Nat
    BY <1>1
  <2>. HIDE DEF both, B, N
  <2>. QED BY <2>1, <2>2, <2>3, LoopStays
<1>5. N \in 0..N
  BY <1>1
<1>6. g[N] \in Int /\ h[N] \in Int /\ g[N] <= h[N]
  BY <1>4, <1>5
<1>. QED BY <1>2, <1>3, <1>6

-----------------------------------------------------------------------------
(* Selection.                                                              *)

\* One result in a pass.
PassStep(p, r, maxUrls, limit, what) ==
  IF Len(p) < maxUrls /\ Wanted(what, p, r) /\ CanSelect(p, r, limit) THEN Append(p, r) ELSE p

\* The values a loop goes through.
PassRun(h, ordered, picked, maxUrls, limit, what) ==
  h[0] = picked /\ \A n \in 1..Len(ordered) : h[n] = PassStep(h[n - 1], ordered[n], maxUrls, limit, what)

\* A pass goes over the results one after the other.
LEMMA PassLoop ==
  ASSUME NEW ordered, Len(ordered) \in Nat, NEW picked, NEW maxUrls, NEW limit, NEW what
  PROVE  \E h : PassRun(h, ordered, picked, maxUrls, limit, what) /\ Pass(ordered, picked, maxUrls, limit, what) = h[Len(ordered)]
<1>. DEFINE N == Len(ordered)
            Row(h, m) == [n \in 0..m |-> IF n = 0 THEN picked ELSE PassStep(h[n - 1], ordered[n], maxUrls, limit, what)]
            K == {m \in Nat : \E h : h = Row(h, m)}
            h0 == CHOOSE h : h = Row(h, N)
<1>1. Pass(ordered, picked, maxUrls, limit, what) = h0[N]
  BY DEF Pass, Looped, PassStep
<1>2. N \in Nat
  OBVIOUS
<1>. HIDE DEF N
<1>3. 0 \in K
  <2>1. [n \in 0..0 |-> picked] = Row([n \in 0..0 |-> picked], 0)
    OBVIOUS
  <2>. QED BY <2>1
<1>4. ASSUME NEW m \in Nat, m \in K PROVE m + 1 \in K
  <2>1. PICK g : g = Row(g, m)
    BY <1>4
  <2>. DEFINE last == PassStep(g[m], ordered[m + 1], maxUrls, limit, what)
              h == [n \in 0..m + 1 |-> IF n = m + 1 THEN last ELSE g[n]]
  <2>2. ASSUME NEW n \in 0..m + 1
        PROVE  h[n] = IF n = 0 THEN picked ELSE PassStep(h[n - 1], ordered[n], maxUrls, limit, what)
    <3>1. CASE n = m + 1
      <4>1. h[n] = last /\ h[n - 1] = g[m] /\ n # 0
        BY <3>1
      <4>2. last = PassStep(g[m], ordered[n], maxUrls, limit, what)
        BY <3>1
      <4>. HIDE DEF h, last
      <4>. QED BY <4>1, <4>2
    <3>2. CASE n # m + 1
      <4>1. n \in 0..m /\ h[n] = g[n] /\ (n # 0 => n - 1 \in 0..m /\ h[n - 1] = g[n - 1])
        BY <3>2
      <4>2. g[n] = IF n = 0 THEN picked ELSE PassStep(g[n - 1], ordered[n], maxUrls, limit, what)
        BY <2>1, <4>1
      <4>. HIDE DEF h
      <4>. QED BY <4>1, <4>2
    <3>. QED BY <3>1, <3>2
  <2>3. h = Row(h, m + 1)
    <3>. HIDE DEF last
    <3>. QED BY <2>2
  <2>. HIDE DEF h, Row
  <2>. QED BY <2>3
<1>5. N \in K
  <2>. HIDE DEF K
  <2>1. Nat \subseteq K
    BY <1>3, <1>4, SetInduction
  <2>. QED BY <1>2, <2>1
<1>6. h0 = Row(h0, N)
  <2>. HIDE DEF Row
  <2>. QED BY <1>5
<1>. HIDE DEF h0
<1>7. h0[0] = picked
  BY <1>2, <1>6
<1>8. ASSUME NEW n \in 1..N PROVE h0[n] = PassStep(h0[n - 1], ordered[n], maxUrls, limit, what)
  <2>1. n \in 0..N /\ n # 0
    BY <1>2
  <2>. QED BY <1>6, <2>1
<1>. QED BY <1>1, <1>7, <1>8 DEF PassRun, N

\* The results, as the provider's answers are parsed and merged.
Contribution == [subquery : Queries, engine : Engines \cup {None}, position : Int \cup {None}, score : Int]
Result == [url : Urls, score : Int, engine : Engines \cup {None}, contributions : SUBSET Contribution]

\* Results of C are picked within the limits, no address twice.
Picks(p, C, maxUrls, limit) ==
  /\ p \in Seq(C) /\ Len(p) <= maxUrls
  /\ \A i, j \in 1..Len(p) : p[i].url = p[j].url => i = j
  /\ \A h : Cardinality(OfHost(p, h)) <= limit

\* Why a result may be left out: it is picked already, or there is no room for it.
NoRoom(p, r, maxUrls, limit) ==
  \/ IsPicked(p, r)
  \/ Len(p) >= maxUrls
  \/ Cardinality(OfHost(p, HostOf[r.url])) >= limit

\* The results of a host are finitely many, and a prefix has no others.
LEMMA OfHostFinite ==
  ASSUME NEW C, NEW p \in Seq(C), NEW h
  PROVE  /\ IsFiniteSet(ToSet(p)) /\ IsFiniteSet(OfHost(p, h)) /\ Cardinality(OfHost(p, h)) \in Nat
         /\ ToSet(p) = {p[i] : i \in 1..Len(p)}
<1>1. Len(p) \in Nat /\ DOMAIN p = 1..Len(p) /\ p \in [1..Len(p) -> C]
  BY LenProperties
<1>2. ToSet(p) = {p[i] : i \in 1..Len(p)}
  BY <1>1 DEF ToSet
<1>3. p \in Surjection(1..Len(p), ToSet(p))
  <2>1. p \in [1..Len(p) -> ToSet(p)]
    BY <1>1, <1>2
  <2>2. \A t \in ToSet(p) : \E s \in 1..Len(p) : p[s] = t
    BY <1>2
  <2>. QED BY <2>1, <2>2, Fun_IsSurj
<1>4. IsFiniteSet(ToSet(p))
  BY <1>1, <1>3, FS_Surjection, FS_Interval
<1>5. OfHost(p, h) \in SUBSET ToSet(p)
  BY DEF OfHost
<1>6. IsFiniteSet(OfHost(p, h))
  BY <1>4, <1>5, FS_Subset
<1>. QED BY <1>2, <1>4, <1>6, FS_CardinalityType

\* One result more.
LEMMA OfHostAppend ==
  ASSUME NEW C, NEW p \in Seq(C), NEW r \in C
  PROVE  /\ ToSet(Append(p, r)) = ToSet(p) \cup {r}
         /\ \A h : OfHost(Append(p, r), h) =
                     IF HostOf[r.url] = h THEN OfHost(p, h) \cup {r} ELSE OfHost(p, h)
<1>. DEFINE q == Append(p, r)
<1>1. /\ Len(p) \in Nat /\ q \in Seq(C) /\ Len(q) = Len(p) + 1
      /\ \A i \in 1..Len(p) : q[i] = p[i]
      /\ q[Len(p) + 1] = r
  BY LenProperties, AppendProperties
<1>. HIDE DEF q
<1>2. ToSet(p) = {p[i] : i \in 1..Len(p)} /\ ToSet(q) = {q[i] : i \in 1..Len(q)}
  BY <1>1, OfHostFinite
<1>3. ToSet(q) = ToSet(p) \cup {r}
  <2>1. \A x \in ToSet(q) : x \in ToSet(p) \cup {r}
    <3>. TAKE x \in ToSet(q)
    <3>1. PICK i \in 1..Len(q) : x = q[i]
      BY <1>2
    <3>2. i \in 1..Len(p) \/ i = Len(p) + 1
      BY <1>1
    <3>. QED BY <1>1, <1>2, <3>1, <3>2
  <2>2. \A x \in ToSet(p) : x \in ToSet(q)
    <3>. TAKE x \in ToSet(p)
    <3>1. PICK i \in 1..Len(p) : x = p[i]
      BY <1>2
    <3>2. i \in 1..Len(q)
      BY <1>1
    <3>. QED BY <1>1, <1>2, <3>1, <3>2
  <2>3. r \in ToSet(q)
    <3>1. Len(p) + 1 \in 1..Len(q)
      BY <1>1
    <3>. QED BY <1>1, <1>2, <3>1
  <2>. QED BY <2>1, <2>2, <2>3
<1>4. \A h : OfHost(q, h) = IF HostOf[r.url] = h THEN OfHost(p, h) \cup {r} ELSE OfHost(p, h)
  BY <1>3 DEF OfHost
<1>. QED BY <1>3, <1>4 DEF q

\* A step of a pass keeps the picks within the limits, and forgets none.
LEMMA PassStepKeeps ==
  ASSUME NEW C \in SUBSET Result, NEW maxUrls \in Nat, NEW limit \in Nat, NEW what,
         NEW p, Picks(p, C, maxUrls, limit), NEW r \in C
  PROVE  LET q == PassStep(p, r, maxUrls, limit, what)
         IN /\ Picks(q, C, maxUrls, limit)
            /\ what = "any" => NoRoom(q, r, maxUrls, limit)
            /\ \A x : NoRoom(p, x, maxUrls, limit) => NoRoom(q, x, maxUrls, limit)
<1>. DEFINE q == PassStep(p, r, maxUrls, limit, what)
            takes == Len(p) < maxUrls /\ Wanted(what, p, r) /\ CanSelect(p, r, limit)
<1>1. p \in Seq(C) /\ Len(p) \in Nat /\ Len(p) <= maxUrls
  BY LenProperties DEF Picks
<1>2. CASE ~takes
  <2>1. q = p
    BY <1>2 DEF PassStep
  <2>2. what = "any" => NoRoom(p, r, maxUrls, limit)
    <3>. SUFFICES ASSUME what = "any", Len(p) < maxUrls, ~IsPicked(p, r)
                  PROVE  Cardinality(OfHost(p, HostOf[r.url])) >= limit
      BY <1>1 DEF NoRoom
    <3>1. ~(Cardinality(OfHost(p, HostOf[r.url])) < limit)
      BY <1>2 DEF Wanted, CanSelect
    <3>2. Cardinality(OfHost(p, HostOf[r.url])) \in Nat
      BY <1>1, OfHostFinite
    <3>. QED BY <3>1, <3>2
  <2>. HIDE DEF q
  <2>. QED BY <2>1, <2>2 DEF q
<1>3. CASE takes
  <2>1. /\ q = Append(p, r) /\ Len(p) < maxUrls /\ ~IsPicked(p, r)
        /\ Cardinality(OfHost(p, HostOf[r.url])) < limit
    BY <1>3 DEF PassStep, CanSelect
  <2>. HIDE DEF q
  <2>2. /\ q \in Seq(C) /\ Len(q) = Len(p) + 1 /\ \A i \in 1..Len(p) : q[i] = p[i]
        /\ q[Len(p) + 1] = r
    BY <1>1, <2>1, AppendProperties
  <2>3. /\ ToSet(q) = ToSet(p) \cup {r}
        /\ \A h : OfHost(q, h) = IF HostOf[r.url] = h THEN OfHost(p, h) \cup {r} ELSE OfHost(p, h)
    BY <1>1, <2>1, OfHostAppend
  <2>4. ASSUME NEW h
        PROVE  /\ Cardinality(OfHost(q, h)) <= limit
               /\ Cardinality(OfHost(q, h)) >= Cardinality(OfHost(p, h))
               /\ Cardinality(OfHost(p, h)) \in Nat /\ Cardinality(OfHost(q, h)) \in Nat
    <3>1. IsFiniteSet(OfHost(p, h)) /\ Cardinality(OfHost(p, h)) \in Nat
          /\ Cardinality(OfHost(q, h)) \in Nat
      BY <1>1, <2>2, OfHostFinite
    <3>2. Cardinality(OfHost(p, h)) <= limit
      BY DEF Picks
    <3>3. CASE HostOf[r.url] = h
      <4>1. Cardinality(OfHost(q, h)) \in {Cardinality(OfHost(p, h)), Cardinality(OfHost(p, h)) + 1}
        BY <2>3, <3>1, <3>3, FS_AddElement
      <4>. QED BY <2>1, <3>1, <3>2, <3>3, <4>1
    <3>4. CASE HostOf[r.url] # h
      BY <2>3, <3>1, <3>2, <3>4
    <3>. QED BY <3>3, <3>4
  <2>5. \A i \in 1..Len(p) : p[i].url # r.url
    <3>1. ToSet(p) = {p[i] : i \in 1..Len(p)}
      BY <1>1, OfHostFinite
    <3>. QED BY <2>1, <3>1 DEF IsPicked
  <2>6. \A i, j \in 1..Len(q) : q[i].url = q[j].url => i = j
    <3>. SUFFICES ASSUME NEW i \in 1..Len(q), NEW j \in 1..Len(q), q[i].url = q[j].url PROVE i = j
      OBVIOUS
    <3>1. \A k \in 1..Len(q) : \/ k \in 1..Len(p) /\ q[k] = p[k]
                               \/ k = Len(p) + 1 /\ q[k] = r
      BY <1>1, <2>2
    <3>2. \A k, m \in 1..Len(p) : p[k].url = p[m].url => k = m
      BY DEF Picks
    <3>. QED BY <2>5, <3>1, <3>2
  <2>7. Picks(q, C, maxUrls, limit)
    BY <1>1, <2>1, <2>2, <2>4, <2>6 DEF Picks
  <2>8. IsPicked(q, r)
    BY <2>3 DEF IsPicked
  <2>9. ASSUME NEW x, NoRoom(p, x, maxUrls, limit) PROVE NoRoom(q, x, maxUrls, limit)
    <3>1. CASE IsPicked(p, x)
      BY <2>3, <3>1 DEF IsPicked, NoRoom
    <3>2. CASE Len(p) >= maxUrls
      BY <1>1, <2>1, <3>2
    <3>3. CASE Cardinality(OfHost(p, HostOf[x.url])) >= limit
      <4>1. Cardinality(OfHost(q, HostOf[x.url])) >= limit
        BY <2>4, <3>3
      <4>. QED BY <4>1 DEF NoRoom
    <3>. QED BY <2>9, <3>1, <3>2, <3>3 DEF NoRoom
  <2>. QED BY <2>7, <2>8, <2>9 DEF NoRoom, q
<1>. QED BY <1>2, <1>3

\* A pass keeps the picks within the limits; one that takes any result leaves none out for
\* which there is room.
LEMMA PassKeeps ==
  ASSUME NEW C \in SUBSET Result, NEW ordered \in Seq(C), NEW maxUrls \in Nat, NEW limit \in Nat,
         NEW what, NEW picked, Picks(picked, C, maxUrls, limit)
  PROVE  LET q == Pass(ordered, picked, maxUrls, limit, what)
         IN /\ Picks(q, C, maxUrls, limit)
            /\ what = "any" => \A n \in 1..Len(ordered) : NoRoom(q, ordered[n], maxUrls, limit)
<1>. DEFINE N == Len(ordered)
            Told(p, m) == what = "any" => \A k \in 1..m : NoRoom(p, ordered[k], maxUrls, limit)
            B == {x \in Seq(C) \X Nat : Picks(x[1], C, maxUrls, limit) /\ Told(x[1], x[2])}
<1>1. PICK h : /\ PassRun(h, ordered, picked, maxUrls, limit, what)
               /\ Pass(ordered, picked, maxUrls, limit, what) = h[Len(ordered)]
  <2>1. Len(ordered) \in Nat
    BY LenProperties
  <2>. QED BY <2>1, PassLoop
<1>2. N \in Nat /\ \A n \in 1..N : ordered[n] \in C
  BY LenProperties, ElementOfSeq
<1>. HIDE DEF N
<1>. DEFINE both == [n \in 0..N |-> <<h[n], n>>]
<1>3. both[0] \in B
  BY <1>1, <1>2 DEF Picks, PassRun
<1>4. ASSUME NEW n \in 1..N, both[n - 1] \in B PROVE both[n] \in B
  <2>1. n \in 0..N /\ n - 1 \in 0..N
    BY <1>2
  <2>2. Picks(h[n - 1], C, maxUrls, limit) /\ Told(h[n - 1], n - 1)
    BY <1>4, <2>1
  <2>. DEFINE p == h[n - 1]
              q == h[n]
  <2>3. q = PassStep(p, ordered[n], maxUrls, limit, what) /\ ordered[n] \in C
    BY <1>1, <1>2 DEF PassRun, N
  <2>. HIDE DEF p, q
  <2>4. Picks(p, C, maxUrls, limit) /\ Told(p, n - 1)
    BY <2>2 DEF p
  <2>5. /\ Picks(q, C, maxUrls, limit) /\ (what = "any" => NoRoom(q, ordered[n], maxUrls, limit))
        /\ \A x : NoRoom(p, x, maxUrls, limit) => NoRoom(q, x, maxUrls, limit)
    BY <2>3, <2>4, PassStepKeeps
  <2>6. Told(q, n)
    <3>. SUFFICES ASSUME what = "any", NEW k \in 1..n PROVE NoRoom(q, ordered[k], maxUrls, limit)
      OBVIOUS
    <3>1. k = n \/ k \in 1..n - 1
      BY <2>1
    <3>. QED BY <2>4, <2>5, <3>1
  <2>7. q \in Seq(C)
    BY <2>5 DEF Picks
  <2>8. both[n] = <<q, n>> /\ n \in Nat
    BY <2>1 DEF q
  <2>. HIDE DEF both, Told
  <2>. QED BY <2>5, <2>6, <2>7, <2>8
<1>5. both[N] \in B
  <2>1. \A n \in 0..N : both[n] \in B
    <3>. HIDE DEF both, B
    <3>. QED BY <1>2, <1>3, <1>4, LoopStays
  <2>. HIDE DEF both, B
  <2>. QED BY <1>2, <2>1
<1>6. Picks(h[N], C, maxUrls, limit) /\ Told(h[N], N)
  BY <1>2, <1>5
<1>. QED BY <1>1, <1>6 DEF N

\* Results of different addresses are put in order.
LEMMA OrderedKeeps ==
  ASSUME NEW candidates \in Seq(Result),
         \A i, j \in 1..Len(candidates) : candidates[i].url = candidates[j].url => i = j
  PROVE  /\ Ordered(candidates) \in Seq(ToSet(candidates))
         /\ \A i \in 1..Len(candidates) : \E n \in 1..Len(Ordered(candidates)) :
              Ordered(candidates)[n] = candidates[i]
<1>. DEFINE S == ToSet(candidates)
            Ahead(r, s) == \/ Rank(r) > Rank(s)
                           \/ Rank(r) = Rank(s) /\ r.score > s.score
                           \/ Rank(r) = Rank(s) /\ r.score = s.score /\ r.url < s.url
            R == {p \in S \X S : Ahead(p[1], p[2])}
<1>1. Ordered(candidates) = Ranked(S, R)
  BY DEF Ordered, InOrder
<1>2. Len(candidates) \in Nat /\ \A i \in 1..Len(candidates) : candidates[i] \in Result
  BY LenProperties, ElementOfSeq
<1>3. IsFiniteSet(S) /\ S = {candidates[i] : i \in 1..Len(candidates)}
  BY OfHostFinite
<1>4. \A r \in S : r.url \in Int /\ r.score \in Int /\ Rank(r) \in Int
  <2>1. \A r \in S : r \in Result
    BY <1>2, <1>3
  <2>2. \A r \in Result : r.url \in Urls /\ r.score \in Int
    BY DEF Result
  <2>3. \A r \in Result : Rank(r) \in Int
    <3>. SUFFICES ASSUME NEW r \in Result PROVE Rank(r) \in Int
      OBVIOUS
    <3>1. LexicalOf[r.url] \in Nat
      BY <2>2, DiscoveryConstants
    <3>. QED BY <2>2, <3>1 DEF Rank
  <2>4. \A u \in Urls : u \in Int
    BY DiscoveryConstants
  <2>. QED BY <2>1, <2>2, <2>3, <2>4
<1>5. \A r, s \in S : r.url = s.url => r = s
  BY <1>3
<1>. HIDE DEF S
<1>6. StrictOrder(S, R)
  <2>1. \A r, s \in S : <<r, s>> \in R <=> Ahead(r, s)
    OBVIOUS
  <2>2. \A r \in S : ~Ahead(r, r)
    BY <1>4
  <2>3. \A x, y, z \in S : Ahead(x, y) /\ Ahead(y, z) => Ahead(x, z)
    <3>. SUFFICES ASSUME NEW x \in S, NEW y \in S, NEW z \in S, Ahead(x, y), Ahead(y, z)
                  PROVE  Ahead(x, z)
      OBVIOUS
    <3>. QED BY <1>4
  <2>4. \A x, y \in S : x = y \/ Ahead(x, y) \/ Ahead(y, x)
    BY <1>4, <1>5
  <2>. HIDE DEF R, Ahead
  <2>. QED BY <2>1, <2>2, <2>3, <2>4 DEF StrictOrder
<1>. HIDE DEF R
<1>7. /\ Cardinality(S) \in Nat /\ Ranked(S, R) \in [1..Cardinality(S) -> S]
      /\ \A x \in S : \E k \in 1..Cardinality(S) : Ranked(S, R)[k] = x
  <2>1. IsFiniteSet(S)
    BY <1>3
  <2>. HIDE DEF Ahead
  <2>. QED BY <1>6, <2>1, RankedInOrder
<1>8. Ranked(S, R) \in Seq(S) /\ Len(Ranked(S, R)) = Cardinality(S)
  BY <1>7, SeqDef, LenProperties
<1>. QED BY <1>1, <1>3, <1>7, <1>8 DEF S

\* No page twice.
OneOfEachKey(results) ==
  \A i, j \in 1..Len(results) : KeyOf[results[i].url] = KeyOf[results[j].url] => i = j

\* Some of the results.
LEMMA SomeResults ==
  ASSUME NEW results \in Seq(Result), OneOfEachKey(results), NEW I \in SUBSET (1..Len(results))
  PROVE  /\ ItemsAt(results, I) \in Seq(Result) /\ OneOfEachKey(ItemsAt(results, I))
         /\ \A k \in 1..Len(ItemsAt(results, I)) : \E i \in I : ItemsAt(results, I)[k] = results[i]
         /\ \A i \in I : \E k \in 1..Len(ItemsAt(results, I)) : ItemsAt(results, I)[k] = results[i]
<1>. DEFINE z == ItemsAt(results, I)
            a == Ascending(I)
<1>1. /\ z \in Seq(Result) /\ Len(z) = Cardinality(I)
      /\ \A k \in 1..Len(z) : a[k] \in I /\ z[k] = results[a[k]]
      /\ \A i \in I : \E k \in 1..Len(z) : z[k] = results[i]
  BY ItemsAtKeeps
<1>2. Len(results) \in Nat /\ IsFiniteSet(I) /\ I \in SUBSET Int
  <2>1. Len(results) \in Nat
    BY LenProperties
  <2>. QED BY <2>1, SomeIndexes
<1>3. /\ Cardinality(I) \in Nat
      /\ \A i, j \in 1..Cardinality(I) : i < j => a[i] < a[j]
  BY <1>2, AscendingInOrder
<1>. HIDE DEF z, a
<1>4. OneOfEachKey(z)
  <2>. SUFFICES ASSUME NEW i \in 1..Len(z), NEW j \in 1..Len(z), KeyOf[z[i].url] = KeyOf[z[j].url]
                PROVE  i = j
    BY DEF OneOfEachKey
  <2>1. a[i] = a[j]
    <3>1. a[i] \in 1..Len(results) /\ a[j] \in 1..Len(results)
      BY <1>1
    <3>2. z[i] = results[a[i]] /\ z[j] = results[a[j]]
      BY <1>1
    <3>3. KeyOf[results[a[i]].url] = KeyOf[results[a[j]].url]
      BY <3>2, Zenon
    <3>. QED BY <3>1, <3>3, Zenon DEF OneOfEachKey
  <2>2. a[i] \in I /\ a[i] \in Int
    BY <1>1, <1>2
  <2>. QED BY <1>1, <1>3, <2>1, <2>2
<1>. QED BY <1>1, <1>4 DEF z

\* The limit of a domain is a number.
LEMMA DomainLimitNat ==
  ASSUME NEW maxUrls \in Nat, NEW allowed, NEW candidates
  PROVE  DomainLimit(maxUrls, allowed, candidates) \in Nat
<1>1. Third(maxUrls) \in Nat
  BY DEF Third
<1>. DEFINE n == Cardinality({HostOf[candidates[i].url] : i \in DOMAIN candidates})
<1>. HIDE DEF n
<1>2. DomainLimit(maxUrls, allowed, candidates) \in {maxUrls, 1, 3, Third(maxUrls)}
  BY DEF DomainLimit, n
<1>. QED BY <1>1, <1>2

\* The results the filters leave.
Permits(blocked, allowed, r) == Filtered(r.url, blocked, allowed) = "none"
CandidatesAt(results, blocked, allowed) ==
  {i \in 1..Len(results) : Permits(blocked, allowed, results[i])}
Candidates(results, blocked, allowed) == ItemsAt(results, CandidatesAt(results, blocked, allowed))

\* The selection takes candidates within the limits, and leaves none out for which there is room.
LEMMA SelectKeeps ==
  ASSUME NEW results \in Seq(Result), OneOfEachKey(results), NEW maxUrls \in Nat,
         NEW blocked, NEW allowed
  PROVE  LET picked == Select(results, maxUrls, blocked, allowed)
             candidates == Candidates(results, blocked, allowed)
             limit == DomainLimit(maxUrls, allowed, candidates)
         IN /\ candidates \in Seq(Result) /\ limit \in Nat
            /\ Picks(picked, ToSet(candidates), maxUrls, limit)
            /\ \A i \in 1..Len(results) : Permits(blocked, allowed, results[i]) =>
                 NoRoom(picked, results[i], maxUrls, limit)
            /\ \A r \in ToSet(candidates) :
                 Permits(blocked, allowed, r) /\ \E i \in 1..Len(results) : r = results[i]
<1>. DEFINE I == CandidatesAt(results, blocked, allowed)
            candidates == Candidates(results, blocked, allowed)
            limit == DomainLimit(maxUrls, allowed, candidates)
            C == ToSet(candidates)
            ordered == Ordered(candidates)
            first == Pass(ordered, <<>>, maxUrls, limit, "engine")
            second == Pass(ordered, first, maxUrls, limit, "host")
            picked == Pass(ordered, second, maxUrls, limit, "any")
<1>1. candidates = ItemsAt(results, I)
  BY DEF Candidates
<1>2. /\ I \in SUBSET (1..Len(results)) /\ DOMAIN results = 1..Len(results)
      /\ \A i \in 1..Len(results) : i \in I <=> Permits(blocked, allowed, results[i])
  BY LenProperties DEF CandidatesAt
<1>6. Select(results, maxUrls, blocked, allowed) = picked
  BY <1>2, Zenon DEF Select, Kept, Candidates, CandidatesAt, Permits
<1>. HIDE DEF candidates, I
<1>3. /\ candidates \in Seq(Result) /\ OneOfEachKey(candidates)
      /\ \A k \in 1..Len(candidates) : \E i \in I : candidates[k] = results[i]
      /\ \A i \in I : \E k \in 1..Len(candidates) : candidates[k] = results[i]
  BY <1>1, <1>2, SomeResults
<1>4. limit \in Nat
  BY DomainLimitNat
<1>. HIDE DEF limit
<1>5. C = {candidates[i] : i \in 1..Len(candidates)} /\ C \in SUBSET Result
  <2>1. C = {candidates[i] : i \in 1..Len(candidates)}
    BY <1>3, OfHostFinite
  <2>. QED BY <1>3, <2>1, ElementOfSeq
<1>7. /\ ordered \in Seq(C)
      /\ \A i \in 1..Len(candidates) : \E n \in 1..Len(ordered) : ordered[n] = candidates[i]
  <2>1. \A i, j \in 1..Len(candidates) : candidates[i].url = candidates[j].url => i = j
    BY <1>3 DEF OneOfEachKey
  <2>. QED BY <1>3, <2>1, OrderedKeeps
<1>8. Picks(<<>>, C, maxUrls, limit)
  <2>1. <<>> \in Seq(C) /\ Len(<<>>) = 0
    BY EmptySeq
  <2>2. ASSUME NEW h PROVE Cardinality(OfHost(<<>>, h)) <= limit
    <3>1. ToSet(<<>>) = {}
      BY DEF ToSet
    <3>2. OfHost(<<>>, h) = {}
      BY <3>1 DEF OfHost
    <3>. QED BY <1>4, <3>2, FS_EmptySet
  <2>. QED BY <2>1, <2>2 DEF Picks
<1>. HIDE DEF C, ordered
<1>9. Picks(first, C, maxUrls, limit)
  BY <1>4, <1>5, <1>7, <1>8, PassKeeps
<1>. HIDE DEF first
<1>10. Picks(second, C, maxUrls, limit)
  BY <1>4, <1>5, <1>7, <1>9, PassKeeps
<1>. HIDE DEF second
<1>11. /\ Picks(picked, C, maxUrls, limit)
       /\ \A n \in 1..Len(ordered) : NoRoom(picked, ordered[n], maxUrls, limit)
  BY <1>4, <1>5, <1>7, <1>10, PassKeeps
<1>. HIDE DEF picked
<1>12. ASSUME NEW i \in 1..Len(results), Permits(blocked, allowed, results[i])
       PROVE  NoRoom(picked, results[i], maxUrls, limit)
  <2>1. i \in I
    BY <1>2, <1>12
  <2>2. PICK k \in 1..Len(candidates) : candidates[k] = results[i]
    BY <1>3, <2>1
  <2>3. PICK n \in 1..Len(ordered) : ordered[n] = candidates[k]
    BY <1>7
  <2>. QED BY <1>11, <2>2, <2>3
<1>13. ASSUME NEW r \in C
       PROVE  Permits(blocked, allowed, r) /\ \E i \in 1..Len(results) : r = results[i]
  <2>1. PICK k \in 1..Len(candidates) : r = candidates[k]
    BY <1>5
  <2>2. PICK i \in I : candidates[k] = results[i]
    BY <1>3
  <2>. QED BY <1>2, <2>1, <2>2
<1>. QED BY <1>3, <1>4, <1>6, <1>11, <1>12, <1>13 DEF C, candidates, limit

-----------------------------------------------------------------------------
(* Sequences of sequences.                                                 *)

\* The sequences are put together one after the other.
FlattenRun(g, seqs) == g[0] = <<>> /\ \A n \in 1..Len(seqs) : g[n] = g[n - 1] \o seqs[n]

LEMMA FlattenLoop ==
  ASSUME NEW T, NEW seqs \in Seq(Seq(T))
  PROVE  \E g : FlattenRun(g, seqs) /\ FlattenSeq(seqs) = g[Len(seqs)]
<1>. DEFINE N == Len(seqs)
            Row(h, m) == [i \in 1..m |-> IF i = 1 THEN seqs[i] ELSE h[i - 1] \o seqs[i]]
            K == {m \in Nat : \E h : h = Row(h, m)}
            h0 == CHOOSE h : h = Row(h, N)
<1>1. N \in Nat /\ \A i \in 1..N : seqs[i] \in Seq(T)
  BY LenProperties, ElementOfSeq
<1>2. FlattenSeq(seqs) = IF N = 0 THEN seqs ELSE h0[N]
  BY DEF FlattenSeq
<1>3. CASE N = 0
  <2>1. seqs = <<>>
    BY <1>3, EmptySeq
  <2>2. FlattenSeq(seqs) = [n \in 0..0 |-> <<>>][0]
    BY <1>2, <1>3, <2>1
  <2>3. FlattenRun([n \in 0..0 |-> <<>>], seqs)
    BY <1>3 DEF FlattenRun
  <2>. QED BY <1>3, <2>2, <2>3
<1>4. CASE N # 0
  <2>. HIDE DEF N
  <2>1. 0 \in K
    <3>1. [n \in 1..0 |-> 0] = Row([n \in 1..0 |-> 0], 0)
      OBVIOUS
    <3>. QED BY <3>1
  <2>2. ASSUME NEW m \in Nat, m \in K PROVE m + 1 \in K
    <3>1. PICK g : g = Row(g, m)
      BY <2>2
    <3>. DEFINE last == IF m + 1 = 1 THEN seqs[m + 1] ELSE g[m] \o seqs[m + 1]
                h == [n \in 1..m + 1 |-> IF n = m + 1 THEN last ELSE g[n]]
    <3>2. ASSUME NEW n \in 1..m + 1
          PROVE  h[n] = IF n = 1 THEN seqs[n] ELSE h[n - 1] \o seqs[n]
      <4>1. CASE n = m + 1
        <5>1. h[n] = last /\ (n # 1 => h[n - 1] = g[m])
          BY <4>1
        <5>2. last = IF n = 1 THEN seqs[n] ELSE g[m] \o seqs[n]
          BY <4>1
        <5>. HIDE DEF h, last
        <5>. QED BY <5>1, <5>2
      <4>2. CASE n # m + 1
        <5>1. n \in 1..m /\ h[n] = g[n] /\ (n # 1 => n - 1 \in 1..m /\ h[n - 1] = g[n - 1])
          BY <4>2
        <5>2. g[n] = IF n = 1 THEN seqs[n] ELSE g[n - 1] \o seqs[n]
          BY <3>1, <5>1
        <5>. HIDE DEF h
        <5>. QED BY <5>1, <5>2
      <4>. QED BY <4>1, <4>2
    <3>3. h = Row(h, m + 1)
      <4>. HIDE DEF last
      <4>. QED BY <3>2
    <3>. HIDE DEF h, Row
    <3>. QED BY <3>3
  <2>3. N \in K
    <3>. HIDE DEF K
    <3>1. Nat \subseteq K
      BY <2>1, <2>2, SetInduction
    <3>. QED BY <1>1, <3>1
  <2>4. h0 = Row(h0, N)
    <3>. HIDE DEF Row
    <3>. QED BY <2>3
  <2>. HIDE DEF h0
  <2>. DEFINE g == [n \in 0..N |-> IF n = 0 THEN <<>> ELSE h0[n]]
  <2>5. ASSUME NEW n \in 1..N PROVE g[n] = g[n - 1] \o seqs[n]
    <3>1. h0[n] = IF n = 1 THEN seqs[n] ELSE h0[n - 1] \o seqs[n]
      BY <1>1, <2>4
    <3>2. CASE n = 1
      <4>1. g[n] = seqs[n] /\ g[n - 1] = <<>>
        BY <1>1, <3>1, <3>2
      <4>2. <<>> \o seqs[n] = seqs[n]
        BY <1>1, ConcatEmptySeq
      <4>. HIDE DEF g
      <4>. QED BY <4>1, <4>2
    <3>3. CASE n # 1
      <4>1. g[n] = h0[n] /\ g[n - 1] = h0[n - 1]
        BY <1>1, <3>3
      <4>. HIDE DEF g
      <4>. QED BY <3>1, <3>3, <4>1
    <3>. QED BY <3>2, <3>3
  <2>6. g[0] = <<>> /\ g[N] = h0[N]
    BY <1>1, <1>4
  <2>. HIDE DEF g
  <2>. QED BY <1>2, <1>4, <2>5, <2>6 DEF FlattenRun, N
<1>. QED BY <1>3, <1>4

\* The whole has the items of the parts, and no others.
OfParts(s, n, seqs) ==
  \A k \in 1..Len(s) : \E i \in 1..n : \E j \in 1..Len(seqs[i]) : s[k] = seqs[i][j]
HasParts(s, n, seqs) ==
  \A i \in 1..n : \A j \in 1..Len(seqs[i]) : \E k \in 1..Len(s) : s[k] = seqs[i][j]
LEMMA FlattenKeeps ==
  ASSUME NEW T, NEW seqs \in Seq(Seq(T))
  PROVE  /\ FlattenSeq(seqs) \in Seq(T)
         /\ OfParts(FlattenSeq(seqs), Len(seqs), seqs) /\ HasParts(FlattenSeq(seqs), Len(seqs), seqs)
<1>. DEFINE N == Len(seqs)
            Good(s, n) == s \in Seq(T) /\ OfParts(s, n, seqs) /\ HasParts(s, n, seqs)
            B == {x \in Seq(T) \X Nat : Good(x[1], x[2])}
<1>1. N \in Nat /\ \A i \in 1..N : seqs[i] \in Seq(T) /\ Len(seqs[i]) \in Nat
  <2>1. N \in Nat /\ \A i \in 1..N : seqs[i] \in Seq(T)
    BY LenProperties, ElementOfSeq
  <2>. QED BY <2>1, LenProperties
<1>2. PICK g : FlattenRun(g, seqs) /\ FlattenSeq(seqs) = g[Len(seqs)]
  BY FlattenLoop
<1>. DEFINE both == [n \in 0..N |-> <<g[n], n>>]
<1>3. both[0] \in B
  <2>1. g[0] = <<>> /\ <<>> \in Seq(T) /\ Len(<<>>) = 0
    BY <1>2, EmptySeq DEF FlattenRun
  <2>2. Good(g[0], 0) /\ g[0] \in Seq(T)
    BY <2>1 DEF OfParts, HasParts
  <2>3. both[0] = <<g[0], 0>>
    BY <1>1
  <2>. DEFINE g0 == g[0]
  <2>4. both[0] = <<g0, 0>> /\ Good(g0, 0) /\ g0 \in Seq(T)
    BY <2>2, <2>3
  <2>. HIDE DEF both, Good, g0
  <2>. QED BY <2>4
<1>4. ASSUME NEW n \in 1..N, both[n - 1] \in B PROVE both[n] \in B
  <2>. DEFINE s == g[n - 1]
              t == g[n]
              w == seqs[n]
  <2>0. n \in 0..N /\ n - 1 \in 0..N /\ n \in Nat
    BY <1>1
  <2>1. s \in Seq(T) /\ OfParts(s, n - 1, seqs) /\ HasParts(s, n - 1, seqs)
    BY <1>4, <2>0
  <2>2. t = s \o w /\ w \in Seq(T)
    BY <1>1, <1>2 DEF FlattenRun
  <2>3. both[n] = <<t, n>>
    BY <2>0
  <2>. HIDE DEF s, t, both
  <2>4. /\ t \in Seq(T) /\ Len(t) = Len(s) + Len(w) /\ Len(s) \in Nat /\ Len(w) \in Nat
        /\ \A i \in 1..Len(s) + Len(w) : t[i] = IF i <= Len(s) THEN s[i] ELSE w[i - Len(s)]
    BY <2>1, <2>2, ConcatProperties, LenProperties
  <2>5. OfParts(t, n, seqs)
    <3>. SUFFICES ASSUME NEW k \in 1..Len(t)
                  PROVE  \E i \in 1..n : \E j \in 1..Len(seqs[i]) : t[k] = seqs[i][j]
      BY DEF OfParts
    <3>1. CASE k <= Len(s)
      <4>1. k \in 1..Len(s) /\ t[k] = s[k]
        BY <2>4, <3>1
      <4>2. PICK i \in 1..n - 1 : \E j \in 1..Len(seqs[i]) : s[k] = seqs[i][j]
        BY <2>1, <4>1 DEF OfParts
      <4>3. i \in 1..n
        BY <2>0
      <4>. QED BY <4>1, <4>2, <4>3
    <3>2. CASE ~(k <= Len(s))
      <4>1. k - Len(s) \in 1..Len(seqs[n]) /\ t[k] = seqs[n][k - Len(s)]
        BY <2>4, <3>2
      <4>2. n \in 1..n
        BY <2>0
      <4>. QED BY <4>1, <4>2
    <3>. QED BY <3>1, <3>2
  <2>6. HasParts(t, n, seqs)
    <3>. SUFFICES ASSUME NEW i \in 1..n, NEW j \in 1..Len(seqs[i])
                  PROVE  \E k \in 1..Len(t) : t[k] = seqs[i][j]
      BY DEF HasParts
    <3>1. CASE i = n
      <4>1. Len(s) + j \in 1..Len(t) /\ ~(Len(s) + j <= Len(s)) /\ (Len(s) + j) - Len(s) = j
        BY <2>4, <3>1
      <4>2. t[Len(s) + j] = seqs[i][j]
        BY <2>4, <3>1, <4>1
      <4>. QED BY <4>1, <4>2
    <3>2. CASE i # n
      <4>1. i \in 1..n - 1
        BY <2>0, <3>2
      <4>2. PICK k \in 1..Len(s) : s[k] = seqs[i][j]
        BY <2>1, <4>1 DEF HasParts
      <4>3. k \in 1..Len(t) /\ t[k] = s[k]
        BY <2>4
      <4>. QED BY <4>2, <4>3
    <3>. QED BY <3>1, <3>2
  <2>7. Good(t, n) /\ t \in Seq(T) /\ n \in Nat
    BY <2>0, <2>4, <2>5, <2>6
  <2>. HIDE DEF Good
  <2>. QED BY <2>3, <2>7
<1>5. both[N] \in B
  <2>1. \A n \in 0..N : both[n] \in B
    <3>. HIDE DEF both, B, N
    <3>. QED BY <1>1, <1>3, <1>4, LoopStays
  <2>. HIDE DEF both, B
  <2>. QED BY <1>1, <2>1
<1>6. Good(g[N], N)
  <2>1. both[N] = <<g[N], N>>
    BY <1>1
  <2>. HIDE DEF both, Good
  <2>. QED BY <1>5, <2>1
<1>. QED BY <1>2, <1>6

-----------------------------------------------------------------------------
(* Discovery.                                                              *)

\* Some element comes before all others.
LEMMA FirstInOrder ==
  ASSUME NEW S, IsFiniteSet(S), S # {}, NEW R, StrictOrder(S, R)
  PROVE  \E x \in S : \A y \in S : y = x \/ <<x, y>> \in R
<1>. DEFINE r == Ranked(S, R)
<1>1. /\ Cardinality(S) \in Nat /\ r \in [1..Cardinality(S) -> S]
      /\ \A x \in S : \E k \in 1..Cardinality(S) : r[k] = x
      /\ \A i, j \in 1..Cardinality(S) : i < j => <<r[i], r[j]>> \in R
  BY RankedInOrder
<1>2. 1 \in 1..Cardinality(S)
  BY <1>1
<1>. HIDE DEF r
<1>3. ASSUME NEW y \in S PROVE y = r[1] \/ <<r[1], y>> \in R
  <2>1. PICK k \in 1..Cardinality(S) : r[k] = y
    BY <1>1
  <2>2. k = 1 \/ 1 < k
    OBVIOUS
  <2>. QED BY <1>1, <1>2, <2>1, <2>2
<1>4. r[1] \in S
  BY <1>1, <1>2
<1>. QED BY <1>3, <1>4

\* The best of some results is one of them.
LEMMA BestIsOne ==
  ASSUME NEW results \in Seq(Result), results # <<>>
  PROVE  \E i \in 1..Len(results) : BestOf(results) = results[i]
<1>. DEFINE D == 1..Len(results)
            Before(i, j) == \/ results[i].score > results[j].score
                            \/ results[i].score = results[j].score /\ i < j
            R == {p \in D \X D : Before(p[1], p[2])}
            Best(i) == /\ \A j \in DOMAIN results : results[j].score <= results[i].score
                       /\ \A j \in 1..(i - 1) : results[j].score < results[i].score
<1>1. Len(results) \in Nat /\ DOMAIN results = D /\ \A i \in D : results[i].score \in Int
  <2>1. Len(results) \in Nat /\ DOMAIN results = D /\ \A i \in D : results[i] \in Result
    BY LenProperties, ElementOfSeq
  <2>2. \A r \in Result : r.score \in Int
    BY DEF Result
  <2>. QED BY <2>1, <2>2
<1>2. IsFiniteSet(D) /\ D # {}
  <2>1. Len(results) # 0
    BY EmptySeq
  <2>2. 1 \in D /\ IsFiniteSet(D)
    BY <1>1, <2>1, FS_Interval
  <2>. QED BY <2>2
<1>3. \A i, j \in D : <<i, j>> \in R <=> Before(i, j)
  OBVIOUS
<1>4. StrictOrder(D, R)
  <2>1. \A i, j \in D : i \in Int /\ ~Before(i, i) /\ (i = j \/ Before(i, j) \/ Before(j, i))
    BY <1>1
  <2>2. \A i, j, k \in D : Before(i, j) /\ Before(j, k) => Before(i, k)
    BY <1>1
  <2>. HIDE DEF D, R, Before
  <2>. QED BY <1>3, <2>1, <2>2 DEF StrictOrder
<1>5. PICK i \in D : \A j \in D : j = i \/ <<i, j>> \in R
  <2>. HIDE DEF D, R
  <2>. QED BY <1>2, <1>4, FirstInOrder
<1>6. Best(i)
  <2>1. \A j \in D : j = i \/ Before(i, j)
    BY <1>3, <1>5
  <2>2. \A j \in 1..(i - 1) : j \in D /\ j < i
    BY <1>1
  <2>. QED BY <1>1, <2>1, <2>2
<1>7. Best(CHOOSE m \in DOMAIN results : Best(m)) /\ (CHOOSE m \in DOMAIN results : Best(m)) \in D
  <2>. HIDE DEF Best
  <2>. QED BY <1>1, <1>6
<1>8. BestOf(results) = results[CHOOSE m \in DOMAIN results : Best(m)]
  BY DEF BestOf
<1>. HIDE DEF Best
<1>. QED BY <1>7, <1>8

\* The parts of the merge
Told == [result : Result, query : Queries]
ToldBy(sets, qs) ==
  [i \in DOMAIN sets |-> [r \in DOMAIN sets[i] |-> [result |-> sets[i][r], query |-> qs[i]]]]
AllTold(sets, qs) == FlattenSeq(ToldBy(sets, qs))
KeysTold(all) == {KeyOf[all[i].result.url] : i \in DOMAIN all}
WithKey(all, k) == {i \in DOMAIN all : KeyOf[all[i].result.url] = k}
MergedOf(of) ==
  [BestOf([i \in DOMAIN of |-> of[i].result]) EXCEPT
     !.contributions = BestContributions(
        UNION {Contributed(of[i].result, of[i].query) : i \in DOMAIN of})]
MergedAt(all, k) == MergedOf(ItemsAt(all, WithKey(all, k)))
MergedTold(all) == {MergedAt(all, k) : k \in KeysTold(all)}
MergeBefore(r, s) == r.score > s.score \/ (r.score = s.score /\ KeyOf[r.url] < KeyOf[s.url])
MergeOrder(S) == {p \in S \X S : MergeBefore(p[1], p[2])}

LEMMA MergeIs ==
  ASSUME NEW sets, NEW qs
  PROVE  MergeDedup(sets, qs) = Ranked(MergedTold(AllTold(sets, qs)), MergeOrder(MergedTold(AllTold(sets, qs))))
BY Zenon DEF MergeDedup, InOrder, Kept, ToldBy, AllTold, KeysTold, WithKey, MergedOf, MergedAt, MergedTold, MergeBefore, MergeOrder

\* What is merged under an address is a result of that address.
LEMMA MergedIsResult ==
  ASSUME NEW of \in Seq(Told), of # <<>>
  PROVE  /\ MergedOf(of) \in Result
         /\ \E i \in 1..Len(of) : MergedOf(of).url = of[i].result.url
<1>. DEFINE results == [i \in DOMAIN of |-> of[i].result]
            C == UNION {Contributed(of[i].result, of[i].query) : i \in DOMAIN of}
<1>1. /\ Len(of) \in Nat /\ DOMAIN of = 1..Len(of) /\ Len(of) # 0
      /\ \A i \in 1..Len(of) : of[i].result \in Result /\ of[i].query \in Queries
  <2>1. Len(of) \in Nat /\ DOMAIN of = 1..Len(of) /\ \A i \in 1..Len(of) : of[i] \in Told
    BY LenProperties, ElementOfSeq
  <2>. QED BY <2>1, EmptySeq DEF Told
<1>2. results \in Seq(Result) /\ Len(results) = Len(of) /\ \A i \in 1..Len(of) : results[i] = of[i].result
  <2>1. results \in [1..Len(of) -> Result]
    BY <1>1
  <2>2. results \in Seq(Result)
    <3>. HIDE DEF results
    <3>. QED BY <1>1, <2>1, SeqDef
  <2>. QED BY <1>1, <2>1, <2>2, LenProperties
<1>3. PICK b \in 1..Len(of) : BestOf(results) = of[b].result
  <2>. HIDE DEF results
  <2>1. results # <<>>
    BY <1>1, <1>2
  <2>. QED BY <1>2, <2>1, BestIsOne
<1>4. C \in SUBSET Contribution
  <2>. SUFFICES ASSUME NEW i \in DOMAIN of, NEW c \in Contributed(of[i].result, of[i].query)
                PROVE  c \in Contribution
    OBVIOUS
  <2>1. of[i].result \in Result /\ of[i].query \in Queries
    BY <1>1
  <2>2. \A r \in Result, q \in Queries : Contributed(r, q) \in SUBSET Contribution
    BY DEF Contributed, Result, Contribution
  <2>. QED BY <2>1, <2>2
<1>5. BestContributions(C) \in SUBSET Contribution
  <2>1. BestContributions(C) \in SUBSET C
    BY DEF BestContributions
  <2>. HIDE DEF C
  <2>. QED BY <1>4, <2>1
<1>6. MergedOf(of) = [BestOf(results) EXCEPT !.contributions = BestContributions(C)]
  BY DEF MergedOf
<1>. HIDE DEF results, C
<1>7. MergedOf(of) \in Result /\ MergedOf(of).url = of[b].result.url
  <2>1. \A r \in Result, D \in SUBSET Contribution :
          /\ [r EXCEPT !.contributions = D] \in Result
          /\ [r EXCEPT !.contributions = D].url = r.url
    BY DEF Result
  <2>2. of[b].result \in Result
    BY <1>1
  <2>3. MergedOf(of) = [of[b].result EXCEPT !.contributions = BestContributions(C)]
    BY <1>3, <1>6, Zenon
  <2>. HIDE DEF Result
  <2>. QED BY <1>5, <2>1, <2>2, <2>3, Zenon
<1>. QED BY <1>7

\* All results, with the subqueries they came from.
LEMMA ToldKeeps ==
  ASSUME NEW sets \in Seq(Seq(Result)), NEW qs, \A i \in 1..Len(sets) : qs[i] \in Queries
  PROVE  /\ AllTold(sets, qs) \in Seq(Told)
         /\ ToldBy(sets, qs) \in Seq(Seq(Told)) /\ Len(ToldBy(sets, qs)) = Len(sets)
         /\ \A i \in 1..Len(sets) : Len(ToldBy(sets, qs)[i]) = Len(sets[i])
<1>. DEFINE N == Len(sets)
            Part(i) == [r \in DOMAIN sets[i] |-> [result |-> sets[i][r], query |-> qs[i]]]
<1>1. N \in Nat /\ DOMAIN sets = 1..N /\ \A i \in 1..N : sets[i] \in Seq(Result)
  BY LenProperties, ElementOfSeq
<1>2. \A i \in 1..N : Part(i) \in Seq(Told) /\ Len(Part(i)) = Len(sets[i])
  <2>. TAKE i \in 1..N
  <2>1. Len(sets[i]) \in Nat /\ DOMAIN sets[i] = 1..Len(sets[i]) /\ \A r \in 1..Len(sets[i]) : sets[i][r] \in Result
    BY <1>1, LenProperties, ElementOfSeq
  <2>2. Part(i) \in [1..Len(sets[i]) -> Told]
    BY <1>1, <2>1 DEF Told
  <2>. HIDE DEF Part
  <2>. QED BY <2>1, <2>2, FunctionIsSeq
<1>3. ToldBy(sets, qs) = [i \in 1..N |-> Part(i)]
  BY <1>1 DEF ToldBy
<1>. HIDE DEF Part, N
<1>4. ToldBy(sets, qs) \in [1..N -> Seq(Told)] /\ \A i \in 1..N : ToldBy(sets, qs)[i] = Part(i)
  BY <1>2, <1>3
<1>5. ToldBy(sets, qs) \in Seq(Seq(Told)) /\ Len(ToldBy(sets, qs)) = N
  BY <1>1, <1>4, FunctionIsSeq
<1>6. AllTold(sets, qs) \in Seq(Told)
  BY <1>5, FlattenKeeps DEF AllTold
<1>. QED BY <1>2, <1>4, <1>5, <1>6 DEF N

\* The merge has one result of each address, and no more than were told.
LEMMA MergeToldKeeps ==
  ASSUME NEW all \in Seq(Told)
  PROVE  LET S == MergedTold(all) IN
         /\ Ranked(S, MergeOrder(S)) \in Seq(Result) /\ OneOfEachKey(Ranked(S, MergeOrder(S)))
         /\ Len(Ranked(S, MergeOrder(S))) <= Len(all)
<1>. DEFINE S == MergedTold(all)
            R == MergeOrder(S)
            m == Ranked(S, R)
            keyAt == [i \in 1..Len(all) |-> KeyOf[all[i].result.url]]
<1>1. /\ Len(all) \in Nat /\ DOMAIN all = 1..Len(all)
      /\ \A i \in 1..Len(all) : all[i] \in Told /\ all[i].result \in Result
  <2>1. Len(all) \in Nat /\ DOMAIN all = 1..Len(all) /\ \A i \in 1..Len(all) : all[i] \in Told
    BY LenProperties, ElementOfSeq
  <2>. QED BY <2>1 DEF Told
<1>2. \A k \in KeysTold(all) : MergedAt(all, k) \in Result /\ KeyOf[MergedAt(all, k).url] = k
  <2>. SUFFICES ASSUME NEW k \in KeysTold(all)
                PROVE  MergedAt(all, k) \in Result /\ KeyOf[MergedAt(all, k).url] = k
    OBVIOUS
  <2>. DEFINE I == WithKey(all, k)
              of == ItemsAt(all, I)
  <2>1. I \in SUBSET (1..Len(all)) /\ I # {} /\ \A i \in I : KeyOf[all[i].result.url] = k
    BY <1>1 DEF WithKey, KeysTold
  <2>. HIDE DEF I
  <2>2. /\ of \in Seq(Told) /\ of # <<>>
        /\ \A j \in 1..Len(of) : \E i \in I : of[j] = all[i]
    <3>1. /\ of \in Seq(Told) /\ Len(of) = Cardinality(I) /\ (of = <<>> <=> I = {})
          /\ \A j \in 1..Cardinality(I) : Ascending(I)[j] \in I /\ of[j] = all[Ascending(I)[j]]
      BY <2>1, ItemsAtKeeps
    <3>. QED BY <2>1, <3>1
  <2>. HIDE DEF of
  <2>3. MergedOf(of) \in Result /\ \E j \in 1..Len(of) : MergedOf(of).url = of[j].result.url
    BY <2>2, MergedIsResult
  <2>4. MergedAt(all, k) = MergedOf(of)
    BY DEF MergedAt, of, I
  <2>. QED BY <2>1, <2>2, <2>3, <2>4
<1>3. /\ S \in SUBSET Result
      /\ \A r, s \in S : KeyOf[r.url] = KeyOf[s.url] => r = s
      /\ S = {MergedAt(all, k) : k \in KeysTold(all)}
  BY <1>2 DEF MergedTold
<1>4. IsFiniteSet(KeysTold(all)) /\ Cardinality(KeysTold(all)) <= Len(all)
  <2>1. keyAt \in [1..Len(all) -> KeysTold(all)] /\ \A k \in KeysTold(all) : \E i \in 1..Len(all) : keyAt[i] = k
    BY <1>1 DEF KeysTold
  <2>. HIDE DEF keyAt
  <2>2. Cardinality(KeysTold(all)) \in 0..Len(all) /\ IsFiniteSet(KeysTold(all))
    BY <1>1, <2>1, ValuesOfItems
  <2>. QED BY <1>1, <2>2
<1>5. IsFiniteSet(S) /\ Cardinality(S) <= Len(all) /\ Cardinality(S) \in Nat
  <2>. DEFINE f == [k \in KeysTold(all) |-> MergedAt(all, k)]
  <2>1. f \in [KeysTold(all) -> S] /\ \A r \in S : \E k \in KeysTold(all) : f[k] = r
    BY <1>3
  <2>2. f \in Surjection(KeysTold(all), S)
    <3>. HIDE DEF f, S
    <3>. QED BY <2>1, Fun_IsSurj
  <2>. HIDE DEF f, S
  <2>3. IsFiniteSet(S) /\ Cardinality(S) <= Cardinality(KeysTold(all))
    BY <1>4, <2>2, FS_Surjection
  <2>4. Cardinality(S) \in Nat /\ Cardinality(KeysTold(all)) \in Nat
    BY <1>4, <2>3, FS_CardinalityType
  <2>. QED BY <1>1, <1>4, <2>3, <2>4
<1>. HIDE DEF S
<1>6. \A r \in S : r.score \in Int /\ KeyOf[r.url] \in Int
  <2>1. \A r \in Result : r.score \in Int /\ r.url \in Urls
    BY DEF Result
  <2>2. \A u \in Urls : KeyOf[u] \in Int
    BY DiscoveryConstants
  <2>. QED BY <1>3, <2>1, <2>2
<1>7. StrictOrder(S, R)
  <2>1. \A r, s \in S : <<r, s>> \in R <=> MergeBefore(r, s)
    BY DEF MergeOrder
  <2>. HIDE DEF R
  <2>2. \A r \in S : ~MergeBefore(r, r)
    BY <1>6 DEF MergeBefore
  <2>3. \A x, y, z \in S : MergeBefore(x, y) /\ MergeBefore(y, z) => MergeBefore(x, z)
    BY <1>6 DEF MergeBefore
  <2>4. \A x, y \in S : x = y \/ MergeBefore(x, y) \/ MergeBefore(y, x)
    BY <1>3, <1>6 DEF MergeBefore
  <2>. QED BY <2>1, <2>2, <2>3, <2>4 DEF StrictOrder
<1>. HIDE DEF R
<1>8. m \in [1..Cardinality(S) -> S] /\ \A i, j \in 1..Cardinality(S) : m[i] = m[j] => i = j
  BY <1>5, <1>7, RankedInOrder, RankedOnce
<1>. HIDE DEF m
<1>9. m \in Seq(Result) /\ Len(m) = Cardinality(S)
  <2>1. m \in Seq(S) /\ Len(m) = Cardinality(S)
    BY <1>5, <1>8, SeqDef, LenProperties
  <2>. QED BY <1>3, <1>5, <1>8, <2>1, SeqDef
<1>10. OneOfEachKey(m)
  <2>. SUFFICES ASSUME NEW i \in 1..Len(m), NEW j \in 1..Len(m), KeyOf[m[i].url] = KeyOf[m[j].url]
                PROVE  i = j
    BY DEF OneOfEachKey
  <2>1. m[i] \in S /\ m[j] \in S
    BY <1>8, <1>9
  <2>2. m[i] = m[j]
    BY <1>3, <2>1
  <2>. QED BY <1>8, <1>9, <2>2
<1>. QED BY <1>5, <1>9, <1>10 DEF S, R, m

\* What the provider answers is parsed into results.
LEMMA ParseKeeps ==
  ASSUME NEW items \in Seq(SearchItem), NEW q \in Queries
  PROVE  Parse(items, q) \in Seq(Result) /\ Len(Parse(items, q)) = Len(items)
<1>. DEFINE N == Len(items)
            One(r) == [url |-> items[r].url, score |-> ScoreAt(items[r], r),
                       engine |-> IF items[r].engines = <<>> THEN None ELSE items[r].engines[1],
                       contributions |-> Contributions(items[r], q, ScoreAt(items[r], r))]
<1>1. N \in Nat /\ DOMAIN items = 1..N /\ \A r \in 1..N : items[r] \in SearchItem
  BY LenProperties, ElementOfSeq
<1>2. \A item \in SearchItem : /\ item.url \in Urls /\ item.score \in Int \cup {None}
                               /\ item.engines \in Seq(Engines) /\ item.positions \in Seq(Int \cup {None})
  BY DEF SearchItem
<1>3. \A item \in SearchItem, r \in 1..N : ScoreAt(item, r) \in Int
  <2>. SUFFICES ASSUME NEW item \in SearchItem, NEW r \in 1..N PROVE ScoreAt(item, r) \in Int
    OBVIOUS
  <2>1. item.score \in Int \cup {None}
    BY <1>2
  <2>2. ScoreUnit \div r \in Int
    BY <1>1, DiscoveryConstants
  <2>. QED BY <2>1, <2>2 DEF ScoreAt
<1>4. ASSUME NEW item \in SearchItem PROVE (IF item.engines = <<>> THEN None ELSE item.engines[1]) \in Engines \cup {None}
  <2>1. item.engines \in Seq(Engines)
    BY <1>2
  <2>2. CASE item.engines # <<>>
    <3>1. Len(item.engines) # 0 /\ Len(item.engines) \in Nat
      BY <2>1, <2>2, EmptySeq, LenProperties
    <3>2. item.engines[1] \in Engines
      BY <2>1, <3>1, ElementOfSeq
    <3>. QED BY <2>2, <3>2
  <2>. QED BY <2>2
<1>5. ASSUME NEW item \in SearchItem, NEW s \in Int PROVE Contributions(item, q, s) \in SUBSET Contribution
  <2>. SUFFICES ASSUME NEW i \in DOMAIN item.engines
                PROVE  [subquery |-> q, engine |-> item.engines[i],
                        position |-> IF i \in DOMAIN item.positions THEN item.positions[i] ELSE None,
                        score |-> s] \in Contribution
    BY DEF Contributions
  <2>1. item.engines[i] \in Engines
    BY <1>2, LenProperties, ElementOfSeq
  <2>2. i \in DOMAIN item.positions => item.positions[i] \in Int \cup {None}
    BY <1>2, LenProperties, ElementOfSeq
  <2>. QED BY <1>5, <2>1, <2>2 DEF Contribution
<1>6. \A r \in 1..N : One(r) \in Result
  <2>. SUFFICES ASSUME NEW r \in 1..N PROVE One(r) \in Result
    OBVIOUS
  <2>1. /\ items[r].url \in Urls /\ ScoreAt(items[r], r) \in Int
        /\ (IF items[r].engines = <<>> THEN None ELSE items[r].engines[1]) \in Engines \cup {None}
        /\ Contributions(items[r], q, ScoreAt(items[r], r)) \in SUBSET Contribution
    BY <1>1, <1>2, <1>3, <1>4, <1>5
  <2>. HIDE DEF N
  <2>. QED BY <2>1 DEF Result
<1>7. Parse(items, q) = [r \in 1..N |-> One(r)]
  BY <1>1 DEF Parse
<1>. HIDE DEF One
<1>8. Parse(items, q) \in [1..N -> Result]
  BY <1>6, <1>7
<1>. HIDE DEF N
<1>. QED BY <1>1, <1>8, SeqDef, LenProperties DEF N

-----------------------------------------------------------------------------
(* What is selected.                                                       *)

\* Different items are as many as their positions.
LEMMA DifferentItems ==
  ASSUME NEW n \in Nat, NEW V, NEW f \in [1..n -> V], \A v \in V : \E i \in 1..n : f[i] = v,
         \A i, j \in 1..n : f[i] = f[j] => i = j
  PROVE  IsFiniteSet(V) /\ Cardinality(V) = n
<1>1. f \in Surjection(1..n, V)
  BY Fun_IsSurj
<1>2. f \in Injection(1..n, V)
  BY Fun_IsInj
<1>3. IsFiniteSet(1..n) /\ Cardinality(1..n) = n
  BY FS_Interval
<1>4. IsFiniteSet(V) /\ (Cardinality(V) = Cardinality(1..n) <=> f \in Injection(1..n, V))
  BY <1>1, <1>3, FS_Surjection
<1>. QED BY <1>2, <1>3, <1>4

\* Where the operator and the caller allow an address, the operator does.
LEMMA PermittedIsAllowed ==
  ASSUME NEW s, RequestOK(s), NEW u, Filtered(u, Blocked(s), Allowed(s)) = "none"
  PROVE  OperatorAllows(s, u)
<1>1. /\ HostOf[u] # None /\ ~Matches(u, Blocked(s))
      /\ Allowed(s) = None \/ Matches(u, Allowed(s))
  BY DEF Filtered
<1>2. ~Matches(u, s.operatorBlocks)
  BY <1>1 DEF Matches, Blocked
<1>3. ASSUME s.operatorAllows # None PROVE Matches(u, s.operatorAllows)
  <2>1. CASE s.domains = None
    <3>1. Allowed(s) = s.operatorAllows
      BY <1>3, <2>1 DEF Allowed
    <3>. QED BY <1>1, <1>3, <3>1
  <2>2. CASE s.domains # None
    <3>1. Allowed(s) = s.domains \cap s.operatorAllows
      BY <1>3, <2>2 DEF Allowed
    <3>2. s.domains \in SUBSET Domains /\ s.operatorAllows \in SUBSET Domains
      <4>1. {s.domains, s.operatorAllows} \subseteq (SUBSET Domains) \cup {None}
        BY Zenon DEF RequestOK
      <4>. QED BY <1>3, <2>2, <4>1
    <3>3. s.domains \cap s.operatorAllows \in SUBSET Domains
      BY <3>2
    <3>4. Allowed(s) # None
      <4>1. \A D \in SUBSET Domains : D # None
        BY DiscoveryConstants
      <4>. QED BY <3>1, <3>3, <4>1
    <3>. QED BY <1>1, <3>1, <3>4 DEF Matches
  <2>. QED BY <2>1, <2>2
<1>. QED BY <1>1, <1>2, <1>3 DEF OperatorAllows

\* No more than the operator allows
LEMMA MaxUrlsIsNat ==
  ASSUME NEW s, RequestOK(s)
  PROVE  MaxUrlsOf(s) \in Nat \ {0}
BY SearchConstants DEF RequestOK, MaxUrlsOf

\* SelectionIsSound of some results, picks and addresses
SoundSelection(s, results, picked, urls) ==
  LET Permitted(u) == Filtered(u, Blocked(s), Allowed(s)) = "none"
      candidates == Kept(results, LAMBDA r : Permitted(r.url))
      limit == DomainLimit(MaxUrlsOf(s), Allowed(s), candidates)
      OfSameHost(u) == {v \in urls : HostOf[v] = HostOf[u]}
  IN /\ \A u \in urls :
          /\ Permitted(u) /\ CrawlSafe(s, u)
          /\ Cardinality(OfSameHost(u)) <= limit
          /\ \A v \in urls : KeyOf[v] = KeyOf[u] => v = u
     /\ \A i \in DOMAIN results :
          LET why == Decision(results[i], picked, limit, Blocked(s), Allowed(s))
          IN /\ why = "selected" <=> results[i].url \in urls
             /\ why = "rank_cap" => Cardinality(urls) = MaxUrlsOf(s)

UrlsOf(picked) == {r.url : r \in ToSet(picked)}
HostIsSafe(r) == HostOf[r.url] # None /\ HostOf[r.url] \notin UnsafeHosts

\* Addresses of picks
LEMMA UrlsOfPicks ==
  ASSUME NEW p \in Seq(Result), \A i, j \in 1..Len(p) : p[i].url = p[j].url => i = j
  PROVE  /\ IsFiniteSet(UrlsOf(p)) /\ Cardinality(UrlsOf(p)) = Len(p)
         /\ \A u : u \in UrlsOf(p) <=> \E r \in ToSet(p) : r.url = u
         /\ \A h : Cardinality({u \in UrlsOf(p) : HostOf[u] = h}) <= Cardinality(OfHost(p, h))
<1>1. /\ Len(p) \in Nat
      /\ ToSet(p) = {p[i] : i \in 1..Len(p)}
  BY LenProperties, OfHostFinite
<1>2. \A u : u \in UrlsOf(p) <=> \E r \in ToSet(p) : r.url = u
  BY DEF UrlsOf
<1>3. IsFiniteSet(UrlsOf(p)) /\ Cardinality(UrlsOf(p)) = Len(p)
  <2>. DEFINE f == [i \in 1..Len(p) |-> p[i].url]
  <2>1. f \in [1..Len(p) -> UrlsOf(p)]
    BY <1>1 DEF UrlsOf
  <2>2. \A u \in UrlsOf(p) : \E i \in 1..Len(p) : f[i] = u
    <3>. TAKE u \in UrlsOf(p)
    <3>1. PICK i \in 1..Len(p) : p[i].url = u
      BY <1>1, <1>2
    <3>. QED BY <3>1
  <2>3. \A i, j \in 1..Len(p) : f[i] = f[j] => i = j
    OBVIOUS
  <2>. HIDE DEF f
  <2>. QED BY <1>1, <2>1, <2>2, <2>3, DifferentItems
<1>4. ASSUME NEW h PROVE Cardinality({u \in UrlsOf(p) : HostOf[u] = h}) <= Cardinality(OfHost(p, h))
  <2>. DEFINE U == {u \in UrlsOf(p) : HostOf[u] = h}
              f == [r \in OfHost(p, h) |-> r.url]
  <2>1. f \in [OfHost(p, h) -> U]
    BY DEF UrlsOf, OfHost
  <2>2. \A u \in U : \E r \in OfHost(p, h) : f[r] = u
    BY DEF UrlsOf, OfHost
  <2>3. f \in Surjection(OfHost(p, h), U)
    <3>. HIDE DEF f, U
    <3>. QED BY <2>1, <2>2, Fun_IsSurj
  <2>4. IsFiniteSet(OfHost(p, h))
    BY OfHostFinite
  <2>. HIDE DEF f, U
  <2>5. Cardinality(U) <= Cardinality(OfHost(p, h))
    BY <2>3, <2>4, FS_Surjection
  <2>. QED BY <2>5 DEF U
<1>. QED BY <1>2, <1>3, <1>4

\* A selection among safe results is sound, and within the limit.
LEMMA SelectIsSound ==
  ASSUME NEW s, RequestOK(s), NEW results \in Seq(Result), OneOfEachKey(results),
         \A i \in 1..Len(results) : HostIsSafe(results[i])
  PROVE  LET picked == Select(results, MaxUrlsOf(s), Blocked(s), Allowed(s))
         IN /\ picked \in Seq(Result)
            /\ \A i, j \in 1..Len(picked) : picked[i].url = picked[j].url => i = j
            /\ Len(picked) <= MaxUrlsOf(s)
            /\ SoundSelection(s, results, picked, UrlsOf(picked))
<1>. DEFINE M == MaxUrlsOf(s)
            B == Blocked(s)
            A == Allowed(s)
            picked == Select(results, M, B, A)
            candidates == Candidates(results, B, A)
            C == ToSet(candidates)
            limit == DomainLimit(M, A, candidates)
            urls == UrlsOf(picked)
<1>1. /\ candidates \in Seq(Result) /\ limit \in Nat /\ M \in Nat
      /\ Picks(picked, C, M, limit)
      /\ \A i \in 1..Len(results) : Permits(B, A, results[i]) => NoRoom(picked, results[i], M, limit)
      /\ \A r \in C : Permits(B, A, r) /\ \E i \in 1..Len(results) : r = results[i]
  <2>. HIDE DEF B, A
  <2>1. M \in Nat
    BY MaxUrlsIsNat
  <2>. HIDE DEF M
  <2>. QED BY <2>1, SelectKeeps
<1>2. DOMAIN results = 1..Len(results) /\ Len(results) \in Nat /\ \A i \in 1..Len(results) : results[i] \in Result
  BY LenProperties, ElementOfSeq
<1>3. Kept(results, LAMBDA r : Filtered(r.url, B, A) = "none") = candidates
  BY <1>2, Zenon DEF Kept, Candidates, CandidatesAt, Permits
<1>. HIDE DEF M, B, A, picked, candidates, C, limit
<1>4. C \in SUBSET Result
  BY <1>1, <1>2
<1>5. /\ picked \in Seq(C) /\ picked \in Seq(Result) /\ Len(picked) <= M /\ Len(picked) \in Nat
      /\ \A i, j \in 1..Len(picked) : picked[i].url = picked[j].url => i = j
  <2>1. /\ picked \in Seq(C) /\ Len(picked) <= M
        /\ \A i, j \in 1..Len(picked) : picked[i].url = picked[j].url => i = j
    BY <1>1 DEF Picks
  <2>2. Len(picked) \in Nat /\ picked \in [1..Len(picked) -> C]
    BY <2>1, LenProperties
  <2>3. picked \in [1..Len(picked) -> Result]
    BY <1>4, <2>2
  <2>. QED BY <2>1, <2>2, <2>3, FunctionIsSeq
<1>6. /\ \A u : u \in urls <=> \E r \in ToSet(picked) : r.url = u
      /\ Cardinality(urls) = Len(picked)
      /\ \A h : Cardinality({u \in urls : HostOf[u] = h}) <= Cardinality(OfHost(picked, h))
  BY <1>5, UrlsOfPicks
<1>. HIDE DEF urls
<1>7. \A r \in ToSet(picked) : r \in C
  <2>1. ToSet(picked) = {picked[i] : i \in 1..Len(picked)}
    BY <1>5, OfHostFinite
  <2>. QED BY <1>5, <2>1, ElementOfSeq
<1>8. \A u \in urls : \E i \in 1..Len(results) : results[i].url = u /\ Filtered(u, B, A) = "none"
  BY <1>1, <1>6, <1>7 DEF Permits
<1>9. ASSUME NEW u \in urls PROVE CrawlSafe(s, u)
  <2>1. PICK i \in 1..Len(results) : results[i].url = u /\ Filtered(u, B, A) = "none"
    BY <1>8
  <2>2. OperatorAllows(s, u)
    BY <2>1, PermittedIsAllowed DEF B, A
  <2>3. HostOf[u] \notin UnsafeHosts
    BY <2>1 DEF HostIsSafe
  <2>. QED BY <2>2, <2>3 DEF CrawlSafe
<1>10. ASSUME NEW u \in urls PROVE Cardinality({v \in urls : HostOf[v] = HostOf[u]}) <= limit
  <2>. DEFINE h == HostOf[u]
  <2>1. /\ Cardinality({v \in urls : HostOf[v] = h}) <= Cardinality(OfHost(picked, h))
        /\ Cardinality(OfHost(picked, h)) <= limit
    BY <1>1, <1>6 DEF Picks
  <2>2. IsFiniteSet({v \in urls : HostOf[v] = h})
    <3>1. IsFiniteSet(urls)
      BY <1>5, UrlsOfPicks DEF urls
    <3>. QED BY <3>1, FS_Subset
  <2>3. Cardinality(OfHost(picked, h)) \in Nat /\ Cardinality({v \in urls : HostOf[v] = h}) \in Nat
    BY <1>5, <2>2, OfHostFinite, FS_CardinalityType
  <2>. QED BY <1>1, <2>1, <2>3
<1>11. ASSUME NEW u \in urls, NEW v \in urls, KeyOf[v] = KeyOf[u] PROVE v = u
  <2>1. PICK i \in 1..Len(results) : results[i].url = u
    BY <1>8
  <2>2. PICK j \in 1..Len(results) : results[j].url = v
    BY <1>8
  <2>. QED BY <1>11, <2>1, <2>2 DEF OneOfEachKey
<1>12. ASSUME NEW i \in DOMAIN results
       PROVE  LET why == Decision(results[i], picked, limit, B, A)
              IN /\ why = "selected" <=> results[i].url \in urls
                 /\ why = "rank_cap" => Cardinality(urls) = M
  <2>. DEFINE r == results[i]
              why == Decision(r, picked, limit, B, A)
  <2>1. Filtered(r.url, B, A) \in {"invalid_host", "blocked_domain", "outside_allowlist", "none"}
    BY DEF Filtered
  <2>2. IsPicked(picked, r) <=> r.url \in urls
    BY <1>6 DEF IsPicked
  <2>3. CASE Filtered(r.url, B, A) # "none"
    <3>1. r.url \notin urls
      BY <1>8, <2>3
    <3>2. why = Filtered(r.url, B, A)
      BY <2>2, <2>3, <3>1 DEF Decision
    <3>. QED BY <2>1, <3>1, <3>2
  <2>4. CASE Filtered(r.url, B, A) = "none" /\ IsPicked(picked, r)
    <3>1. why = "selected"
      BY <2>4 DEF Decision
    <3>. QED BY <2>2, <2>4, <3>1
  <2>5. CASE Filtered(r.url, B, A) = "none" /\ ~IsPicked(picked, r)
    <3>1. why = IF Cardinality(OfHost(picked, HostOf[r.url])) >= limit THEN "domain_cap" ELSE "rank_cap"
      BY <2>5 DEF Decision
    <3>2. NoRoom(picked, r, M, limit)
      BY <1>1, <1>2, <2>5 DEF Permits
    <3>3. ASSUME why = "rank_cap" PROVE Len(picked) = M
      <4>1. ~(Cardinality(OfHost(picked, HostOf[r.url])) >= limit)
        BY <3>1, <3>3
      <4>. QED BY <1>1, <1>5, <2>5, <3>2, <4>1 DEF NoRoom
    <3>. HIDE DEF why
    <3>4. why # "selected"
      BY <3>1
    <3>. QED BY <1>6, <2>2, <2>5, <3>3, <3>4 DEF why
  <2>. QED BY <2>3, <2>4, <2>5
<1>13. SoundSelection(s, results, picked, urls)
  <2>1. ASSUME NEW u \in urls PROVE Filtered(u, B, A) = "none"
    BY <1>8
  <2>2. limit = DomainLimit(M, A, Kept(results, LAMBDA r : Filtered(r.url, B, A) = "none"))
    BY <1>3 DEF limit
  <2>. QED BY <1>9, <1>10, <1>11, <1>12, <2>1, <2>2, Zenon DEF SoundSelection, M, B, A
<1>. QED BY <1>5, <1>13 DEF picked, urls, M, B, A

-----------------------------------------------------------------------------
(* The steps, with names for what they compute.                            *)

Answering(answers) == Ascending({i \in DOMAIN queries : answers[i] # None})
ParsedOf(answers) ==
  [k \in DOMAIN Answering(answers) |->
     Parse(answers[Answering(answers)[k]].items, queries[Answering(answers)[k]])]
QueriesOf(answers) == [k \in DOMAIN Answering(answers) |-> queries[Answering(answers)[k]]]
MergedFrom(answers) == MergeDedup(ParsedOf(answers), QueriesOf(answers))
FailuresOf(answers) ==
  UNION {answers[Answering(answers)[k]].unresponsive : k \in DOMAIN Answering(answers)}
FailedOf(answers) == Len(queries) - Len(Answering(answers))
FoundOf(answers) == Sum(Len(ParsedOf(answers)), LAMBDA k : Len(ParsedOf(answers)[k]))
DiscoverStats(answers) ==
  [stats EXCEPT
     !.discovery = DiscoveryStatus(MergedFrom(answers) = <<>>, FailuresOf(answers), FailedOf(answers)),
     !.failedQueries = FailedOf(answers), !.failedEngines = Cardinality(FailuresOf(answers)),
     !.found = FoundOf(answers), !.discovered = Len(MergedFrom(answers))]
EmptyReason(st) ==
  IF st.discovery = "unavailable" THEN "search_provider_unavailable" ELSE "no_results_from_discovery"

DiscoverWith(answers) ==
  CASE Answering(answers) = <<>> -> Unavailable("searxng") /\ merged' = <<>>
    [] Answering(answers) # <<>> /\ MergedFrom(answers) = <<>> ->
         Empty(DiscoverStats(answers), EmptyReason(DiscoverStats(answers))) /\ merged' = <<>>
    [] OTHER -> GoOn("safety", DiscoverStats(answers)) /\ merged' = MergedFrom(answers)

LEMMA DiscoverIs ==
  ASSUME Discover
  PROVE  /\ stage = "discover" /\ UNCHANGED <<search, queries, selected, pages, chunks, asked, offered>>
         /\ \E answers \in [DOMAIN queries -> search.answers] : DiscoverWith(answers)
BY Zenon DEF Discover, DiscoverWith, Answering, ParsedOf, QueriesOf, MergedFrom, FailuresOf,
     FailedOf, FoundOf, DiscoverStats, EmptyReason

SafeAt == {i \in DOMAIN merged : HostOf[merged[i].url] # None /\ HostOf[merged[i].url] \notin UnsafeHosts}
SafeOf(works) == IF works THEN ItemsAt(merged, SafeAt) ELSE <<>>
PickedOf(safe) == Select(safe, MaxUrlsOf(search), Blocked(search), Allowed(search))
ToldOf(safe) == Diagnosed(PickedOf(safe), Kept(safe, LAMBDA r : ~IsPicked(PickedOf(safe), r)))
SelectStats(safe) ==
  [stats EXCEPT !.chosen = Len(PickedOf(safe)), !.diagnosed = Len(ToldOf(safe).kept),
                !.undiagnosed = ToldOf(safe).omitted]
SelectFrom(safe) ==
  IF PickedOf(safe) = <<>>
  THEN /\ Empty(SelectStats(safe), "no_urls_after_selection")
       /\ UNCHANGED <<merged, selected, asked>>
  ELSE /\ GoOn("fetch", SelectStats(safe))
       /\ merged' = safe /\ selected' = PickedOf(safe)
       /\ asked' = UrlsOf(PickedOf(safe))

LEMMA SelectIs ==
  ASSUME SelectUrls
  PROVE  /\ stage = "safety" /\ UNCHANGED <<search, queries, pages, chunks, offered>>
         /\ \E works : SelectFrom(SafeOf(works))
BY Zenon DEF SelectUrls, SelectFrom, SafeAt, SafeOf, Kept, PickedOf, ToldOf, SelectStats, UrlsOf

CodeAt(outcome, i) == CodeOf(selected[i].url, outcome[i])
GoodOf(outcome) == Ascending({i \in DOMAIN selected : CodeAt(outcome, i) = "content"})
FoundPages(outcome) ==
  [k \in DOMAIN GoodOf(outcome) |->
     [requested |-> selected[GoodOf(outcome)[k]].url, final |-> outcome[GoodOf(outcome)[k]].final,
      body |-> outcome[GoodOf(outcome)[k]].body, source |-> None]]
FetchStats(outcome) ==
  [stats EXCEPT !.codes = [i \in DOMAIN selected |-> CodeAt(outcome, i)],
                !.crawled = Len(GoodOf(outcome)), !.failed = Len(selected) - Len(GoodOf(outcome))]
FetchWith(outcome) ==
  IF FoundPages(outcome) = <<>> THEN Empty(FetchStats(outcome), "all_crawls_failed") /\ pages' = <<>>
  ELSE /\ pages' = Deduped(FoundPages(outcome))
       /\ GoOn("chunk", [FetchStats(outcome) EXCEPT !.deduped = Len(FoundPages(outcome)) - Len(pages')])

LEMMA FetchIs ==
  ASSUME Fetch
  PROVE  /\ stage = "fetch" /\ UNCHANGED <<search, queries, merged, selected, chunks, asked, offered>>
         /\ \E outcome \in [DOMAIN selected -> search.fetches] : FetchWith(outcome)
BY Zenon DEF Fetch, FetchWith, CodeAt, GoodOf, FoundPages, FetchStats

TakenOf(answer) == {i \in DOMAIN pages : answer[i] # None}
PartsOf(answer) ==
  [i \in DOMAIN pages |-> IF i \in TakenOf(answer) THEN ChunksOf(pages[i], answer[i]) ELSE <<>>]
ProducedOf(answer) == FlattenSeq(PartsOf(answer))
ChunkStats(answer) ==
  [stats EXCEPT !.produced = Len(ProducedOf(answer)), !.sent = Len(Prefilter(ProducedOf(answer))),
                !.prefiltered = Len(ProducedOf(answer)) - Len(Prefilter(ProducedOf(answer)))]
ChunkWith(answer) ==
  CASE TakenOf(answer) = {} -> Unavailable("chunker") /\ UNCHANGED chunks
    [] TakenOf(answer) # {} /\ ProducedOf(answer) = <<>> ->
         Empty(ChunkStats(answer), "no_chunks_after_dedup") /\ UNCHANGED chunks
    [] OTHER -> GoOn("rerank", ChunkStats(answer)) /\ chunks' = Prefilter(ProducedOf(answer))
SourcesOf(all) == {all[i].source : i \in DOMAIN all}

LEMMA ChunkIs ==
  ASSUME Chunk
  PROVE  /\ stage = "chunk" /\ UNCHANGED <<search, queries, merged, selected, pages, asked>>
         /\ \E answer \in [DOMAIN pages -> UNION {search.chunkings[pages[i].body] : i \in DOMAIN pages}] :
              /\ \A i \in DOMAIN pages : answer[i] \in search.chunkings[pages[i].body]
              /\ ChunkWith(answer) /\ offered' = SourcesOf(ProducedOf(answer))
<1>1. PICK answer \in {f \in [DOMAIN pages -> UNION {search.chunkings[pages[i].body] : i \in DOMAIN pages}] :
                        \A i \in DOMAIN pages : f[i] \in search.chunkings[pages[i].body]} :
              ChunkWith(answer) /\ offered' = SourcesOf(ProducedOf(answer))
  BY Zenon DEF Chunk, ChunkWith, TakenOf, PartsOf, ProducedOf, ChunkStats, SourcesOf
<1>2. stage = "chunk" /\ UNCHANGED <<search, queries, merged, selected, pages, asked>>
  BY Zenon DEF Chunk
<1>. QED BY <1>1, <1>2

-----------------------------------------------------------------------------
(* What each step makes, from what the services answer.                    *)

\* The positions of some answers
LEMMA SomeOf ==
  ASSUME NEW n \in Nat, NEW I \in SUBSET (1..n)
  PROVE  /\ Ascending(I) \in Seq(I) /\ Len(Ascending(I)) = Cardinality(I)
         /\ DOMAIN Ascending(I) = 1..Len(Ascending(I)) /\ Len(Ascending(I)) \in 0..n
         /\ \A k \in 1..Len(Ascending(I)) : Ascending(I)[k] \in I
         /\ \A i \in I : \E k \in 1..Len(Ascending(I)) : Ascending(I)[k] = i
         /\ \A j, k \in 1..Len(Ascending(I)) : j < k => Ascending(I)[j] < Ascending(I)[k]
         /\ Ascending(I) = <<>> <=> I = {}
<1>1. IsFiniteSet(I) /\ Cardinality(I) \in 0..n /\ (I = {} <=> Cardinality(I) = 0) /\ I \in SUBSET Int
  BY SomeIndexes
<1>. DEFINE a == Ascending(I)
<1>2. /\ Cardinality(I) \in Nat /\ a \in [1..Cardinality(I) -> I]
      /\ \A x \in I : \E k \in 1..Cardinality(I) : a[k] = x
      /\ \A i, j \in 1..Cardinality(I) : i < j => a[i] < a[j]
  BY <1>1, AscendingInOrder
<1>. HIDE DEF a
<1>3. a \in Seq(I) /\ Len(a) = Cardinality(I) /\ DOMAIN a = 1..Cardinality(I)
  BY <1>2, FunctionIsSeq
<1>4. a = <<>> <=> Len(a) = 0
  BY <1>3, EmptySeq
<1>5. \A k \in 1..Len(a) : a[k] \in I
  BY <1>2, <1>3
<1>. QED BY <1>1, <1>2, <1>3, <1>4, <1>5 DEF a

\* The answers of the provider are parsed and merged.
LEMMA DiscoverKeeps ==
  ASSUME queries \in Seq(Queries), AnswersOK(search), NEW answers \in [DOMAIN queries -> search.answers]
  PROVE  /\ ParsedOf(answers) \in Seq(Seq(Result))
         /\ \A k \in 1..Len(ParsedOf(answers)) : QueriesOf(answers)[k] \in Queries
         /\ MergedFrom(answers) \in Seq(Result) /\ OneOfEachKey(MergedFrom(answers))
         /\ Len(MergedFrom(answers)) <= Len(AllTold(ParsedOf(answers), QueriesOf(answers)))
         /\ IsFiniteSet(FailuresOf(answers)) /\ FailedOf(answers) \in Nat
<1>. DEFINE I == {i \in DOMAIN queries : answers[i] # None}
            ok == Answering(answers)
            sets == ParsedOf(answers)
            qs == QueriesOf(answers)
<1>1. Len(queries) \in Nat /\ DOMAIN queries = 1..Len(queries) /\ \A i \in 1..Len(queries) : queries[i] \in Queries
  BY LenProperties, ElementOfSeq
<1>2. /\ Len(ok) \in 0..Len(queries) /\ DOMAIN ok = 1..Len(ok)
      /\ \A k \in 1..Len(ok) : ok[k] \in DOMAIN queries /\ answers[ok[k]] # None
  <2>1. I \in SUBSET (1..Len(queries)) /\ ok = Ascending(I)
    BY <1>1 DEF Answering
  <2>2. \A i \in I : i \in DOMAIN queries /\ answers[i] # None
    OBVIOUS
  <2>. HIDE DEF I, ok
  <2>. QED BY <1>1, <2>1, <2>2, SomeOf
<1>. HIDE DEF ok, I
<1>3. \A k \in 1..Len(ok) : /\ answers[ok[k]].items \in Seq(SearchItem)
                            /\ answers[ok[k]].unresponsive \in SUBSET Engines
  <2>1. \A a \in search.answers : a = None \/ (a.items \in Seq(SearchItem) /\ a.unresponsive \subseteq Engines)
    BY Zenon DEF AnswersOK
  <2>. QED BY <1>2, <2>1
<1>4. /\ sets \in Seq(Seq(Result)) /\ Len(sets) = Len(ok)
      /\ \A k \in 1..Len(ok) : qs[k] \in Queries
  <2>1. sets = [k \in 1..Len(ok) |-> Parse(answers[ok[k]].items, queries[ok[k]])]
    BY <1>2 DEF ParsedOf, ok
  <2>2. \A k \in 1..Len(ok) : qs[k] = queries[ok[k]]
    BY <1>2 DEF QueriesOf, ok
  <2>. HIDE DEF sets, qs
  <2>3. \A k \in 1..Len(ok) : Parse(answers[ok[k]].items, queries[ok[k]]) \in Seq(Result) /\ queries[ok[k]] \in Queries
    BY <1>1, <1>2, <1>3, ParseKeeps
  <2>4. sets \in [1..Len(ok) -> Seq(Result)]
    BY <2>1, <2>3
  <2>5. Len(ok) \in Nat
    BY <1>2
  <2>. QED BY <2>2, <2>3, <2>4, <2>5, FunctionIsSeq
<1>5. /\ MergedFrom(answers) \in Seq(Result) /\ OneOfEachKey(MergedFrom(answers))
      /\ Len(MergedFrom(answers)) <= Len(AllTold(sets, qs))
  <2>. DEFINE all == AllTold(sets, qs)
  <2>1. MergedFrom(answers) = Ranked(MergedTold(all), MergeOrder(MergedTold(all)))
    BY MergeIs DEF MergedFrom
  <2>. HIDE DEF sets, qs
  <2>2. all \in Seq(Told)
    BY <1>4, ToldKeeps
  <2>. HIDE DEF all
  <2>3. LET S == MergedTold(all) IN
         /\ Ranked(S, MergeOrder(S)) \in Seq(Result) /\ OneOfEachKey(Ranked(S, MergeOrder(S)))
         /\ Len(Ranked(S, MergeOrder(S))) <= Len(all)
    BY <2>2, MergeToldKeeps
  <2>. QED BY <2>1, <2>3 DEF all
<1>6. IsFiniteSet(FailuresOf(answers))
  <2>1. FailuresOf(answers) \in SUBSET Engines
    BY <1>2, <1>3 DEF FailuresOf, ok
  <2>2. IsFiniteSet(Engines)
    BY SearchConstants
  <2>. QED BY <2>1, <2>2, FS_Subset
<1>7. FailedOf(answers) \in Nat
  BY <1>1, <1>2 DEF FailedOf, ok
<1>. QED BY <1>4, <1>5, <1>6, <1>7

\* What is safe of the results
LEMMA SafeKeeps ==
  ASSUME merged \in Seq(Result), OneOfEachKey(merged), NEW works
  PROVE  /\ SafeOf(works) \in Seq(Result) /\ OneOfEachKey(SafeOf(works))
         /\ \A i \in 1..Len(SafeOf(works)) : HostIsSafe(SafeOf(works)[i])
<1>1. CASE works
  <2>1. SafeOf(works) = ItemsAt(merged, SafeAt)
    BY <1>1 DEF SafeOf
  <2>2. SafeAt \in SUBSET (1..Len(merged)) /\ \A i \in SafeAt : HostIsSafe(merged[i])
    BY LenProperties DEF SafeAt, HostIsSafe
  <2>3. /\ ItemsAt(merged, SafeAt) \in Seq(Result) /\ OneOfEachKey(ItemsAt(merged, SafeAt))
        /\ \A k \in 1..Len(ItemsAt(merged, SafeAt)) : \E i \in SafeAt : ItemsAt(merged, SafeAt)[k] = merged[i]
    BY <2>2, SomeResults
  <2>. QED BY <2>1, <2>2, <2>3
<1>2. CASE ~works
  <2>1. SafeOf(works) = <<>>
    BY <1>2 DEF SafeOf
  <2>2. <<>> \in Seq(Result) /\ Len(<<>>) = 0
    BY EmptySeq
  <2>. QED BY <2>1, <2>2 DEF OneOfEachKey
<1>. QED BY <1>1, <1>2

\* A page that was fetched: from an address that was asked for, or one it redirects to safely.
Page == [requested : Urls, final : Urls, body : DOMAIN LengthOf, source : Nat \cup {None}]
Arrived(p, s, urls) ==
  /\ p \in Page /\ p.requested \in urls
  /\ p.final = p.requested \/ CrawlSafe(s, p.final)
Numbered(ps) == \A k \in 1..Len(ps) : ps[k].source = k

\* An unsafe redirect carries no page.
LEMMA UnsafeHasNoContent ==
  ASSUME NEW e \in Envelope, NEW i \in Item, NEW capabilities
  PROVE  OutcomeCode(e, i, TRUE, capabilities) # "content"
<1>1. EnvelopeCode(e) \in {"rate_limited", "upstream_failure", "content_too_large", "malformed_upstream_response", "none"}
  BY DEF EnvelopeCode
<1>2. TerminalCode(i, TRUE, capabilities) = "unsafe_redirect"
  BY DEF TerminalCode
<1>3. ItemCode(i, TRUE, capabilities) \in {"malformed_upstream_response", "unsafe_redirect"}
  <2>1. i.shape \in BOOLEAN
    BY DEF Item
  <2>. QED BY <1>2, <2>1 DEF ItemCode
<1>. QED BY <1>1, <1>3 DEF OutcomeCode

LEMMA ContentIsSafe ==
  ASSUME NEW s, NEW u, NEW a, a.code # "content", a.envelope \in Envelope, a.item \in Item,
         search = s, CodeOf(u, a) = "content"
  PROVE  a.final = u \/ CrawlSafe(s, a.final)
<1>. DEFINE unsafe == a.final # u /\ ~CrawlSafe(search, a.final)
<1>1. OutcomeCode(a.envelope, a.item, unsafe, SearchCapabilities) = "content"
  BY Zenon DEF CodeOf
<1>2. unsafe = TRUE => FALSE
  <2>. HIDE DEF unsafe
  <2>. QED BY <1>1, UnsafeHasNoContent
<1>3. ~unsafe
  BY <1>2
<1>. QED BY <1>3

\* The pages that were fetched
LEMMA FetchKeeps ==
  ASSUME selected \in Seq(Result), AnswersOK(search), NEW outcome \in [DOMAIN selected -> search.fetches]
  PROVE  /\ FoundPages(outcome) \in Seq(Page)
         /\ Len(FoundPages(outcome)) = Len(GoodOf(outcome)) /\ Len(GoodOf(outcome)) \in 0..Len(selected)
         /\ \A k \in 1..Len(FoundPages(outcome)) : Arrived(FoundPages(outcome)[k], search, UrlsOf(selected))
         /\ FoundPages(outcome) = <<>> => \A i \in DOMAIN selected : CodeAt(outcome, i) # "content"
<1>. DEFINE I == {i \in DOMAIN selected : CodeAt(outcome, i) = "content"}
            good == GoodOf(outcome)
            found == FoundPages(outcome)
<1>1. Len(selected) \in Nat /\ DOMAIN selected = 1..Len(selected) /\ \A i \in 1..Len(selected) : selected[i] \in Result
  BY LenProperties, ElementOfSeq
<1>2. /\ Len(good) \in 0..Len(selected) /\ DOMAIN good = 1..Len(good)
      /\ \A k \in 1..Len(good) : good[k] \in DOMAIN selected /\ CodeAt(outcome, good[k]) = "content"
      /\ good = <<>> => \A i \in DOMAIN selected : CodeAt(outcome, i) # "content"
      /\ good = <<>> <=> Len(good) = 0
  <2>1. I \in SUBSET (1..Len(selected)) /\ good = Ascending(I)
    BY <1>1 DEF GoodOf
  <2>2. \A i : i \in I <=> i \in DOMAIN selected /\ CodeAt(outcome, i) = "content"
    OBVIOUS
  <2>. HIDE DEF I, good
  <2>3. /\ Len(good) \in 0..Len(selected) /\ DOMAIN good = 1..Len(good) /\ good \in Seq(I)
        /\ \A k \in 1..Len(good) : good[k] \in I
        /\ good = <<>> <=> I = {}
    BY <1>1, <2>1, SomeOf
  <2>4. good = <<>> <=> Len(good) = 0
    BY <2>3, EmptySeq
  <2>. QED BY <2>2, <2>3, <2>4
<1>. HIDE DEF good, I
<1>3. \A k \in 1..Len(good) :
        /\ selected[good[k]].url \in Urls /\ selected[good[k]].url \in UrlsOf(selected)
        /\ outcome[good[k]].final \in Urls /\ outcome[good[k]].body \in DOMAIN LengthOf
        /\ \/ outcome[good[k]].final = selected[good[k]].url
           \/ CrawlSafe(search, outcome[good[k]].final)
  <2>. SUFFICES ASSUME NEW i \in DOMAIN selected, CodeAt(outcome, i) = "content"
                PROVE  /\ selected[i].url \in Urls /\ selected[i].url \in UrlsOf(selected)
                       /\ outcome[i].final \in Urls /\ outcome[i].body \in DOMAIN LengthOf
                       /\ outcome[i].final = selected[i].url \/ CrawlSafe(search, outcome[i].final)
    BY <1>2
  <2>1. outcome[i] \in search.fetches
    OBVIOUS
  <2>2. \A a \in search.fetches :
          /\ a.code # "content" /\ a.envelope \in Envelope /\ a.item \in Item
          /\ a.final \in Urls /\ a.body \in DOMAIN LengthOf
    BY Zenon DEF AnswersOK
  <2>. DEFINE a == outcome[i]
              u == selected[i].url
  <2>3. /\ a.code # "content" /\ a.envelope \in Envelope /\ a.item \in Item
        /\ a.final \in Urls /\ a.body \in DOMAIN LengthOf /\ CodeOf(u, a) = "content"
    BY <2>1, <2>2 DEF CodeAt
  <2>. HIDE DEF a, u
  <2>4. a.final = u \/ CrawlSafe(search, a.final)
    BY <2>3, ContentIsSafe
  <2>5. u \in Urls /\ u \in UrlsOf(selected)
    <3>1. selected[i] \in Result /\ selected[i] \in ToSet(selected)
      BY <1>1 DEF ToSet
    <3>2. \A r \in Result : r.url \in Urls
      BY DEF Result
    <3>. QED BY <3>1, <3>2 DEF u, UrlsOf
  <2>. QED BY <2>3, <2>4, <2>5 DEF a, u
<1>4. found = [k \in 1..Len(good) |->
                 [requested |-> selected[good[k]].url, final |-> outcome[good[k]].final,
                  body |-> outcome[good[k]].body, source |-> None]]
  BY <1>2 DEF FoundPages, good
<1>. HIDE DEF found
<1>5. \A k \in 1..Len(good) : found[k] \in Page /\ Arrived(found[k], search, UrlsOf(selected))
  <2>. TAKE k \in 1..Len(good)
  <2>1. found[k] = [requested |-> selected[good[k]].url, final |-> outcome[good[k]].final,
                    body |-> outcome[good[k]].body, source |-> None]
    BY <1>4
  <2>2. found[k] \in Page
    BY <1>3, <2>1 DEF Page
  <2>3. /\ found[k].requested = selected[good[k]].url
        /\ found[k].final = outcome[good[k]].final
    BY <2>1
  <2>. QED BY <1>3, <2>2, <2>3 DEF Arrived
<1>6. found \in [1..Len(good) -> Page]
  BY <1>4, <1>5
<1>7. found \in Seq(Page) /\ Len(found) = Len(good)
  BY <1>2, <1>6, FunctionIsSeq
<1>8. found = <<>> => good = <<>>
  BY <1>2, <1>7, EmptySeq
<1>. QED BY <1>2, <1>5, <1>7, <1>8 DEF found, good

\* Deduplication leaves some of the pages and numbers them.
LEMMA DedupedKeeps ==
  ASSUME NEW found \in Seq(Page), NEW s, NEW urls,
         \A k \in 1..Len(found) : Arrived(found[k], s, urls)
  PROVE  /\ Deduped(found) \in Seq(Page) /\ Len(Deduped(found)) \in 0..Len(found)
         /\ \A k \in 1..Len(Deduped(found)) : Arrived(Deduped(found)[k], s, urls)
         /\ Numbered(Deduped(found))
<1>. DEFINE I == {i \in DOMAIN found :
                    \A j \in 1..(i - 1) : FingerprintOf[found[j].body] # FingerprintOf[found[i].body]}
            a == Ascending(I)
            left == Deduped(found)
<1>1. Len(found) \in Nat /\ DOMAIN found = 1..Len(found) /\ \A i \in 1..Len(found) : found[i] \in Page
  BY LenProperties, ElementOfSeq
<1>2. /\ DOMAIN a = 1..Len(a) /\ Len(a) \in 0..Len(found) /\ \A k \in 1..Len(a) : a[k] \in 1..Len(found)
  <2>1. I \in SUBSET (1..Len(found))
    BY <1>1
  <2>. HIDE DEF I
  <2>. QED BY <1>1, <2>1, SomeOf
<1>3. left = [k \in 1..Len(a) |-> [found[a[k]] EXCEPT !.source = k]]
  BY <1>2 DEF Deduped
<1>. HIDE DEF a, I, left
<1>4. \A k \in 1..Len(a) : left[k] \in Page /\ Arrived(left[k], s, urls) /\ left[k].source = k
  <2>. TAKE k \in 1..Len(a)
  <2>. DEFINE p == found[a[k]]
  <2>1. p \in Page /\ Arrived(p, s, urls) /\ left[k] = [p EXCEPT !.source = k] /\ k \in Nat
    BY <1>1, <1>2, <1>3
  <2>. HIDE DEF p
  <2>2. /\ [p EXCEPT !.source = k] \in Page /\ [p EXCEPT !.source = k].requested = p.requested
        /\ [p EXCEPT !.source = k].final = p.final /\ [p EXCEPT !.source = k].source = k
    BY <2>1 DEF Page
  <2>. QED BY <2>1, <2>2 DEF Arrived
<1>5. left \in [1..Len(a) -> Page] /\ Len(a) \in Nat
  BY <1>2, <1>3, <1>4
<1>6. left \in Seq(Page) /\ Len(left) = Len(a)
  BY <1>5, FunctionIsSeq
<1>. QED BY <1>2, <1>4, <1>6 DEF left, Numbered

-----------------------------------------------------------------------------
(* Chunks.                                                                 *)

\* Verbatim text is at its span, and its evidence names the span; other text has none.
Genuine(c) ==
  /\ c.verbatim => /\ c.start \in Nat /\ c.end \in Nat /\ c.start < c.end
                   /\ c.end <= LengthOf[c.doc[2]] /\ c.words = c.end - c.start
                   /\ c.evidence = EvidenceId(c.doc, c.start, c.end)
  /\ ~c.verbatim => c.start = None /\ c.end = None /\ c.evidence = None
FromPage(c, ps) ==
  c.source \in 1..Len(ps) /\ c.doc = <<ps[c.source].final, ps[c.source].body>>
ChunksFrom(ps) == {c \in ChunkRecord : Genuine(c) /\ FromPage(c, ps)}

LEMMA ChunkOfKeeps ==
  ASSUME NEW ps \in Seq(Page), Numbered(ps), NEW k \in 1..Len(ps), NEW item \in ChunkItem
  PROVE  ChunkOf(ps[k], item) \in ChunksFrom(ps)
<1>. DEFINE p == ps[k]
            exact == ExactSpan(item, p.body)
            doc == <<p.final, p.body>>
            c == ChunkOf(p, item)
<1>1. p \in Page /\ p.source = k /\ k \in Nat
  <2>1. Len(ps) \in Nat
    BY LenProperties
  <2>. QED BY <2>1, ElementOfSeq DEF Numbered
<1>2. p.final \in Urls /\ p.body \in DOMAIN LengthOf /\ doc \in Document
  BY <1>1 DEF Page, Document
<1>3. /\ item.start \in Int /\ item.end \in Int /\ item.words \in Nat /\ item.tokens \in Nat
      /\ item.matches \in BOOLEAN /\ item.position \in Nat /\ item.lexical \in Nat /\ item.noise \in STRING
      /\ item.matches => item.words = item.end - item.start
  BY DEF ChunkItem
<1>4. LengthOf[p.body] \in Nat
  BY <1>2, EvidenceConstants
<1>5. exact \in BOOLEAN /\ (exact => /\ item.matches /\ item.start \in Nat /\ item.end \in Nat
                                     /\ item.start < item.end /\ item.end <= LengthOf[p.body])
  BY <1>3, <1>4 DEF ExactSpan
<1>6. c = [doc |-> doc, source |-> p.source, position |-> item.position,
           tokens |-> item.tokens, words |-> item.words, verbatim |-> exact,
           start |-> IF exact THEN item.start ELSE None,
           end |-> IF exact THEN item.end ELSE None,
           evidence |-> IF exact THEN EvidenceId(doc, item.start, item.end) ELSE None,
           lexical |-> item.lexical, noise |-> item.noise]
  BY DEF ChunkOf
<1>. HIDE DEF c, exact
<1>7. /\ c.doc = doc /\ c.source = k /\ c.verbatim = exact /\ c.words = item.words
      /\ c.start = IF exact THEN item.start ELSE None
      /\ c.end = IF exact THEN item.end ELSE None
      /\ c.evidence = IF exact THEN EvidenceId(doc, item.start, item.end) ELSE None
  BY <1>1, <1>6
<1>8. doc[2] = p.body
  OBVIOUS
<1>. HIDE DEF doc
<1>9. exact => EvidenceId(doc, item.start, item.end) \in Evidenced
  BY <1>2, <1>5 DEF EvidenceId, Evidenced
<1>10. c \in ChunkRecord
  <2>1. /\ (IF exact THEN item.start ELSE None) \in Nat \cup {None}
        /\ (IF exact THEN item.end ELSE None) \in Nat \cup {None}
        /\ (IF exact THEN EvidenceId(doc, item.start, item.end) ELSE None) \in Evidenced \cup {None}
    BY <1>5, <1>9
  <2>. QED BY <1>1, <1>2, <1>3, <1>5, <1>6, <2>1 DEF ChunkRecord
<1>11. Genuine(c)
  BY <1>3, <1>5, <1>7, <1>8 DEF Genuine
<1>12. FromPage(c, ps)
  BY <1>7 DEF FromPage, doc, p
<1>. QED BY <1>10, <1>11, <1>12 DEF ChunksFrom, c

\* What the chunking service makes of the pages
LEMMA ProducedKeeps ==
  ASSUME pages \in Seq(Page), Numbered(pages), AnswersOK(search), NEW answer,
         \A i \in DOMAIN pages : answer[i] \in search.chunkings[pages[i].body]
  PROVE  ProducedOf(answer) \in Seq(ChunksFrom(pages))
<1>1. Len(pages) \in Nat /\ DOMAIN pages = 1..Len(pages) /\ \A i \in 1..Len(pages) : pages[i] \in Page
  BY LenProperties, ElementOfSeq
<1>2. ASSUME NEW i \in 1..Len(pages)
      PROVE  (IF i \in TakenOf(answer) THEN ChunksOf(pages[i], answer[i]) ELSE <<>>) \in Seq(ChunksFrom(pages))
  <2>1. CASE i \in TakenOf(answer)
    <3>1. answer[i] \in Seq(ChunkItem)
      <4>1. \A b \in DOMAIN LengthOf : \A a \in search.chunkings[b] : a = None \/ a \in Seq(ChunkItem)
        BY Zenon DEF AnswersOK
      <4>2. pages[i].body \in DOMAIN LengthOf
        BY <1>1 DEF Page
      <4>. QED BY <1>1, <2>1, <4>1, <4>2 DEF TakenOf
    <3>. DEFINE items == answer[i]
    <3>2. Len(items) \in Nat /\ DOMAIN items = 1..Len(items) /\ \A j \in 1..Len(items) : items[j] \in ChunkItem
      BY <3>1, LenProperties, ElementOfSeq
    <3>. HIDE DEF items
    <3>3. \A j \in 1..Len(items) : ChunkOf(pages[i], items[j]) \in ChunksFrom(pages)
      BY <3>2, ChunkOfKeeps
    <3>4. ChunksOf(pages[i], items) \in [1..Len(items) -> ChunksFrom(pages)]
      BY <3>2, <3>3 DEF ChunksOf
    <3>5. ChunksOf(pages[i], items) \in Seq(ChunksFrom(pages))
      BY <3>2, <3>4, FunctionIsSeq
    <3>. QED BY <2>1, <3>5 DEF items
  <2>2. CASE i \notin TakenOf(answer)
    BY <2>2, EmptySeq
  <2>. QED BY <2>1, <2>2
<1>3. PartsOf(answer) \in [1..Len(pages) -> Seq(ChunksFrom(pages))]
  BY <1>1, <1>2 DEF PartsOf
<1>4. PartsOf(answer) \in Seq(Seq(ChunksFrom(pages)))
  BY <1>1, <1>3, FunctionIsSeq
<1>. QED BY <1>4, FlattenKeeps DEF ProducedOf

-----------------------------------------------------------------------------
(* The prefilter.                                                          *)

\* Fractions that are compared crosswise
LEMMA Crosswise ==
  ASSUME NEW a \in Nat, NEW b \in Nat \ {0}, NEW c \in Nat, NEW d \in Nat \ {0},
         NEW e \in Nat, NEW f \in Nat \ {0}
  PROVE  /\ a * d >= c * b /\ c * f >= e * d => a * f >= e * b
         /\ a * d > c * b /\ c * f >= e * d => a * f > e * b
         /\ a * d >= c * b /\ c * f > e * d => a * f > e * b
<1>1. /\ a * d >= c * b => (a * d) * f >= (c * b) * f
      /\ a * d > c * b => (a * d) * f > (c * b) * f
      /\ c * f >= e * d => (c * f) * b >= (e * d) * b
      /\ c * f > e * d => (c * f) * b > (e * d) * b
  OBVIOUS
<1>2. (a * d) * f = (a * f) * d /\ (c * b) * f = (c * f) * b /\ (e * d) * b = (e * b) * d
  OBVIOUS
<1>. DEFINE x == a * f
            y == e * b
<1>3. x \in Int /\ y \in Int
  OBVIOUS
<1>. HIDE DEF x, y
<1>4. (x * d >= y * d => x >= y) /\ (x * d > y * d => x > y)
  BY <1>3
<1>5. /\ a * d \in Int /\ c * b \in Int /\ c * f \in Int /\ e * d \in Int
      /\ (a * d) * f \in Int /\ (c * b) * f \in Int /\ (c * f) * b \in Int /\ (e * d) * b \in Int
      /\ x * d \in Int /\ y * d \in Int
  BY <1>3
<1>. QED BY <1>1, <1>2, <1>4, <1>5 DEF x, y

BetterOrder(all) == {p \in (DOMAIN all) \X (DOMAIN all) : Better(all, p[1], p[2])}

\* Better is an order of the chunks.
LEMMA BetterIsOrder ==
  ASSUME NEW T \in SUBSET ChunkRecord, NEW all \in Seq(T)
  PROVE  /\ DOMAIN all = 1..Len(all) /\ IsFiniteSet(1..Len(all))
         /\ StrictOrder(1..Len(all), BetterOrder(all))
         /\ \A i, j \in 1..Len(all) : <<i, j>> \in BetterOrder(all) <=> Better(all, i, j)
<1>. DEFINE N == Len(all)
            a == [i \in 1..N |-> all[i].lexical * (all[i].position + 1) + 1]
            b == [i \in 1..N |-> all[i].position + 1]
<1>1. N \in Nat /\ DOMAIN all = 1..N /\ IsFiniteSet(1..N) /\ \A i \in 1..N : all[i] \in ChunkRecord
  <2>1. N \in Nat /\ DOMAIN all = 1..N /\ \A i \in 1..N : all[i] \in T
    BY LenProperties, ElementOfSeq
  <2>. QED BY <2>1, FS_Interval
<1>2. \A i \in 1..N : a[i] \in Nat /\ b[i] \in Nat \ {0}
  <2>. TAKE i \in 1..N
  <2>1. all[i].lexical \in Nat /\ all[i].position \in Nat
    BY <1>1 DEF ChunkRecord
  <2>2. \A l, p \in Nat : l * (p + 1) + 1 \in Nat /\ p + 1 \in Nat \ {0}
    OBVIOUS
  <2>. QED BY <2>1, <2>2
<1>3. \A i, j \in 1..N : AheadOf(all[i], all[j]) <=> a[i] * b[j] > a[j] * b[i]
  BY DEF AheadOf
<1>. HIDE DEF a, b
<1>4. \A i, j \in 1..N : a[i] * b[j] \in Int
  <2>1. \A m, n \in Nat : m * n \in Int
    OBVIOUS
  <2>. QED BY <1>2, <2>1
<1>5. \A i, j \in 1..N : Better(all, i, j) <=>
         a[i] * b[j] > a[j] * b[i] \/ (a[i] * b[j] >= a[j] * b[i] /\ i < j)
  <2>. TAKE i, j \in 1..N
  <2>. DEFINE x == a[i] * b[j]
              y == a[j] * b[i]
  <2>1. x \in Int /\ y \in Int
    BY <1>4
  <2>2. Better(all, i, j) <=> x > y \/ (~(y > x) /\ i < j)
    BY <1>3 DEF Better
  <2>. HIDE DEF x, y
  <2>3. ~(y > x) <=> x >= y
    BY <2>1
  <2>. QED BY <2>2, <2>3 DEF x, y
<1>6. \A i, j \in 1..N : <<i, j>> \in BetterOrder(all) <=> Better(all, i, j)
  BY <1>1 DEF BetterOrder
<1>7. \A i \in 1..N : ~Better(all, i, i)
  BY <1>1, <1>4, <1>5
<1>8. ASSUME NEW i \in 1..N, NEW j \in 1..N, NEW k \in 1..N, Better(all, i, j), Better(all, j, k)
      PROVE  Better(all, i, k)
  <2>1. /\ a[i] * b[j] >= a[j] * b[i] /\ a[j] * b[k] >= a[k] * b[j] => a[i] * b[k] >= a[k] * b[i]
        /\ a[i] * b[j] > a[j] * b[i] /\ a[j] * b[k] >= a[k] * b[j] => a[i] * b[k] > a[k] * b[i]
        /\ a[i] * b[j] >= a[j] * b[i] /\ a[j] * b[k] > a[k] * b[j] => a[i] * b[k] > a[k] * b[i]
    <3>1. a[i] \in Nat /\ b[i] \in Nat \ {0} /\ a[j] \in Nat /\ b[j] \in Nat \ {0} /\ a[k] \in Nat /\ b[k] \in Nat \ {0}
      BY <1>2
    <3>. QED BY <3>1, Crosswise
  <2>2. /\ a[i] * b[j] > a[j] * b[i] \/ (a[i] * b[j] >= a[j] * b[i] /\ i < j)
        /\ a[j] * b[k] > a[k] * b[j] \/ (a[j] * b[k] >= a[k] * b[j] /\ j < k)
    BY <1>5, <1>8
  <2>. DEFINE ij == a[i] * b[j]
              ji == a[j] * b[i]
              jk == a[j] * b[k]
              kj == a[k] * b[j]
              ik == a[i] * b[k]
              ki == a[k] * b[i]
  <2>3. /\ ij \in Int /\ ji \in Int /\ jk \in Int /\ kj \in Int /\ ik \in Int /\ ki \in Int
        /\ i \in Int /\ j \in Int /\ k \in Int
    BY <1>1, <1>4
  <2>4. ik > ki \/ (ik >= ki /\ i < k)
    <3>1. /\ ij >= ji /\ jk >= kj => ik >= ki
          /\ ij > ji /\ jk >= kj => ik > ki
          /\ ij >= ji /\ jk > kj => ik > ki
      BY <2>1
    <3>2. /\ ij > ji \/ (ij >= ji /\ i < j)
          /\ jk > kj \/ (jk >= kj /\ j < k)
      BY <2>2
    <3>. HIDE DEF ij, ji, jk, kj, ik, ki
    <3>. QED BY <2>3, <3>1, <3>2
  <2>. QED BY <1>5, <2>4
<1>9. ASSUME NEW i \in 1..N, NEW j \in 1..N PROVE i = j \/ Better(all, i, j) \/ Better(all, j, i)
  <2>1. a[i] * b[j] \in Int /\ a[j] * b[i] \in Int /\ i \in Int /\ j \in Int
    BY <1>1, <1>4
  <2>. DEFINE x == a[i] * b[j]
              y == a[j] * b[i]
  <2>2. /\ Better(all, i, j) <=> x > y \/ (x >= y /\ i < j)
        /\ Better(all, j, i) <=> y > x \/ (y >= x /\ j < i)
    BY <1>5
  <2>3. x \in Int /\ y \in Int
    BY <2>1
  <2>. HIDE DEF x, y
  <2>. QED BY <2>1, <2>2, <2>3
<1>10. StrictOrder(1..N, BetterOrder(all))
  <2>. HIDE DEF N
  <2>. QED BY <1>6, <1>7, <1>8, <1>9 DEF StrictOrder
<1>. QED BY <1>1, <1>6, <1>10

\* The parts of the prefilter
OrderOf(all) == Ranked(DOMAIN all, BetterOrder(all))
BestOfSource(all, i) ==
  \A j \in DOMAIN all : all[j].source = all[i].source => j = i \/ Better(all, i, j)
BestAt(all) == {k \in DOMAIN OrderOf(all) : BestOfSource(all, OrderOf(all)[k])}
OthersAt(all) == {k \in DOMAIN OrderOf(all) : ~BestOfSource(all, OrderOf(all)[k])}
QueueOf(all) == ItemsAt(OrderOf(all), BestAt(all)) \o ItemsAt(OrderOf(all), OthersAt(all))
FrontOf(all) == {QueueOf(all)[k] : k \in 1..MaxCandidates}
ChosenAt(all) == {k \in DOMAIN OrderOf(all) : OrderOf(all)[k] \in FrontOf(all)}
ChosenOf(all) == ItemsAt(OrderOf(all), ChosenAt(all))

LEMMA PrefilterIs ==
  ASSUME NEW all
  PROVE  Prefilter(all) = IF Len(all) <= MaxCandidates THEN all
                          ELSE [k \in DOMAIN ChosenOf(all) |-> all[ChosenOf(all)[k]]]
BY Zenon DEF Prefilter, InOrder, Kept, BetterOrder, OrderOf, BestOfSource, BestAt, OthersAt, QueueOf,
     FrontOf, ChosenAt, ChosenOf

\* The best chunks of the sources come first in the queue, and are not more than the sources.
LEMMA BestComeFirst ==
  ASSUME NEW T \in SUBSET ChunkRecord, NEW all \in Seq(T), all # <<>>
  PROVE  /\ OrderOf(all) \in Seq(1..Len(all)) /\ Len(OrderOf(all)) = Len(all)
         /\ \A s \in SourcesOf(all) : \E n \in 1..Cardinality(BestAt(all)) :
              QueueOf(all)[n] \in 1..Len(all) /\ all[QueueOf(all)[n]].source = s
         /\ IsFiniteSet(SourcesOf(all)) /\ SourcesOf(all) # {}
         /\ Cardinality(BestAt(all)) <= Cardinality(SourcesOf(all))
         /\ Cardinality(BestAt(all)) \in Nat \ {0}
         /\ QueueOf(all)[1] \in 1..Len(all)
         /\ \A i \in 1..Len(all) : \E k \in DOMAIN OrderOf(all) : OrderOf(all)[k] = i
<1>. DEFINE N == Len(all)
            order == OrderOf(all)
            S == SourcesOf(all)
            at == BestAt(all)
            best == ItemsAt(order, at)
            others == ItemsAt(order, OthersAt(all))
            nb == Cardinality(at)
<1>1. /\ N \in Nat /\ DOMAIN all = 1..N /\ IsFiniteSet(1..N) /\ Cardinality(1..N) = N
      /\ StrictOrder(1..N, BetterOrder(all))
      /\ \A i, j \in 1..N : <<i, j>> \in BetterOrder(all) <=> Better(all, i, j)
  <2>1. N \in Nat
    BY LenProperties
  <2>2. IsFiniteSet(1..N) /\ Cardinality(1..N) = N
    BY <2>1, FS_Interval
  <2>. QED BY <2>1, <2>2, BetterIsOrder
<1>2. /\ order \in [1..N -> 1..N] /\ \A i \in 1..N : \E k \in 1..N : order[k] = i
      /\ \A j, k \in 1..N : order[j] = order[k] => j = k
  <2>1. order = Ranked(1..N, BetterOrder(all))
    BY <1>1 DEF OrderOf
  <2>. DEFINE D == 1..N
              R == BetterOrder(all)
  <2>2. IsFiniteSet(D) /\ StrictOrder(D, R) /\ Cardinality(D) = N /\ order = Ranked(D, R)
    BY <1>1, <2>1
  <2>. HIDE DEF order, D, R
  <2>3. /\ Ranked(D, R) \in [1..Cardinality(D) -> D]
        /\ \A x \in D : \E k \in 1..Cardinality(D) : Ranked(D, R)[k] = x
    BY <2>2, RankedInOrder
  <2>4. \A i, j \in 1..Cardinality(D) : Ranked(D, R)[i] = Ranked(D, R)[j] => i = j
    BY <2>2, RankedOnce
  <2>. QED BY <2>2, <2>3, <2>4 DEF D
<1>. HIDE DEF order
<1>3. order \in Seq(1..N) /\ Len(order) = N /\ DOMAIN order = 1..N
  BY <1>1, <1>2, FunctionIsSeq
<1>4. /\ at \in SUBSET (1..N) /\ OthersAt(all) \in SUBSET (1..N)
      /\ \A k \in 1..N : k \in at <=> BestOfSource(all, order[k])
  BY <1>3 DEF BestAt, OthersAt, order
<1>. HIDE DEF at, N
<1>5. /\ best \in Seq(1..N) /\ Len(best) = nb /\ nb \in 0..N
      /\ \A k \in at : \E n \in 1..nb : best[n] = order[k]
  BY <1>3, <1>4, ItemsAtKeeps
<1>6. others \in Seq(1..N)
  BY <1>3, <1>4, ItemsAtKeeps
<1>. HIDE DEF best, others
<1>7. \A n \in 1..nb : QueueOf(all)[n] = best[n] /\ best[n] \in 1..N
  <2>1. QueueOf(all) = best \o others
    BY DEF QueueOf, best, others, order, at
  <2>2. Len(best) \in Nat /\ Len(others) \in Nat
    BY <1>5, <1>6, LenProperties
  <2>3. \A n \in 1..Len(best) + Len(others) : (best \o others)[n] = IF n <= Len(best) THEN best[n] ELSE others[n - Len(best)]
    BY <1>5, <1>6, ConcatProperties
  <2>4. \A n \in 1..nb : best[n] \in 1..N
    BY <1>5, ElementOfSeq
  <2>. QED BY <1>5, <2>1, <2>2, <2>3, <2>4
<1>8. ASSUME NEW s \in S PROVE \E n \in 1..nb : QueueOf(all)[n] \in 1..N /\ all[QueueOf(all)[n]].source = s
  <2>. DEFINE I == {i \in 1..N : all[i].source = s}
  <2>1. I # {} /\ IsFiniteSet(I)
    <3>1. \E i \in 1..N : all[i].source = s
      BY <1>1 DEF SourcesOf
    <3>2. I \in SUBSET (1..N)
      OBVIOUS
    <3>. QED BY <1>1, <3>1, <3>2, FS_Subset
  <2>2. StrictOrder(I, BetterOrder(all))
    BY <1>1 DEF StrictOrder
  <2>3. \A i \in I : i \in 1..N /\ all[i].source = s
    OBVIOUS
  <2>4. \A i \in 1..N : all[i].source = s => i \in I
    OBVIOUS
  <2>. HIDE DEF I
  <2>5. PICK i \in I : \A j \in I : j = i \/ <<i, j>> \in BetterOrder(all)
    BY <2>1, <2>2, FirstInOrder
  <2>6. BestOfSource(all, i)
    BY <1>1, <2>3, <2>4, <2>5 DEF BestOfSource
  <2>7. PICK k \in 1..N : order[k] = i
    BY <1>2, <2>3
  <2>8. k \in at
    BY <1>4, <2>6, <2>7
  <2>9. PICK n \in 1..nb : best[n] = order[k]
    BY <1>5, <2>8
  <2>. QED BY <1>7, <2>3, <2>7, <2>9
<1>9. IsFiniteSet(S) /\ Cardinality(S) \in Nat
  <2>. DEFINE f == [i \in 1..N |-> all[i].source]
  <2>1. f \in [1..N -> S] /\ \A s \in S : \E i \in 1..N : f[i] = s
    BY <1>1 DEF SourcesOf
  <2>. HIDE DEF f, S
  <2>2. IsFiniteSet(S)
    BY <1>1, <2>1, ValuesOfItems
  <2>. QED BY <2>2, FS_CardinalityType
<1>10. nb <= Cardinality(S)
  <2>. DEFINE f == [k \in at |-> all[order[k]].source]
  <2>1. f \in [at -> S]
    BY <1>1, <1>2, <1>4 DEF SourcesOf
  <2>2. ASSUME NEW j \in at, NEW k \in at, f[j] = f[k] PROVE j = k
    <3>1. /\ j \in 1..N /\ k \in 1..N /\ order[j] \in 1..N /\ order[k] \in 1..N
          /\ BestOfSource(all, order[j]) /\ BestOfSource(all, order[k])
          /\ all[order[j]].source = all[order[k]].source
      BY <1>2, <1>4, <2>2
    <3>2. order[j] = order[k] \/ (Better(all, order[j], order[k]) /\ Better(all, order[k], order[j]))
      BY <1>1, <3>1 DEF BestOfSource
    <3>3. ~(Better(all, order[j], order[k]) /\ Better(all, order[k], order[j]))
      BY <1>1, <3>1 DEF StrictOrder
    <3>. QED BY <1>2, <3>1, <3>2, <3>3
  <2>. HIDE DEF f, S
  <2>3. f \in Injection(at, S)
    BY <2>1, <2>2, Fun_IsInj
  <2>. QED BY <1>9, <2>3, FS_Injection
<1>11. S # {}
  <2>1. N # 0
    BY EmptySeq DEF N
  <2>2. 1 \in DOMAIN all
    BY <1>1, <2>1
  <2>. QED BY <2>2 DEF SourcesOf
<1>12. nb \in Nat \ {0} /\ QueueOf(all)[1] \in 1..N
  <2>1. PICK s \in S : TRUE
    BY <1>11
  <2>2. PICK n \in 1..nb : QueueOf(all)[n] \in 1..N
    BY <1>8
  <2>3. nb \in Nat /\ nb # 0 /\ 1 \in 1..nb
    BY <1>1, <1>5, <2>2
  <2>. QED BY <1>7, <2>3
<1>. QED BY <1>2, <1>3, <1>8, <1>9, <1>10, <1>11, <1>12 DEF N, order, at

\* The prefilter leaves some of the chunks, and one of each source if there is room.
LEMMA PrefilterKeeps ==
  ASSUME NEW T \in SUBSET ChunkRecord, NEW all \in Seq(T)
  PROVE  /\ Prefilter(all) \in Seq(T) /\ (all # <<>> => Prefilter(all) # <<>>)
         /\ Len(Prefilter(all)) \in 0..Len(all)
         /\ Cardinality(SourcesOf(all)) <= MaxCandidates => SourcesOf(Prefilter(all)) = SourcesOf(all)
<1>1. Len(all) \in Nat /\ DOMAIN all = 1..Len(all) /\ MaxCandidates \in Nat \ {0}
  BY LenProperties, EvidenceConstants
<1>2. CASE Len(all) <= MaxCandidates
  BY <1>1, <1>2, PrefilterIs
<1>3. CASE ~(Len(all) <= MaxCandidates)
  <2>. DEFINE order == OrderOf(all)
              chosen == ChosenOf(all)
              left == Prefilter(all)
  <2>1. all # <<>>
    BY <1>1, <1>3, EmptySeq
  <2>2. /\ order \in Seq(1..Len(all)) /\ Len(order) = Len(all)
        /\ \A s \in SourcesOf(all) : \E n \in 1..Cardinality(BestAt(all)) :
             QueueOf(all)[n] \in 1..Len(all) /\ all[QueueOf(all)[n]].source = s
        /\ IsFiniteSet(SourcesOf(all)) /\ SourcesOf(all) # {}
        /\ Cardinality(BestAt(all)) <= Cardinality(SourcesOf(all))
        /\ Cardinality(BestAt(all)) \in Nat \ {0}
        /\ QueueOf(all)[1] \in 1..Len(all)
        /\ \A i \in 1..Len(all) : \E k \in DOMAIN order : order[k] = i
    BY <2>1, BestComeFirst
  <2>3. ChosenAt(all) \in SUBSET (1..Len(order)) /\ DOMAIN order = 1..Len(order)
        /\ \A k \in 1..Len(order) : k \in ChosenAt(all) <=> order[k] \in FrontOf(all)
    BY <2>2, LenProperties DEF ChosenAt
  <2>. HIDE DEF order
  <2>4. /\ chosen \in Seq(1..Len(all)) /\ Len(chosen) \in 0..Len(order)
        /\ \A k \in ChosenAt(all) : \E m \in 1..Len(chosen) : chosen[m] = order[k]
        /\ chosen = <<>> <=> ChosenAt(all) = {}
    <3>1. chosen = ItemsAt(order, ChosenAt(all))
      BY DEF ChosenOf, order
    <3>. DEFINE I == ChosenAt(all)
                c == Cardinality(I)
                D == 1..Len(all)
    <3>. HIDE DEF chosen, I, c, D
    <3>2. /\ order \in Seq(D) /\ I \in SUBSET (1..Len(order)) /\ chosen = ItemsAt(order, I)
      BY <2>2, <2>3, <3>1 DEF I, D
    <3>3. /\ ItemsAt(order, I) \in Seq(D) /\ Len(ItemsAt(order, I)) = c /\ c \in 0..Len(order)
          /\ ItemsAt(order, I) = <<>> <=> I = {}
          /\ \A i \in I : \E k \in 1..c : ItemsAt(order, I)[k] = order[i]
      <4>1. /\ ItemsAt(order, I) \in Seq(D)
            /\ ItemsAt(order, I) = <<>> <=> I = {}
            /\ Len(ItemsAt(order, I)) = Cardinality(I) /\ Cardinality(I) \in 0..Len(order)
        BY <3>2, ItemsAtKeeps, Zenon
      <4>2. \A i \in I : \E k \in 1..Cardinality(I) :
               Ascending(I)[k] = i /\ ItemsAt(order, I)[k] = order[i]
        BY <3>2, ItemsAtKeeps
      <4>. QED BY <4>1, <4>2, Zenon DEF c
    <3>. QED BY <3>2, <3>3 DEF I, D
  <2>5. left = [k \in DOMAIN chosen |-> all[chosen[k]]]
    BY <1>3, PrefilterIs
  <2>. HIDE DEF chosen, left
  <2>6. DOMAIN chosen = 1..Len(chosen) /\ \A k \in 1..Len(chosen) : chosen[k] \in 1..Len(all)
    BY <2>4, LenProperties, ElementOfSeq
  <2>7. left \in Seq(T) /\ Len(left) = Len(chosen) /\ DOMAIN left = 1..Len(chosen)
    <3>1. \A k \in 1..Len(chosen) : all[chosen[k]] \in T
      BY <2>6, ElementOfSeq
    <3>2. left \in [1..Len(chosen) -> T]
      BY <2>5, <2>6, <3>1
    <3>3. Len(chosen) \in Nat
      BY <2>4, LenProperties
    <3>. QED BY <3>2, <3>3, FunctionIsSeq
  <2>8. \A i \in FrontOf(all) \cap (1..Len(all)) : \E m \in 1..Len(chosen) : chosen[m] = i
    <3>. TAKE i \in FrontOf(all) \cap (1..Len(all))
    <3>1. PICK k \in 1..Len(order) : order[k] = i
      BY <2>2, <2>3
    <3>. QED BY <2>3, <2>4, <3>1
  <2>9. left # <<>>
    <3>1. QueueOf(all)[1] \in FrontOf(all)
      <4>1. 1 \in 1..MaxCandidates
        BY <1>1
      <4>. QED BY <4>1 DEF FrontOf
    <3>2. PICK m \in 1..Len(chosen) : chosen[m] = QueueOf(all)[1]
      BY <2>2, <2>8, <3>1
    <3>3. Len(chosen) \in Nat /\ Len(left) # 0
      BY <2>4, <2>7, <3>2, LenProperties
    <3>. QED BY <3>3, EmptySeq
  <2>10. ASSUME Cardinality(SourcesOf(all)) <= MaxCandidates PROVE SourcesOf(left) = SourcesOf(all)
    <3>1. SourcesOf(left) = {all[chosen[k]].source : k \in 1..Len(chosen)}
      BY <2>5, <2>6 DEF SourcesOf
    <3>2. \A s \in SourcesOf(left) : s \in SourcesOf(all)
      BY <1>1, <2>6, <3>1 DEF SourcesOf
    <3>3. ASSUME NEW s \in SourcesOf(all) PROVE s \in SourcesOf(left)
      <4>1. PICK n \in 1..Cardinality(BestAt(all)) :
              QueueOf(all)[n] \in 1..Len(all) /\ all[QueueOf(all)[n]].source = s
        BY <2>2
      <4>2. n \in 1..MaxCandidates
        <5>1. Cardinality(SourcesOf(all)) \in Nat
          BY <2>2, FS_CardinalityType
        <5>. QED BY <1>1, <2>2, <2>10, <5>1
      <4>3. QueueOf(all)[n] \in FrontOf(all)
        BY <4>2 DEF FrontOf
      <4>4. PICK m \in 1..Len(chosen) : chosen[m] = QueueOf(all)[n]
        BY <2>8, <4>1, <4>3
      <4>. QED BY <3>1, <4>1, <4>4
    <3>. QED BY <3>2, <3>3
  <2>11. Len(left) \in 0..Len(all)
    BY <2>2, <2>4, <2>7
  <2>. QED BY <2>7, <2>9, <2>10, <2>11 DEF left
<1>. QED BY <1>2, <1>3

-----------------------------------------------------------------------------
(* The reranker's scores.                                                  *)

\* An index and a score, for n chunks
Pairs(n) == (1..n) \X Int
DifferentIndexes(s) == \A i, j \in 1..Len(s) : s[i][1] = s[j][1] => i = j

\* The scores of a batch
ScoresAt(n, answers, k) ==
  IF answers[k] = None THEN <<>>
  ELSE LET used == Parsed(answers[k], BatchLen(n, k))
       IN [i \in DOMAIN used |->
             <<(k - 1) * BatchSize + answers[k][used[i]][1], answers[k][used[i]][2]>>]
ScoresOfBatches(n, answers) == [k \in 1..Batches(n) |-> ScoresAt(n, answers, k)]

LEMMA ScoresAre ==
  ASSUME NEW n, NEW answers
  PROVE  ScoresOf(n, answers) = FlattenSeq(ScoresOfBatches(n, answers))
BY Zenon DEF ScoresOf, ScoresOfBatches, ScoresAt

\* Where a batch ends
LEMMA BatchBounds ==
  ASSUME NEW n \in Nat, NEW k \in Nat \ {0}, NEW a \in Int, 1 <= a, a <= BatchLen(n, k)
  PROVE  /\ (k - 1) * BatchSize + a \in 1..n
         /\ (k - 1) * BatchSize < (k - 1) * BatchSize + a
         /\ (k - 1) * BatchSize + a <= k * BatchSize
<1>. DEFINE x == (k - 1) * BatchSize
            y == k * BatchSize
<1>1. BatchSize \in Nat \ {0}
  BY EvidenceConstants
<1>2. y = x + BatchSize /\ x \in Nat /\ y \in Nat
  BY <1>1
<1>3. BatchLen(n, k) = IF y <= n THEN BatchSize ELSE n - x
  BY DEF BatchLen
<1>. HIDE DEF x, y
<1>4. x + a \in 1..n /\ x < x + a /\ x + a <= y
  BY <1>1, <1>2, <1>3
<1>. QED BY <1>4 DEF x, y

LEMMA BatchesIsNat ==
  ASSUME NEW n \in Nat
  PROVE  Batches(n) \in Nat
<1>1. \A m \in Nat, b \in Nat \ {0} : m \div b \in Nat
  OBVIOUS
<1>2. BatchSize \in Nat \ {0}
  BY EvidenceConstants
<1>3. n + BatchSize - 1 \in Nat
  BY <1>2
<1>. QED BY <1>1, <1>2, <1>3 DEF Batches

\* The scores of a batch are of different chunks of the batch.
LEMMA BatchKeeps ==
  ASSUME NEW n \in Nat, NEW answers, NEW k \in Nat \ {0},
         answers[k] = None \/ answers[k] \in Seq(Int \X Int)
  PROVE  /\ ScoresAt(n, answers, k) \in Seq(Pairs(n)) /\ DifferentIndexes(ScoresAt(n, answers, k))
         /\ \A i \in 1..Len(ScoresAt(n, answers, k)) :
              /\ (k - 1) * BatchSize < ScoresAt(n, answers, k)[i][1]
              /\ ScoresAt(n, answers, k)[i][1] <= k * BatchSize
<1>. DEFINE answer == answers[k]
            len == BatchLen(n, k)
            I == {i \in DOMAIN answer :
                    answer[i][1] \in 1..len /\ \A j \in 1..(i - 1) : answer[j][1] # answer[i][1]}
            used == Ascending(I)
            s == ScoresAt(n, answers, k)
            x == (k - 1) * BatchSize
<1>1. CASE answer = None
  <2>1. s = <<>>
    BY <1>1 DEF ScoresAt
  <2>2. <<>> \in Seq(Pairs(n)) /\ Len(<<>>) = 0
    BY EmptySeq
  <2>. QED BY <2>1, <2>2 DEF DifferentIndexes
<1>2. CASE answer # None
  <2>1. /\ Len(answer) \in Nat /\ DOMAIN answer = 1..Len(answer)
        /\ \A i \in 1..Len(answer) : answer[i] \in Int \X Int
    BY <1>2, LenProperties, ElementOfSeq
  <2>2. I \in SUBSET (1..Len(answer))
    BY <2>1
  <2>3. /\ \A i \in I : answer[i][1] \in Int /\ 1 <= answer[i][1] /\ answer[i][1] <= len /\ answer[i][2] \in Int
        /\ \A i, j \in I : answer[i][1] = answer[j][1] => i = j
    <3>1. \A i \in I : i \in 1..Len(answer) /\ answer[i] \in Int \X Int /\ answer[i][1] \in 1..len
      BY <2>1
    <3>2. \A i, j \in I : j \in 1..(i - 1) => answer[j][1] # answer[i][1]
      BY Zenon
    <3>. HIDE DEF I, len
    <3>3. \A i, j \in I : answer[i][1] = answer[j][1] => i = j
      <4>. SUFFICES ASSUME NEW i \in I, NEW j \in I, answer[i][1] = answer[j][1] PROVE i = j
        OBVIOUS
      <4>1. i \in 1..Len(answer) /\ j \in 1..Len(answer)
        BY <3>1
      <4>2. i < j => i \in 1..(j - 1)
        BY <4>1
      <4>3. j < i => j \in 1..(i - 1)
        BY <4>1
      <4>. QED BY <3>2, <4>1, <4>2, <4>3
    <3>4. \A i \in I : answer[i][1] \in Int /\ 1 <= answer[i][1] /\ answer[i][1] <= len /\ answer[i][2] \in Int
      BY <3>1
    <3>. QED BY <3>3, <3>4
  <2>4. s = [i \in DOMAIN used |-> <<x + answer[used[i]][1], answer[used[i]][2]>>]
    BY <1>2 DEF ScoresAt, Parsed
  <2>. HIDE DEF I
  <2>5. /\ DOMAIN used = 1..Len(used) /\ Len(used) \in Nat /\ \A i \in 1..Len(used) : used[i] \in I
        /\ \A i, j \in 1..Len(used) : used[i] = used[j] => i = j
    <3>1. /\ DOMAIN used = 1..Len(used) /\ Len(used) \in 0..Len(answer)
          /\ \A i \in 1..Len(used) : used[i] \in I
          /\ \A i, j \in 1..Len(used) : i < j => used[i] < used[j]
      BY <2>1, <2>2, SomeOf
    <3>. HIDE DEF used
    <3>2. \A i \in 1..Len(used) : used[i] \in Int
      <4>1. \A i \in I : i \in Int
        BY <2>2
      <4>. QED BY <3>1, <4>1
    <3>. QED BY <2>1, <3>1, <3>2
  <2>. HIDE DEF used, answer, s, len
  <2>6. \A i \in 1..Len(used) : LET a == answer[used[i]][1] IN
          /\ s[i] = <<x + a, answer[used[i]][2]>> /\ a \in Int /\ answer[used[i]][2] \in Int
          /\ x + a \in 1..n /\ x < x + a /\ x + a <= k * BatchSize
    <3>. SUFFICES ASSUME NEW i \in 1..Len(used)
                  PROVE  LET a == answer[used[i]][1] IN
                         /\ s[i] = <<x + a, answer[used[i]][2]>> /\ a \in Int /\ answer[used[i]][2] \in Int
                         /\ x + a \in 1..n /\ x < x + a /\ x + a <= k * BatchSize
      OBVIOUS
    <3>. DEFINE a == answer[used[i]][1]
    <3>1. a \in Int /\ 1 <= a /\ a <= BatchLen(n, k) /\ answer[used[i]][2] \in Int
      BY <2>3, <2>5 DEF len
    <3>2. s[i] = <<x + a, answer[used[i]][2]>>
      BY <2>4, <2>5
    <3>. HIDE DEF a
    <3>3. x + a \in 1..n /\ x < x + a /\ x + a <= k * BatchSize
      BY <3>1, BatchBounds
    <3>. QED BY <3>1, <3>2, <3>3 DEF a
  <2>7. x \in Int
    BY EvidenceConstants
  <2>. HIDE DEF x
  <2>8. s \in [1..Len(used) -> Pairs(n)]
    BY <2>4, <2>5, <2>6 DEF Pairs
  <2>9. s \in Seq(Pairs(n)) /\ Len(s) = Len(used)
    BY <2>5, <2>8, FunctionIsSeq
  <2>10. DifferentIndexes(s)
    <3>. SUFFICES ASSUME NEW i \in 1..Len(used), NEW j \in 1..Len(used), s[i][1] = s[j][1] PROVE i = j
      BY <2>9 DEF DifferentIndexes
    <3>1. x + answer[used[i]][1] = x + answer[used[j]][1]
      BY <2>6
    <3>2. answer[used[i]][1] = answer[used[j]][1]
      <4>. DEFINE a == answer[used[i]][1]
                  b == answer[used[j]][1]
      <4>1. a \in Int /\ b \in Int
        BY <2>6
      <4>. HIDE DEF a, b
      <4>2. x + a = x + b => a = b
        BY <2>7, <4>1
      <4>. QED BY <3>1, <4>2, Zenon DEF a, b
    <3>. QED BY <2>3, <2>5, <3>2
  <2>11. \A i \in 1..Len(s) : x < s[i][1] /\ s[i][1] <= k * BatchSize
    BY <2>6, <2>9
  <2>. QED BY <2>9, <2>10, <2>11 DEF s, x
<1>. QED BY <1>1, <1>2

\* All scores are of different chunks.
LEMMA ScoresKeep ==
  ASSUME NEW n \in Nat, NEW answers,
         \A k \in 1..Batches(n) : answers[k] = None \/ answers[k] \in Seq(Int \X Int)
  PROVE  ScoresOf(n, answers) \in Seq(Pairs(n)) /\ DifferentIndexes(ScoresOf(n, answers))
<1>. DEFINE N == Batches(n)
            seqs == ScoresOfBatches(n, answers)
            Good(s, k) == /\ s \in Seq(Pairs(n)) /\ DifferentIndexes(s)
                          /\ \A i \in 1..Len(s) : s[i][1] <= k * BatchSize
            B == {x \in Seq(Pairs(n)) \X Nat : Good(x[1], x[2])}
<1>1. N \in Nat /\ BatchSize \in Nat \ {0}
  BY BatchesIsNat, EvidenceConstants
<1>2. \A k \in 1..N : /\ seqs[k] \in Seq(Pairs(n)) /\ DifferentIndexes(seqs[k])
                      /\ \A i \in 1..Len(seqs[k]) : /\ (k - 1) * BatchSize < seqs[k][i][1]
                                                    /\ seqs[k][i][1] <= k * BatchSize
  <2>. TAKE k \in 1..N
  <2>1. k \in Nat \ {0} /\ seqs[k] = ScoresAt(n, answers, k)
    BY DEF ScoresOfBatches
  <2>. HIDE DEF seqs
  <2>. QED BY <2>1, BatchKeeps
<1>3. seqs \in Seq(Seq(Pairs(n))) /\ Len(seqs) = N
  <2>1. seqs \in [1..N -> Seq(Pairs(n))]
    BY <1>2 DEF ScoresOfBatches
  <2>. HIDE DEF seqs, N
  <2>. QED BY <1>1, <2>1, FunctionIsSeq
<1>. HIDE DEF N, seqs
<1>4. PICK g : FlattenRun(g, seqs) /\ FlattenSeq(seqs) = g[Len(seqs)]
  BY <1>3, FlattenLoop
<1>. DEFINE both == [k \in 0..N |-> <<g[k], k>>]
<1>5. both[0] \in B
  <2>. DEFINE g0 == g[0]
  <2>1. g0 = <<>> /\ Len(g0) = 0 /\ g0 \in Seq(Pairs(n))
    BY <1>4, EmptySeq DEF FlattenRun
  <2>2. both[0] = <<g0, 0>>
    BY <1>1
  <2>3. Good(g0, 0)
    <3>. HIDE DEF g0
    <3>. QED BY <2>1 DEF DifferentIndexes
  <2>4. both[0] = <<g0, 0>> /\ Good(g0, 0) /\ g0 \in Seq(Pairs(n))
    BY <2>1, <2>2, <2>3
  <2>. HIDE DEF both, g0, Good
  <2>. QED BY <2>4
<1>6. ASSUME NEW k \in 1..N, both[k - 1] \in B PROVE both[k] \in B
  <2>. DEFINE s == g[k - 1]
              t == g[k]
              w == seqs[k]
              x == (k - 1) * BatchSize
              y == k * BatchSize
  <2>0. k \in 0..N /\ k - 1 \in 0..N /\ k \in Nat /\ both[k] = <<t, k>> /\ both[k - 1] = <<s, k - 1>>
    BY <1>1
  <2>1. Good(s, k - 1)
    <3>. HIDE DEF both, s, Good
    <3>. QED BY <1>6, <2>0
  <2>2. t = s \o w
    BY <1>3, <1>4 DEF FlattenRun
  <2>3. /\ s \in Seq(Pairs(n)) /\ w \in Seq(Pairs(n)) /\ DifferentIndexes(s) /\ DifferentIndexes(w)
        /\ \A i \in 1..Len(s) : s[i][1] <= x
        /\ \A i \in 1..Len(w) : x < w[i][1] /\ w[i][1] <= y
    BY <1>2, <2>1
  <2>4. y = x + BatchSize /\ x \in Int /\ y \in Int
    BY <1>1, <2>0
  <2>. HIDE DEF s, t, w, both, Good, x, y
  <2>5. /\ t \in Seq(Pairs(n)) /\ Len(t) = Len(s) + Len(w) /\ Len(s) \in Nat /\ Len(w) \in Nat
        /\ \A i \in 1..Len(s) + Len(w) : t[i] = IF i <= Len(s) THEN s[i] ELSE w[i - Len(s)]
    BY <2>2, <2>3, ConcatProperties, LenProperties
  <2>6. \A i \in 1..Len(t) : \/ i \in 1..Len(s) /\ t[i] = s[i]
                             \/ i \notin 1..Len(s) /\ i - Len(s) \in 1..Len(w) /\ t[i] = w[i - Len(s)]
    BY <2>5
  <2>7. /\ \A i \in 1..Len(s) : s[i][1] \in Int
        /\ \A i \in 1..Len(w) : w[i][1] \in Int
    <3>1. \A i \in 1..Len(s) : s[i] \in Pairs(n)
      BY <2>3, ElementOfSeq
    <3>2. \A i \in 1..Len(w) : w[i] \in Pairs(n)
      BY <2>3, ElementOfSeq
    <3>3. \A p \in Pairs(n) : p[1] \in Int
      BY DEF Pairs
    <3>. QED BY <3>1, <3>2, <3>3
  <2>8. \A i \in 1..Len(t) : t[i][1] <= y
    <3>. TAKE i \in 1..Len(t)
    <3>1. CASE i \in 1..Len(s) /\ t[i] = s[i]
      <4>1. s[i][1] \in Int /\ s[i][1] <= x
        BY <2>3, <2>7, <3>1
      <4>. QED BY <1>1, <2>4, <3>1, <4>1
    <3>2. CASE i - Len(s) \in 1..Len(w) /\ t[i] = w[i - Len(s)]
      BY <2>3, <3>2
    <3>. QED BY <2>6, <3>1, <3>2
  <2>9. DifferentIndexes(t)
    <3>. SUFFICES ASSUME NEW i \in 1..Len(t), NEW j \in 1..Len(t), t[i][1] = t[j][1] PROVE i = j
      BY DEF DifferentIndexes
    <3>0. i \in Int /\ j \in Int
      BY <2>5
    <3>1. CASE i \in 1..Len(s) /\ t[i] = s[i] /\ j \in 1..Len(s) /\ t[j] = s[j]
      BY <2>3, <3>1 DEF DifferentIndexes
    <3>2. CASE /\ i - Len(s) \in 1..Len(w) /\ t[i] = w[i - Len(s)]
               /\ j - Len(s) \in 1..Len(w) /\ t[j] = w[j - Len(s)]
      <4>1. i - Len(s) = j - Len(s)
        BY <2>3, <3>2 DEF DifferentIndexes
      <4>. QED BY <2>5, <3>0, <4>1
    <3>3. \A a \in 1..Len(s), b \in 1..Len(w) : s[a][1] # w[b][1]
      <4>. TAKE a \in 1..Len(s), b \in 1..Len(w)
      <4>. DEFINE p == s[a][1]
                  q == w[b][1]
      <4>1. p <= x /\ x < q /\ p \in Int /\ q \in Int /\ x \in Int
        BY <2>3, <2>4, <2>7
      <4>. HIDE DEF p, q
      <4>2. p # q
        BY <4>1
      <4>. QED BY <4>2 DEF p, q
    <3>. QED BY <2>6, <3>1, <3>2, <3>3
  <2>10. Good(t, k)
    BY <2>5, <2>8, <2>9 DEF Good, y
  <2>. QED BY <2>0, <2>5, <2>10
<1>7. both[N] \in B
  <2>1. \A k \in 0..N : both[k] \in B
    <3>. HIDE DEF both, B
    <3>. QED BY <1>1, <1>5, <1>6, LoopStays
  <2>. HIDE DEF both, B
  <2>. QED BY <1>1, <2>1
<1>8. Good(g[N], N)
  <2>1. both[N] = <<g[N], N>>
    BY <1>1
  <2>. HIDE DEF both, Good
  <2>. QED BY <1>7, <2>1
<1>9. ScoresOf(n, answers) = g[N]
  BY <1>3, <1>4, ScoresAre DEF seqs
<1>. QED BY <1>8, <1>9

\* Numbers of a finite set have a least one.
LEMMA LeastIsOne ==
  ASSUME NEW S \in SUBSET Int, IsFiniteSet(S), S # {}
  PROVE  Least(S) \in S /\ \A y \in S : Least(S) <= y
<1>. DEFINE R == {p \in S \X S : p[1] < p[2]}
<1>1. \A x, y \in S : <<x, y>> \in R <=> x < y
  OBVIOUS
<1>. HIDE DEF R
<1>2. StrictOrder(S, R)
  BY <1>1 DEF StrictOrder
<1>3. PICK x \in S : \A y \in S : y = x \/ <<x, y>> \in R
  BY <1>2, FirstInOrder
<1>4. ASSUME NEW y \in S PROVE x <= y
  <2>1. y = x \/ x < y
    BY <1>1, <1>3
  <2>2. x \in Int /\ y \in Int
    OBVIOUS
  <2>. QED BY <2>1, <2>2
<1>. QED BY <1>4 DEF Least

-----------------------------------------------------------------------------
(* Scored chunks.                                                          *)

Scored(T) == [chunk : T, score : Int]

\* Each item is about another of the chunks.
About(scored, cs, f) ==
  /\ f \in [1..Len(scored) -> 1..Len(cs)] /\ \A i, j \in 1..Len(scored) : f[i] = f[j] => i = j
  /\ \A i \in 1..Len(scored) : scored[i].chunk = cs[f[i]]

RestOf(cs, scores) == Ascending({i \in DOMAIN cs : \A s \in DOMAIN scores : scores[s][1] # i})
FloorOf(scores) == Least({scores[i][2] : i \in DOMAIN scores}) - 1
FrontItems(cs, scores) == [i \in DOMAIN scores |-> [chunk |-> cs[scores[i][1]], score |-> scores[i][2]]]
BackItems(cs, scores) ==
  [i \in DOMAIN RestOf(cs, scores) |-> [chunk |-> cs[RestOf(cs, scores)[i]], score |-> FloorOf(scores)]]

LEMMA RerankedIs ==
  ASSUME NEW cs, NEW answers
  PROVE  LET scores == ScoresOf(Len(cs), answers)
         IN Reranked(cs, answers) = FrontItems(cs, scores) \o BackItems(cs, scores)
BY Zenon DEF Reranked, FrontItems, BackItems, RestOf, FloorOf

\* Every chunk is scored once.
LEMMA RerankedKeeps ==
  ASSUME NEW T, NEW cs \in Seq(T), NEW answers,
         \A k \in 1..Batches(Len(cs)) : answers[k] = None \/ answers[k] \in Seq(Int \X Int),
         ScoresOf(Len(cs), answers) # <<>>
  PROVE  /\ Reranked(cs, answers) \in Seq(Scored(T)) /\ Len(Reranked(cs, answers)) = Len(cs)
         /\ \E f : About(Reranked(cs, answers), cs, f)
<1>. DEFINE n == Len(cs)
            scores == ScoresOf(n, answers)
            m == Len(scores)
            V == {scores[i][1] : i \in 1..m}
            I == {i \in DOMAIN cs : \A s \in DOMAIN scores : scores[s][1] # i}
            rest == RestOf(cs, scores)
            floor == FloorOf(scores)
            front == FrontItems(cs, scores)
            back == BackItems(cs, scores)
            all == Reranked(cs, answers)
<1>1. n \in Nat /\ DOMAIN cs = 1..n /\ \A i \in 1..n : cs[i] \in T
  BY LenProperties, ElementOfSeq
<1>2. scores \in Seq(Pairs(n)) /\ DifferentIndexes(scores) /\ scores # <<>>
  BY <1>1, ScoresKeep
<1>3. all = front \o back
  BY RerankedIs
<1>. HIDE DEF n, scores, all
<1>4. /\ m \in Nat \ {0} /\ DOMAIN scores = 1..m
      /\ \A i \in 1..m : scores[i][1] \in 1..n /\ scores[i][2] \in Int
  <2>1. /\ m \in Nat /\ DOMAIN scores = 1..m /\ \A i \in 1..m : scores[i] \in Pairs(n)
    BY <1>2, LenProperties, ElementOfSeq
  <2>2. m # 0
    BY <1>2, EmptySeq
  <2>. QED BY <2>1, <2>2 DEF Pairs
<1>. HIDE DEF m
<1>5. floor \in Int
  <2>. DEFINE F == {scores[i][2] : i \in 1..m}
              sc == [i \in 1..m |-> scores[i][2]]
  <2>1. F \in SUBSET Int /\ F # {}
    BY <1>4
  <2>2. sc \in [1..m -> F] /\ \A v \in F : \E i \in 1..m : sc[i] = v
    OBVIOUS
  <2>3. floor = Least(F) - 1
    BY <1>4 DEF FloorOf
  <2>. HIDE DEF F, sc, floor
  <2>4. IsFiniteSet(F)
    BY <1>4, <2>2, ValuesOfItems
  <2>5. Least(F) \in Int
    BY <2>1, <2>4, LeastIsOne
  <2>. QED BY <2>3, <2>5
<1>6. /\ I = (1..n) \ V /\ V \in SUBSET (1..n) /\ Cardinality(V) = m /\ IsFiniteSet(V)
  <2>1. I = (1..n) \ V
    BY <1>1, <1>4 DEF n
  <2>2. V \in SUBSET (1..n)
    BY <1>4
  <2>. DEFINE f == [i \in 1..m |-> scores[i][1]]
  <2>3. f \in [1..m -> V] /\ \A v \in V : \E i \in 1..m : f[i] = v
    OBVIOUS
  <2>4. \A i, j \in 1..m : f[i] = f[j] => i = j
    BY <1>2 DEF DifferentIndexes, m
  <2>. HIDE DEF f, V
  <2>5. Cardinality(V) = m /\ IsFiniteSet(V)
    BY <1>4, <2>3, <2>4, DifferentItems
  <2>. QED BY <2>1, <2>2, <2>5
<1>7. /\ Len(rest) = n - m /\ Len(rest) \in Nat /\ DOMAIN rest = 1..Len(rest)
      /\ \A k \in 1..Len(rest) : rest[k] \in (1..n) \ V
      /\ \A j, k \in 1..Len(rest) : rest[j] = rest[k] => j = k
  <2>1. I \in SUBSET (1..n) /\ rest = Ascending(I)
    BY <1>6 DEF RestOf
  <2>2. Cardinality(I) = n - m
    <3>1. IsFiniteSet(1..n) /\ Cardinality(1..n) = n
      BY <1>1, FS_Interval
    <3>2. (1..n) \cap V = V
      BY <1>6
    <3>. HIDE DEF I, V
    <3>3. Cardinality(I) = Cardinality(1..n) - Cardinality((1..n) \cap V)
      BY <1>6, <3>1, FS_Difference
    <3>. QED BY <1>6, <3>1, <3>2, <3>3
  <2>3. \A i \in I : i \in (1..n) \ V
    BY <1>6
  <2>. HIDE DEF I, V, rest
  <2>4. /\ DOMAIN rest = 1..Len(rest) /\ Len(rest) \in 0..n /\ Len(rest) = Cardinality(I)
        /\ \A k \in 1..Len(rest) : rest[k] \in I
        /\ \A j, k \in 1..Len(rest) : j < k => rest[j] < rest[k]
    BY <1>1, <2>1, SomeOf
  <2>5. \A k \in 1..Len(rest) : rest[k] \in Int
    <3>1. \A i \in I : i \in Int
      BY <2>1
    <3>. QED BY <2>4, <3>1
  <2>. QED BY <1>1, <2>2, <2>3, <2>4, <2>5
<1>. HIDE DEF rest, floor, I
<1>8. /\ front \in Seq(Scored(T)) /\ Len(front) = m /\ \A i \in 1..m : front[i].chunk = cs[scores[i][1]]
  <2>1. front = [i \in 1..m |-> [chunk |-> cs[scores[i][1]], score |-> scores[i][2]]]
    BY <1>4 DEF FrontItems
  <2>. HIDE DEF front
  <2>2. \A i \in 1..m : cs[scores[i][1]] \in T /\ scores[i][2] \in Int
    BY <1>1, <1>4 DEF n
  <2>3. front \in [1..m -> Scored(T)]
    BY <2>1, <2>2 DEF Scored
  <2>4. \A i \in 1..m : front[i].chunk = cs[scores[i][1]]
    BY <2>1
  <2>. QED BY <1>4, <2>3, <2>4, FunctionIsSeq
<1>9. /\ back \in Seq(Scored(T)) /\ Len(back) = n - m /\ \A i \in 1..n - m : back[i].chunk = cs[rest[i]]
  <2>1. back = [i \in 1..n - m |-> [chunk |-> cs[rest[i]], score |-> floor]]
    BY <1>7 DEF BackItems, rest, floor
  <2>. HIDE DEF back
  <2>2. \A i \in 1..n - m : cs[rest[i]] \in T
    BY <1>1, <1>7 DEF n
  <2>3. back \in [1..n - m -> Scored(T)]
    BY <1>5, <2>1, <2>2 DEF Scored
  <2>4. \A i \in 1..n - m : back[i].chunk = cs[rest[i]]
    BY <2>1
  <2>5. n - m \in Nat
    BY <1>7
  <2>. QED BY <2>3, <2>4, <2>5, FunctionIsSeq
<1>. HIDE DEF front, back
<1>10. /\ all \in Seq(Scored(T)) /\ Len(all) = n
       /\ \A i \in 1..n : all[i] = IF i <= m THEN front[i] ELSE back[i - m]
  <2>1. front \o back \in Seq(Scored(T)) /\ Len(front \o back) = Len(front) + Len(back)
    BY <1>8, <1>9, ConcatProperties
  <2>2. \A i \in 1..Len(front) + Len(back) : (front \o back)[i] = IF i <= Len(front) THEN front[i] ELSE back[i - Len(front)]
    BY <1>8, <1>9, ConcatProperties
  <2>3. Len(front) + Len(back) = n /\ Len(front) = m
    BY <1>1, <1>4, <1>7, <1>8, <1>9 DEF n
  <2>. QED BY <1>3, <2>1, <2>2, <2>3
<1>11. \E f : About(all, cs, f)
  <2>. DEFINE f == [i \in 1..n |-> IF i <= m THEN scores[i][1] ELSE rest[i - m]]
  <2>1. \A i \in 1..n : \/ i \in 1..m /\ f[i] = scores[i][1] /\ f[i] \in V /\ all[i] = front[i]
                        \/ /\ i \notin 1..m /\ i - m \in 1..n - m /\ f[i] = rest[i - m] /\ f[i] \in (1..n) \ V
                           /\ all[i] = back[i - m]
    <3>. TAKE i \in 1..n
    <3>0. n \in Nat /\ m \in Nat /\ i \in Int
      BY <1>1, <1>4 DEF n
    <3>1. CASE i <= m
      <4>1. i \in 1..m /\ f[i] = scores[i][1] /\ scores[i][1] \in V /\ all[i] = front[i]
        BY <1>10, <3>0, <3>1
      <4>. HIDE DEF f, V
      <4>. QED BY <4>1
    <3>2. CASE ~(i <= m)
      <4>1. i \notin 1..m /\ i - m \in 1..n - m /\ f[i] = rest[i - m] /\ all[i] = back[i - m]
        BY <1>10, <3>0, <3>2
      <4>2. rest[i - m] \in (1..n) \ V
        BY <1>7, <4>1
      <4>. HIDE DEF f, V
      <4>. QED BY <4>1, <4>2
    <3>. QED BY <3>0, <3>1, <3>2
  <2>2. \A i \in 1..n : f[i] \in 1..n /\ all[i].chunk = cs[f[i]]
    <3>. HIDE DEF f, V
    <3>. TAKE i \in 1..n
    <3>1. f[i] \in 1..n
      BY <1>6, <2>1
    <3>2. CASE i \in 1..m /\ f[i] = scores[i][1] /\ all[i] = front[i]
      <4>1. front[i].chunk = cs[scores[i][1]]
        BY <1>8, <3>2, Zenon
      <4>. QED BY <3>1, <3>2, <4>1, Zenon
    <3>3. CASE i - m \in 1..n - m /\ f[i] = rest[i - m] /\ all[i] = back[i - m]
      <4>1. back[i - m].chunk = cs[rest[i - m]]
        BY <1>9, <3>3, Zenon
      <4>. QED BY <3>1, <3>3, <4>1, Zenon
    <3>. QED BY <2>1, <3>2, <3>3, Zenon
  <2>3. \A i, j \in 1..n : f[i] = f[j] => i = j
    <3>. SUFFICES ASSUME NEW i \in 1..n, NEW j \in 1..n, f[i] = f[j] PROVE i = j
      OBVIOUS
    <3>. HIDE DEF f, V
    <3>1. CASE i \in 1..m /\ f[i] = scores[i][1] /\ j \in 1..m /\ f[j] = scores[j][1]
      BY <1>2, <3>1 DEF DifferentIndexes, m
    <3>2. CASE /\ i - m \in 1..n - m /\ f[i] = rest[i - m]
               /\ j - m \in 1..n - m /\ f[j] = rest[j - m]
      <4>1. i - m = j - m
        BY <1>7, <3>2
      <4>2. i \in Int /\ j \in Int /\ m \in Int
        BY <1>4
      <4>. QED BY <4>1, <4>2
    <3>. QED BY <2>1, <3>1, <3>2
  <2>4. f \in [1..n -> 1..n]
    <3>1. f = [i \in 1..n |-> f[i]]
      OBVIOUS
    <3>. HIDE DEF f
    <3>. QED BY <2>2, <3>1
  <2>. HIDE DEF f
  <2>5. About(all, cs, f)
    BY <1>10, <2>2, <2>3, <2>4 DEF About, n
  <2>. QED BY <2>5
<1>. QED BY <1>10, <1>11 DEF all, n

\* Without the reranker as well
LEMMA ByPositionKeeps ==
  ASSUME NEW T, NEW cs \in Seq(T)
  PROVE  /\ ByPosition(cs) \in Seq(Scored(T)) /\ Len(ByPosition(cs)) = Len(cs)
         /\ \E f : About(ByPosition(cs), cs, f)
<1>1. Len(cs) \in Nat /\ DOMAIN cs = 1..Len(cs) /\ \A i \in 1..Len(cs) : cs[i] \in T
  BY LenProperties, ElementOfSeq
<1>2. /\ ByPosition(cs) \in [1..Len(cs) -> Scored(T)]
      /\ \A i \in 1..Len(cs) : ByPosition(cs)[i].chunk = cs[i]
  BY <1>1 DEF ByPosition, Scored
<1>3. ByPosition(cs) \in Seq(Scored(T)) /\ Len(ByPosition(cs)) = Len(cs)
  BY <1>1, <1>2, FunctionIsSeq
<1>. DEFINE f == [i \in 1..Len(cs) |-> i]
<1>4. About(ByPosition(cs), cs, f)
  BY <1>2, <1>3 DEF About
<1>. QED BY <1>3, <1>4

-----------------------------------------------------------------------------
(* Sums of some of the weights.                                            *)

\* The weights at some positions only
OnlyIn(v, S) == [i \in 1..Len(v) |-> IF i \in S THEN v[i] ELSE 0]

LEMMA OnlyInKeeps ==
  ASSUME NEW v \in Seq(Nat), NEW S
  PROVE  /\ OnlyIn(v, S) \in Seq(Int) /\ Len(OnlyIn(v, S)) = Len(v) /\ Len(v) \in Nat /\ v \in Seq(Int)
         /\ \A i \in 1..Len(v) : v[i] \in Nat /\ OnlyIn(v, S)[i] = IF i \in S THEN v[i] ELSE 0
         /\ Total(OnlyIn(v, S)) <= Total(v) /\ Total(OnlyIn(v, S)) \in Int /\ Total(v) \in Int
<1>1. Len(v) \in Nat /\ \A i \in 1..Len(v) : v[i] \in Nat
  BY LenProperties, ElementOfSeq
<1>2. OnlyIn(v, S) \in [1..Len(v) -> Int] /\ \A i \in 1..Len(v) : OnlyIn(v, S)[i] = IF i \in S THEN v[i] ELSE 0
  BY <1>1 DEF OnlyIn
<1>3. OnlyIn(v, S) \in Seq(Int) /\ Len(OnlyIn(v, S)) = Len(v)
  BY <1>1, <1>2, FunctionIsSeq
<1>4. v \in Seq(Int)
  <2>1. v \in [1..Len(v) -> Int]
    BY <1>1
  <2>. QED BY <2>1
<1>5. \A i \in 1..Len(v) : OnlyIn(v, S)[i] <= v[i]
  BY <1>1, <1>2
<1>6. Total(OnlyIn(v, S)) <= Total(v) /\ Total(OnlyIn(v, S)) \in Int /\ Total(v) \in Int
  BY <1>3, <1>4, <1>5, TotalGrows
<1>. QED BY <1>1, <1>2, <1>3, <1>4, <1>6

\* One position more adds its weight.
LEMMA OnlyInOneMore ==
  ASSUME NEW v \in Seq(Nat), NEW S, NEW j \in 1..Len(v), j \notin S
  PROVE  Total(OnlyIn(v, S \cup {j})) = Total(OnlyIn(v, S)) + v[j]
<1>. DEFINE a == OnlyIn(v, S)
            b == OnlyIn(v, S \cup {j})
            N == Len(v)
<1>1. /\ a \in Seq(Int) /\ Len(a) = N /\ N \in Nat
      /\ \A i \in 1..N : v[i] \in Nat /\ a[i] = IF i \in S THEN v[i] ELSE 0
  BY OnlyInKeeps
<1>2. /\ b \in Seq(Int) /\ Len(b) = N
      /\ \A i \in 1..N : b[i] = IF i \in S \cup {j} THEN v[i] ELSE 0
  BY OnlyInKeeps
<1>3. \A i \in 1..N : a[i] \in Int /\ b[i] = IF i = j THEN a[i] + v[j] ELSE a[i]
  <2>. HIDE DEF a, b
  <2>. TAKE i \in 1..N
  <2>. DEFINE x == a[i]
              y == b[i]
              z == v[i]
  <2>0. z \in Nat /\ x = (IF i \in S THEN z ELSE 0) /\ y = (IF i \in S \cup {j} THEN z ELSE 0)
    BY <1>1, <1>2
  <2>1. i = j => z = v[j]
    OBVIOUS
  <2>. HIDE DEF x, y, z
  <2>2. x \in Int /\ y = IF i = j THEN x + v[j] ELSE x
    BY <2>0, <2>1
  <2>. QED BY <2>2 DEF x, y
<1>. HIDE DEF a, b
<1>4. PICK g : Sums(g, a) /\ Total(a) = g[N]
  BY <1>1, TotalSums
<1>5. PICK h : Sums(h, b) /\ Total(b) = h[N]
  BY <1>1, <1>2, TotalSums
<1>. DEFINE both == [n \in 0..N |-> <<g[n], h[n], n>>]
            B == {p \in Int \X Int \X Int : p[2] = IF p[3] >= j THEN p[1] + v[j] ELSE p[1]}
<1>6. \A n \in 0..N : both[n] \in B
  <2>1. both[0] \in B
    <3>1. g[0] = 0 /\ h[0] = 0 /\ 0 \in 0..N /\ ~(0 >= j)
      BY <1>1, <1>4, <1>5 DEF Sums
    <3>. QED BY <3>1
  <2>2. ASSUME NEW n \in 1..N, both[n - 1] \in B PROVE both[n] \in B
    <3>1. n \in 0..N /\ n - 1 \in 0..N /\ n \in Int /\ j \in Int /\ v[j] \in Int
      BY <1>1
    <3>2. g[n - 1] \in Int /\ h[n - 1] = IF n - 1 >= j THEN g[n - 1] + v[j] ELSE g[n - 1]
      BY <2>2, <3>1
    <3>3. /\ g[n] = g[n - 1] + a[n] /\ h[n] = h[n - 1] + b[n] /\ a[n] \in Int
          /\ b[n] = IF n = j THEN a[n] + v[j] ELSE a[n]
      BY <1>1, <1>2, <1>3, <1>4, <1>5 DEF Sums
    <3>4. g[n] \in Int /\ h[n] \in Int /\ h[n] = IF n >= j THEN g[n] + v[j] ELSE g[n]
      <4>. DEFINE x == g[n - 1]
                  y == h[n - 1]
                  d == v[j]
                  p == a[n]
      <4>1. /\ x \in Int /\ d \in Int /\ p \in Int /\ g[n] = x + p
            /\ h[n] = y + IF n = j THEN p + d ELSE p
            /\ y = IF n - 1 >= j THEN x + d ELSE x
        BY <3>1, <3>2, <3>3
      <4>. HIDE DEF x, y, d, p, both, B
      <4>2. h[n] = IF n >= j THEN (x + p) + d ELSE x + p
        <5>. DEFINE e == IF n = j THEN p + d ELSE p
        <5>1. y \in Int /\ (n > j => y = x + d) /\ (n <= j => y = x)
          BY <3>1, <4>1
        <5>2. e \in Int /\ (n = j => e = p + d) /\ (n # j => e = p) /\ h[n] = y + e
          BY <4>1
        <5>. HIDE DEF e
        <5>. QED BY <3>1, <4>1, <5>1, <5>2
      <4>3. d = v[j]
        BY DEF d
      <4>4. g[n] = x + p /\ x + p \in Int /\ (x + p) + d \in Int
        BY <4>1
      <4>5. h[n] \in Int
        BY <4>2, <4>4
      <4>. QED BY <4>2, <4>3, <4>4, <4>5
    <3>. QED BY <3>1, <3>4
  <2>3. N \in Nat
    BY <1>1
  <2>. HIDE DEF both, B, N
  <2>. QED BY <2>1, <2>2, <2>3, LoopStays
<1>7. both[N] = <<g[N], h[N], N>> /\ N >= j
  BY <1>1
<1>8. both[N] \in B
  <2>1. N \in 0..N
    BY <1>1
  <2>. QED BY <1>6, <2>1
<1>9. h[N] = g[N] + v[j]
  BY <1>7, <1>8
<1>. QED BY <1>4, <1>5, <1>9 DEF a, b

\* Some of the weights, each once, add up to no more than all of them.
LEMMA TotalOfSome ==
  ASSUME NEW v \in Seq(Nat), NEW m \in Nat, NEW f \in [1..m -> 1..Len(v)],
         \A i, j \in 1..m : f[i] = f[j] => i = j, NEW w, w = [k \in 1..m |-> v[f[k]]]
  PROVE  w \in Seq(Nat) /\ Len(w) = m /\ Total(w) <= Total(v) /\ Total(w) \in Int /\ Total(v) \in Int
<1>1. \A i \in 1..Len(v) : v[i] \in Nat
  BY ElementOfSeq
<1>2. w \in [1..m -> Nat] /\ w \in [1..m -> Int]
  BY <1>1
<1>3. w \in Seq(Nat) /\ w \in Seq(Int) /\ Len(w) = m
  BY <1>2, FunctionIsSeq
<1>4. PICK g : Sums(g, w) /\ Total(w) = g[m]
  BY <1>3, TotalSums
<1>. DEFINE First(n) == {f[k] : k \in 1..n}
            both == [n \in 0..m |-> <<g[n], n>>]
            Is(x, n) == x = Total(OnlyIn(v, First(n)))
            B == {p \in Int \X Int : Is(p[1], p[2])}
<1>5. Is(0, 0)
  <2>1. First(0) = {}
    OBVIOUS
  <2>. DEFINE z == OnlyIn(v, {})
  <2>2. z \in Seq(Int) /\ Len(z) = Len(v) /\ Len(v) \in Nat /\ \A i \in 1..Len(v) : z[i] = 0
    BY OnlyInKeeps
  <2>. HIDE DEF z
  <2>3. PICK h : Sums(h, z) /\ Total(z) = h[Len(v)]
    BY <2>2, TotalSums
  <2>. DEFINE N == Len(v)
              hs == [n \in 0..N |-> h[n]]
  <2>4. hs[0] \in {0}
    BY <2>2, <2>3 DEF Sums
  <2>5. ASSUME NEW n \in 1..N, hs[n - 1] \in {0} PROVE hs[n] \in {0}
    <3>1. n \in 0..N /\ n - 1 \in 0..N
      BY <2>2
    <3>2. h[n] = h[n - 1] + z[n] /\ z[n] = 0
      BY <2>2, <2>3 DEF Sums
    <3>. QED BY <2>5, <3>1, <3>2
  <2>6. N \in Nat
    BY <2>2
  <2>. HIDE DEF hs, N
  <2>7. \A n \in 0..N : hs[n] \in {0}
    BY <2>4, <2>5, <2>6, LoopStays
  <2>8. h[N] = 0
    <3>1. N \in 0..N
      BY <2>6
    <3>. QED BY <2>7, <3>1 DEF hs
  <2>. HIDE DEF First
  <2>. QED BY <2>1, <2>3, <2>8 DEF z, N
<1>6. ASSUME NEW n \in 1..m, NEW x \in Int, Is(x, n - 1) PROVE Is(x + w[n], n)
  <2>1. First(n) = First(n - 1) \cup {f[n]}
    <3>1. 1..n = (1..n - 1) \cup {n}
      OBVIOUS
    <3>. QED BY <3>1
  <2>2. f[n] \notin First(n - 1) /\ f[n] \in 1..Len(v) /\ w[n] = v[f[n]]
    OBVIOUS
  <2>. HIDE DEF First
  <2>3. Total(OnlyIn(v, First(n - 1) \cup {f[n]})) = Total(OnlyIn(v, First(n - 1))) + v[f[n]]
    BY <2>2, OnlyInOneMore
  <2>. QED BY <1>6, <2>1, <2>2, <2>3
<1>. HIDE DEF Is
<1>7. \A n \in 0..m : both[n] \in B
  <2>1. both[0] \in B
    BY <1>4, <1>5 DEF Sums
  <2>2. ASSUME NEW n \in 1..m, both[n - 1] \in B PROVE both[n] \in B
    <3>1. n \in 0..m /\ n - 1 \in 0..m /\ n \in Int /\ w[n] \in Nat
      BY <1>2
    <3>2. g[n - 1] \in Int /\ Is(g[n - 1], n - 1)
      BY <2>2, <3>1
    <3>3. g[n] = g[n - 1] + w[n]
      BY <1>3, <1>4 DEF Sums
    <3>4. Is(g[n], n) /\ g[n] \in Int
      BY <1>6, <3>1, <3>2, <3>3
    <3>. QED BY <3>1, <3>4
  <2>. HIDE DEF both, B
  <2>. QED BY <2>1, <2>2, LoopStays
<1>8. g[m] \in Int /\ Is(g[m], m)
  <2>1. m \in 0..m
    OBVIOUS
  <2>. QED BY <1>7, <2>1
<1>9. Total(OnlyIn(v, First(m))) <= Total(v) /\ Total(v) \in Int
  <2>. HIDE DEF First
  <2>. QED BY OnlyInKeeps
<1>. QED BY <1>3, <1>4, <1>8, <1>9 DEF Is

-----------------------------------------------------------------------------
(* What of the scored chunks is left, and in which order.                  *)

\* Some of the items: each is one of the given, and none is taken twice.
Drawn(some, items, f) ==
  /\ f \in [1..Len(some) -> 1..Len(items)] /\ \A i, j \in 1..Len(some) : f[i] = f[j] => i = j
  /\ \A i \in 1..Len(some) : some[i] = items[f[i]]

\* Those at some positions
LEMMA ItemsAtDrawn ==
  ASSUME NEW T, NEW items \in Seq(T), NEW I \in SUBSET (1..Len(items))
  PROVE  \E f : Drawn(ItemsAt(items, I), items, f)
<1>. DEFINE D == 1..Len(items)
            f == Ascending(I)
            some == ItemsAt(items, I)
<1>1. Len(some) = Cardinality(I) /\ \A k \in 1..Cardinality(I) : f[k] \in I /\ some[k] = items[f[k]]
  BY ItemsAtKeeps
<1>2. Len(items) \in Nat
  OBVIOUS
<1>3. /\ f \in Seq(I) /\ Len(f) = Cardinality(I) /\ Len(f) \in Nat
      /\ \A j, k \in 1..Len(f) : j < k => f[j] < f[k]
  BY <1>2, SomeOf
<1>4. \A k \in 1..Len(f) : f[k] \in D /\ f[k] \in Int
  <2>1. \A i \in I : i \in D /\ i \in Int
    BY <1>2
  <2>2. \A k \in 1..Len(f) : f[k] \in I
    BY <1>1, <1>3
  <2>. HIDE DEF D, f, some
  <2>. QED BY <2>1, <2>2
<1>5. f \in [1..Len(f) -> D]
  <2>1. f = [k \in 1..Len(f) |-> f[k]]
    BY <1>3
  <2>. HIDE DEF f, D
  <2>. QED BY <1>4, <2>1
<1>6. \A j, k \in 1..Len(f) : f[j] = f[k] => j = k
  BY <1>3, <1>4
<1>. HIDE DEF f, some
<1>7. Drawn(some, items, f)
  BY <1>1, <1>3, <1>5, <1>6 DEF Drawn, D
<1>. QED BY <1>7 DEF some

\* The floor and the quality gate leave some of the chunks; without a floor, all.
LEMMA AboveFloorKeeps ==
  ASSUME NEW T, NEW items \in Seq(Scored(T)), NEW reranked, NEW floor
  PROVE  LET above == AboveFloor(items, reranked, floor) IN
         /\ above \in Seq(Scored(T)) /\ Len(above) \in 0..Len(items)
         /\ \E f : Drawn(above, items, f)
         /\ above = <<>> /\ items # <<>> => reranked /\ floor # None
<1>. DEFINE above == AboveFloor(items, reranked, floor)
<1>1. CASE ~reranked \/ floor = None
  <2>1. above = items
    BY <1>1 DEF AboveFloor
  <2>2. Drawn(items, items, [i \in 1..Len(items) |-> i])
    BY DEF Drawn
  <2>3. Len(items) \in Nat
    OBVIOUS
  <2>. HIDE DEF above
  <2>. QED BY <2>1, <2>2, <2>3 DEF above
<1>2. CASE reranked /\ floor # None
  <2>. DEFINE I == {i \in DOMAIN items : items[i].score > floor}
  <2>1. above = ItemsAt(items, I)
    BY <1>2 DEF AboveFloor, Kept
  <2>2. I \in SUBSET (1..Len(items))
    OBVIOUS
  <2>. HIDE DEF I, above
  <2>3. above \in Seq(Scored(T)) /\ Len(above) \in 0..Len(items)
    BY <2>1, <2>2, ItemsAtKeeps
  <2>4. \E f : Drawn(above, items, f)
    BY <2>1, <2>2, ItemsAtDrawn
  <2>. QED BY <1>2, <2>3, <2>4 DEF above
<1>. QED BY <1>1, <1>2

LEMMA QualityKeeps ==
  ASSUME NEW T, NEW items \in Seq(Scored(T))
  PROVE  /\ Quality(items) \in Seq(Scored(T)) /\ Len(Quality(items)) \in 0..Len(items)
         /\ \E f : Drawn(Quality(items), items, f)
<1>. DEFINE I == {i \in DOMAIN items : items[i].chunk.noise = "none"}
<1>1. Quality(items) = ItemsAt(items, I)
  BY DEF Quality, Kept
<1>2. I \in SUBSET (1..Len(items))
  OBVIOUS
<1>. HIDE DEF I
<1>3. Quality(items) \in Seq(Scored(T)) /\ Len(Quality(items)) \in 0..Len(items)
  BY <1>1, <1>2, ItemsAtKeeps
<1>4. \E f : Drawn(Quality(items), items, f)
  BY <1>1, <1>2, ItemsAtDrawn
<1>. QED BY <1>3, <1>4

\* The items in an order of their positions
By(items, R) == [k \in 1..Len(items) |-> items[Ranked(1..Len(items), R)[k]]]

LEMMA ByKeeps ==
  ASSUME NEW T, NEW items \in Seq(T), NEW R, StrictOrder(1..Len(items), R)
  PROVE  By(items, R) \in Seq(T) /\ Len(By(items, R)) = Len(items) /\ \E f : Drawn(By(items, R), items, f)
<1>. DEFINE n == Len(items)
            D == 1..n
            f == Ranked(D, R)
            sorted == By(items, R)
<1>1. n \in Nat /\ \A i \in D : items[i] \in T
  BY LenProperties, ElementOfSeq
<1>2. IsFiniteSet(D) /\ Cardinality(D) = n
  <2>. HIDE DEF n
  <2>. QED BY <1>1, FS_Interval
<1>3. sorted = [k \in D |-> items[f[k]]]
  BY DEF By
<1>4. StrictOrder(D, R)
  OBVIOUS
<1>. HIDE DEF D
<1>5. f \in [1..n -> D]
  <2>1. f \in [1..Cardinality(D) -> D]
    BY <1>2, <1>4, RankedInOrder
  <2>. QED BY <1>2, <2>1
<1>6. \A i, j \in 1..n : f[i] = f[j] => i = j
  <2>. SUFFICES ASSUME NEW i \in 1..n, NEW j \in 1..n, f[i] = f[j] PROVE i = j
    OBVIOUS
  <2>1. i \in 1..Cardinality(D) /\ j \in 1..Cardinality(D)
    BY <1>2
  <2>. QED BY <1>2, <1>4, <2>1, RankedOnce
<1>. HIDE DEF f, sorted
<1>7. sorted \in [1..n -> T] /\ \A k \in 1..n : sorted[k] = items[f[k]]
  BY <1>1, <1>3, <1>5 DEF D
<1>. HIDE DEF n
<1>8. sorted \in Seq(T) /\ Len(sorted) = n
  BY <1>1, <1>7, FunctionIsSeq
<1>9. Drawn(sorted, items, f)
  BY <1>5, <1>6, <1>7, <1>8 DEF Drawn, D, n
<1>. QED BY <1>8, <1>9 DEF sorted, n

\* What comes first by score, and by the order of _bound_evidence
ScoreOrder(items) ==
  {p \in (DOMAIN items) \X (DOMAIN items) :
     \/ items[p[1]].score > items[p[2]].score
     \/ ~(items[p[2]].score > items[p[1]].score) /\ p[1] < p[2]}
BoundedOrder(items) ==
  {p \in (DOMAIN items) \X (DOMAIN items) :
     \/ BoundOrder(items[p[1]], items[p[2]])
     \/ ~BoundOrder(items[p[2]], items[p[1]]) /\ p[1] < p[2]}
ByScore(items) == By(items, ScoreOrder(items))
Bounded(items) == By(items, BoundedOrder(items))

LEMMA ScoreOrderIsStrict ==
  ASSUME NEW T, NEW items \in Seq(Scored(T))
  PROVE  StrictOrder(1..Len(items), ScoreOrder(items))
<1>. DEFINE D == 1..Len(items)
<1>1. \A i \in D : items[i].score \in Int /\ i \in Int
  <2>1. \A i \in D : items[i] \in Scored(T) /\ i \in Int
    BY ElementOfSeq
  <2>. QED BY <2>1 DEF Scored
<1>2. \A i, j \in D : <<i, j>> \in ScoreOrder(items) <=>
        \/ items[i].score > items[j].score
        \/ ~(items[j].score > items[i].score) /\ i < j
  BY DEF ScoreOrder
<1>. DEFINE g(i) == items[i].score
<1>3. \A i \in D : g(i) \in Int /\ i \in Int
  BY <1>1
<1>4. \A i, j \in D : <<i, j>> \in ScoreOrder(items) <=> g(i) > g(j) \/ (~(g(j) > g(i)) /\ i < j)
  BY Zenon, <1>2
<1>. HIDE DEF D, g
<1>. QED BY <1>3, <1>4 DEF StrictOrder, D

LEMMA BoundedOrderIsStrict ==
  ASSUME NEW T \in SUBSET ChunkRecord, NEW items \in Seq(Scored(T))
  PROVE  StrictOrder(1..Len(items), BoundedOrder(items))
<1>. DEFINE D == 1..Len(items)
            g(i) == items[i].score
            u(i) == items[i].chunk.doc[1]
            q(i) == items[i].chunk.position
            Less(i, j) == g(i) > g(j) \/ (g(i) = g(j) /\ (u(i) < u(j) \/ (u(i) = u(j) /\ q(i) < q(j))))
<1>1. ASSUME NEW i \in D PROVE g(i) \in Int /\ u(i) \in Int /\ q(i) \in Int /\ i \in Int
  <2>0. items[i] \in Scored(T) /\ i \in Int
    BY ElementOfSeq
  <2>1. items[i].score \in Int /\ items[i].chunk \in ChunkRecord
    BY <2>0 DEF Scored
  <2>2. items[i].chunk.position \in Nat /\ items[i].chunk.doc \in Urls \X DOMAIN LengthOf
    BY <2>1 DEF ChunkRecord, Document
  <2>3. \A x \in Urls : x \in Int
    <3>1. Urls \subseteq Nat
      BY DiscoveryConstants
    <3>. QED BY <3>1
  <2>4. items[i].chunk.doc[1] \in Urls
    BY <2>2
  <2>5. u(i) \in Int
    <3>. HIDE DEF D
    <3>. QED BY Zenon, <2>3, <2>4
  <2>6. g(i) \in Int /\ q(i) \in Int
    BY <2>1, <2>2
  <2>. HIDE DEF g, u, q
  <2>. QED BY <2>0, <2>5, <2>6
<1>2. \A i, j \in D : BoundOrder(items[i], items[j]) <=> Less(i, j)
  BY DEF BoundOrder
<1>3. \A i, j \in D : <<i, j>> \in BoundedOrder(items) <=> Less(i, j) \/ (~Less(j, i) /\ i < j)
  <2>1. \A i, j \in D : <<i, j>> \in BoundedOrder(items) <=>
          BoundOrder(items[i], items[j]) \/ (~BoundOrder(items[j], items[i]) /\ i < j)
    BY DEF BoundedOrder
  <2>. HIDE DEF Less, D
  <2>. QED BY Zenon, <1>2, <2>1
<1>. HIDE DEF D, g, u, q
<1>. QED BY ONLY <1>1, <1>3 DEF StrictOrder, D

\* The order of the passages and the order of the evidence budget keep the chunks.
LEMMA ByScoreKeeps ==
  ASSUME NEW T, NEW items \in Seq(Scored(T))
  PROVE  /\ ByScore(items) \in Seq(Scored(T)) /\ Len(ByScore(items)) = Len(items)
         /\ \E f : Drawn(ByScore(items), items, f)
<1>. DEFINE R == ScoreOrder(items)
<1>1. StrictOrder(1..Len(items), R)
  BY ScoreOrderIsStrict
<1>. HIDE DEF R
<1>2. By(items, R) \in Seq(Scored(T)) /\ Len(By(items, R)) = Len(items) /\ \E f : Drawn(By(items, R), items, f)
  BY <1>1, ByKeeps
<1>. QED BY <1>2 DEF R, ByScore

LEMMA BoundedKeeps ==
  ASSUME NEW T \in SUBSET ChunkRecord, NEW items \in Seq(Scored(T))
  PROVE  /\ Bounded(items) \in Seq(Scored(T)) /\ Len(Bounded(items)) = Len(items)
         /\ \E f : Drawn(Bounded(items), items, f)
<1>. DEFINE R == BoundedOrder(items)
<1>1. StrictOrder(1..Len(items), R)
  BY BoundedOrderIsStrict
<1>. HIDE DEF R
<1>2. By(items, R) \in Seq(Scored(T)) /\ Len(By(items, R)) = Len(items) /\ \E f : Drawn(By(items, R), items, f)
  BY <1>1, ByKeeps
<1>. QED BY <1>2 DEF R, Bounded

\* These are the orders the model sorts by.
LEMMA SortedIs ==
  ASSUME NEW T, NEW items \in Seq(T)
  PROVE  /\ Sorted(items, BoundOrder) = Bounded(items)
         /\ Sorted(items, Higher) = ByScore(items)
<1>1. DOMAIN items = 1..Len(items)
  OBVIOUS
<1>2. Sorted(items, BoundOrder) = Bounded(items)
  BY <1>1 DEF Sorted, InOrder, Bounded, By, BoundedOrder
<1>3. Sorted(items, Higher) = ByScore(items)
  BY <1>1 DEF Sorted, InOrder, ByScore, By, ScoreOrder, Higher
<1>. QED BY <1>2, <1>3

-----------------------------------------------------------------------------
(* Cutting a text.                                                         *)

\* What the limits say
LEMMA Limits ==
  /\ ItemOverhead \in Nat /\ MaxItem \in Nat /\ MaxEvidence \in Nat /\ MaxPassages \in Nat
  /\ MaxRawItem \in Nat /\ MaxRawBytes \in Nat /\ MaxRawItems \in Nat
<1>1. {ItemOverhead, MaxItem, MaxEvidence, MaxPassages} \subseteq Nat
  BY EvidenceConstants
<1>2. {MaxRawItem, MaxRawBytes, MaxRawItems} \subseteq Nat
  BY EvidenceConstants
<1>. QED BY <1>1, <1>2

LEMMA ScoredIs ==
  ASSUME NEW ps, NEW item \in Scored(ChunksFrom(ps))
  PROVE  /\ item.chunk \in ChunkRecord /\ Genuine(item.chunk) /\ FromPage(item.chunk, ps)
         /\ item.score \in Int /\ item = [chunk |-> item.chunk, score |-> item.score]
         /\ item.chunk.words \in Nat /\ item.chunk.tokens \in Nat /\ SizeOf(item.chunk) \in Nat
         /\ Bytes(item) \in Nat /\ Bytes(item) = ItemOverhead + item.chunk.words
<1>1. item.chunk \in ChunksFrom(ps) /\ item.score \in Int /\ item = [chunk |-> item.chunk, score |-> item.score]
  BY DEF Scored
<1>2. item.chunk \in ChunkRecord /\ Genuine(item.chunk) /\ FromPage(item.chunk, ps)
  BY <1>1 DEF ChunksFrom
<1>3. item.chunk.words \in Nat /\ item.chunk.tokens \in Nat
  BY <1>2 DEF ChunkRecord
<1>4. SizeOf(item.chunk) \in Nat
  BY <1>3 DEF SizeOf
<1>5. Bytes(item) \in Nat
  BY <1>3, Limits DEF Bytes
<1>. QED BY <1>1, <1>2, <1>3, <1>4, <1>5 DEF Bytes

\* The identity of a text follows the cut.
LEMMA TruncateKeeps ==
  ASSUME NEW ps, NEW item \in Scored(ChunksFrom(ps)), NEW n \in Nat \ {0}, n <= item.chunk.words,
         NEW tokens \in Nat
  PROVE  LET cut == Truncate(item, n, tokens)
         IN cut \in Scored(ChunksFrom(ps)) /\ cut.chunk.words = n /\ cut.chunk.tokens = tokens
<1>. DEFINE c == item.chunk
            end == IF c.verbatim THEN c.start + n ELSE None
            evidence == IF c.verbatim THEN EvidenceId(c.doc, c.start, end) ELSE None
            d == [c EXCEPT !.words = n, !.tokens = tokens, !.end = end, !.evidence = evidence]
            cut == Truncate(item, n, tokens)
<1>1. /\ c \in ChunkRecord /\ Genuine(c) /\ FromPage(c, ps) /\ item.score \in Int
      /\ item = [chunk |-> c, score |-> item.score] /\ c.words \in Nat
  BY ScoredIs
<1>2. cut = [item EXCEPT !.chunk = d]
  BY DEF Truncate
<1>3. cut = [chunk |-> d, score |-> item.score]
  <2>. HIDE DEF d, cut, c
  <2>. QED BY <1>1, <1>2
<1>4. c.verbatim => /\ c.start \in Nat /\ end \in Nat /\ c.start < end /\ end <= LengthOf[c.doc[2]]
                    /\ n = end - c.start /\ evidence = EvidenceId(c.doc, c.start, end)
                    /\ EvidenceId(c.doc, c.start, end) \in Evidenced
  <2>. SUFFICES ASSUME c.verbatim
                PROVE  /\ c.start \in Nat /\ end \in Nat /\ c.start < end /\ end <= LengthOf[c.doc[2]]
                       /\ n = end - c.start /\ evidence = EvidenceId(c.doc, c.start, end)
                       /\ EvidenceId(c.doc, c.start, end) \in Evidenced
    OBVIOUS
  <2>1. /\ c.start \in Nat /\ c.end \in Nat /\ c.start < c.end /\ c.end <= LengthOf[c.doc[2]]
        /\ c.words = c.end - c.start
    BY <1>1 DEF Genuine
  <2>2. c.doc \in Document /\ LengthOf[c.doc[2]] \in Nat
    <3>1. c.doc \in Document
      BY <1>1 DEF ChunkRecord
    <3>2. c.doc[2] \in DOMAIN LengthOf
      BY <3>1 DEF Document
    <3>. QED BY <3>1, <3>2, EvidenceConstants
  <2>3. end = c.start + n /\ evidence = EvidenceId(c.doc, c.start, end)
    OBVIOUS
  <2>. HIDE DEF end, evidence
  <2>4. end \in Nat /\ c.start < end /\ end <= LengthOf[c.doc[2]] /\ n = end - c.start
    BY <2>1, <2>2, <2>3
  <2>5. EvidenceId(c.doc, c.start, end) \in Evidenced
    BY <2>1, <2>2, <2>4 DEF EvidenceId, Evidenced
  <2>. QED BY <2>1, <2>3, <2>4, <2>5
<1>5. ~c.verbatim => c.start = None /\ end = None /\ evidence = None
  BY <1>1 DEF Genuine
<1>6. end \in Nat \cup {None} /\ evidence \in Evidenced \cup {None}
  BY <1>4, <1>5
<1>. HIDE DEF end, evidence
<1>7. d \in ChunkRecord
  <2>. HIDE DEF c
  <2>. QED BY <1>1, <1>6 DEF ChunkRecord
<1>8. /\ d.words = n /\ d.tokens = tokens /\ d.end = end /\ d.evidence = evidence
      /\ d.verbatim = c.verbatim /\ d.start = c.start /\ d.doc = c.doc /\ d.source = c.source
  <2>. HIDE DEF c
  <2>. QED BY <1>1 DEF ChunkRecord
<1>. HIDE DEF d, c
<1>9. Genuine(d)
  BY <1>4, <1>5, <1>8 DEF Genuine
<1>10. FromPage(d, ps)
  BY <1>1, <1>8 DEF FromPage
<1>11. d \in ChunksFrom(ps)
  BY <1>7, <1>9, <1>10 DEF ChunksFrom
<1>12. cut \in Scored(ChunksFrom(ps)) /\ cut.chunk = d
  BY <1>1, <1>3, <1>11 DEF Scored
<1>. QED BY <1>8, <1>12

\* An item that is cut to the limit of an item is no larger.
LEMMA FitKeeps ==
  ASSUME NEW ps, NEW item \in Scored(ChunksFrom(ps)), Fit(item) # None
  PROVE  /\ Fit(item) \in Scored(ChunksFrom(ps))
         /\ Fit(item).chunk.words <= item.chunk.words /\ SizeOf(Fit(item).chunk) <= SizeOf(item.chunk)
<1>. DEFINE fits == {n \in 1..(item.chunk.words - 1) : ItemOverhead + n <= MaxItem}
            n == CHOOSE m \in fits : \A k \in fits : k <= m
<1>1. /\ item.chunk.words \in Nat /\ item.chunk.tokens \in Nat /\ SizeOf(item.chunk) \in Nat
      /\ Bytes(item) \in Nat
  BY ScoredIs
<1>2. CASE Bytes(item) <= MaxItem
  <2>1. Fit(item) = item
    BY <1>2 DEF Fit
  <2>. QED BY <1>1, <2>1
<1>3. CASE ~(Bytes(item) <= MaxItem)
  <2>0. Bytes(item) > MaxItem
    BY <1>1, <1>3, Limits
  <2>1. fits # {} /\ Fit(item) = Truncate(item, n, n)
    <3>. DEFINE F == CASE Bytes(item) <= MaxItem -> item
                       [] Bytes(item) > MaxItem /\ fits = {} -> None
                       [] OTHER -> Truncate(item, n, n)
    <3>1. Fit(item) = F
      BY DEF Fit
    <3>. HIDE DEF fits, n
    <3>2. fits # {}
      BY <1>3, <2>0, <3>1
    <3>. QED BY <1>3, <3>1, <3>2
  <2>2. \E m \in fits : \A k \in fits : k <= m
    <3>. DEFINE w == item.chunk.words - 1
                r == MaxItem - ItemOverhead
                top == IF w <= r THEN w ELSE r
    <3>1. w \in Int /\ r \in Int /\ \A k : k \in fits <=> k \in 1..w /\ k <= r
      BY <1>1, Limits
    <3>2. PICK x : x \in fits
      BY <2>1
    <3>. HIDE DEF w, r, fits
    <3>3. top \in fits /\ \A k \in fits : k <= top
      BY <3>1, <3>2
    <3>. HIDE DEF top
    <3>. QED BY <3>3
  <2>3. n \in fits
    <3>. HIDE DEF fits
    <3>. QED BY <2>2
  <2>4. n \in Nat \ {0} /\ n <= item.chunk.words
    <3>1. n \in 1..(item.chunk.words - 1)
      BY <2>3
    <3>. HIDE DEF n, fits
    <3>. QED BY <1>1, <3>1
  <2>. HIDE DEF n, fits
  <2>5. /\ Fit(item) \in Scored(ChunksFrom(ps))
        /\ Fit(item).chunk.words = n /\ Fit(item).chunk.tokens = n
    BY <2>1, <2>4, TruncateKeeps
  <2>6. SizeOf(Fit(item).chunk) = n /\ n <= SizeOf(item.chunk)
    BY <1>1, <2>4, <2>5 DEF SizeOf
  <2>. QED BY <2>4, <2>5, <2>6
<1>. QED BY <1>2, <1>3

\* An item that is cut to what the request leaves has no more tokens than that.
LEMMA CutKeeps ==
  ASSUME NEW ps, NEW item \in Scored(ChunksFrom(ps)), NEW budget \in Int,
         CutToBudget(item, budget) # None
  PROVE  LET cut == CutToBudget(item, budget) IN
         /\ cut \in Scored(ChunksFrom(ps)) /\ cut.chunk.tokens <= budget
         /\ cut.chunk.words <= item.chunk.words
<1>. DEFINE c == item.chunk
            cut == CutToBudget(item, budget)
            F == CASE c.tokens <= budget -> item
                   [] c.tokens > budget /\ (budget < 1 \/ c.words # c.tokens) -> None
                   [] OTHER -> Truncate(item, budget, budget)
<1>1. c.words \in Nat /\ c.tokens \in Nat
  BY ScoredIs
<1>2. cut = F
  BY DEF CutToBudget
<1>. HIDE DEF cut, c
<1>3. CASE c.tokens <= budget
  <2>1. cut = item
    <3>1. ~(c.tokens > budget)
      BY <1>1, <1>3
    <3>. QED BY <1>2, <1>3, <3>1
  <2>. QED BY <1>1, <1>3, <2>1 DEF cut, c
<1>4. CASE ~(c.tokens <= budget)
  <2>1. c.tokens > budget
    BY <1>1, <1>4
  <2>2. ~(budget < 1) /\ c.words = c.tokens
    BY <1>2, <1>4, <2>1 DEF cut
  <2>3. cut = Truncate(item, budget, budget)
    BY <1>2, <1>4, <2>1, <2>2
  <2>4. budget \in Nat \ {0} /\ budget <= c.words
    BY <1>1, <2>1, <2>2
  <2>5. cut \in Scored(ChunksFrom(ps)) /\ cut.chunk.words = budget /\ cut.chunk.tokens = budget
    BY <2>3, <2>4, TruncateKeeps DEF c
  <2>. QED BY <2>4, <2>5 DEF cut, c
<1>. QED BY <1>3, <1>4

\* One that fits is not cut.
LEMMA CutNothing ==
  ASSUME NEW item, NEW budget \in Int, item.chunk.tokens \in Int, item.chunk.tokens <= budget
  PROVE  CutToBudget(item, budget) = item
<1>1. ~(item.chunk.tokens > budget)
  OBVIOUS
<1>. QED BY <1>1 DEF CutToBudget

-----------------------------------------------------------------------------
(* The budget of the evidence.                                             *)

\* Sums of numbers grow.
LEMMA SumsGrow ==
  ASSUME NEW w \in Seq(Nat), NEW h, Sums(h, w)
  PROVE  \A n \in 0..Len(w) : h[n] \in Nat /\ h[n] <= h[Len(w)]
<1>. DEFINE N == Len(w)
            hs == [n \in 0..N |-> h[n]]
            back == [k \in 0..N |-> h[N - k]]
            B == {x \in Nat : x <= h[N]}
<1>1. N \in Nat /\ \A i \in 1..N : w[i] \in Nat
  BY LenProperties, ElementOfSeq
<1>2. h[0] = 0 /\ \A n \in 1..N : h[n] = h[n - 1] + w[n]
  BY DEF Sums
<1>. HIDE DEF N
<1>3. \A n \in 0..N : hs[n] \in Nat
  <2>1. hs[0] \in Nat
    BY <1>1, <1>2
  <2>2. ASSUME NEW n \in 1..N, hs[n - 1] \in Nat PROVE hs[n] \in Nat
    <3>1. n \in 0..N /\ n - 1 \in 0..N
      BY <1>1
    <3>2. h[n - 1] \in Nat /\ h[n] = h[n - 1] + w[n] /\ w[n] \in Nat
      BY <1>1, <1>2, <2>2, <3>1
    <3>. QED BY <3>1, <3>2
  <2>. HIDE DEF hs
  <2>. QED BY <1>1, <2>1, <2>2, LoopStays
<1>4. \A n \in 0..N : h[n] \in Nat
  BY <1>3
<1>. HIDE DEF hs
<1>5. \A k \in 0..N : back[k] \in B
  <2>1. back[0] \in B
    <3>1. N \in 0..N /\ 0 \in 0..N /\ N - 0 = N
      BY <1>1
    <3>. QED BY <1>4, <3>1
  <2>2. ASSUME NEW k \in 1..N, back[k - 1] \in B PROVE back[k] \in B
    <3>1. /\ k \in 0..N /\ k - 1 \in 0..N /\ N - (k - 1) \in 1..N
          /\ (N - (k - 1)) - 1 = N - k /\ N - k \in 0..N
      BY <1>1
    <3>2. h[N - (k - 1)] \in Nat /\ h[N - (k - 1)] <= h[N]
      BY <2>2, <3>1
    <3>3. h[N - (k - 1)] = h[N - k] + w[N - (k - 1)] /\ w[N - (k - 1)] \in Nat
      BY <1>1, <1>2, <3>1
    <3>4. h[N - k] \in Nat /\ N \in 0..N
      BY <1>1, <1>4, <3>1
    <3>5. h[N] \in Nat
      BY <1>4, <3>4
    <3>6. h[N - k] <= h[N]
      <4>. DEFINE x == h[N - (k - 1)]
                  y == h[N - k]
                  d == w[N - (k - 1)]
                  z == h[N]
      <4>1. x <= z /\ x = y + d /\ d \in Nat /\ y \in Nat /\ z \in Nat
        BY <3>2, <3>3, <3>4, <3>5
      <4>. HIDE DEF x, y, d, z
      <4>2. y <= z
        BY <4>1
      <4>. QED BY <4>2 DEF y, z
    <3>. QED BY <3>1, <3>4, <3>6
  <2>. HIDE DEF back, B
  <2>. QED BY <1>1, <2>1, <2>2, LoopStays
<1>6. ASSUME NEW n \in 0..N PROVE h[n] \in Nat /\ h[n] <= h[N]
  <2>1. N - n \in 0..N /\ N - (N - n) = n
    BY <1>1
  <2>2. back[N - n] \in B
    BY <1>5, <2>1
  <2>. QED BY <2>1, <2>2
<1>. QED BY <1>6 DEF N

\* One number more
LEMMA TotalOfNumbers ==
  ASSUME NEW v \in Seq(Nat)
  PROVE  /\ Total(v) \in Nat /\ v \in Seq(Int)
         /\ \A w \in Seq(Nat) : (Len(w) = Len(v) + 1 /\ \A i \in 1..Len(v) : w[i] = v[i])
              => Total(w) = Total(v) + w[Len(w)]
<1>1. ASSUME NEW u \in Seq(Nat) PROVE u \in Seq(Int)
  <2>1. u \in [1..Len(u) -> Int] /\ Len(u) \in Nat
    <3>1. u \in [1..Len(u) -> Nat] /\ Len(u) \in Nat
      OBVIOUS
    <3>. QED BY <3>1
  <2>. QED BY <2>1
<1>2. PICK h : Sums(h, v) /\ Total(v) = h[Len(v)]
  <2>1. Len(v) \in Nat
    OBVIOUS
  <2>. QED BY <2>1, TotalSums
<1>3. Total(v) \in Nat
  <2>1. Len(v) \in 0..Len(v)
    BY LenProperties
  <2>. QED BY <1>2, <2>1, SumsGrow
<1>4. ASSUME NEW w \in Seq(Nat), Len(w) = Len(v) + 1, \A i \in 1..Len(v) : w[i] = v[i]
      PROVE  Total(w) = Total(v) + w[Len(w)]
  BY <1>1, <1>4, TotalOfOneMore
<1>. QED BY <1>1, <1>3, <1>4

\* What the items weigh
BytesOf(items) == [i \in 1..Len(items) |-> Bytes(items[i])]
SizesOf(items) == [i \in 1..Len(items) |-> SizeOf(items[i].chunk)]

LEMMA WeightsAre ==
  ASSUME NEW ps, NEW items \in Seq(Scored(ChunksFrom(ps)))
  PROVE  /\ BytesOf(items) \in Seq(Nat) /\ Len(BytesOf(items)) = Len(items)
         /\ SizesOf(items) \in Seq(Nat) /\ Len(SizesOf(items)) = Len(items)
         /\ Total(BytesOf(items)) \in Nat /\ Total(SizesOf(items)) \in Nat
         /\ \A i \in 1..Len(items) : BytesOf(items)[i] = Bytes(items[i]) /\ SizesOf(items)[i] = SizeOf(items[i].chunk)
<1>1. Len(items) \in Nat /\ \A i \in 1..Len(items) : items[i] \in Scored(ChunksFrom(ps))
  BY LenProperties, ElementOfSeq
<1>2. \A i \in 1..Len(items) : Bytes(items[i]) \in Nat /\ SizeOf(items[i].chunk) \in Nat
  BY <1>1, ScoredIs
<1>3. BytesOf(items) \in [1..Len(items) -> Nat] /\ SizesOf(items) \in [1..Len(items) -> Nat]
  BY <1>2 DEF BytesOf, SizesOf
<1>4. /\ BytesOf(items) \in Seq(Nat) /\ Len(BytesOf(items)) = Len(items)
      /\ SizesOf(items) \in Seq(Nat) /\ Len(SizesOf(items)) = Len(items)
  BY <1>1, <1>3, FunctionIsSeq
<1>5. Total(BytesOf(items)) \in Nat /\ Total(SizesOf(items)) \in Nat
  BY <1>4, TotalOfNumbers
<1>. QED BY <1>4, <1>5 DEF BytesOf, SizesOf

LEMMA OneMoreWeighs ==
  ASSUME NEW ps, NEW items \in Seq(Scored(ChunksFrom(ps))), NEW s \in Scored(ChunksFrom(ps))
  PROVE  /\ Append(items, s) \in Seq(Scored(ChunksFrom(ps))) /\ Len(Append(items, s)) = Len(items) + 1
         /\ Total(BytesOf(Append(items, s))) = Total(BytesOf(items)) + Bytes(s)
         /\ Total(SizesOf(Append(items, s))) = Total(SizesOf(items)) + SizeOf(s.chunk)
<1>. DEFINE S == Scored(ChunksFrom(ps))
            more == Append(items, s)
            n == Len(items)
<1>. HIDE DEF S
<1>0. items \in Seq(S) /\ s \in S
  BY DEF S
<1>1. more \in Seq(S) /\ Len(more) = n + 1 /\ n \in Nat
  BY <1>0
<1>2. more[n + 1] = s /\ \A i \in 1..n : more[i] = items[i]
  BY <1>0
<1>. HIDE DEF more, n
<1>3. /\ BytesOf(more) \in Seq(Nat) /\ Len(BytesOf(more)) = n + 1
      /\ SizesOf(more) \in Seq(Nat) /\ Len(SizesOf(more)) = n + 1
      /\ \A i \in 1..n + 1 : BytesOf(more)[i] = Bytes(more[i]) /\ SizesOf(more)[i] = SizeOf(more[i].chunk)
  BY <1>1, WeightsAre DEF S
<1>4. /\ BytesOf(items) \in Seq(Nat) /\ Len(BytesOf(items)) = n
      /\ SizesOf(items) \in Seq(Nat) /\ Len(SizesOf(items)) = n
      /\ \A i \in 1..n : BytesOf(items)[i] = Bytes(items[i]) /\ SizesOf(items)[i] = SizeOf(items[i].chunk)
  BY WeightsAre DEF n
<1>5. n + 1 \in 1..n + 1 /\ \A i \in 1..n : i \in 1..n + 1
  BY <1>1
<1>6. /\ \A i \in 1..n : BytesOf(more)[i] = BytesOf(items)[i] /\ SizesOf(more)[i] = SizesOf(items)[i]
      /\ BytesOf(more)[n + 1] = Bytes(s) /\ SizesOf(more)[n + 1] = SizeOf(s.chunk)
  BY <1>2, <1>3, <1>4, <1>5
<1>7. Total(BytesOf(more)) = Total(BytesOf(items)) + Bytes(s)
  <2>. DEFINE v == BytesOf(items)
              w == BytesOf(more)
  <2>1. /\ v \in Seq(Nat) /\ w \in Seq(Nat) /\ Len(w) = Len(v) + 1 /\ \A i \in 1..Len(v) : w[i] = v[i]
        /\ w[Len(w)] = Bytes(s)
    BY <1>3, <1>4, <1>6
  <2>. HIDE DEF v, w
  <2>2. Total(w) = Total(v) + w[Len(w)]
    BY <2>1, TotalOfNumbers
  <2>. QED BY <2>1, <2>2 DEF v, w
<1>8. Total(SizesOf(more)) = Total(SizesOf(items)) + SizeOf(s.chunk)
  <2>. DEFINE v == SizesOf(items)
              w == SizesOf(more)
  <2>1. /\ v \in Seq(Nat) /\ w \in Seq(Nat) /\ Len(w) = Len(v) + 1 /\ \A i \in 1..Len(v) : w[i] = v[i]
        /\ w[Len(w)] = SizeOf(s.chunk)
    BY <1>3, <1>4, <1>6
  <2>. HIDE DEF v, w
  <2>2. Total(w) = Total(v) + w[Len(w)]
    BY <2>1, TotalOfNumbers
  <2>. QED BY <2>1, <2>2 DEF v, w
<1>. QED BY <1>1, <1>7, <1>8 DEF more, n, S

\* Some of the items weigh no more than all.
LEMMA DrawnWeighs ==
  ASSUME NEW ps, NEW items \in Seq(Scored(ChunksFrom(ps))), NEW some \in Seq(Scored(ChunksFrom(ps))),
         NEW f, Drawn(some, items, f)
  PROVE  /\ Total(BytesOf(some)) <= Total(BytesOf(items))
         /\ Total(SizesOf(some)) <= Total(SizesOf(items))
<1>. DEFINE m == Len(some)
            n == Len(items)
<1>1. /\ f \in [1..m -> 1..n] /\ \A i, j \in 1..m : f[i] = f[j] => i = j
      /\ \A i \in 1..m : some[i] = items[f[i]]
  BY DEF Drawn
<1>2. /\ BytesOf(items) \in Seq(Nat) /\ Len(BytesOf(items)) = n
      /\ SizesOf(items) \in Seq(Nat) /\ Len(SizesOf(items)) = n
      /\ \A i \in 1..n : BytesOf(items)[i] = Bytes(items[i]) /\ SizesOf(items)[i] = SizeOf(items[i].chunk)
  BY WeightsAre
<1>3. m \in Nat
  OBVIOUS
<1>4. \A i \in 1..m : f[i] \in 1..n
  BY <1>1
<1>5. BytesOf(some) = [k \in 1..m |-> BytesOf(items)[f[k]]]
  BY <1>1, <1>2, <1>4 DEF BytesOf
<1>6. SizesOf(some) = [k \in 1..m |-> SizesOf(items)[f[k]]]
  BY <1>1, <1>2, <1>4 DEF SizesOf
<1>. HIDE DEF m, n
<1>7. Total(BytesOf(some)) <= Total(BytesOf(items))
  <2>. DEFINE v == BytesOf(items)
              w == BytesOf(some)
  <2>1. v \in Seq(Nat) /\ Len(v) = n /\ w = [k \in 1..m |-> v[f[k]]]
    BY <1>2, <1>5
  <2>. HIDE DEF v, w
  <2>2. f \in [1..m -> 1..Len(v)]
    BY <1>1, <2>1
  <2>3. Total(w) <= Total(v)
    BY <1>1, <1>3, <2>1, <2>2, TotalOfSome
  <2>. QED BY <2>3 DEF v, w
<1>8. Total(SizesOf(some)) <= Total(SizesOf(items))
  <2>. DEFINE v == SizesOf(items)
              w == SizesOf(some)
  <2>1. v \in Seq(Nat) /\ Len(v) = n /\ w = [k \in 1..m |-> v[f[k]]]
    BY <1>2, <1>6
  <2>. HIDE DEF v, w
  <2>2. f \in [1..m -> 1..Len(v)]
    BY <1>1, <2>1
  <2>3. Total(w) <= Total(v)
    BY <1>1, <1>3, <2>1, <2>2, TotalOfSome
  <2>. QED BY <2>3 DEF v, w
<1>. QED BY <1>7, <1>8

\* One item of _bound_evidence
Unbound == [kept |-> <<>>, bytes |-> 2, omitted |-> 0]
MoreBytes(b, s) == Bytes(Fit(s)) + IF b.kept = <<>> THEN 0 ELSE 1
BoundStep(b, s) ==
  IF Fit(s) = None THEN [b EXCEPT !.omitted = @ + 1]
  ELSE IF Len(b.kept) >= MaxPassages \/ b.bytes + MoreBytes(b, s) > MaxEvidence
       THEN [b EXCEPT !.omitted = @ + 1]
       ELSE [b EXCEPT !.kept = Append(@, Fit(s)), !.bytes = @ + MoreBytes(b, s)]

\* The values a loop goes through.
BoundRun(h, items) ==
  h[0] = Unbound /\ \A n \in 1..Len(items) : h[n] = BoundStep(h[n - 1], items[n])

\* The items are kept or left out one after the other.
LEMMA BoundLoop ==
  ASSUME NEW items, Len(items) \in Nat
  PROVE  \E h : BoundRun(h, items) /\ Looped(BoundStep, Unbound, items) = h[Len(items)]
<1>. DEFINE N == Len(items)
            Row(h, m) == [n \in 0..m |-> IF n = 0 THEN Unbound ELSE BoundStep(h[n - 1], items[n])]
            K == {m \in Nat : \E h : h = Row(h, m)}
            h0 == CHOOSE h : h = Row(h, N)
<1>1. Looped(BoundStep, Unbound, items) = h0[N]
  BY DEF Looped
<1>2. N \in Nat
  OBVIOUS
<1>. HIDE DEF N
<1>3. 0 \in K
  <2>1. [n \in 0..0 |-> Unbound] = Row([n \in 0..0 |-> Unbound], 0)
    OBVIOUS
  <2>. QED BY <2>1
<1>4. ASSUME NEW m \in Nat, m \in K PROVE m + 1 \in K
  <2>1. PICK g : g = Row(g, m)
    BY <1>4
  <2>. DEFINE last == BoundStep(g[m], items[m + 1])
              h == [n \in 0..m + 1 |-> IF n = m + 1 THEN last ELSE g[n]]
  <2>2. ASSUME NEW n \in 0..m + 1
        PROVE  h[n] = IF n = 0 THEN Unbound ELSE BoundStep(h[n - 1], items[n])
    <3>1. CASE n = m + 1
      <4>1. h[n] = last /\ h[n - 1] = g[m] /\ n # 0
        BY <3>1
      <4>2. last = BoundStep(g[m], items[n])
        BY <3>1
      <4>. HIDE DEF h, last
      <4>. QED BY <4>1, <4>2
    <3>2. CASE n # m + 1
      <4>1. n \in 0..m /\ h[n] = g[n] /\ (n # 0 => n - 1 \in 0..m /\ h[n - 1] = g[n - 1])
        BY <3>2
      <4>2. g[n] = IF n = 0 THEN Unbound ELSE BoundStep(g[n - 1], items[n])
        BY <2>1, <4>1
      <4>. HIDE DEF h
      <4>. QED BY <4>1, <4>2
    <3>. QED BY <3>1, <3>2
  <2>3. h = Row(h, m + 1)
    <3>. HIDE DEF last
    <3>. QED BY <2>2
  <2>. HIDE DEF h, Row
  <2>. QED BY <2>3
<1>5. N \in K
  <2>. HIDE DEF K
  <2>1. Nat \subseteq K
    BY <1>3, <1>4, SetInduction
  <2>. QED BY <1>2, <2>1
<1>6. h0 = Row(h0, N)
  <2>. HIDE DEF Row
  <2>. QED BY <1>5
<1>. HIDE DEF h0
<1>7. h0[0] = Unbound
  BY <1>2, <1>6
<1>8. ASSUME NEW n \in 1..N PROVE h0[n] = BoundStep(h0[n - 1], items[n])
  <2>1. n \in 0..N /\ n # 0
    BY <1>2
  <2>. QED BY <1>6, <2>1
<1>. QED BY <1>1, <1>7, <1>8 DEF BoundRun, N


LEMMA BoundIs ==
  ASSUME NEW T, NEW scored \in Seq(T)
  PROVE  Bound(scored) = Looped(BoundStep, Unbound, Bounded(scored))
<1>1. Sorted(scored, BoundOrder) = Bounded(scored)
  BY SortedIs
<1>. QED BY <1>1 DEF Bound, Looped, BoundStep, Unbound, MoreBytes

\* After n items of a total size x: what is kept is within the limits, and the rest is counted.
Within(b, x, n, ps) ==
  /\ Len(b.kept) <= MaxPassages /\ Len(b.kept) + b.omitted = n
  /\ Total(BytesOf(b.kept)) <= b.bytes /\ (b.kept = <<>> \/ b.bytes <= MaxEvidence)
  /\ Total(SizesOf(b.kept)) <= x
BoundState(ps) == [kept : Seq(Scored(ChunksFrom(ps))), bytes : Nat, omitted : Nat]

LEMMA UnboundIsBound ==
  ASSUME NEW ps
  PROVE  Unbound \in BoundState(ps) /\ Within(Unbound, 0, 0, ps)
<1>. DEFINE none == Unbound.kept
<1>1. none = <<>> /\ Unbound.bytes = 2 /\ Unbound.omitted = 0
  BY DEF Unbound
<1>2. BytesOf(<<>>) = <<>> /\ SizesOf(<<>>) = <<>> /\ Len(<<>>) = 0
  BY DEF BytesOf, SizesOf
<1>3. Total(BytesOf(none)) = 0 /\ Total(SizesOf(none)) = 0 /\ Len(none) = 0
  BY <1>1, <1>2, TotalOfNothing
<1>4. Unbound \in BoundState(ps)
  <2>1. <<>> \in Seq(Scored(ChunksFrom(ps)))
    OBVIOUS
  <2>. QED BY <2>1, Zenon DEF Unbound, BoundState
<1>. HIDE DEF none
<1>5. Within(Unbound, 0, 0, ps)
  BY <1>1, <1>3, Limits DEF Within, none
<1>. QED BY <1>4, <1>5

LEMMA BoundStepKeeps ==
  ASSUME NEW ps, NEW b \in BoundState(ps), NEW x \in Int, NEW n \in Nat, Within(b, x, n, ps),
         NEW s \in Scored(ChunksFrom(ps))
  PROVE  BoundStep(b, s) \in BoundState(ps) /\ Within(BoundStep(b, s), x + SizeOf(s.chunk), n + 1, ps)
<1>. DEFINE out == [b EXCEPT !.omitted = @ + 1]
            more == MoreBytes(b, s)
            fitted == Fit(s)
            longer == Append(b.kept, fitted)
            bytes == b.bytes + more
            in == [b EXCEPT !.kept = longer, !.bytes = bytes]
            S == Scored(ChunksFrom(ps))
            y == SizeOf(s.chunk)
            len == Len(b.kept)
            tb == Total(BytesOf(b.kept))
            ts == Total(SizesOf(b.kept))
            omitted == b.omitted
            had == b.bytes
<1>1. /\ b.kept \in Seq(S) /\ had \in Nat /\ omitted \in Nat
      /\ b = [kept |-> b.kept, bytes |-> b.bytes, omitted |-> b.omitted] /\ len \in Nat
  BY DEF BoundState
<1>2. len <= MaxPassages /\ len + omitted = n /\ tb <= had /\ (b.kept = <<>> \/ had <= MaxEvidence) /\ ts <= x
  BY DEF Within
<1>3. y \in Nat
  BY ScoredIs
<1>4. tb \in Nat /\ ts \in Nat
  BY <1>1, WeightsAre
<1>5. BoundStep(b, s) = out \/ (BoundStep(b, s) = in /\ fitted # None /\ ~(len >= MaxPassages)
                                /\ ~(bytes > MaxEvidence))
  BY Zenon DEF BoundStep
<1>. HIDE DEF S, y, more, fitted, len, tb, ts
<1>6. out \in BoundState(ps) /\ Within(out, x + y, n + 1, ps)
  <2>1. out = [kept |-> b.kept, bytes |-> b.bytes, omitted |-> b.omitted + 1]
    BY <1>1
  <2>2. out.kept = b.kept /\ out.bytes = had /\ out.omitted = omitted + 1
    BY <2>1
  <2>3. out \in BoundState(ps)
    BY <1>1, <2>1 DEF BoundState, S
  <2>. HIDE DEF out, omitted, had
  <2>4. len + (omitted + 1) = n + 1 /\ ts <= x + y
    BY <1>1, <1>2, <1>3, <1>4
  <2>5. Within(out, x + y, n + 1, ps)
    BY <1>2, <2>2, <2>4 DEF Within, len, tb, ts
  <2>. QED BY <2>3, <2>5
<1>7. ASSUME fitted # None, ~(len >= MaxPassages), ~(bytes > MaxEvidence)
      PROVE  in \in BoundState(ps) /\ Within(in, x + y, n + 1, ps)
  <2>1. in = [kept |-> longer, bytes |-> bytes, omitted |-> omitted]
    <3>1. b = [kept |-> b.kept, bytes |-> b.bytes, omitted |-> b.omitted]
      BY <1>1
    <3>. DEFINE b1 == [b EXCEPT !.kept = longer]
    <3>. HIDE DEF longer, bytes
    <3>2. b1 = [kept |-> longer, bytes |-> b.bytes, omitted |-> b.omitted]
      BY <3>1
    <3>3. in = [b1 EXCEPT !.bytes = bytes]
      BY <3>1
    <3>. HIDE DEF b1, in
    <3>. QED BY <3>2, <3>3
  <2>2. fitted \in S /\ SizeOf(fitted.chunk) <= y
    BY <1>7, FitKeeps DEF fitted, S, y
  <2>3. Bytes(fitted) \in Nat /\ SizeOf(fitted.chunk) \in Nat
    BY <2>2, ScoredIs DEF S
  <2>4. more \in Nat /\ Bytes(fitted) <= more
    BY <2>3 DEF more, MoreBytes, fitted
  <2>5. /\ longer \in Seq(S) /\ Len(longer) = len + 1
        /\ Total(BytesOf(longer)) = tb + Bytes(fitted)
        /\ Total(SizesOf(longer)) = ts + SizeOf(fitted.chunk)
    BY <1>1, <2>2, OneMoreWeighs DEF S, len, tb, ts
  <2>6. bytes \in Nat /\ bytes = had + more
    BY <1>1, <2>4
  <2>. HIDE DEF longer, bytes, omitted, had
  <2>7. in.kept = longer /\ in.bytes = bytes /\ in.omitted = omitted
    BY <2>1
  <2>8. in \in BoundState(ps)
    BY <1>1, <2>1, <2>5, <2>6 DEF BoundState, S
  <2>. HIDE DEF in
  <2>9. len + 1 <= MaxPassages /\ (len + 1) + omitted = n + 1
    <3>1. len \in Nat /\ omitted \in Nat /\ len + omitted = n /\ ~(len >= MaxPassages) /\ MaxPassages \in Nat
      BY <1>1, <1>2, <1>7, Limits
    <3>. QED BY <3>1
  <2>10. tb + Bytes(fitted) <= bytes /\ bytes <= MaxEvidence
    <3>1. /\ had \in Nat /\ tb <= had /\ tb \in Nat /\ ~(bytes > MaxEvidence) /\ MaxEvidence \in Nat
          /\ Bytes(fitted) \in Nat /\ more \in Nat /\ Bytes(fitted) <= more
          /\ bytes \in Nat /\ bytes = had + more
      BY <1>1, <1>2, <1>4, <1>7, <2>3, <2>4, <2>6, Limits
    <3>. QED BY <3>1
  <2>11. ts + SizeOf(fitted.chunk) <= x + y
    BY <1>2, <1>3, <1>4, <2>2, <2>3
  <2>12. Within(in, x + y, n + 1, ps)
    BY <2>5, <2>7, <2>9, <2>10, <2>11 DEF Within
  <2>. QED BY <2>8, <2>12
<1>. HIDE DEF out, in
<1>. QED BY <1>5, <1>6, <1>7 DEF y

\* The evidence is bounded: what is kept fits, and what does not is counted.
LEMMA BoundKeeps ==
  ASSUME NEW ps, NEW scored \in Seq(Scored(ChunksFrom(ps)))
  PROVE  LET b == Bound(scored) IN
         /\ b.kept \in Seq(Scored(ChunksFrom(ps))) /\ Len(b.kept) <= MaxPassages
         /\ b.omitted \in Nat /\ Len(b.kept) + b.omitted = Len(scored)
         /\ Total(BytesOf(b.kept)) <= MaxEvidence /\ Total(SizesOf(b.kept)) <= Total(SizesOf(scored))
<1>. DEFINE items == Bounded(scored)
            S == Scored(ChunksFrom(ps))
            N == Len(items)
            b == Bound(scored)
<1>0. ChunksFrom(ps) \in SUBSET ChunkRecord
  BY DEF ChunksFrom
<1>1. /\ items \in Seq(S) /\ N = Len(scored) /\ N \in Nat /\ \A i \in 1..N : items[i] \in S
      /\ \E f : Drawn(items, scored, f)
  <2>1. items \in Seq(S) /\ N = Len(scored) /\ \E f : Drawn(items, scored, f)
    BY <1>0, BoundedKeeps
  <2>. HIDE DEF items, S
  <2>. QED BY <2>1, LenProperties, ElementOfSeq
<1>2. Total(SizesOf(items)) <= Total(SizesOf(scored))
  BY <1>1, DrawnWeighs
<1>3. b = Looped(BoundStep, Unbound, items)
  BY BoundIs
<1>. HIDE DEF items, b
<1>4. PICK h : BoundRun(h, items) /\ b = h[N]
  BY <1>1, <1>3, BoundLoop
<1>5. /\ SizesOf(items) \in Seq(Nat) /\ Len(SizesOf(items)) = N
      /\ \A i \in 1..N : SizesOf(items)[i] = SizeOf(items[i].chunk)
  BY <1>1, WeightsAre
<1>6. PICK g : Sums(g, SizesOf(items)) /\ Total(SizesOf(items)) = g[N]
  BY <1>1, <1>5, TotalSums
<1>. DEFINE all == [n \in 0..N |-> <<h[n], g[n], n>>]
            Good(y, x, n) == Within(y, x, n, ps)
            B == {p \in BoundState(ps) \X Int \X Nat : Good(p[1], p[2], p[3])}
<1>. HIDE DEF Good, N
<1>7. \A n \in 0..N : all[n] \in B
  <2>1. all[0] \in B
    <3>. DEFINE h0 == h[0]
    <3>1. h0 = Unbound /\ g[0] = 0
      BY <1>4, <1>6 DEF BoundRun, Sums
    <3>2. h0 \in BoundState(ps) /\ Good(h0, 0, 0)
      BY <3>1, UnboundIsBound DEF Good
    <3>3. 0 \in 0..N
      BY <1>1
    <3>4. all[0] = <<h0, 0, 0>>
      BY <3>1, <3>3
    <3>. HIDE DEF h0, all
    <3>. QED BY <3>2, <3>4
  <2>2. ASSUME NEW n \in 1..N, all[n - 1] \in B PROVE all[n] \in B
    <3>1. n \in 0..N /\ n - 1 \in 0..N /\ n \in Nat /\ n - 1 \in Nat /\ (n - 1) + 1 = n
      BY <1>1
    <3>2. h[n - 1] \in BoundState(ps) /\ g[n - 1] \in Int /\ Good(h[n - 1], g[n - 1], n - 1)
      BY <2>2, <3>1
    <3>3. h[n] = BoundStep(h[n - 1], items[n])
      BY <1>4 DEF BoundRun, N
    <3>4. g[n] = g[n - 1] + SizeOf(items[n].chunk)
      BY <1>5, <1>6 DEF Sums
    <3>5. items[n] \in S
      BY <1>1
    <3>6. SizeOf(items[n].chunk) \in Nat
      BY <3>5, ScoredIs
    <3>7. g[n] \in Int
      BY <3>2, <3>4, <3>6
    <3>. HIDE DEF S
    <3>8. h[n] \in BoundState(ps) /\ Within(h[n], g[n], (n - 1) + 1, ps)
      BY <3>1, <3>2, <3>3, <3>4, <3>5, BoundStepKeeps DEF Good, S
    <3>9. Good(h[n], g[n], n)
      BY <3>1, <3>8 DEF Good
    <3>. QED BY <3>1, <3>7, <3>8, <3>9
  <2>. HIDE DEF all, B
  <2>. QED BY <1>1, <2>1, <2>2, LoopStays
<1>8. h[N] \in BoundState(ps) /\ Within(h[N], g[N], N, ps)
  <2>1. N \in 0..N
    BY <1>1
  <2>2. all[N] \in B /\ all[N] = <<h[N], g[N], N>>
    BY <1>7, <2>1
  <2>. HIDE DEF all
  <2>. QED BY <2>2 DEF Good
<1>9. b.kept \in Seq(S) /\ b.omitted \in Nat /\ b.bytes \in Nat
  BY <1>4, <1>8 DEF BoundState
<1>10. /\ Len(b.kept) <= MaxPassages /\ Len(b.kept) + b.omitted = N
       /\ Total(BytesOf(b.kept)) <= b.bytes /\ (b.kept = <<>> \/ b.bytes <= MaxEvidence)
       /\ Total(SizesOf(b.kept)) <= Total(SizesOf(items))
  BY <1>4, <1>6, <1>8 DEF Within
<1>11. Total(BytesOf(b.kept)) \in Nat /\ Total(SizesOf(b.kept)) \in Nat
  BY <1>9, WeightsAre
<1>12. Total(BytesOf(b.kept)) <= MaxEvidence
  <2>1. CASE b.kept = <<>>
    <3>1. BytesOf(<<>>) = <<>>
      BY DEF BytesOf
    <3>. QED BY <2>1, <3>1, TotalOfNothing, Limits
  <2>2. CASE b.bytes <= MaxEvidence
    BY <1>9, <1>10, <1>11, <2>2, Limits
  <2>. QED BY <1>10, <2>1, <2>2
<1>13. Total(SizesOf(items)) \in Nat /\ Total(SizesOf(scored)) \in Nat
  BY <1>1, WeightsAre
<1>14. Total(SizesOf(b.kept)) <= Total(SizesOf(scored))
  BY <1>2, <1>10, <1>11, <1>13
<1>15. b.kept \in Seq(S) /\ Len(b.kept) + b.omitted = Len(scored)
  BY <1>1, <1>9, <1>10 DEF N
<1>. HIDE DEF S
<1>. QED BY <1>9, <1>10, <1>12, <1>14, <1>15 DEF b, S

-----------------------------------------------------------------------------
(* Citations.                                                              *)

SpanRecord ==
  [start : Nat \cup {None}, end : Nat \cup {None}, verbatim : BOOLEAN, evidence : Evidenced \cup {None}]
CitationRecord == [doc : Document, source : Nat, spans : SUBSET SpanRecord]

\* Each citation is of another document, which is one of the pages.
DifferentDocs(cs) == \A i, j \in 1..Len(cs) : cs[i].doc = cs[j].doc => i = j
OfPages(cs, ps) == \A i \in 1..Len(cs) : FromPage(cs[i], ps)
\* Citations only grow: they keep their documents and spans.
Extends(ds, cs) ==
  Len(cs) <= Len(ds) /\ \A i \in 1..Len(cs) : ds[i].doc = cs[i].doc /\ cs[i].spans \subseteq ds[i].spans

\* A span more
WithSpan(cs, i, span) == [cs EXCEPT ![i].spans = @ \cup {span}]

LEMMA WithSpanKeeps ==
  ASSUME NEW ps, NEW cs \in Seq(CitationRecord), DifferentDocs(cs), OfPages(cs, ps),
         NEW id \in 1..Len(cs), NEW span \in SpanRecord
  PROVE  LET ds == WithSpan(cs, id, span) IN
         /\ ds \in Seq(CitationRecord) /\ DifferentDocs(ds) /\ OfPages(ds, ps) /\ Extends(ds, cs)
         /\ Len(ds) = Len(cs) /\ ds[id].doc = cs[id].doc /\ span \in ds[id].spans
<1>. DEFINE ds == WithSpan(cs, id, span)
            n == Len(cs)
            c == cs[id]
            d == [c EXCEPT !.spans = @ \cup {span}]
<1>1. n \in Nat /\ cs \in [1..n -> CitationRecord] /\ \A i \in 1..n : cs[i] \in CitationRecord
  BY LenProperties, ElementOfSeq
<1>2. c \in CitationRecord
  BY <1>1
<1>3. d \in CitationRecord /\ d.doc = c.doc /\ d.source = c.source /\ d.spans = c.spans \cup {span}
  <2>. HIDE DEF c
  <2>. QED BY <1>2 DEF CitationRecord
<1>4. ds = [cs EXCEPT ![id] = d]
  <2>1. ds = [cs EXCEPT ![id].spans = @ \cup {span}]
    BY DEF WithSpan
  <2>. QED BY <2>1
<1>. HIDE DEF d, ds, n
<1>5. ds \in [1..n -> CitationRecord] /\ \A i \in 1..n : ds[i] = IF i = id THEN d ELSE cs[i]
  BY <1>1, <1>3, <1>4
<1>6. ds \in Seq(CitationRecord) /\ Len(ds) = n
  BY <1>1, <1>5, FunctionIsSeq
<1>7. id \in 1..n
  BY DEF n
<1>8. \A i \in 1..n : ds[i].doc = cs[i].doc /\ ds[i].source = cs[i].source /\ cs[i].spans \subseteq ds[i].spans
  <2>. TAKE i \in 1..n
  <2>1. CASE i = id
    BY <1>3, <1>5, <2>1
  <2>2. CASE i # id
    BY <1>5, <2>2
  <2>. QED BY <2>1, <2>2
<1>9. DifferentDocs(ds)
  BY <1>6, <1>8 DEF DifferentDocs, n
<1>10. OfPages(ds, ps)
  BY <1>6, <1>8 DEF OfPages, FromPage, n
<1>11. Extends(ds, cs)
  BY <1>1, <1>6, <1>8 DEF Extends, n
<1>12. span \in ds[id].spans
  BY <1>3, <1>5, <1>7
<1>. QED BY <1>6, <1>7, <1>8, <1>9, <1>10, <1>11, <1>12 DEF ds, n

\* A citation more
LEMMA NewCitation ==
  ASSUME NEW ps, NEW cs \in Seq(CitationRecord), DifferentDocs(cs), OfPages(cs, ps),
         NEW c \in CitationRecord, FromPage(c, ps), \A i \in 1..Len(cs) : cs[i].doc # c.doc
  PROVE  LET ds == Append(cs, c) IN
         /\ ds \in Seq(CitationRecord) /\ DifferentDocs(ds) /\ OfPages(ds, ps) /\ Extends(ds, cs)
         /\ Len(ds) = Len(cs) + 1 /\ ds[Len(cs) + 1] = c
<1>. DEFINE ds == Append(cs, c)
            n == Len(cs)
<1>1. /\ ds \in Seq(CitationRecord) /\ Len(ds) = n + 1 /\ n \in Nat /\ ds[n + 1] = c
      /\ \A i \in 1..n : ds[i] = cs[i]
  OBVIOUS
<1>. HIDE DEF ds, n
<1>2. \A i \in 1..n + 1 : i = n + 1 \/ i \in 1..n
  BY <1>1
<1>3. DifferentDocs(ds)
  BY <1>1, <1>2 DEF DifferentDocs, n
<1>4. OfPages(ds, ps)
  BY <1>1, <1>2 DEF OfPages, n
<1>5. Extends(ds, cs)
  BY <1>1 DEF Extends, n
<1>. QED BY <1>1, <1>3, <1>4, <1>5 DEF ds, n

\* What Cite answers: the citation of the document, with the span.
LEMMA CiteKeeps ==
  ASSUME NEW ps, NEW cs \in Seq(CitationRecord), DifferentDocs(cs), OfPages(cs, ps),
         NEW c \in ChunkRecord, FromPage(c, ps)
  PROVE  LET cited == Cite(cs, c)
             ds == cited.citations
             id == cited.id
         IN /\ ds \in Seq(CitationRecord) /\ DifferentDocs(ds) /\ OfPages(ds, ps) /\ Extends(ds, cs)
            /\ id \in 1..Len(ds) /\ ds[id].doc = c.doc /\ Span(c) \in ds[id].spans
<1>. DEFINE known == CitationIndex(cs, c.doc)
            fresh == [doc |-> c.doc, source |-> c.source, spans |-> {}]
            with == IF known # {} THEN cs ELSE Append(cs, fresh)
            id == IF known # {} THEN CHOOSE i \in known : TRUE ELSE Len(cs) + 1
            ds == WithSpan(with, id, Span(c))
<1>1. Cite(cs, c).id = id /\ Cite(cs, c).citations = ds
  BY DEF Cite, WithSpan
<1>2. known = {i \in 1..Len(cs) : cs[i].doc = c.doc} /\ Len(cs) \in Nat
  BY DEF CitationIndex
<1>3. c.doc \in Document /\ c.source \in Nat /\ Span(c) \in SpanRecord
  <2>1. /\ c.doc \in Document /\ c.source \in Nat /\ c.start \in Nat \cup {None} /\ c.end \in Nat \cup {None}
        /\ c.verbatim \in BOOLEAN /\ c.evidence \in Evidenced \cup {None}
    BY DEF ChunkRecord
  <2>. QED BY <2>1 DEF Span, SpanRecord
<1>4. fresh \in CitationRecord /\ FromPage(fresh, ps) /\ fresh.doc = c.doc
  BY <1>3 DEF CitationRecord, FromPage
<1>. HIDE DEF known, fresh
<1>5. /\ with \in Seq(CitationRecord) /\ DifferentDocs(with) /\ OfPages(with, ps) /\ Extends(with, cs)
      /\ id \in 1..Len(with) /\ with[id].doc = c.doc
  <2>1. CASE known # {}
    <3>1. with = cs /\ id \in known
      BY <2>1
    <3>2. Extends(cs, cs)
      BY <1>2 DEF Extends
    <3>. HIDE DEF with, id
    <3>. QED BY <1>2, <3>1, <3>2
  <2>2. CASE known = {}
    <3>1. with = Append(cs, fresh) /\ id = Len(cs) + 1
      BY <2>2
    <3>. HIDE DEF with, id
    <3>2. \A i \in 1..Len(cs) : cs[i].doc # fresh.doc
      BY <1>2, <1>4, <2>2
    <3>3. /\ with \in Seq(CitationRecord) /\ DifferentDocs(with) /\ OfPages(with, ps) /\ Extends(with, cs)
          /\ Len(with) = Len(cs) + 1 /\ with[Len(cs) + 1] = fresh
      BY <1>4, <3>1, <3>2, NewCitation
    <3>4. id \in 1..Len(with) /\ with[id].doc = c.doc
      BY <1>2, <1>4, <3>1, <3>3
    <3>. QED BY <3>3, <3>4
  <2>. QED BY <2>1, <2>2
<1>. HIDE DEF with, id
<1>6. /\ ds \in Seq(CitationRecord) /\ DifferentDocs(ds) /\ OfPages(ds, ps) /\ Extends(ds, with)
      /\ Len(ds) = Len(with) /\ ds[id].doc = with[id].doc /\ Span(c) \in ds[id].spans
  BY <1>3, <1>5, WithSpanKeeps
<1>. HIDE DEF ds
<1>7. Extends(ds, cs)
  <2>1. Len(ds) = Len(with) /\ Len(cs) <= Len(with) /\ Len(cs) \in Nat /\ Len(with) \in Nat
    BY <1>2, <1>5, <1>6 DEF Extends
  <2>2. ASSUME NEW i \in 1..Len(cs) PROVE ds[i].doc = cs[i].doc /\ cs[i].spans \subseteq ds[i].spans
    <3>1. i \in 1..Len(with)
      BY <2>1
    <3>2. ds[i].doc = with[i].doc /\ with[i].spans \subseteq ds[i].spans
      BY <1>6, <3>1 DEF Extends
    <3>3. with[i].doc = cs[i].doc /\ cs[i].spans \subseteq with[i].spans
      BY <1>5 DEF Extends
    <3>. QED BY <3>2, <3>3
  <2>. QED BY <2>1, <2>2 DEF Extends
<1>. QED BY <1>1, <1>5, <1>6, <1>7

-----------------------------------------------------------------------------
(* The passages.                                                           *)

\* One item of assemble
NothingYet == [passages |-> <<>>, citations |-> <<>>, tokens |-> 0]
CutOf(a, s, tokenBudget) == CutToBudget(s, tokenBudget - a.tokens)
Added(a, c) ==
  [passages |-> Append(a.passages, Passage(c, Cite(a.citations, c).id)),
   citations |-> Cite(a.citations, c).citations, tokens |-> a.tokens + c.tokens]
AssembleStep(a, s, tokenBudget, maxPassages) ==
  IF maxPassages # None /\ Len(a.passages) >= maxPassages THEN a
  ELSE IF CutOf(a, s, tokenBudget) = None THEN a
  ELSE Added(a, CutOf(a, s, tokenBudget).chunk)
AssembledFrom(items, tokenBudget, maxPassages) ==
  Looped(LAMBDA a, s : AssembleStep(a, s, tokenBudget, maxPassages), NothingYet, items)

\* The values a loop goes through.
AssembleRun(h, items, tokenBudget, maxPassages) ==
  h[0] = NothingYet /\ \A n \in 1..Len(items) : h[n] = AssembleStep(h[n - 1], items[n], tokenBudget, maxPassages)

\* The chunks become passages one after the other.
LEMMA AssembleLoop ==
  ASSUME NEW items, Len(items) \in Nat, NEW tokenBudget, NEW maxPassages
  PROVE  \E h : AssembleRun(h, items, tokenBudget, maxPassages) /\ AssembledFrom(items, tokenBudget, maxPassages) = h[Len(items)]
<1>. DEFINE N == Len(items)
            Row(h, m) == [n \in 0..m |-> IF n = 0 THEN NothingYet ELSE AssembleStep(h[n - 1], items[n], tokenBudget, maxPassages)]
            K == {m \in Nat : \E h : h = Row(h, m)}
            h0 == CHOOSE h : h = Row(h, N)
<1>1. AssembledFrom(items, tokenBudget, maxPassages) = h0[N]
  BY DEF AssembledFrom, Looped
<1>2. N \in Nat
  OBVIOUS
<1>. HIDE DEF N
<1>3. 0 \in K
  <2>1. [n \in 0..0 |-> NothingYet] = Row([n \in 0..0 |-> NothingYet], 0)
    OBVIOUS
  <2>. QED BY <2>1
<1>4. ASSUME NEW m \in Nat, m \in K PROVE m + 1 \in K
  <2>1. PICK g : g = Row(g, m)
    BY <1>4
  <2>. DEFINE last == AssembleStep(g[m], items[m + 1], tokenBudget, maxPassages)
              h == [n \in 0..m + 1 |-> IF n = m + 1 THEN last ELSE g[n]]
  <2>2. ASSUME NEW n \in 0..m + 1
        PROVE  h[n] = IF n = 0 THEN NothingYet ELSE AssembleStep(h[n - 1], items[n], tokenBudget, maxPassages)
    <3>1. CASE n = m + 1
      <4>1. h[n] = last /\ h[n - 1] = g[m] /\ n # 0
        BY <3>1
      <4>2. last = AssembleStep(g[m], items[n], tokenBudget, maxPassages)
        BY <3>1
      <4>. HIDE DEF h, last
      <4>. QED BY <4>1, <4>2
    <3>2. CASE n # m + 1
      <4>1. n \in 0..m /\ h[n] = g[n] /\ (n # 0 => n - 1 \in 0..m /\ h[n - 1] = g[n - 1])
        BY <3>2
      <4>2. g[n] = IF n = 0 THEN NothingYet ELSE AssembleStep(g[n - 1], items[n], tokenBudget, maxPassages)
        BY <2>1, <4>1
      <4>. HIDE DEF h
      <4>. QED BY <4>1, <4>2
    <3>. QED BY <3>1, <3>2
  <2>3. h = Row(h, m + 1)
    <3>. HIDE DEF last
    <3>. QED BY <2>2
  <2>. HIDE DEF h, Row
  <2>. QED BY <2>3
<1>5. N \in K
  <2>. HIDE DEF K
  <2>1. Nat \subseteq K
    BY <1>3, <1>4, SetInduction
  <2>. QED BY <1>2, <2>1
<1>6. h0 = Row(h0, N)
  <2>. HIDE DEF Row
  <2>. QED BY <1>5
<1>. HIDE DEF h0
<1>7. h0[0] = NothingYet
  BY <1>2, <1>6
<1>8. ASSUME NEW n \in 1..N PROVE h0[n] = AssembleStep(h0[n - 1], items[n], tokenBudget, maxPassages)
  <2>1. n \in 0..N /\ n # 0
    BY <1>2
  <2>. QED BY <1>6, <2>1
<1>. QED BY <1>1, <1>7, <1>8 DEF AssembleRun, N


LEMMA AssembledIs ==
  ASSUME NEW T, NEW scored \in Seq(T), NEW tokenBudget, NEW maxPassages
  PROVE  \E h : /\ AssembleRun(h, ByScore(scored), tokenBudget, maxPassages)
                /\ Assembled(scored, tokenBudget, maxPassages) = h[Len(ByScore(scored))]
<1>1. Sorted(scored, Higher) = ByScore(scored)
  BY SortedIs
<1>2. Assembled(scored, tokenBudget, maxPassages)
        = AssembledFrom(ByScore(scored), tokenBudget, maxPassages)
  BY <1>1 DEF Assembled, AssembledFrom, Looped, AssembleStep, NothingYet, CutOf, Added
<1>3. Len(ByScore(scored)) \in Nat
  <2>1. Len(ByScore(scored)) = Len(scored)
    BY DEF ByScore, By
  <2>. QED BY <2>1
<1>. QED BY <1>2, <1>3, AssembleLoop

PassageRecord ==
  [citation : Nat, doc : Document, tokens : Nat, words : Nat, start : Nat \cup {None},
   end : Nat \cup {None}, verbatim : BOOLEAN, evidence : Evidenced \cup {None}]
Assembly == [passages : Seq(PassageRecord), citations : Seq(CitationRecord), tokens : Nat]

\* A passage quotes the document of its citation at one of its spans.
Quotes(p, cs) ==
  /\ p.citation \in 1..Len(cs) /\ cs[p.citation].doc = p.doc /\ Span(p) \in cs[p.citation].spans
  /\ Genuine(p)
Cited(a, ps) ==
  /\ DifferentDocs(a.citations) /\ OfPages(a.citations, ps)
  /\ \A i \in 1..Len(a.passages) : Quotes(a.passages[i], a.citations)

\* What the passages weigh
TokensIn(passages) == [i \in 1..Len(passages) |-> passages[i].tokens]
BytesIn(passages) == [i \in 1..Len(passages) |-> ItemOverhead + passages[i].words]

LEMMA PassagesWeigh ==
  ASSUME NEW passages \in Seq(PassageRecord)
  PROVE  /\ TokensIn(passages) \in Seq(Nat) /\ Len(TokensIn(passages)) = Len(passages)
         /\ BytesIn(passages) \in Seq(Nat) /\ Len(BytesIn(passages)) = Len(passages)
         /\ Total(TokensIn(passages)) \in Nat /\ Total(BytesIn(passages)) \in Nat
         /\ \A i \in 1..Len(passages) :
              TokensIn(passages)[i] = passages[i].tokens /\ BytesIn(passages)[i] = ItemOverhead + passages[i].words
<1>1. Len(passages) \in Nat /\ \A i \in 1..Len(passages) : passages[i] \in PassageRecord
  BY LenProperties, ElementOfSeq
<1>2. \A i \in 1..Len(passages) : passages[i].tokens \in Nat /\ passages[i].words \in Nat
  BY <1>1 DEF PassageRecord
<1>3. TokensIn(passages) \in [1..Len(passages) -> Nat] /\ BytesIn(passages) \in [1..Len(passages) -> Nat]
  BY <1>2, Limits DEF TokensIn, BytesIn
<1>4. /\ TokensIn(passages) \in Seq(Nat) /\ Len(TokensIn(passages)) = Len(passages)
      /\ BytesIn(passages) \in Seq(Nat) /\ Len(BytesIn(passages)) = Len(passages)
  BY <1>1, <1>3, FunctionIsSeq
<1>5. Total(TokensIn(passages)) \in Nat /\ Total(BytesIn(passages)) \in Nat
  BY <1>4, TotalOfNumbers
<1>. QED BY <1>4, <1>5 DEF TokensIn, BytesIn

LEMMA OnePassageMore ==
  ASSUME NEW passages \in Seq(PassageRecord), NEW p \in PassageRecord
  PROVE  /\ Append(passages, p) \in Seq(PassageRecord) /\ Len(Append(passages, p)) = Len(passages) + 1
         /\ Append(passages, p)[Len(passages) + 1] = p
         /\ \A i \in 1..Len(passages) : Append(passages, p)[i] = passages[i]
         /\ Total(TokensIn(Append(passages, p))) = Total(TokensIn(passages)) + p.tokens
         /\ Total(BytesIn(Append(passages, p))) = Total(BytesIn(passages)) + (ItemOverhead + p.words)
<1>. DEFINE more == Append(passages, p)
            n == Len(passages)
<1>1. more \in Seq(PassageRecord) /\ Len(more) = n + 1 /\ n \in Nat
  OBVIOUS
<1>2. more[n + 1] = p /\ \A i \in 1..n : more[i] = passages[i]
  OBVIOUS
<1>. HIDE DEF more, n
<1>3. /\ TokensIn(more) \in Seq(Nat) /\ Len(TokensIn(more)) = n + 1
      /\ BytesIn(more) \in Seq(Nat) /\ Len(BytesIn(more)) = n + 1
      /\ \A i \in 1..n + 1 : TokensIn(more)[i] = more[i].tokens /\ BytesIn(more)[i] = ItemOverhead + more[i].words
  BY <1>1, PassagesWeigh
<1>4. /\ TokensIn(passages) \in Seq(Nat) /\ Len(TokensIn(passages)) = n
      /\ BytesIn(passages) \in Seq(Nat) /\ Len(BytesIn(passages)) = n
      /\ \A i \in 1..n : TokensIn(passages)[i] = passages[i].tokens /\ BytesIn(passages)[i] = ItemOverhead + passages[i].words
  BY PassagesWeigh DEF n
<1>5. n + 1 \in 1..n + 1 /\ \A i \in 1..n : i \in 1..n + 1
  BY <1>1
<1>6. /\ \A i \in 1..n : TokensIn(more)[i] = TokensIn(passages)[i] /\ BytesIn(more)[i] = BytesIn(passages)[i]
      /\ TokensIn(more)[n + 1] = p.tokens /\ BytesIn(more)[n + 1] = ItemOverhead + p.words
  BY <1>2, <1>3, <1>4, <1>5
<1>7. Total(TokensIn(more)) = Total(TokensIn(passages)) + p.tokens
  <2>. DEFINE v == TokensIn(passages)
              w == TokensIn(more)
  <2>1. /\ v \in Seq(Nat) /\ w \in Seq(Nat) /\ Len(w) = Len(v) + 1 /\ \A i \in 1..Len(v) : w[i] = v[i]
        /\ w[Len(w)] = p.tokens
    BY <1>3, <1>4, <1>6
  <2>. HIDE DEF v, w
  <2>2. Total(w) = Total(v) + w[Len(w)]
    BY <2>1, TotalOfNumbers
  <2>. QED BY <2>1, <2>2 DEF v, w
<1>8. Total(BytesIn(more)) = Total(BytesIn(passages)) + (ItemOverhead + p.words)
  <2>. DEFINE v == BytesIn(passages)
              w == BytesIn(more)
  <2>1. /\ v \in Seq(Nat) /\ w \in Seq(Nat) /\ Len(w) = Len(v) + 1 /\ \A i \in 1..Len(v) : w[i] = v[i]
        /\ w[Len(w)] = ItemOverhead + p.words
    BY <1>3, <1>4, <1>6
  <2>. HIDE DEF v, w
  <2>2. Total(w) = Total(v) + w[Len(w)]
    BY <2>1, TotalOfNumbers
  <2>. QED BY <2>1, <2>2 DEF v, w
<1>. QED BY <1>1, <1>2, <1>7, <1>8 DEF more, n

\* A passage more
LEMMA AddedKeeps ==
  ASSUME NEW ps, NEW a \in Assembly, Cited(a, ps), NEW c \in ChunkRecord, Genuine(c), FromPage(c, ps)
  PROVE  LET b == Added(a, c) IN
         /\ b \in Assembly /\ Cited(b, ps) /\ b.tokens = a.tokens + c.tokens
         /\ Len(b.passages) = Len(a.passages) + 1
         /\ Total(TokensIn(b.passages)) = Total(TokensIn(a.passages)) + c.tokens
         /\ Total(BytesIn(b.passages)) = Total(BytesIn(a.passages)) + (ItemOverhead + c.words)
<1>. DEFINE b == Added(a, c)
            cs == a.citations
            ds == Cite(cs, c).citations
            id == Cite(cs, c).id
            p == Passage(c, id)
            more == Append(a.passages, p)
            n == Len(a.passages)
<1>1. a.passages \in Seq(PassageRecord) /\ cs \in Seq(CitationRecord) /\ a.tokens \in Nat /\ n \in Nat
  BY DEF Assembly
<1>2. DifferentDocs(cs) /\ OfPages(cs, ps) /\ \A i \in 1..n : Quotes(a.passages[i], cs)
  BY DEF Cited
<1>3. /\ ds \in Seq(CitationRecord) /\ DifferentDocs(ds) /\ OfPages(ds, ps) /\ Extends(ds, cs)
      /\ id \in 1..Len(ds) /\ ds[id].doc = c.doc /\ Span(c) \in ds[id].spans
  BY <1>1, <1>2, CiteKeeps
<1>4. b.passages = more /\ b.citations = ds /\ b.tokens = a.tokens + c.tokens
      /\ b = [passages |-> more, citations |-> ds, tokens |-> a.tokens + c.tokens]
  BY DEF Added
<1>. HIDE DEF b, ds, cs, id
<1>5. /\ p.citation = id /\ p.doc = c.doc /\ p.tokens = c.tokens /\ p.words = c.words /\ p.start = c.start
      /\ p.end = c.end /\ p.verbatim = c.verbatim /\ p.evidence = c.evidence
  BY DEF Passage
<1>6. p \in PassageRecord
  <2>1. id \in Nat
    BY <1>3
  <2>. QED BY <2>1 DEF ChunkRecord, PassageRecord, Passage
<1>. HIDE DEF p
<1>7. Genuine(p) /\ Span(p) = Span(c)
  BY <1>5 DEF Genuine, Span
<1>8. /\ more \in Seq(PassageRecord) /\ Len(more) = n + 1 /\ more[n + 1] = p
      /\ \A i \in 1..n : more[i] = a.passages[i]
      /\ Total(TokensIn(more)) = Total(TokensIn(a.passages)) + c.tokens
      /\ Total(BytesIn(more)) = Total(BytesIn(a.passages)) + (ItemOverhead + c.words)
  BY <1>1, <1>5, <1>6, OnePassageMore
<1>. HIDE DEF more, n
<1>9. \A i \in 1..Len(more) : Quotes(more[i], ds)
  <2>. TAKE i \in 1..Len(more)
  <2>1. CASE i = n + 1
    BY <1>3, <1>5, <1>7, <1>8, <2>1 DEF Quotes
  <2>2. CASE i # n + 1
    <3>. DEFINE q == a.passages[i]
    <3>1. i \in 1..n /\ more[i] = q
      BY <1>1, <1>8, <2>2
    <3>2. /\ q.citation \in 1..Len(cs) /\ cs[q.citation].doc = q.doc /\ Span(q) \in cs[q.citation].spans
          /\ Genuine(q)
      BY <1>2, <3>1 DEF Quotes
    <3>. HIDE DEF q
    <3>3. q.citation \in 1..Len(ds) /\ ds[q.citation].doc = q.doc /\ Span(q) \in ds[q.citation].spans
      <4>1. Len(cs) <= Len(ds) /\ Len(cs) \in Nat /\ Len(ds) \in Nat
        BY <1>1, <1>3 DEF Extends
      <4>2. ds[q.citation].doc = cs[q.citation].doc /\ cs[q.citation].spans \subseteq ds[q.citation].spans
        BY <1>3, <3>2 DEF Extends
      <4>. QED BY <3>2, <4>1, <4>2
    <3>. QED BY <3>1, <3>2, <3>3 DEF Quotes
  <2>. QED BY <2>1, <2>2
<1>10. Cited(b, ps)
  BY <1>3, <1>4, <1>9 DEF Cited
<1>11. b \in Assembly
  <2>1. a.tokens + c.tokens \in Nat
    BY <1>1 DEF ChunkRecord
  <2>. QED BY <1>3, <1>4, <1>8, <2>1 DEF Assembly
<1>. QED BY <1>4, <1>8, <1>10, <1>11 DEF b, n

\* After n items, whose texts are of x bytes and count y tokens: the budgets hold, and nothing
\* is left out while there is room for all.
Spent(a, n, x, y, tokenBudget, maxPassages) ==
  /\ a.tokens = Total(TokensIn(a.passages)) /\ a.tokens <= tokenBudget
  /\ Len(a.passages) <= n /\ (maxPassages # None => Len(a.passages) <= maxPassages)
  /\ Total(BytesIn(a.passages)) <= x
  /\ maxPassages = None /\ y <= tokenBudget => Len(a.passages) = n /\ a.tokens <= y

LEMMA NothingYetKeeps ==
  ASSUME NEW ps, NEW tokenBudget \in Nat, NEW maxPassages \in Nat \cup {None}
  PROVE  /\ NothingYet \in Assembly /\ Cited(NothingYet, ps)
         /\ Spent(NothingYet, 0, 0, 0, tokenBudget, maxPassages)
<1>. DEFINE none == NothingYet.passages
            cs == NothingYet.citations
<1>1. none = <<>> /\ cs = <<>> /\ NothingYet.tokens = 0
  BY DEF NothingYet
<1>2. TokensIn(<<>>) = <<>> /\ BytesIn(<<>>) = <<>> /\ Len(<<>>) = 0
  BY DEF TokensIn, BytesIn
<1>3. Total(TokensIn(none)) = 0 /\ Total(BytesIn(none)) = 0 /\ Len(none) = 0 /\ Len(cs) = 0
  BY <1>1, <1>2, TotalOfNothing
<1>4. NothingYet \in Assembly
  <2>1. <<>> \in Seq(PassageRecord) /\ <<>> \in Seq(CitationRecord)
    OBVIOUS
  <2>. QED BY <2>1, Zenon DEF NothingYet, Assembly
<1>. HIDE DEF none, cs
<1>5. Cited(NothingYet, ps)
  BY <1>3 DEF Cited, DifferentDocs, OfPages, none, cs
<1>6. Spent(NothingYet, 0, 0, 0, tokenBudget, maxPassages)
  <2>1. maxPassages # None => 0 <= maxPassages
    OBVIOUS
  <2>. QED BY <1>1, <1>3, <2>1 DEF Spent, none
<1>. QED BY <1>4, <1>5, <1>6

\* A chunk is no passage, or one that fits, and is cut only where it has to be.
LEMMA AssembleStepKeeps ==
  ASSUME NEW ps, NEW tokenBudget \in Nat, NEW maxPassages \in Nat \cup {None},
         NEW a \in Assembly, Cited(a, ps), NEW n \in Nat, NEW x \in Int, NEW y \in Int,
         Spent(a, n, x, y, tokenBudget, maxPassages), NEW s \in Scored(ChunksFrom(ps))
  PROVE  LET b == AssembleStep(a, s, tokenBudget, maxPassages) IN
         /\ b \in Assembly /\ Cited(b, ps)
         /\ Spent(b, n + 1, x + Bytes(s), y + SizeOf(s.chunk), tokenBudget, maxPassages)
<1>. DEFINE had == a.tokens
            room == tokenBudget - had
            cut == CutToBudget(s, room)
            b == AssembleStep(a, s, tokenBudget, maxPassages)
            len == Len(a.passages)
            tt == Total(TokensIn(a.passages))
            tb == Total(BytesIn(a.passages))
            weight == Bytes(s)
            size == SizeOf(s.chunk)
            st == s.chunk.tokens
            sw == s.chunk.words
<1>1. had \in Nat /\ len \in Nat /\ a.passages \in Seq(PassageRecord)
  BY DEF Assembly
<1>2. /\ had = tt /\ had <= tokenBudget /\ len <= n /\ (maxPassages # None => len <= maxPassages) /\ tb <= x
      /\ (maxPassages = None /\ y <= tokenBudget => len = n /\ had <= y)
  BY DEF Spent
<1>3. tt \in Nat /\ tb \in Nat
  BY <1>1, PassagesWeigh
<1>4. /\ st \in Nat /\ sw \in Nat /\ size \in Nat /\ weight \in Nat /\ weight = ItemOverhead + sw
      /\ st <= size
  BY ScoredIs DEF SizeOf
<1>5. ItemOverhead \in Nat
  BY Limits
<1>6. s # None
  <2>1. s \in [chunk : ChunkRecord, score : Int]
    BY DEF Scored, ChunksFrom
  <2>2. None \notin [chunk : ChunkRecord, score : Int]
    BY Zenon, SearchConstants
  <2>. QED BY <2>1, <2>2, Zenon
<1>7. room \in Int
  BY <1>1
<1>8. \/ b = a /\ maxPassages # None /\ len >= maxPassages
      \/ b = a /\ cut = None
      \/ /\ b = Added(a, cut.chunk) /\ cut # None /\ ~(maxPassages # None /\ len >= maxPassages)
  BY Zenon DEF AssembleStep, CutOf
<1>. HIDE DEF b, len, tt, tb, weight, size, st, sw, cut
<1>9. ASSUME maxPassages = None, y + size <= tokenBudget PROVE cut = s
  <2>1. y <= tokenBudget
    BY <1>4, <1>9
  <2>2. had <= y
    BY <1>2, <1>9, <2>1
  <2>3. st <= room
    <3>1. had \in Nat /\ st \in Nat /\ size \in Nat /\ st <= size /\ had <= y /\ y + size <= tokenBudget
      BY <1>1, <1>4, <1>9, <2>2
    <3>. HIDE DEF had
    <3>. QED BY <3>1
  <2>. HIDE DEF room
  <2>. QED BY <1>4, <1>7, <2>3, CutNothing DEF cut, st
<1>10. CASE b = a /\ ((maxPassages # None /\ len >= maxPassages) \/ cut = None)
  <2>1. ~(maxPassages = None /\ y + size <= tokenBudget)
    BY <1>6, <1>9, <1>10
  <2>2. len <= n + 1 /\ tb <= x + weight
    BY <1>1, <1>2, <1>3, <1>4
  <2>3. Spent(a, n + 1, x + weight, y + size, tokenBudget, maxPassages)
    BY <1>2, <2>1, <2>2 DEF Spent, len, tt, tb
  <2>. QED BY <1>10, <2>3 DEF b, weight, size
<1>11. CASE b = Added(a, cut.chunk) /\ cut # None /\ ~(maxPassages # None /\ len >= maxPassages)
  <2>. DEFINE ct == cut.chunk.tokens
              cw == cut.chunk.words
              nt == Total(TokensIn(b.passages))
              nb == Total(BytesIn(b.passages))
              nl == Len(b.passages)
  <2>1. cut \in Scored(ChunksFrom(ps)) /\ ct <= room /\ cw <= sw
    <3>. HIDE DEF room
    <3>. QED BY <1>7, <1>11, CutKeeps DEF cut, sw
  <2>2. cut.chunk \in ChunkRecord /\ Genuine(cut.chunk) /\ FromPage(cut.chunk, ps) /\ ct \in Nat /\ cw \in Nat
    BY <2>1, ScoredIs
  <2>3. /\ b \in Assembly /\ Cited(b, ps) /\ b.tokens = had + ct /\ nl = len + 1
        /\ nt = tt + ct /\ nb = tb + (ItemOverhead + cw)
    BY <1>11, <2>2, AddedKeeps DEF len, tt, tb
  <2>4. maxPassages = None /\ y + size <= tokenBudget => ct = st
    BY <1>9 DEF st
  <2>. HIDE DEF ct, cw, nt, nb, nl, had
  <2>5. b.tokens = nt /\ b.tokens <= tokenBudget
    BY <1>1, <1>2, <2>1, <2>2, <2>3
  <2>6. nl <= n + 1 /\ (maxPassages # None => nl <= maxPassages)
    BY <1>1, <1>2, <1>11, <2>3
  <2>7. nb <= x + weight
    BY <1>2, <1>3, <1>4, <1>5, <2>1, <2>2, <2>3
  <2>8. maxPassages = None /\ y + size <= tokenBudget => nl = n + 1 /\ b.tokens <= y + size
    <3>. SUFFICES ASSUME maxPassages = None, y + size <= tokenBudget
                  PROVE  nl = n + 1 /\ b.tokens <= y + size
      OBVIOUS
    <3>1. y <= tokenBudget
      BY <1>4
    <3>. QED BY <1>1, <1>2, <1>4, <2>2, <2>3, <2>4, <3>1
  <2>9. Spent(b, n + 1, x + weight, y + size, tokenBudget, maxPassages)
    BY <2>5, <2>6, <2>7, <2>8 DEF Spent, nt, nb, nl
  <2>. QED BY <2>3, <2>9 DEF b, weight, size
<1>. QED BY <1>8, <1>10, <1>11

\* The passages quote their pages and are within the budgets.
LEMMA AssembledKeeps ==
  ASSUME NEW ps, NEW scored \in Seq(Scored(ChunksFrom(ps))), NEW tokenBudget \in Nat,
         NEW maxPassages \in Nat \cup {None}
  PROVE  LET a == Assembled(scored, tokenBudget, maxPassages) IN
         /\ a \in Assembly /\ Cited(a, ps)
         /\ Spent(a, Len(scored), Total(BytesOf(scored)), Total(SizesOf(scored)), tokenBudget, maxPassages)
<1>. DEFINE items == ByScore(scored)
            S == Scored(ChunksFrom(ps))
            N == Len(items)
            a == Assembled(scored, tokenBudget, maxPassages)
<1>1. /\ items \in Seq(S) /\ N = Len(scored) /\ N \in Nat /\ \A i \in 1..N : items[i] \in S
      /\ \E f : Drawn(items, scored, f)
  <2>1. items \in Seq(S) /\ N = Len(scored) /\ \E f : Drawn(items, scored, f)
    BY ByScoreKeeps
  <2>. HIDE DEF items, S
  <2>. QED BY <2>1, LenProperties, ElementOfSeq
<1>2. Total(BytesOf(items)) <= Total(BytesOf(scored)) /\ Total(SizesOf(items)) <= Total(SizesOf(scored))
  BY <1>1, DrawnWeighs
<1>3. PICK h : AssembleRun(h, items, tokenBudget, maxPassages) /\ a = h[N]
  BY AssembledIs
<1>. HIDE DEF items, a
<1>4. /\ SizesOf(items) \in Seq(Nat) /\ Len(SizesOf(items)) = N
      /\ BytesOf(items) \in Seq(Nat) /\ Len(BytesOf(items)) = N
      /\ Total(BytesOf(items)) \in Nat /\ Total(SizesOf(items)) \in Nat
      /\ \A i \in 1..N : BytesOf(items)[i] = Bytes(items[i]) /\ SizesOf(items)[i] = SizeOf(items[i].chunk)
  BY <1>1, WeightsAre
<1>5. PICK g : Sums(g, BytesOf(items)) /\ Total(BytesOf(items)) = g[N]
  BY <1>1, <1>4, TotalSums
<1>6. PICK d : Sums(d, SizesOf(items)) /\ Total(SizesOf(items)) = d[N]
  BY <1>1, <1>4, TotalSums
<1>. DEFINE Good(c, n, x, y) == Cited(c, ps) /\ Spent(c, n, x, y, tokenBudget, maxPassages)
            all == [n \in 0..N |-> <<h[n], n, g[n], d[n]>>]
            B == {p \in Assembly \X Nat \X Int \X Int : Good(p[1], p[2], p[3], p[4])}
<1>. HIDE DEF Good, N
<1>7. \A n \in 0..N : all[n] \in B
  <2>1. all[0] \in B
    <3>. DEFINE h0 == h[0]
    <3>1. h0 = NothingYet /\ g[0] = 0 /\ d[0] = 0
      BY <1>3, <1>5, <1>6 DEF AssembleRun, Sums
    <3>2. h0 \in Assembly /\ Good(h0, 0, 0, 0)
      BY <3>1, NothingYetKeeps DEF Good
    <3>3. 0 \in 0..N
      BY <1>1
    <3>4. all[0] = <<h0, 0, 0, 0>>
      BY <3>1, <3>3
    <3>. HIDE DEF h0, all
    <3>. QED BY <3>2, <3>4
  <2>2. ASSUME NEW n \in 1..N, all[n - 1] \in B PROVE all[n] \in B
    <3>1. n \in 0..N /\ n - 1 \in 0..N /\ n \in Nat /\ n - 1 \in Nat /\ (n - 1) + 1 = n
      BY <1>1
    <3>2. /\ h[n - 1] \in Assembly /\ g[n - 1] \in Int /\ d[n - 1] \in Int
          /\ Good(h[n - 1], n - 1, g[n - 1], d[n - 1])
      BY <2>2, <3>1
    <3>3. h[n] = AssembleStep(h[n - 1], items[n], tokenBudget, maxPassages)
      BY <1>3 DEF AssembleRun, N
    <3>4. g[n] = g[n - 1] + Bytes(items[n]) /\ d[n] = d[n - 1] + SizeOf(items[n].chunk)
      BY <1>4, <1>5, <1>6 DEF Sums
    <3>5. items[n] \in S
      BY <1>1
    <3>6. SizeOf(items[n].chunk) \in Nat /\ Bytes(items[n]) \in Nat
      BY <3>5, ScoredIs
    <3>7. g[n] \in Int /\ d[n] \in Int
      BY <3>2, <3>4, <3>6
    <3>. HIDE DEF S
    <3>8. Cited(h[n - 1], ps) /\ Spent(h[n - 1], n - 1, g[n - 1], d[n - 1], tokenBudget, maxPassages)
      BY <3>2 DEF Good
    <3>9. /\ h[n] \in Assembly /\ Cited(h[n], ps)
          /\ Spent(h[n], (n - 1) + 1, g[n], d[n], tokenBudget, maxPassages)
      BY <3>1, <3>2, <3>3, <3>4, <3>5, <3>8, AssembleStepKeeps DEF S
    <3>10. Good(h[n], n, g[n], d[n])
      BY <3>1, <3>9 DEF Good
    <3>. QED BY <3>1, <3>7, <3>9, <3>10
  <2>. HIDE DEF all, B
  <2>. QED BY <1>1, <2>1, <2>2, LoopStays
<1>8. h[N] \in Assembly /\ Good(h[N], N, g[N], d[N])
  <2>1. N \in 0..N
    BY <1>1
  <2>2. all[N] \in B /\ all[N] = <<h[N], N, g[N], d[N]>>
    BY <1>7, <2>1
  <2>. HIDE DEF all
  <2>. QED BY <2>2
<1>9. Spent(a, N, Total(BytesOf(items)), Total(SizesOf(items)), tokenBudget, maxPassages)
  BY <1>3, <1>5, <1>6, <1>8 DEF Good
<1>10. a \in Assembly /\ Cited(a, ps)
  BY <1>3, <1>8 DEF Good
<1>11. Spent(a, N, Total(BytesOf(scored)), Total(SizesOf(scored)), tokenBudget, maxPassages)
  <2>. DEFINE x == Total(BytesOf(items))
              y == Total(SizesOf(items))
              x2 == Total(BytesOf(scored))
              y2 == Total(SizesOf(scored))
              tb == Total(BytesIn(a.passages))
              had == a.tokens
  <2>1. x \in Nat /\ y \in Nat /\ x2 \in Nat /\ y2 \in Nat /\ x <= x2 /\ y <= y2
    BY <1>2, <1>4, WeightsAre
  <2>2. tb \in Nat /\ had \in Nat
    BY <1>10, PassagesWeigh DEF Assembly
  <2>3. tb <= x /\ (maxPassages = None /\ y <= tokenBudget => Len(a.passages) = N /\ had <= y)
    BY <1>9 DEF Spent
  <2>. HIDE DEF x, y, x2, y2, tb, had
  <2>4. tb <= x2 /\ (maxPassages = None /\ y2 <= tokenBudget => Len(a.passages) = N /\ had <= y2)
    BY <2>1, <2>2, <2>3
  <2>. QED BY <1>9, <2>4 DEF Spent, x2, y2, tb, had
<1>. HIDE DEF S
<1>12. Spent(a, Len(scored), Total(BytesOf(scored)), Total(SizesOf(scored)), tokenBudget, maxPassages)
  BY <1>1, <1>11 DEF N
<1>. QED BY <1>10, <1>12 DEF a

-----------------------------------------------------------------------------
(* Raw Markdown.                                                           *)

\* The page of one citation
PagesAbout(ps, c) == {k \in DOMAIN ps : ps[k].source = c.source}
PageAbout(ps, c) == ps[CHOOSE k \in PagesAbout(ps, c) : TRUE]
PageBytes(page) == ItemOverhead + LengthOf[page.body]
MoreRaw(r, page) == PageBytes(page) + IF r.kept = <<>> THEN 0 ELSE 1
RawWith(r, i, page) ==
  IF Len(r.kept) >= MaxRawItems \/ PageBytes(page) > MaxRawItem \/ r.bytes + MoreRaw(r, page) > MaxRawBytes
  THEN [r EXCEPT !.omitted = @ + 1]
  ELSE [r EXCEPT !.kept = Append(@, [citation |-> i, body |-> page.body]), !.bytes = @ + MoreRaw(r, page)]
RawStep(r, i, ps, cs) ==
  IF PagesAbout(ps, cs[i]) = {} THEN r ELSE RawWith(r, i, PageAbout(ps, cs[i]))
RawFrom(items, ps, cs) == Looped(LAMBDA r, i : RawStep(r, i, ps, cs), Unbound, items)

\* The values a loop goes through.
RawRun(h, items, ps, cs) ==
  h[0] = Unbound /\ \A n \in 1..Len(items) : h[n] = RawStep(h[n - 1], items[n], ps, cs)

\* The citations are looked up one after the other.
LEMMA RawLoop ==
  ASSUME NEW items, Len(items) \in Nat, NEW ps, NEW cs
  PROVE  \E h : RawRun(h, items, ps, cs) /\ RawFrom(items, ps, cs) = h[Len(items)]
<1>. DEFINE N == Len(items)
            Row(h, m) == [n \in 0..m |-> IF n = 0 THEN Unbound ELSE RawStep(h[n - 1], items[n], ps, cs)]
            K == {m \in Nat : \E h : h = Row(h, m)}
            h0 == CHOOSE h : h = Row(h, N)
<1>1. RawFrom(items, ps, cs) = h0[N]
  BY DEF RawFrom, Looped
<1>2. N \in Nat
  OBVIOUS
<1>. HIDE DEF N
<1>3. 0 \in K
  <2>1. [n \in 0..0 |-> Unbound] = Row([n \in 0..0 |-> Unbound], 0)
    OBVIOUS
  <2>. QED BY <2>1
<1>4. ASSUME NEW m \in Nat, m \in K PROVE m + 1 \in K
  <2>1. PICK g : g = Row(g, m)
    BY <1>4
  <2>. DEFINE last == RawStep(g[m], items[m + 1], ps, cs)
              h == [n \in 0..m + 1 |-> IF n = m + 1 THEN last ELSE g[n]]
  <2>2. ASSUME NEW n \in 0..m + 1
        PROVE  h[n] = IF n = 0 THEN Unbound ELSE RawStep(h[n - 1], items[n], ps, cs)
    <3>1. CASE n = m + 1
      <4>1. h[n] = last /\ h[n - 1] = g[m] /\ n # 0
        BY <3>1
      <4>2. last = RawStep(g[m], items[n], ps, cs)
        BY <3>1
      <4>. HIDE DEF h, last
      <4>. QED BY <4>1, <4>2
    <3>2. CASE n # m + 1
      <4>1. n \in 0..m /\ h[n] = g[n] /\ (n # 0 => n - 1 \in 0..m /\ h[n - 1] = g[n - 1])
        BY <3>2
      <4>2. g[n] = IF n = 0 THEN Unbound ELSE RawStep(g[n - 1], items[n], ps, cs)
        BY <2>1, <4>1
      <4>. HIDE DEF h
      <4>. QED BY <4>1, <4>2
    <3>. QED BY <3>1, <3>2
  <2>3. h = Row(h, m + 1)
    <3>. HIDE DEF last
    <3>. QED BY <2>2
  <2>. HIDE DEF h, Row
  <2>. QED BY <2>3
<1>5. N \in K
  <2>. HIDE DEF K
  <2>1. Nat \subseteq K
    BY <1>3, <1>4, SetInduction
  <2>. QED BY <1>2, <2>1
<1>6. h0 = Row(h0, N)
  <2>. HIDE DEF Row
  <2>. QED BY <1>5
<1>. HIDE DEF h0
<1>7. h0[0] = Unbound
  BY <1>2, <1>6
<1>8. ASSUME NEW n \in 1..N PROVE h0[n] = RawStep(h0[n - 1], items[n], ps, cs)
  <2>1. n \in 0..N /\ n # 0
    BY <1>2
  <2>. QED BY <1>6, <2>1
<1>. QED BY <1>1, <1>7, <1>8 DEF RawRun, N


LEMMA RawMarkdownIs ==
  ASSUME NEW ps, NEW cs
  PROVE  RawMarkdown(ps, cs) = RawFrom(Indexes(Len(cs)), ps, cs)
BY DEF RawMarkdown, RawFrom, Looped, RawStep, Unbound, PagesAbout, PageAbout, PageBytes, MoreRaw, RawWith

RawRecord == [citation : Nat, body : DOMAIN LengthOf]
RawState == [kept : Seq(RawRecord), bytes : Nat, omitted : Nat]
RawBytesOf(kept) == [i \in 1..Len(kept) |-> ItemOverhead + LengthOf[kept[i].body]]

\* What is kept is the text of its citation, and within the limit.
RawGood(r, cs) ==
  /\ \A i \in 1..Len(r.kept) :
       r.kept[i].citation \in 1..Len(cs) /\ cs[r.kept[i].citation].doc[2] = r.kept[i].body
  /\ Total(RawBytesOf(r.kept)) <= r.bytes /\ (r.kept = <<>> \/ r.bytes <= MaxRawBytes)

LEMMA RawWeighs ==
  ASSUME NEW kept \in Seq(RawRecord)
  PROVE  /\ RawBytesOf(kept) \in Seq(Nat) /\ Len(RawBytesOf(kept)) = Len(kept)
         /\ Total(RawBytesOf(kept)) \in Nat
         /\ \A i \in 1..Len(kept) : RawBytesOf(kept)[i] = ItemOverhead + LengthOf[kept[i].body]
<1>1. Len(kept) \in Nat /\ \A i \in 1..Len(kept) : kept[i] \in RawRecord
  BY LenProperties, ElementOfSeq
<1>2. \A i \in 1..Len(kept) : LengthOf[kept[i].body] \in Nat
  BY <1>1, EvidenceConstants DEF RawRecord
<1>3. RawBytesOf(kept) \in [1..Len(kept) -> Nat]
  BY <1>2, Limits DEF RawBytesOf
<1>4. RawBytesOf(kept) \in Seq(Nat) /\ Len(RawBytesOf(kept)) = Len(kept)
  BY <1>1, <1>3, FunctionIsSeq
<1>5. Total(RawBytesOf(kept)) \in Nat
  BY <1>4, TotalOfNumbers
<1>. QED BY <1>4, <1>5 DEF RawBytesOf

LEMMA OneRawMore ==
  ASSUME NEW kept \in Seq(RawRecord), NEW p \in RawRecord
  PROVE  /\ Append(kept, p) \in Seq(RawRecord) /\ Len(Append(kept, p)) = Len(kept) + 1
         /\ Append(kept, p)[Len(kept) + 1] = p
         /\ \A i \in 1..Len(kept) : Append(kept, p)[i] = kept[i]
         /\ Total(RawBytesOf(Append(kept, p))) = Total(RawBytesOf(kept)) + (ItemOverhead + LengthOf[p.body])
<1>. DEFINE more == Append(kept, p)
            n == Len(kept)
<1>1. more \in Seq(RawRecord) /\ Len(more) = n + 1 /\ n \in Nat
  OBVIOUS
<1>2. more[n + 1] = p /\ \A i \in 1..n : more[i] = kept[i]
  OBVIOUS
<1>. HIDE DEF more, n
<1>. DEFINE v == RawBytesOf(kept)
            w == RawBytesOf(more)
<1>3. w \in Seq(Nat) /\ Len(w) = n + 1 /\ \A i \in 1..n + 1 : w[i] = ItemOverhead + LengthOf[more[i].body]
  BY <1>1, RawWeighs
<1>4. v \in Seq(Nat) /\ Len(v) = n /\ \A i \in 1..n : v[i] = ItemOverhead + LengthOf[kept[i].body]
  BY RawWeighs DEF n
<1>. HIDE DEF v, w
<1>5. n + 1 \in 1..n + 1 /\ \A i \in 1..n : i \in 1..n + 1
  BY <1>1
<1>6. (\A i \in 1..n : w[i] = v[i]) /\ w[n + 1] = ItemOverhead + LengthOf[p.body]
  <2>1. ASSUME NEW i \in 1..n PROVE w[i] = v[i]
    <3>1. i \in 1..n + 1 /\ more[i] = kept[i]
      BY <1>2, <1>5
    <3>2. w[i] = ItemOverhead + LengthOf[more[i].body]
      BY <1>3, <3>1
    <3>3. v[i] = ItemOverhead + LengthOf[kept[i].body]
      BY <1>4
    <3>. QED BY <3>1, <3>2, <3>3
  <2>2. w[n + 1] = ItemOverhead + LengthOf[more[n + 1].body]
    BY <1>3, <1>5
  <2>. QED BY <1>2, <2>1, <2>2
<1>7. Total(w) = Total(v) + w[Len(w)]
  BY <1>3, <1>4, <1>6, TotalOfNumbers
<1>. QED BY <1>1, <1>2, <1>3, <1>6, <1>7 DEF more, n, v, w

\* The page of a citation is the one its text is from.
LEMMA PageAboutIs ==
  ASSUME NEW ps \in Seq(Page), Numbered(ps), NEW c, FromPage(c, ps)
  PROVE  /\ PagesAbout(ps, c) # {} /\ PageAbout(ps, c) \in Page
         /\ PageAbout(ps, c).body = c.doc[2] /\ PageAbout(ps, c).body \in DOMAIN LengthOf
<1>1. c.source \in 1..Len(ps) /\ c.doc = <<ps[c.source].final, ps[c.source].body>>
  BY DEF FromPage
<1>2. PagesAbout(ps, c) = {c.source}
  <2>1. \A k \in 1..Len(ps) : ps[k].source = k
    BY DEF Numbered
  <2>2. DOMAIN ps = 1..Len(ps)
    OBVIOUS
  <2>. QED BY <1>1, <2>1, <2>2 DEF PagesAbout
<1>3. PageAbout(ps, c) = ps[c.source]
  BY <1>2 DEF PageAbout
<1>4. ps[c.source] \in Page
  BY <1>1, ElementOfSeq
<1>5. ps[c.source].body \in DOMAIN LengthOf
  BY <1>4 DEF Page
<1>. QED BY <1>1, <1>2, <1>3, <1>4, <1>5

LEMMA RawStepKeeps ==
  ASSUME NEW ps \in Seq(Page), Numbered(ps), NEW cs \in Seq(CitationRecord), OfPages(cs, ps),
         NEW r \in RawState, RawGood(r, cs), NEW i \in 1..Len(cs)
  PROVE  RawStep(r, i, ps, cs) \in RawState /\ RawGood(RawStep(r, i, ps, cs), cs)
<1>. DEFINE page == PageAbout(ps, cs[i])
            item == [citation |-> i, body |-> page.body]
            weight == PageBytes(page)
            more == MoreRaw(r, page)
            longer == Append(r.kept, item)
            bytes == r.bytes + more
            out == [r EXCEPT !.omitted = @ + 1]
            in == [r EXCEPT !.kept = longer, !.bytes = bytes]
            had == r.bytes
            tb == Total(RawBytesOf(r.kept))
            n == Len(r.kept)
<1>1. /\ r.kept \in Seq(RawRecord) /\ r.bytes \in Nat /\ r.omitted \in Nat /\ n \in Nat
      /\ r = [kept |-> r.kept, bytes |-> r.bytes, omitted |-> r.omitted]
  BY DEF RawState
<1>2. /\ \A k \in 1..n : r.kept[k].citation \in 1..Len(cs) /\ cs[r.kept[k].citation].doc[2] = r.kept[k].body
      /\ tb <= had /\ (r.kept = <<>> \/ had <= MaxRawBytes)
  BY DEF RawGood
<1>3. tb \in Nat
  BY <1>1, RawWeighs
<1>4. /\ PagesAbout(ps, cs[i]) # {} /\ page.body = cs[i].doc[2] /\ page.body \in DOMAIN LengthOf
  <2>1. FromPage(cs[i], ps)
    BY DEF OfPages
  <2>. QED BY <2>1, PageAboutIs
<1>5. weight \in Nat /\ more \in Nat /\ weight <= more /\ weight = ItemOverhead + LengthOf[page.body]
  <2>1. LengthOf[page.body] \in Nat
    BY <1>4, EvidenceConstants
  <2>2. weight = ItemOverhead + LengthOf[page.body] /\ more = weight + IF r.kept = <<>> THEN 0 ELSE 1
    BY DEF PageBytes, MoreRaw
  <2>3. weight \in Nat
    BY <2>1, <2>2, Limits
  <2>4. more \in Nat /\ weight <= more
    <3>1. CASE r.kept = <<>>
      <4>1. more = weight + 0
        BY <2>2, <3>1
      <4>. HIDE DEF weight, more
      <4>. QED BY <2>3, <4>1
    <3>2. CASE r.kept # <<>>
      <4>1. more = weight + 1
        BY <2>2, <3>2
      <4>. HIDE DEF weight, more
      <4>. QED BY <2>3, <4>1
    <3>. QED BY <3>1, <3>2
  <2>. HIDE DEF weight, more
  <2>. QED BY <2>2, <2>3, <2>4
<1>6. \/ RawStep(r, i, ps, cs) = out
      \/ RawStep(r, i, ps, cs) = in /\ ~(bytes > MaxRawBytes)
  BY <1>4, Zenon DEF RawStep, RawWith
<1>. HIDE DEF page, weight, more, tb, n
<1>7. out \in RawState /\ RawGood(out, cs)
  <2>1. out = [kept |-> r.kept, bytes |-> r.bytes, omitted |-> r.omitted + 1]
    BY <1>1
  <2>2. out.kept = r.kept /\ out.bytes = r.bytes
    BY <2>1
  <2>3. out \in RawState
    BY <1>1, <2>1 DEF RawState
  <2>. HIDE DEF out
  <2>4. RawGood(out, cs)
    BY <1>2, <2>2 DEF RawGood, n, tb
  <2>. QED BY <2>3, <2>4
<1>8. ASSUME ~(bytes > MaxRawBytes) PROVE in \in RawState /\ RawGood(in, cs)
  <2>1. item \in RawRecord /\ item.citation = i /\ item.body = page.body
    <3>1. i \in Nat
      OBVIOUS
    <3>. QED BY <1>4, <3>1 DEF RawRecord
  <2>. HIDE DEF item
  <2>2. /\ longer \in Seq(RawRecord) /\ Len(longer) = n + 1 /\ longer[n + 1] = item
        /\ \A k \in 1..n : longer[k] = r.kept[k]
        /\ Total(RawBytesOf(longer)) = tb + (ItemOverhead + LengthOf[item.body])
    BY <1>1, <2>1, OneRawMore DEF n, tb
  <2>3. in = [kept |-> longer, bytes |-> bytes, omitted |-> r.omitted]
    <3>1. r = [kept |-> r.kept, bytes |-> r.bytes, omitted |-> r.omitted]
      BY <1>1
    <3>. DEFINE r1 == [r EXCEPT !.kept = longer]
    <3>. HIDE DEF longer, bytes
    <3>2. r1 = [kept |-> longer, bytes |-> r.bytes, omitted |-> r.omitted]
      BY <3>1
    <3>3. in = [r1 EXCEPT !.bytes = bytes]
      BY <3>1
    <3>. HIDE DEF r1, in
    <3>. QED BY <3>2, <3>3
  <2>4. bytes \in Nat /\ bytes = had + more
    BY <1>1, <1>5
  <2>. HIDE DEF longer, bytes
  <2>5. in.kept = longer /\ in.bytes = bytes
    BY <2>3
  <2>6. in \in RawState
    BY <1>1, <2>2, <2>3, <2>4 DEF RawState
  <2>. HIDE DEF in
  <2>7. \A k \in 1..Len(longer) : longer[k].citation \in 1..Len(cs) /\ cs[longer[k].citation].doc[2] = longer[k].body
    <3>. TAKE k \in 1..Len(longer)
    <3>1. CASE k = n + 1
      BY <1>4, <2>1, <2>2, <3>1
    <3>2. CASE k # n + 1
      <4>1. k \in 1..n
        BY <1>1, <2>2, <3>2
      <4>. QED BY <1>2, <2>2, <4>1
    <3>. QED BY <3>1, <3>2
  <2>8. Total(RawBytesOf(longer)) <= bytes /\ bytes <= MaxRawBytes
    <3>1. /\ Total(RawBytesOf(longer)) = tb + weight /\ tb \in Nat /\ weight \in Nat /\ more \in Nat
          /\ weight <= more /\ bytes = had + more /\ had \in Nat /\ tb <= had /\ bytes \in Nat
          /\ ~(bytes > MaxRawBytes) /\ MaxRawBytes \in Nat
      BY <1>1, <1>2, <1>3, <1>5, <1>8, <2>1, <2>2, <2>4, Limits
    <3>. HIDE DEF had
    <3>. QED BY <3>1
  <2>. QED BY <2>5, <2>6, <2>7, <2>8 DEF RawGood
<1>. HIDE DEF out, in
<1>. QED BY <1>6, <1>7, <1>8

\* The raw Markdown is the text of the citations, as far as it fits.
LEMMA RawKeeps ==
  ASSUME NEW ps \in Seq(Page), Numbered(ps), NEW cs \in Seq(CitationRecord), OfPages(cs, ps)
  PROVE  LET r == RawMarkdown(ps, cs) IN
         /\ r \in RawState /\ Total(RawBytesOf(r.kept)) <= MaxRawBytes
         /\ \A i \in 1..Len(r.kept) :
              r.kept[i].citation \in 1..Len(cs) /\ cs[r.kept[i].citation].doc[2] = r.kept[i].body
<1>. DEFINE items == Indexes(Len(cs))
            N == Len(cs)
            r == RawMarkdown(ps, cs)
<1>1. N \in Nat /\ Len(items) = N /\ \A n \in 1..N : items[n] = n
  BY DEF Indexes
<1>2. r = RawFrom(items, ps, cs)
  BY RawMarkdownIs
<1>. HIDE DEF items, r
<1>3. PICK h : RawRun(h, items, ps, cs) /\ r = h[N]
  BY <1>1, <1>2, RawLoop
<1>. DEFINE hs == [n \in 0..N |-> h[n]]
            B == {x \in RawState : RawGood(x, cs)}
<1>4. hs[0] \in B
  <2>. DEFINE h0 == h[0]
  <2>1. h0 = Unbound
    BY <1>3 DEF RawRun
  <2>2. Unbound \in RawState
    <3>1. <<>> \in Seq(RawRecord)
      OBVIOUS
    <3>. QED BY <3>1, Zenon DEF Unbound, RawState
  <2>3. RawGood(Unbound, cs)
    <3>. DEFINE none == Unbound.kept
    <3>1. none = <<>> /\ Unbound.bytes = 2
      BY DEF Unbound
    <3>2. RawBytesOf(<<>>) = <<>> /\ Len(<<>>) = 0
      BY DEF RawBytesOf
    <3>3. Total(RawBytesOf(none)) = 0 /\ Len(none) = 0
      BY <3>1, <3>2, TotalOfNothing
    <3>. HIDE DEF none
    <3>. QED BY <3>1, <3>3 DEF RawGood, none
  <2>4. hs[0] = h0
    BY <1>1
  <2>. HIDE DEF h0, hs
  <2>. QED BY <2>1, <2>2, <2>3, <2>4
<1>5. ASSUME NEW n \in 1..N, hs[n - 1] \in B PROVE hs[n] \in B
  <2>1. n \in 0..N /\ n - 1 \in 0..N
    BY <1>1
  <2>2. h[n - 1] \in RawState /\ RawGood(h[n - 1], cs)
    BY <1>5, <2>1
  <2>3. h[n] = RawStep(h[n - 1], n, ps, cs)
    BY <1>1, <1>3 DEF RawRun
  <2>4. h[n] \in RawState /\ RawGood(h[n], cs)
    BY <2>2, <2>3, RawStepKeeps
  <2>. QED BY <2>1, <2>4
<1>6. \A n \in 0..N : hs[n] \in B
  <2>. HIDE DEF hs, B, N
  <2>. QED BY <1>1, <1>4, <1>5, LoopStays
<1>7. r \in RawState /\ RawGood(r, cs)
  <2>1. N \in 0..N
    BY <1>1
  <2>. QED BY <1>3, <1>6, <2>1
<1>8. Total(RawBytesOf(r.kept)) <= MaxRawBytes
  <2>1. r.kept \in Seq(RawRecord) /\ r.bytes \in Nat
    BY <1>7 DEF RawState
  <2>2. Total(RawBytesOf(r.kept)) \in Nat
    BY <2>1, RawWeighs
  <2>3. CASE r.kept = <<>>
    <3>1. RawBytesOf(<<>>) = <<>>
      BY DEF RawBytesOf
    <3>. QED BY <2>3, <3>1, TotalOfNothing, Limits
  <2>4. CASE r.bytes <= MaxRawBytes
    BY <1>7, <2>1, <2>2, <2>4, Limits DEF RawGood
  <2>. QED BY <1>7, <2>3, <2>4 DEF RawGood
<1>. QED BY <1>7, <1>8 DEF RawGood, r

-----------------------------------------------------------------------------
(* What the variables hold.                                                *)

\* Until a service has answered, there is nothing of what it is asked for.
Before(st, later) == st \notin later \cup {"done"}
Sel(s, picked, urls) ==
  /\ picked \in Seq(Result) /\ \A i, j \in 1..Len(picked) : picked[i].url = picked[j].url => i = j
  /\ Len(picked) <= MaxUrlsOf(s) /\ urls = UrlsOf(picked)
Fetched(s, urls, ps) ==
  ps \in Seq(Page) /\ Numbered(ps) /\ \A k \in 1..Len(ps) : Arrived(ps[k], s, urls)
Stages == {"plan", "discover", "safety", "fetch", "chunk", "rerank", "done"}

TypeParts ==
  /\ search \in Searches /\ stage \in Stages /\ queries \in Seq(Queries)
  /\ merged \in Seq(Result) /\ OneOfEachKey(merged)
  /\ Sel(search, selected, asked)
  /\ Before(stage, {"fetch", "chunk", "rerank"}) => selected = <<>>
  /\ Fetched(search, asked, pages)
  /\ Before(stage, {"chunk", "rerank"}) => pages = <<>>
  /\ chunks \in Seq(ChunksFrom(pages))
  /\ Before(stage, {"rerank"}) => chunks = <<>>
  /\ stage = "rerank" => chunks # <<>>
SearchTypes == TypeParts

LEMMA SearchIsOK ==
  ASSUME search \in Searches
  PROVE  RequestOK(search) /\ AnswersOK(search)
BY Zenon, SearchConstants

LEMMA EmptySeqs ==
  /\ \A S : <<>> \in Seq(S)
  /\ OneOfEachKey(<<>>)
  /\ \A s : RequestOK(s) => Sel(s, <<>>, {})
  /\ \A s, urls : Fetched(s, urls, <<>>)
<1>1. \A S : <<>> \in Seq(S)
  OBVIOUS
<1>2. Len(<<>>) = 0 /\ 1..0 = {}
  OBVIOUS
<1>3. OneOfEachKey(<<>>)
  BY <1>2 DEF OneOfEachKey
<1>4. ASSUME NEW s, RequestOK(s) PROVE Sel(s, <<>>, {})
  <2>1. UrlsOf(<<>>) = {}
    BY DEF UrlsOf, ToSet
  <2>2. 0 <= MaxUrlsOf(s)
    <3>1. MaxUrlsOf(s) \in Nat \ {0}
      BY <1>4, MaxUrlsIsNat
    <3>. QED BY <3>1
  <2>. QED BY <1>1, <1>2, <2>1, <2>2 DEF Sel
<1>5. ASSUME NEW s, NEW urls PROVE Fetched(s, urls, <<>>)
  <2>. DEFINE none == <<>>
  <2>1. none \in Seq(Page) /\ Len(none) = 0
    BY <1>1, <1>2
  <2>. HIDE DEF none
  <2>2. Fetched(s, urls, none)
    BY <1>2, <2>1 DEF Fetched, Numbered
  <2>. QED BY <2>2 DEF none
<1>. QED BY <1>1, <1>3, <1>4, <1>5

\* The plan is some queries.
LEMMA PlannedKeeps ==
  ASSUME AnswersOK(search), NEW plan \in search.plans
  PROVE  Planned(plan) \in Seq(Queries)
<1>1. Query \in Queries /\ MaxSubqueries \in Nat \ {0}
  BY Zenon, SearchConstants
<1>2. plan = None \/ plan \in Seq(Queries)
  BY Zenon DEF AnswersOK
<1>3. CASE plan \in {None, <<>>}
  BY <1>1, <1>3 DEF Planned
<1>4. CASE plan \notin {None, <<>>}
  <2>. DEFINE n == IF Len(plan) <= MaxSubqueries THEN Len(plan) ELSE MaxSubqueries
  <2>1. plan \in Seq(Queries) /\ Len(plan) \in Nat
    BY <1>2, <1>4
  <2>2. n \in Nat /\ n <= Len(plan) /\ Planned(plan) = SubSeq(plan, 1, n)
    BY <1>1, <1>4, <2>1 DEF Planned
  <2>. HIDE DEF n
  <2>3. SubSeq(plan, 1, n) \in Seq(Queries)
    BY <2>1, <2>2
  <2>. QED BY <2>2, <2>3
<1>. QED BY <1>3, <1>4

\* Each step keeps it.
LEMMA PlanTypes == SearchTypes /\ Plan => SearchTypes'
<1>. SUFFICES ASSUME SearchTypes, Plan PROVE TypeParts'
  BY DEF SearchTypes
<1>1. /\ stage = "plan" /\ UNCHANGED <<search, merged, selected, pages, chunks, asked, offered>>
      /\ \E plan \in search.plans : queries' = Planned(plan)
      /\ stage' = "discover"
  BY DEF Plan, GoOn
<1>2. queries' \in Seq(Queries)
  BY <1>1, SearchIsOK, PlannedKeeps DEF SearchTypes, TypeParts
<1>. QED BY <1>1, <1>2 DEF SearchTypes, TypeParts, Before, Stages

LEMMA DiscoverTypes == SearchTypes /\ Discover => SearchTypes'
<1>. SUFFICES ASSUME SearchTypes, Discover PROVE TypeParts'
  BY DEF SearchTypes
<1>1. /\ stage = "discover" /\ UNCHANGED <<search, queries, selected, pages, chunks, asked, offered>>
      /\ \E answers \in [DOMAIN queries -> search.answers] : DiscoverWith(answers)
  BY DiscoverIs
<1>2. PICK answers \in [DOMAIN queries -> search.answers] : DiscoverWith(answers)
  BY <1>1
<1>3. MergedFrom(answers) \in Seq(Result) /\ OneOfEachKey(MergedFrom(answers))
  BY SearchIsOK, DiscoverKeeps DEF SearchTypes, TypeParts
<1>4. merged' \in {<<>>, MergedFrom(answers)} /\ stage' \in {"done", "safety"}
  BY <1>2, Zenon DEF DiscoverWith, Unavailable, Empty, GoOn, Respond
<1>5. merged' \in Seq(Result) /\ OneOfEachKey(merged')
  BY <1>3, <1>4, EmptySeqs
<1>. QED BY <1>1, <1>4, <1>5 DEF SearchTypes, TypeParts, Before, Stages

LEMMA SelectTypes == SearchTypes /\ SelectUrls => SearchTypes'
<1>. SUFFICES ASSUME SearchTypes, SelectUrls PROVE TypeParts'
  BY DEF SearchTypes
<1>1. /\ stage = "safety" /\ UNCHANGED <<search, queries, pages, chunks, offered>>
      /\ \E works : SelectFrom(SafeOf(works))
  BY SelectIs
<1>2. PICK works : SelectFrom(SafeOf(works))
  BY <1>1
<1>3. /\ SafeOf(works) \in Seq(Result) /\ OneOfEachKey(SafeOf(works))
      /\ \A i \in 1..Len(SafeOf(works)) : HostIsSafe(SafeOf(works)[i])
  BY SafeKeeps DEF SearchTypes, TypeParts
<1>4. Sel(search, PickedOf(SafeOf(works)), UrlsOf(PickedOf(SafeOf(works))))
  <2>1. RequestOK(search)
    BY SearchIsOK DEF SearchTypes, TypeParts
  <2>. QED BY <1>3, <2>1, SelectIsSound DEF Sel, PickedOf
<1>5. \/ stage' = "done" /\ UNCHANGED <<merged, selected, asked>>
      \/ /\ stage' = "fetch" /\ merged' = SafeOf(works) /\ selected' = PickedOf(SafeOf(works))
         /\ asked' = UrlsOf(PickedOf(SafeOf(works)))
  BY <1>2, Zenon DEF SelectFrom, Empty, GoOn, Respond
<1>6. merged' \in Seq(Result) /\ OneOfEachKey(merged') /\ Sel(search, selected', asked')
  BY <1>3, <1>4, <1>5 DEF SearchTypes, TypeParts
<1>7. pages' = <<>> /\ chunks' = <<>> /\ search' = search /\ queries' = queries
  BY <1>1 DEF SearchTypes, TypeParts, Before
<1>8. Fetched(search', asked', pages') /\ chunks' \in Seq(ChunksFrom(pages'))
  BY <1>7, EmptySeqs
<1>9. stage' \in Stages /\ stage' # "rerank" /\ (Before(stage', {"fetch", "chunk", "rerank"}) => selected' = <<>>)
  BY <1>5 DEF Before, Stages
<1>. QED BY <1>6, <1>7, <1>8, <1>9 DEF SearchTypes, TypeParts

LEMMA FetchTypes == SearchTypes /\ Fetch => SearchTypes'
<1>. SUFFICES ASSUME SearchTypes, Fetch PROVE TypeParts'
  BY DEF SearchTypes
<1>1. /\ stage = "fetch" /\ UNCHANGED <<search, queries, merged, selected, chunks, asked, offered>>
      /\ \E outcome \in [DOMAIN selected -> search.fetches] : FetchWith(outcome)
  BY FetchIs
<1>2. PICK outcome \in [DOMAIN selected -> search.fetches] : FetchWith(outcome)
  BY <1>1
<1>3. selected \in Seq(Result) /\ asked = UrlsOf(selected) /\ AnswersOK(search)
  BY SearchIsOK DEF SearchTypes, TypeParts, Sel
<1>. DEFINE found == FoundPages(outcome)
<1>4. found \in Seq(Page) /\ \A k \in 1..Len(found) : Arrived(found[k], search, asked)
  BY <1>3, FetchKeeps
<1>5. pages' \in {<<>>, Deduped(found)} /\ stage' \in {"done", "chunk"}
  BY <1>2, Zenon DEF FetchWith, Empty, GoOn, Respond
<1>. HIDE DEF found
<1>6. Fetched(search, asked, Deduped(found))
  BY <1>4, DedupedKeeps DEF Fetched
<1>7. Fetched(search', asked', pages')
  BY <1>1, <1>5, <1>6, EmptySeqs
<1>8. chunks' = <<>>
  BY <1>1 DEF SearchTypes, TypeParts, Before
<1>9. chunks' \in Seq(ChunksFrom(pages'))
  BY <1>8, EmptySeqs
<1>10. /\ stage' \in Stages /\ stage' # "rerank" /\ ~Before(stage', {"fetch", "chunk", "rerank"})
       /\ ~Before(stage', {"chunk", "rerank"})
  BY <1>5 DEF Before, Stages
<1>11. /\ search' \in Searches /\ queries' \in Seq(Queries) /\ merged' \in Seq(Result)
       /\ OneOfEachKey(merged') /\ Sel(search', selected', asked')
  BY <1>1 DEF SearchTypes, TypeParts
<1>. QED BY <1>7, <1>8, <1>9, <1>10, <1>11 DEF TypeParts

\* A step that ends the search changes nothing but the answer.
LEMMA DoneTypes ==
  ASSUME SearchTypes, stage' = "done", UNCHANGED <<search, queries, merged, selected, pages, chunks, asked>>
  PROVE  SearchTypes'
<1>1. stage' \in Stages /\ stage' # "rerank" /\ \A later : ~Before(stage', later)
  BY DEF Before, Stages
<1>. QED BY <1>1 DEF SearchTypes, TypeParts

LEMMA ChunkTypes == SearchTypes /\ Chunk => SearchTypes'
<1>. SUFFICES ASSUME SearchTypes, Chunk PROVE SearchTypes'
  OBVIOUS
<1>1. /\ stage = "chunk" /\ UNCHANGED <<search, queries, merged, selected, pages, asked>>
      /\ \E answer : /\ \A i \in DOMAIN pages : answer[i] \in search.chunkings[pages[i].body]
                     /\ ChunkWith(answer)
  BY ChunkIs
<1>2. PICK answer : /\ \A i \in DOMAIN pages : answer[i] \in search.chunkings[pages[i].body]
                    /\ ChunkWith(answer)
  BY <1>1
<1>3. ProducedOf(answer) \in Seq(ChunksFrom(pages))
  BY <1>2, SearchIsOK, ProducedKeeps DEF SearchTypes, TypeParts, Fetched
<1>4. CASE stage' = "done" /\ UNCHANGED chunks
  BY <1>1, <1>4, DoneTypes
<1>5. CASE ProducedOf(answer) # <<>> /\ stage' = "rerank" /\ chunks' = Prefilter(ProducedOf(answer))
  <2>1. ChunksFrom(pages) \in SUBSET ChunkRecord
    BY DEF ChunksFrom
  <2>2. chunks' \in Seq(ChunksFrom(pages)) /\ chunks' # <<>>
    BY <1>3, <1>5, <2>1, PrefilterKeeps
  <2>. QED BY <1>1, <1>5, <2>2 DEF SearchTypes, TypeParts, Before, Stages
<1>6. \/ stage' = "done" /\ UNCHANGED chunks
      \/ ProducedOf(answer) # <<>> /\ stage' = "rerank" /\ chunks' = Prefilter(ProducedOf(answer))
  BY <1>2, Zenon DEF ChunkWith, Unavailable, Empty, GoOn, Respond
<1>. QED BY <1>4, <1>5, <1>6

-----------------------------------------------------------------------------
(* The end of a search, with names for what it computes.                   *)

AboveOf(scored, reranked) == AboveFloor(scored, reranked, search.floor)
CleanOf(above) == IF search.quality THEN Quality(above) ELSE above
BuiltOf(kept) == Assembled(kept, search.tokenBudget, search.maxPassages)
RawOf(cs) == IF search.raw THEN RawMarkdown(pages, cs) ELSE [kept |-> <<>>, omitted |-> 0]

ScoredStats(scored, above, reranked, count) ==
  [stats EXCEPT !.reranked = reranked, !.scored = count,
                !.floorFilled = reranked /\ count < Len(chunks),
                !.belowFloor = Len(scored) - Len(above)]
CleanStats(st, above, clean) == [st EXCEPT !.noise = Len(above) - Len(clean)]
BoundStats(st, omitted) == [st EXCEPT !.evidenceOmitted = omitted]
LastStats(st, tokens, omitted) == [st EXCEPT !.tokens = tokens, !.rawOmitted = omitted]

Answer(built, raw) ==
  [status |-> "ok", passages |-> built.passages, citations |-> built.citations, raw |-> raw.kept]

\* What is left at each stage, and the counters there
Left(scored, reranked, above, clean, bound) ==
  above = AboveOf(scored, reranked) /\ clean = CleanOf(above) /\ bound = Bound(clean)
FinishWith(scored, reranked, count, above, clean, bound) ==
  LET st1 == ScoredStats(scored, above, reranked, count)
      st2 == CleanStats(st1, above, clean)
      st3 == BoundStats(st2, bound.omitted)
  IN \/ above = <<>> /\ Empty(st1, "no_chunks_after_rerank")
     \/ above # <<>> /\ clean = <<>> /\ Empty(st2, "no_evidence_after_quality_gate")
     \/ clean # <<>> /\ bound.kept = <<>> /\ Empty(st3, "no_evidence_after_output_budget")
     \/ /\ clean # <<>> /\ bound.kept # <<>>
        /\ Respond(LastStats(st3, BuiltOf(bound.kept).tokens, RawOf(BuiltOf(bound.kept).citations).omitted),
                   Answer(BuiltOf(bound.kept), RawOf(BuiltOf(bound.kept).citations)))

LEMMA FinishIs ==
  ASSUME NEW scored, NEW reranked, NEW count, Finish(scored, reranked, count), NEW above, NEW clean, NEW bound,
         Left(scored, reranked, above, clean, bound)
  PROVE  FinishWith(scored, reranked, count, above, clean, bound)
<1>1. LET a == AboveOf(scored, reranked)
          c == CleanOf(a)
          b == Bound(c)
          built == BuiltOf(b.kept)
          raw == RawOf(built.citations)
          st1 == ScoredStats(scored, a, reranked, count)
          st2 == CleanStats(st1, a, c)
          st3 == BoundStats(st2, b.omitted)
      IN CASE a = <<>> -> Empty(st1, "no_chunks_after_rerank")
           [] a # <<>> /\ c = <<>> -> Empty(st2, "no_evidence_after_quality_gate")
           [] c # <<>> /\ b.kept = <<>> -> Empty(st3, "no_evidence_after_output_budget")
           [] OTHER -> Respond(LastStats(st3, built.tokens, raw.omitted), Answer(built, raw))
  BY Zenon DEF Finish, AboveOf, CleanOf, BuiltOf, RawOf, ScoredStats, CleanStats, BoundStats, LastStats, Answer
<1>2. above = AboveOf(scored, reranked) /\ clean = CleanOf(above) /\ bound = Bound(clean)
  BY DEF Left
<1>3. CleanOf(<<>>) = <<>>
  <2>1. Quality(<<>>) = <<>>
    <3>1. Quality(<<>>) \in Seq(Scored({})) /\ Len(Quality(<<>>)) \in 0..Len(<<>>)
      BY QualityKeeps, EmptySeqs
    <3>. QED BY <3>1, EmptySeq
  <2>. QED BY <2>1 DEF CleanOf
<1>4. CASE above = <<>>
  BY <1>1, <1>2, <1>4, Zenon DEF FinishWith
<1>5. CASE above # <<>> /\ clean = <<>>
  BY <1>1, <1>2, <1>5, Zenon DEF FinishWith
<1>6. CASE clean # <<>> /\ bound.kept = <<>>
  <2>1. above # <<>>
    BY <1>2, <1>3, <1>6
  <2>. QED BY <1>1, <1>2, <1>6, <2>1, Zenon DEF FinishWith
<1>7. CASE clean # <<>> /\ bound.kept # <<>>
  <2>1. above # <<>>
    BY <1>2, <1>3, <1>7
  <2>. QED BY <1>1, <1>2, <1>7, <2>1, Zenon DEF FinishWith
<1>. QED BY <1>4, <1>5, <1>6, <1>7

LEMMA FinishEnds ==
  ASSUME NEW scored, NEW reranked, NEW count, Finish(scored, reranked, count)
  PROVE  stage' = "done"
<1>1. FinishWith(scored, reranked, count, AboveOf(scored, reranked), CleanOf(AboveOf(scored, reranked)),
                 Bound(CleanOf(AboveOf(scored, reranked))))
  BY FinishIs DEF Left
<1>. QED BY <1>1, Zenon DEF FinishWith, Empty, Respond

\* The end follows the reranker, or goes without it.
LEMMA RerankIs ==
  ASSUME Rerank \/ RerankDeadline
  PROVE  /\ stage = "rerank" /\ UNCHANGED <<search, queries, merged, selected, pages, chunks, asked, offered>>
         /\ \/ Finish(ByPosition(chunks), FALSE, 0)
            \/ \E answers \in [1..Batches(Len(chunks)) -> search.ranks] :
                 /\ ScoresOf(Len(chunks), answers) # <<>>
                 /\ Finish(Reranked(chunks, answers), TRUE, Len(ScoresOf(Len(chunks), answers)))
BY Zenon DEF Rerank, RerankDeadline

LEMMA RerankTypes == SearchTypes /\ (Rerank \/ RerankDeadline) => SearchTypes'
<1>. SUFFICES ASSUME SearchTypes, Rerank \/ RerankDeadline PROVE SearchTypes'
  OBVIOUS
<1>1. UNCHANGED <<search, queries, merged, selected, pages, chunks, asked, offered>> /\ stage' = "done"
  BY RerankIs, FinishEnds
<1>. QED BY <1>1, DoneTypes

\* Invariant: each variable holds what its service made of the one before.
LEMMA SearchTypesStay == SearchTypes /\ [Next]_vars => SearchTypes'
<1>. SUFFICES ASSUME SearchTypes, [Next]_vars PROVE SearchTypes'
  OBVIOUS
<1>1. CASE FetchDeadline
  <2>1. stage' = "done" /\ UNCHANGED <<search, queries, merged, selected, pages, chunks, asked, offered>>
    BY <1>1, Zenon DEF FetchDeadline, Empty, Respond
  <2>. QED BY <2>1, DoneTypes
<1>2. CASE ChunkerFails
  <2>1. stage' = "done" /\ UNCHANGED <<search, queries, merged, selected, pages, chunks, asked, offered>>
    BY <1>2, Zenon DEF ChunkerFails, Unavailable, Respond
  <2>. QED BY <2>1, DoneTypes
<1>3. CASE RouteDeadline
  <2>1. stage' = "done" /\ UNCHANGED <<search, queries, merged, selected, pages, chunks, asked, offered>>
    BY <1>3, Zenon DEF RouteDeadline, Respond
  <2>. QED BY <2>1, DoneTypes
<1>4. CASE UNCHANGED vars
  BY <1>4 DEF vars, SearchTypes, TypeParts
<1>. QED BY <1>1, <1>2, <1>3, <1>4, PlanTypes, DiscoverTypes, SelectTypes, FetchTypes, ChunkTypes, RerankTypes
       DEF Next

LEMMA SearchTypesFirst == Init => SearchTypes
<1>. SUFFICES ASSUME Init PROVE TypeParts
  BY DEF SearchTypes
<1>1. /\ search \in Searches /\ stage = "plan" /\ queries = <<>> /\ merged = <<>> /\ selected = <<>>
      /\ pages = <<>> /\ chunks = <<>> /\ asked = {}
  BY DEF Init
<1>2. RequestOK(search)
  BY <1>1, SearchIsOK
<1>. QED BY <1>1, <1>2, EmptySeqs DEF TypeParts, Stages

LEMMA SearchTypesAlways == Spec => []SearchTypes
BY SearchTypesFirst, SearchTypesStay, PTL DEF Spec

-----------------------------------------------------------------------------
(* The counters.                                                           *)

\* The whole is as long as the parts together.
LEMMA FlattenLength ==
  ASSUME NEW T, NEW seqs \in Seq(Seq(T)), NEW w, w = [i \in 1..Len(seqs) |-> Len(seqs[i])]
  PROVE  Len(FlattenSeq(seqs)) = Total(w) /\ Total(w) \in Nat
<1>. DEFINE N == Len(seqs)
<1>1. N \in Nat /\ \A i \in 1..N : seqs[i] \in Seq(T) /\ Len(seqs[i]) \in Nat
  <2>1. N \in Nat /\ \A i \in 1..N : seqs[i] \in Seq(T)
    BY LenProperties, ElementOfSeq
  <2>. QED BY <2>1, LenProperties
<1>2. w \in [1..N -> Nat] /\ \A i \in 1..N : w[i] = Len(seqs[i])
  BY <1>1
<1>3. w \in Seq(Nat) /\ Len(w) = N
  BY <1>1, <1>2, FunctionIsSeq
<1>4. PICK g : FlattenRun(g, seqs) /\ FlattenSeq(seqs) = g[N]
  BY FlattenLoop
<1>5. PICK h : Sums(h, w) /\ Total(w) = h[N]
  BY <1>1, <1>3, TotalSums
<1>. DEFINE both == [n \in 0..N |-> <<g[n], h[n]>>]
            B == {p \in Seq(T) \X Nat : Len(p[1]) = p[2]}
<1>6. \A n \in 0..N : both[n] \in B
  <2>1. both[0] \in B
    <3>1. both[0] = <<g[0], h[0]>> /\ g[0] = <<>> /\ h[0] = 0
      BY <1>1, <1>4, <1>5 DEF FlattenRun, Sums
    <3>2. <<>> \in Seq(T) /\ Len(<<>>) = 0
      OBVIOUS
    <3>3. both[0] = <<g[0], h[0]>> /\ g[0] \in Seq(T) /\ Len(g[0]) = h[0] /\ h[0] \in Nat
      BY <3>1, <3>2
    <3>. HIDE DEF both
    <3>. QED BY <3>3
  <2>2. ASSUME NEW n \in 1..N, both[n - 1] \in B PROVE both[n] \in B
    <3>1. n \in 0..N /\ n - 1 \in 0..N /\ both[n - 1] = <<g[n - 1], h[n - 1]>> /\ both[n] = <<g[n], h[n]>>
      BY <1>1
    <3>2. g[n - 1] \in Seq(T) /\ h[n - 1] \in Nat /\ Len(g[n - 1]) = h[n - 1]
      BY <2>2, <3>1
    <3>3. /\ g[n] = g[n - 1] \o seqs[n] /\ h[n] = h[n - 1] + w[n]
          /\ seqs[n] \in Seq(T) /\ w[n] = Len(seqs[n]) /\ w[n] \in Nat
      BY <1>1, <1>2, <1>3, <1>4, <1>5 DEF FlattenRun, Sums
    <3>4. g[n] \in Seq(T) /\ Len(g[n]) = Len(g[n - 1]) + Len(seqs[n])
      <4>1. g[n - 1] \o seqs[n] \in Seq(T) /\ Len(g[n - 1] \o seqs[n]) = Len(g[n - 1]) + Len(seqs[n])
        <5>. HIDE DEF both
        <5>. QED BY <3>2, <3>3, ConcatProperties, Zenon
      <4>. QED BY <3>3, <4>1, Zenon
    <3>5. h[n] \in Nat /\ Len(g[n]) = h[n]
      <4>1. /\ h[n - 1] \in Nat /\ w[n] \in Nat /\ h[n] = h[n - 1] + w[n]
            /\ Len(g[n]) = h[n - 1] + w[n]
        BY <3>2, <3>3, <3>4, Zenon
      <4>. QED BY <4>1
    <3>. HIDE DEF both
    <3>. QED BY <3>1, <3>4, <3>5
  <2>. HIDE DEF both, B
  <2>. QED BY <1>1, <2>1, <2>2, LoopStays
<1>7. both[N] \in B /\ both[N] = <<g[N], h[N]>>
  BY <1>1, <1>6
<1>. QED BY <1>4, <1>5, <1>7

\* No more results are left than were found.
LEMMA FoundKeeps ==
  ASSUME queries \in Seq(Queries), AnswersOK(search), NEW answers \in [DOMAIN queries -> search.answers]
  PROVE  /\ FoundOf(answers) \in Nat /\ Len(MergedFrom(answers)) \in Nat
         /\ Len(MergedFrom(answers)) <= FoundOf(answers)
<1>. DEFINE sets == ParsedOf(answers)
            qs == QueriesOf(answers)
            told == ToldBy(sets, qs)
            w == [k \in 1..Len(sets) |-> Len(sets[k])]
<1>1. /\ sets \in Seq(Seq(Result)) /\ \A k \in 1..Len(sets) : qs[k] \in Queries
      /\ MergedFrom(answers) \in Seq(Result) /\ Len(MergedFrom(answers)) <= Len(AllTold(sets, qs))
  BY DiscoverKeeps
<1>2. FoundOf(answers) = Total(w)
  BY DEF FoundOf, Sum
<1>. HIDE DEF sets, qs
<1>3. /\ told \in Seq(Seq(Told)) /\ Len(told) = Len(sets)
      /\ \A i \in 1..Len(sets) : Len(told[i]) = Len(sets[i])
  BY <1>1, ToldKeeps
<1>4. w = [i \in 1..Len(told) |-> Len(told[i])]
  BY <1>3
<1>5. AllTold(sets, qs) = FlattenSeq(told)
  BY DEF AllTold
<1>. HIDE DEF told, w
<1>6. Len(FlattenSeq(told)) = Total(w) /\ Total(w) \in Nat
  BY <1>3, <1>4, FlattenLength
<1>7. Len(MergedFrom(answers)) \in Nat
  BY <1>1, LenProperties
<1>. QED BY <1>1, <1>2, <1>5, <1>6, <1>7

\* One address more, or one that is left out
MoreTold(d, r) == UrlBytes[r.url] + IF d.kept = <<>> THEN 0 ELSE 1
DiagnoseStep(d, r) ==
  IF Len(d.kept) < MaxDiagnostics /\ d.bytes + MoreTold(d, r) <= MaxDiagnosticsBytes
  THEN [d EXCEPT !.kept = Append(@, r.url), !.bytes = @ + MoreTold(d, r)]
  ELSE [d EXCEPT !.omitted = @ + 1]
DiagnosedFrom(items) == Looped(DiagnoseStep, Unbound, items)

\* The values a loop goes through.
DiagnoseRun(h, items) ==
  h[0] = Unbound /\ \A n \in 1..Len(items) : h[n] = DiagnoseStep(h[n - 1], items[n])

\* The addresses are told one after the other.
LEMMA DiagnoseLoop ==
  ASSUME NEW items, Len(items) \in Nat
  PROVE  \E h : DiagnoseRun(h, items) /\ DiagnosedFrom(items) = h[Len(items)]
<1>. DEFINE N == Len(items)
            Row(h, m) == [n \in 0..m |-> IF n = 0 THEN Unbound ELSE DiagnoseStep(h[n - 1], items[n])]
            K == {m \in Nat : \E h : h = Row(h, m)}
            h0 == CHOOSE h : h = Row(h, N)
<1>1. DiagnosedFrom(items) = h0[N]
  BY DEF DiagnosedFrom, Looped
<1>2. N \in Nat
  OBVIOUS
<1>. HIDE DEF N
<1>3. 0 \in K
  <2>1. [n \in 0..0 |-> Unbound] = Row([n \in 0..0 |-> Unbound], 0)
    OBVIOUS
  <2>. QED BY <2>1
<1>4. ASSUME NEW m \in Nat, m \in K PROVE m + 1 \in K
  <2>1. PICK g : g = Row(g, m)
    BY <1>4
  <2>. DEFINE last == DiagnoseStep(g[m], items[m + 1])
              h == [n \in 0..m + 1 |-> IF n = m + 1 THEN last ELSE g[n]]
  <2>2. ASSUME NEW n \in 0..m + 1
        PROVE  h[n] = IF n = 0 THEN Unbound ELSE DiagnoseStep(h[n - 1], items[n])
    <3>1. CASE n = m + 1
      <4>1. h[n] = last /\ h[n - 1] = g[m] /\ n # 0
        BY <3>1
      <4>2. last = DiagnoseStep(g[m], items[n])
        BY <3>1
      <4>. HIDE DEF h, last
      <4>. QED BY <4>1, <4>2
    <3>2. CASE n # m + 1
      <4>1. n \in 0..m /\ h[n] = g[n] /\ (n # 0 => n - 1 \in 0..m /\ h[n - 1] = g[n - 1])
        BY <3>2
      <4>2. g[n] = IF n = 0 THEN Unbound ELSE DiagnoseStep(g[n - 1], items[n])
        BY <2>1, <4>1
      <4>. HIDE DEF h
      <4>. QED BY <4>1, <4>2
    <3>. QED BY <3>1, <3>2
  <2>3. h = Row(h, m + 1)
    <3>. HIDE DEF last
    <3>. QED BY <2>2
  <2>. HIDE DEF h, Row
  <2>. QED BY <2>3
<1>5. N \in K
  <2>. HIDE DEF K
  <2>1. Nat \subseteq K
    BY <1>3, <1>4, SetInduction
  <2>. QED BY <1>2, <2>1
<1>6. h0 = Row(h0, N)
  <2>. HIDE DEF Row
  <2>. QED BY <1>5
<1>. HIDE DEF h0
<1>7. h0[0] = Unbound
  BY <1>2, <1>6
<1>8. ASSUME NEW n \in 1..N PROVE h0[n] = DiagnoseStep(h0[n - 1], items[n])
  <2>1. n \in 0..N /\ n # 0
    BY <1>2
  <2>. QED BY <1>6, <2>1
<1>. QED BY <1>1, <1>7, <1>8 DEF DiagnoseRun, N


\* An address is told, or counted as left out.
LEMMA DiagnosedKeeps ==
  ASSUME NEW picked \in Seq(Result), NEW others \in Seq(Result)
  PROVE  LET d == Diagnosed(picked, others) IN
         d.kept \in Seq(Urls) /\ d.omitted \in Nat /\ Len(d.kept) + d.omitted >= Len(picked)
<1>. DEFINE items == picked \o others
            N == Len(items)
            S == [kept : Seq(Urls), bytes : Int, omitted : Nat]
            d == Diagnosed(picked, others)
<1>1. /\ items \in Seq(Result) /\ N \in Nat /\ Len(picked) \in Nat /\ N >= Len(picked)
      /\ \A n \in 1..N : items[n] \in Result
  <2>1. Len(picked) \in Nat /\ Len(others) \in Nat /\ items \in Seq(Result) /\ N = Len(picked) + Len(others)
    BY LenProperties, ConcatProperties
  <2>. HIDE DEF items
  <2>. QED BY <2>1, ElementOfSeq
<1>2. d = DiagnosedFrom(items)
  BY DEF Diagnosed, DiagnosedFrom, Looped, DiagnoseStep, MoreTold, Unbound
<1>. HIDE DEF items, d
<1>3. PICK h : DiagnoseRun(h, items) /\ d = h[N]
  BY <1>1, <1>2, DiagnoseLoop
<1>. DEFINE all == [n \in 0..N |-> <<h[n], n>>]
            B == {x \in S \X Nat : Len(x[1].kept) + x[1].omitted = x[2]}
<1>4. all[0] \in B
  <2>1. all[0] = <<h[0], 0>> /\ h[0] = Unbound
    BY <1>1, <1>3 DEF DiagnoseRun
  <2>2. <<>> \in Seq(Urls) /\ Len(<<>>) = 0
    OBVIOUS
  <2>3. Unbound \in S /\ Unbound.kept = <<>> /\ Unbound.omitted = 0
    <3>1. 2 \in Int /\ 0 \in Nat
      OBVIOUS
    <3>2. Unbound \in S
      BY <2>2, <3>1, Zenon DEF Unbound
    <3>. QED BY <3>2 DEF Unbound
  <2>4. Len(Unbound.kept) + Unbound.omitted = 0
    BY <2>2, <2>3
  <2>. HIDE DEF S, all
  <2>. QED BY <2>1, <2>3, <2>4
<1>5. ASSUME NEW n \in 1..N, all[n - 1] \in B PROVE all[n] \in B
  <2>. DEFINE b == h[n - 1]
              r == items[n]
              more == MoreTold(b, r)
  <2>1. n \in 0..N /\ n - 1 \in 0..N /\ all[n - 1] = <<b, n - 1>> /\ all[n] = <<h[n], n>> /\ n \in Nat
    BY <1>1
  <2>2. h[n] = DiagnoseStep(b, r) /\ r \in Result
    BY <1>1, <1>3 DEF DiagnoseRun
  <2>3. b \in S /\ Len(b.kept) + b.omitted = n - 1
    BY <1>5, <2>1
  <2>. HIDE DEF b, r, all
  <2>4. b.kept \in Seq(Urls) /\ b.bytes \in Int /\ b.omitted \in Nat /\ Len(b.kept) \in Nat
    BY <2>3
  <2>5. r.url \in Urls
    BY <2>2 DEF Result
  <2>6. more \in Int
    <3>1. UrlBytes[r.url] \in Nat
      BY <2>5, DiscoveryConstants
    <3>. QED BY <3>1 DEF MoreTold
  <2>. HIDE DEF more
  <2>7. CASE Len(b.kept) < MaxDiagnostics /\ b.bytes + more <= MaxDiagnosticsBytes
    <3>. DEFINE kept == Append(b.kept, r.url)
                c == [b EXCEPT !.kept = kept]
    <3>1. h[n] = [b EXCEPT !.kept = Append(@, r.url), !.bytes = @ + more]
      BY <2>2, <2>7 DEF DiagnoseStep, more
    <3>2. kept \in Seq(Urls) /\ Len(kept) = Len(b.kept) + 1
      BY <2>4, <2>5
    <3>3. h[n] \in S /\ h[n].kept = kept /\ h[n].omitted = b.omitted
      <4>1. b.bytes + more \in Int
        BY <2>4, <2>6
      <4>. HIDE DEF kept
      <4>2. h[n] = [b EXCEPT !.kept = kept, !.bytes = b.bytes + more]
        BY <2>3, <3>1 DEF kept
      <4>3. c \in S /\ c.kept = kept /\ c.omitted = b.omitted
        BY <2>3, <3>2
      <4>4. h[n] = [c EXCEPT !.bytes = b.bytes + more]
        BY <2>3, <4>2
      <4>. HIDE DEF c
      <4>. QED BY <4>1, <4>3, <4>4
    <3>4. Len(h[n].kept) + h[n].omitted = n
      <4>1. /\ Len(h[n].kept) = Len(b.kept) + 1 /\ h[n].omitted = b.omitted
            /\ Len(b.kept) + b.omitted = n - 1 /\ Len(b.kept) \in Nat /\ b.omitted \in Nat /\ n \in Nat
        BY <2>1, <2>3, <2>4, <3>2, <3>3, Zenon
      <4>2. (Len(b.kept) + 1) + b.omitted = n
        BY ONLY <4>1
      <4>. QED BY <4>1, <4>2, Zenon
    <3>. HIDE DEF S
    <3>. QED BY <2>1, <3>3, <3>4
  <2>8. CASE ~(Len(b.kept) < MaxDiagnostics /\ b.bytes + more <= MaxDiagnosticsBytes)
    <3>1. h[n] = [b EXCEPT !.omitted = @ + 1]
      BY <2>2, <2>8 DEF DiagnoseStep, more
    <3>2. h[n] \in S /\ h[n].kept = b.kept /\ h[n].omitted = b.omitted + 1
      <4>. DEFINE o == b.omitted + 1
      <4>1. o \in Nat /\ h[n] = [b EXCEPT !.omitted = o]
        BY <2>4, <3>1
      <4>. HIDE DEF o
      <4>2. [b EXCEPT !.omitted = o] \in S
        BY <2>3, <4>1
      <4>3. [b EXCEPT !.omitted = o].kept = b.kept /\ [b EXCEPT !.omitted = o].omitted = o
        BY <2>3
      <4>. HIDE DEF S
      <4>. QED BY <4>1, <4>2, <4>3, Zenon DEF o
    <3>3. Len(h[n].kept) + h[n].omitted = n
      <4>1. /\ h[n].kept = b.kept /\ h[n].omitted = b.omitted + 1 /\ Len(b.kept) + b.omitted = n - 1
            /\ Len(b.kept) \in Nat /\ b.omitted \in Nat /\ n \in Nat
        BY <2>1, <2>3, <2>4, <3>2, Zenon
      <4>2. Len(b.kept) + (b.omitted + 1) = n
        BY ONLY <4>1
      <4>. QED BY <4>1, <4>2, Zenon
    <3>. HIDE DEF S
    <3>. QED BY <2>1, <3>2, <3>3
  <2>. QED BY <2>7, <2>8
<1>6. \A n \in 0..N : all[n] \in B
  <2>. HIDE DEF all, B, N
  <2>1. N \in Nat
    BY <1>1 DEF N
  <2>. QED BY <1>4, <1>5, <2>1, LoopStays
<1>7. d \in S /\ Len(d.kept) + d.omitted = N
  <2>1. all[N] \in B /\ all[N] = <<d, N>>
    BY <1>1, <1>3, <1>6
  <2>. HIDE DEF all, S
  <2>. QED BY <2>1
<1>. QED BY <1>1, <1>7 DEF d

-----------------------------------------------------------------------------
(* What is left for the answer.                                            *)

\* What chunks weigh
ChunkSizes(cs) == [i \in 1..Len(cs) |-> SizeOf(cs[i])]

\* The scored chunks weigh what the chunks do.
LEMMA AboutWeighs ==
  ASSUME NEW ps, NEW cs \in Seq(ChunksFrom(ps)), NEW scored \in Seq(Scored(ChunksFrom(ps))),
         NEW f, About(scored, cs, f)
  PROVE  Total(SizesOf(scored)) <= Total(ChunkSizes(cs)) /\ Total(ChunkSizes(cs)) \in Nat
<1>. DEFINE m == Len(scored)
            n == Len(cs)
            v == ChunkSizes(cs)
            w == SizesOf(scored)
<1>1. m \in Nat /\ n \in Nat /\ \A i \in 1..n : cs[i] \in ChunksFrom(ps)
  BY LenProperties, ElementOfSeq
<1>2. \A c \in ChunksFrom(ps) : SizeOf(c) \in Nat
  BY DEF ChunksFrom, ChunkRecord, SizeOf
<1>3. /\ f \in [1..m -> 1..n] /\ \A i, j \in 1..m : f[i] = f[j] => i = j
      /\ \A i \in 1..m : scored[i].chunk = cs[f[i]]
  BY DEF About
<1>4. v \in [1..n -> Nat] /\ \A i \in 1..n : v[i] = SizeOf(cs[i])
  BY <1>1, <1>2 DEF ChunkSizes
<1>5. w = [i \in 1..m |-> SizeOf(scored[i].chunk)]
  BY DEF SizesOf
<1>. HIDE DEF v, w, m, n
<1>6. v \in Seq(Nat) /\ Len(v) = n
  BY <1>1, <1>4, FunctionIsSeq
<1>7. w = [k \in 1..m |-> v[f[k]]]
  <2>1. ASSUME NEW k \in 1..m PROVE SizeOf(scored[k].chunk) = v[f[k]]
    <3>1. f[k] \in 1..n
      BY <1>3
    <3>. QED BY <1>3, <1>4, <3>1
  <2>. QED BY <1>5, <2>1
<1>8. f \in [1..m -> 1..Len(v)]
  BY <1>3, <1>6
<1>9. Total(w) <= Total(v)
  <2>1. m \in Nat /\ (\A i, j \in 1..m : f[i] = f[j] => i = j) /\ v \in Seq(Nat)
    BY <1>1, <1>3, <1>6
  <2>. QED BY <1>7, <1>8, <2>1, TotalOfSome
<1>10. Total(v) \in Nat
  BY <1>6, TotalOfNumbers
<1>. QED BY <1>9, <1>10 DEF v, w

\* What the floor, the quality gate and the limit of the output leave
LEMMA LeftKeeps ==
  ASSUME NEW ps, NEW scored \in Seq(Scored(ChunksFrom(ps))), scored # <<>>, NEW reranked,
         NEW above, NEW clean, NEW bound, Left(scored, reranked, above, clean, bound)
  PROVE  /\ above \in Seq(Scored(ChunksFrom(ps))) /\ Len(above) \in 0..Len(scored)
         /\ clean \in Seq(Scored(ChunksFrom(ps))) /\ Len(clean) \in 0..Len(above)
         /\ bound.kept \in Seq(Scored(ChunksFrom(ps))) /\ bound.omitted \in Nat
         /\ Len(bound.kept) + bound.omitted = Len(clean) /\ Len(bound.kept) <= MaxPassages
         /\ Total(BytesOf(bound.kept)) <= MaxEvidence
         /\ Total(SizesOf(bound.kept)) <= Total(SizesOf(scored))
         /\ above = <<>> => reranked /\ search.floor # None
<1>. DEFINE T == ChunksFrom(ps)
<1>1. above = AboveFloor(scored, reranked, search.floor) /\ clean = CleanOf(above) /\ bound = Bound(clean)
  BY DEF Left, AboveOf
<1>2. /\ above \in Seq(Scored(T)) /\ Len(above) \in 0..Len(scored) /\ \E f : Drawn(above, scored, f)
      /\ above = <<>> => reranked /\ search.floor # None
  BY <1>1, AboveFloorKeeps
<1>3. clean \in Seq(Scored(T)) /\ Len(clean) \in 0..Len(above) /\ \E f : Drawn(clean, above, f)
  <2>1. CASE search.quality
    <3>1. clean = Quality(above)
      BY <1>1, <2>1 DEF CleanOf
    <3>. QED BY <1>2, <3>1, QualityKeeps
  <2>2. CASE ~search.quality
    <3>1. clean = above
      BY <1>1, <2>2 DEF CleanOf
    <3>2. Drawn(above, above, [i \in 1..Len(above) |-> i])
      BY DEF Drawn
    <3>3. Len(above) \in Nat
      BY <1>2
    <3>. QED BY <1>2, <3>1, <3>2, <3>3
  <2>. QED BY <2>1, <2>2
<1>4. /\ bound.kept \in Seq(Scored(T)) /\ Len(bound.kept) <= MaxPassages /\ bound.omitted \in Nat
      /\ Len(bound.kept) + bound.omitted = Len(clean) /\ Total(BytesOf(bound.kept)) <= MaxEvidence
      /\ Total(SizesOf(bound.kept)) <= Total(SizesOf(clean))
  BY <1>1, <1>3, BoundKeeps
<1>5. Total(SizesOf(clean)) <= Total(SizesOf(above)) /\ Total(SizesOf(above)) <= Total(SizesOf(scored))
  BY <1>2, <1>3, DrawnWeighs
<1>6. /\ Total(SizesOf(clean)) \in Nat /\ Total(SizesOf(above)) \in Nat
      /\ Total(SizesOf(scored)) \in Nat /\ Total(SizesOf(bound.kept)) \in Nat
  BY <1>2, <1>3, <1>4, WeightsAre
<1>7. Total(SizesOf(bound.kept)) <= Total(SizesOf(scored))
  BY <1>4, <1>5, <1>6
<1>. QED BY <1>2, <1>3, <1>4, <1>7

\* What an answer holds, whatever was left out on the way to it: its passages quote pages, and
\* the budgets hold.
Served(s, ps, st, r) ==
  /\ r.passages \in Seq(PassageRecord) /\ r.citations \in Seq(CitationRecord) /\ r.raw \in Seq(RawRecord)
  /\ Cited(r, ps)
  /\ \A i \in 1..Len(r.raw) :
       r.raw[i].citation \in 1..Len(r.citations) /\ r.citations[r.raw[i].citation].doc[2] = r.raw[i].body
  /\ st.tokens = Total(TokensIn(r.passages)) /\ st.tokens <= s.tokenBudget
  /\ Len(r.passages) <= MaxPassages /\ (s.maxPassages # None => Len(r.passages) <= s.maxPassages)
  /\ Total(BytesIn(r.passages)) <= MaxEvidence /\ Total(RawBytesOf(r.raw)) <= MaxRawBytes

LEMMA RequestIs ==
  ASSUME NEW s, RequestOK(s)
  PROVE  s.tokenBudget \in Nat /\ s.maxPassages \in Nat \cup {None} /\ s.floor \in Int \cup {None}
BY DEF RequestOK

\* An empty answer holds nothing.
LEMMA EmptyServes ==
  ASSUME NEW s, RequestOK(s), NEW ps, NEW st, st.tokens = 0
  PROVE  Served(s, ps, st, [NoResponse EXCEPT !.status = "ok"])
<1>. DEFINE r == [NoResponse EXCEPT !.status = "ok"]
            none == r.passages
            cs == r.citations
            raw == r.raw
<1>1. none = <<>> /\ cs = <<>> /\ raw = <<>>
  BY DEF NoResponse
<1>2. TokensIn(<<>>) = <<>> /\ BytesIn(<<>>) = <<>> /\ RawBytesOf(<<>>) = <<>> /\ Len(<<>>) = 0
  BY DEF TokensIn, BytesIn, RawBytesOf
<1>3. /\ Total(TokensIn(none)) = 0 /\ Total(BytesIn(none)) = 0 /\ Total(RawBytesOf(raw)) = 0
      /\ Len(none) = 0 /\ Len(cs) = 0 /\ Len(raw) = 0
  BY <1>1, <1>2, TotalOfNothing
<1>4. none \in Seq(PassageRecord) /\ cs \in Seq(CitationRecord) /\ raw \in Seq(RawRecord)
  BY <1>1, EmptySeqs
<1>. HIDE DEF none, cs, raw
<1>5. Cited(r, ps)
  <2>. HIDE DEF r
  <2>. QED BY <1>3 DEF Cited, DifferentDocs, OfPages, none, cs
<1>6. 0 <= s.tokenBudget /\ (s.maxPassages # None => 0 <= s.maxPassages)
  BY RequestIs
<1>7. 0 <= MaxPassages /\ 0 <= MaxEvidence /\ 0 <= MaxRawBytes
  BY Limits
<1>. HIDE DEF r
<1>8. Served(s, ps, st, r)
  BY <1>3, <1>4, <1>5, <1>6, <1>7 DEF Served, none, cs, raw
<1>. QED BY <1>8 DEF r

\* Nor does a full one exceed them, and it has all that is left when there is room.
LEMMA FullServes ==
  ASSUME RequestOK(search), pages \in Seq(Page), Numbered(pages),
         NEW kept \in Seq(Scored(ChunksFrom(pages))), Len(kept) <= MaxPassages,
         Total(BytesOf(kept)) <= MaxEvidence, NEW st, st.tokens = BuiltOf(kept).tokens
  PROVE  /\ Served(search, pages, st, Answer(BuiltOf(kept), RawOf(BuiltOf(kept).citations)))
         /\ Len(BuiltOf(kept).passages) \in 0..Len(kept)
         /\ search.maxPassages = None /\ Total(SizesOf(kept)) <= search.tokenBudget
              => Len(BuiltOf(kept).passages) = Len(kept)
<1>. DEFINE a == BuiltOf(kept)
            raw == RawOf(a.citations)
            r == Answer(a, raw)
<1>1. search.tokenBudget \in Nat /\ search.maxPassages \in Nat \cup {None}
  BY RequestIs
<1>2. /\ a \in Assembly /\ Cited(a, pages)
      /\ Spent(a, Len(kept), Total(BytesOf(kept)), Total(SizesOf(kept)), search.tokenBudget, search.maxPassages)
  BY <1>1, AssembledKeeps DEF BuiltOf
<1>. HIDE DEF a
<1>3. /\ a.passages \in Seq(PassageRecord) /\ a.citations \in Seq(CitationRecord)
      /\ OfPages(a.citations, pages)
  BY <1>2 DEF Assembly, Cited
<1>4. /\ raw.kept \in Seq(RawRecord) /\ Total(RawBytesOf(raw.kept)) <= MaxRawBytes
      /\ \A i \in 1..Len(raw.kept) :
           raw.kept[i].citation \in 1..Len(a.citations) /\ a.citations[raw.kept[i].citation].doc[2] = raw.kept[i].body
  <2>1. CASE search.raw
    <3>1. raw = RawMarkdown(pages, a.citations)
      BY <2>1 DEF RawOf
    <3>2. raw \in RawState => raw.kept \in Seq(RawRecord)
      BY DEF RawState
    <3>. HIDE DEF raw
    <3>. QED BY <1>3, <3>1, <3>2, RawKeeps
  <2>2. CASE ~search.raw
    <3>. DEFINE none == raw.kept
    <3>1. none = <<>>
      BY <2>2 DEF RawOf
    <3>2. RawBytesOf(<<>>) = <<>> /\ Len(<<>>) = 0
      BY DEF RawBytesOf
    <3>3. none \in Seq(RawRecord) /\ Len(none) = 0 /\ Total(RawBytesOf(none)) = 0
      BY <3>1, <3>2, EmptySeqs, TotalOfNothing
    <3>4. 0 <= MaxRawBytes
      BY Limits
    <3>. HIDE DEF none
    <3>5. \A i \in 1..Len(none) : FALSE
      BY <3>3
    <3>. QED BY <3>3, <3>4, <3>5 DEF none
  <2>. QED BY <2>1, <2>2
<1>. HIDE DEF raw
<1>5. r.passages = a.passages /\ r.citations = a.citations /\ r.raw = raw.kept
  BY DEF Answer
<1>. HIDE DEF r
<1>6. Cited(r, pages)
  BY <1>2, <1>5 DEF Cited
<1>7. /\ a.tokens = Total(TokensIn(a.passages)) /\ a.tokens <= search.tokenBudget
      /\ Len(a.passages) <= Len(kept) /\ (search.maxPassages # None => Len(a.passages) <= search.maxPassages)
      /\ Total(BytesIn(a.passages)) <= Total(BytesOf(kept))
      /\ search.maxPassages = None /\ Total(SizesOf(kept)) <= search.tokenBudget => Len(a.passages) = Len(kept)
  BY <1>2 DEF Spent
<1>8. /\ Total(BytesIn(a.passages)) \in Nat /\ Total(BytesOf(kept)) \in Nat
      /\ Len(a.passages) \in Nat /\ Len(kept) \in Nat
  <2>1. Total(BytesIn(a.passages)) \in Nat
    BY <1>3, PassagesWeigh
  <2>2. Total(BytesOf(kept)) \in Nat
    BY WeightsAre
  <2>. QED BY <1>3, <2>1, <2>2, LenProperties
<1>9. Total(BytesIn(a.passages)) <= MaxEvidence /\ Len(a.passages) <= MaxPassages /\ Len(a.passages) \in 0..Len(kept)
  BY <1>7, <1>8, Limits
<1>10. Served(search, pages, st, r)
  BY <1>3, <1>4, <1>5, <1>6, <1>7, <1>9 DEF Served, a
<1>. QED BY <1>7, <1>9, <1>10 DEF a, r, raw

-----------------------------------------------------------------------------
(* What the counters say.                                                  *)

Fields == DOMAIN NoStats

\* Of the results, the addresses that were asked for, the pages and the chunks
FoundCounts(st) ==
  /\ st.found \in Nat /\ st.discovered \in Nat /\ st.discovered <= st.found
  /\ st.failedQueries \in Nat /\ st.failedEngines \in Nat
  /\ st.discovery = "ok" => st.failedQueries = 0 /\ st.failedEngines = 0
ChosenCounts(st, urls) ==
  /\ st.chosen = Cardinality(urls) /\ st.diagnosed \in Nat /\ st.undiagnosed \in Nat
  /\ st.diagnosed + st.undiagnosed >= st.chosen
PageCounts(st, ps) ==
  /\ st.crawled \in Nat /\ st.failed \in Nat /\ st.deduped \in Nat
  /\ st.chosen = st.crawled + st.failed /\ st.crawled = Len(ps) + st.deduped
ChunkCounts(st) ==
  st.sent \in Nat /\ st.prefiltered \in Nat /\ st.produced = st.prefiltered + st.sent
NoPages(st) == st.crawled = 0 /\ st.failed = 0 /\ st.deduped = 0
Nothing(st) == st.reason = "none" /\ st.tokens = 0
AllCounts(st, urls) ==
  DOMAIN st = Fields /\ FoundCounts(st) /\ ChosenCounts(st, urls) /\ ChunkCounts(st)

CountParts ==
  /\ AllCounts(stats, asked)
  /\ stage # "done" => Nothing(stats)
  /\ Before(stage, {"chunk", "rerank"}) => NoPages(stats)
  /\ stage \in {"chunk", "rerank"} => PageCounts(stats, pages)
  /\ stage = "rerank" => stats.sent = Len(chunks)
Counts == CountParts

\* What the counters and the reason say of an answer: an empty one has a reason, which is true,
\* and a full one has what was left.
Reasons(s, st) ==
  /\ st.reason = "no_results_from_discovery" => st.failedQueries + st.failedEngines = 0
  /\ st.reason = "search_provider_unavailable" => st.failedQueries + st.failedEngines > 0
  /\ st.reason = "all_crawls_failed" => \A i \in DOMAIN st.codes : st.codes[i] # "content"
  /\ st.reason = "no_chunks_after_rerank" => st.reranked /\ s.floor # None
  /\ st.reason = "no_evidence_after_quality_gate" => st.noise > 0
  /\ st.reason = "no_evidence_after_output_budget" => st.evidenceOmitted > 0
PassageCounts(s, st, cs, r) ==
  LET left == st.sent - st.belowFloor - st.noise - st.evidenceOmitted
      roomy == s.maxPassages = None /\ Total(ChunkSizes(cs)) <= s.tokenBudget
  IN Len(r.passages) <= left /\ (roomy => Len(r.passages) = left)
AnswerParts ==
  Answered =>
    /\ Served(search, pages, stats, response) /\ PageCounts(stats, pages) /\ Reasons(search, stats)
    /\ stats.reason # "none" => response.passages = <<>>
    /\ stats.reason = "none" => PassageCounts(search, stats, chunks, response)
AnswersWell == AnswerParts

\* The reason is all that an empty answer adds.
LEMMA EmptyIs ==
  ASSUME NEW st, DOMAIN st = Fields, NEW reason, Empty(st, reason)
  PROVE  /\ stage' = "done" /\ response' = [NoResponse EXCEPT !.status = "ok"]
         /\ response'.passages = <<>> /\ stats'.reason = reason
         /\ DOMAIN stats' = Fields /\ \A x \in Fields \ {"reason"} : stats'[x] = st[x]
<1>1. stats' = [st EXCEPT !.reason = reason] /\ stage' = "done" /\ response' = [NoResponse EXCEPT !.status = "ok"]
  BY Zenon DEF Empty, Respond
<1>2. [NoResponse EXCEPT !.status = "ok"].passages = <<>>
  BY DEF NoResponse
<1>3. "reason" \in Fields
  BY DEF Fields, NoStats
<1>. QED BY <1>1, <1>2, <1>3

LEMMA FieldsAre ==
  {"discovery", "failedQueries", "failedEngines", "found", "discovered", "chosen", "diagnosed",
   "undiagnosed", "crawled", "failed", "codes", "deduped", "produced", "prefiltered", "sent",
   "reranked", "scored", "floorFilled", "belowFloor", "noise", "evidenceOmitted", "rawOmitted",
   "tokens", "reason"} = Fields
BY DEF Fields, NoStats

\* An empty answer whose counters and reason are true is a good one.
LEMMA EmptyAnswers ==
  ASSUME SearchTypes, SearchTypes', NEW st, AllCounts(st, asked'), Nothing(st), NEW reason, reason # "none",
         Empty(st, reason), PageCounts(st, pages'), Reasons(search', [st EXCEPT !.reason = reason])
  PROVE  Counts' /\ AnswersWell'
<1>1. DOMAIN st = Fields
  BY DEF AllCounts
<1>2. /\ stage' = "done" /\ response' = [NoResponse EXCEPT !.status = "ok"]
      /\ response'.passages = <<>> /\ stats'.reason = reason
      /\ DOMAIN stats' = Fields /\ \A x \in Fields \ {"reason"} : stats'[x] = st[x]
  BY <1>1, EmptyIs
<1>3. /\ AllCounts(stats', asked') /\ PageCounts(stats', pages') /\ stats'.tokens = 0
  BY <1>2, FieldsAre DEF AllCounts, FoundCounts, ChosenCounts, ChunkCounts, PageCounts, Nothing
<1>4. Reasons(search', stats')
  BY Zenon DEF Empty, Respond
<1>5. RequestOK(search')
  BY SearchConstants DEF SearchTypes, TypeParts
<1>6. Served(search', pages', stats', response')
  BY <1>2, <1>3, <1>5, EmptyServes
<1>7. Counts'
  BY <1>2, <1>3 DEF Counts, CountParts, Before
<1>8. AnswersWell'
  BY <1>2, <1>3, <1>4, <1>6 DEF AnswersWell, AnswerParts
<1>. QED BY <1>7, <1>8

\* An end without an answer leaves the counters as they are.
LEMMA NoAnswer ==
  ASSUME Counts, stage' = "done", stats' = stats, asked' = asked, NEW status, status # "ok",
         response' = [NoResponse EXCEPT !.status = status]
  PROVE  Counts' /\ AnswersWell'
<1>1. response'.status # "ok"
  BY DEF NoResponse
<1>. QED BY <1>1 DEF Counts, CountParts, Before, AnswersWell, AnswerParts, Answered

\* Each step keeps the counters, and its answer is a good one.
LEMMA PlanCounts ==
  ASSUME Counts, Plan
  PROVE  Counts' /\ AnswersWell'
<1>1. stage = "plan" /\ stage' = "discover" /\ UNCHANGED <<stats, asked, pages, chunks>>
  BY DEF Plan, GoOn
<1>. QED BY <1>1 DEF Counts, CountParts, Before, AnswersWell, AnswerParts, Answered

LEMMA DiscoverStatsAre ==
  ASSUME NEW answers, DOMAIN stats = Fields
  PROVE  LET st == DiscoverStats(answers) IN
         /\ DOMAIN st = Fields
         /\ st.discovery = DiscoveryStatus(MergedFrom(answers) = <<>>, FailuresOf(answers), FailedOf(answers))
         /\ st.failedQueries = FailedOf(answers) /\ st.failedEngines = Cardinality(FailuresOf(answers))
         /\ st.found = FoundOf(answers) /\ st.discovered = Len(MergedFrom(answers))
         /\ \A x \in Fields \ {"discovery", "failedQueries", "failedEngines", "found", "discovered"} : st[x] = stats[x]
<1>. DEFINE d == DiscoveryStatus(MergedFrom(answers) = <<>>, FailuresOf(answers), FailedOf(answers))
            q == FailedOf(answers)
            e == Cardinality(FailuresOf(answers))
            f == FoundOf(answers)
            n == Len(MergedFrom(answers))
            st == DiscoverStats(answers)
<1>1. st = [stats EXCEPT !.discovery = d, !.failedQueries = q, !.failedEngines = e, !.found = f, !.discovered = n]
  BY DEF DiscoverStats
<1>. HIDE DEF d, q, e, f, n, st
<1>2. /\ DOMAIN st = Fields /\ st.discovery = d /\ st.failedQueries = q /\ st.failedEngines = e
      /\ st.found = f /\ st.discovered = n
      /\ \A x \in Fields \ {"discovery", "failedQueries", "failedEngines", "found", "discovered"} : st[x] = stats[x]
  BY <1>1, FieldsAre
<1>. QED BY <1>2 DEF d, q, e, f, n, st

LEMMA StatusIs ==
  ASSUME NEW nothing \in BOOLEAN, NEW failures, NEW failed \in Nat, IsFiniteSet(failures)
  PROVE  LET d == DiscoveryStatus(nothing, failures, failed) IN
         /\ Cardinality(failures) \in Nat
         /\ d = "ok" => failed = 0 /\ Cardinality(failures) = 0
         /\ nothing /\ d # "unavailable" => failed + Cardinality(failures) = 0
         /\ d = "unavailable" => failed + Cardinality(failures) > 0
<1>1. Cardinality(failures) \in Nat /\ (Cardinality(failures) = 0 <=> failures = {})
  BY FS_CardinalityType, FS_EmptySet
<1>2. CASE failures = {} /\ failed = 0
  <2>1. DiscoveryStatus(nothing, failures, failed) = "ok"
    BY <1>2 DEF DiscoveryStatus
  <2>. QED BY <1>1, <1>2, <2>1
<1>3. CASE (failures # {} \/ failed > 0) /\ nothing
  <2>1. DiscoveryStatus(nothing, failures, failed) = "unavailable"
    BY <1>3 DEF DiscoveryStatus
  <2>2. failed + Cardinality(failures) > 0
    BY <1>1, <1>3
  <2>. QED BY <1>1, <2>1, <2>2
<1>4. CASE (failures # {} \/ failed > 0) /\ ~nothing
  <2>1. DiscoveryStatus(nothing, failures, failed) = "degraded"
    BY <1>4 DEF DiscoveryStatus
  <2>. QED BY <1>1, <1>4, <2>1
<1>. QED BY <1>2, <1>3, <1>4

LEMMA DiscoverCounts ==
  ASSUME SearchTypes, SearchTypes', Counts, Discover
  PROVE  Counts' /\ AnswersWell'
<1>1. /\ stage = "discover" /\ UNCHANGED <<search, queries, selected, pages, chunks, asked, offered>>
      /\ \E answers \in [DOMAIN queries -> search.answers] : DiscoverWith(answers)
  BY DiscoverIs
<1>2. PICK answers \in [DOMAIN queries -> search.answers] : DiscoverWith(answers)
  BY <1>1
<1>. DEFINE st == DiscoverStats(answers)
            all == MergedFrom(answers)
            failures == FailuresOf(answers)
            failed == FailedOf(answers)
<1>3. queries \in Seq(Queries) /\ AnswersOK(search) /\ search \in Searches /\ selected = <<>> /\ pages = <<>>
  BY <1>1, SearchIsOK DEF SearchTypes, TypeParts, Before
<1>4. /\ IsFiniteSet(failures) /\ failed \in Nat
      /\ FoundOf(answers) \in Nat /\ Len(all) \in Nat /\ Len(all) <= FoundOf(answers)
  BY <1>3, DiscoverKeeps, FoundKeeps
<1>5. AllCounts(stats, asked) /\ Nothing(stats) /\ NoPages(stats)
  BY <1>1 DEF Counts, CountParts, Before
<1>6. /\ DOMAIN st = Fields
      /\ st.discovery = DiscoveryStatus(all = <<>>, failures, failed)
      /\ st.failedQueries = failed /\ st.failedEngines = Cardinality(failures)
      /\ st.found = FoundOf(answers) /\ st.discovered = Len(all)
      /\ \A x \in Fields \ {"discovery", "failedQueries", "failedEngines", "found", "discovered"} : st[x] = stats[x]
  BY <1>5, DiscoverStatsAre DEF AllCounts
<1>. HIDE DEF st
<1>7. /\ st.failedEngines \in Nat
      /\ st.discovery = "ok" => st.failedQueries = 0 /\ st.failedEngines = 0
      /\ all = <<>> /\ st.discovery # "unavailable" => st.failedQueries + st.failedEngines = 0
      /\ st.discovery = "unavailable" => st.failedQueries + st.failedEngines > 0
  <2>. DEFINE nothing == all = <<>>
              d == DiscoveryStatus(nothing, failures, failed)
  <2>1. nothing \in BOOLEAN /\ st.discovery = d
    BY <1>6
  <2>. HIDE DEF nothing
  <2>2. /\ Cardinality(failures) \in Nat
        /\ d = "ok" => failed = 0 /\ Cardinality(failures) = 0
        /\ nothing /\ d # "unavailable" => failed + Cardinality(failures) = 0
        /\ d = "unavailable" => failed + Cardinality(failures) > 0
    <3>. HIDE DEF failures, failed
    <3>. QED BY <1>4, <2>1, StatusIs
  <2>. HIDE DEF d, failures, failed
  <2>. QED BY <1>6, <2>1, <2>2 DEF nothing
<1>8. FoundCounts(st)
  BY <1>4, <1>6, <1>7 DEF FoundCounts
<1>9. ChosenCounts(st, asked) /\ ChunkCounts(st) /\ Nothing(st) /\ NoPages(st)
  BY <1>5, <1>6, FieldsAre DEF AllCounts, ChosenCounts, ChunkCounts, Nothing, NoPages
<1>10. AllCounts(st, asked) /\ PageCounts(st, pages)
  <2>1. asked = {} /\ Len(pages) = 0
    BY <1>3 DEF SearchTypes, TypeParts, Sel, UrlsOf, ToSet
  <2>2. st.chosen = 0
    BY <1>9, <2>1, FS_EmptySet DEF ChosenCounts
  <2>. QED BY <1>6, <1>8, <1>9, <2>1, <2>2 DEF AllCounts, PageCounts, NoPages
<1>11. CASE Unavailable("searxng")
  <2>1. stage' = "done" /\ stats' = stats /\ response' = [NoResponse EXCEPT !.status = "searxng"]
    BY <1>11, Zenon DEF Unavailable, Respond
  <2>. QED BY <1>1, <2>1, NoAnswer
<1>12. CASE all = <<>> /\ Empty(st, EmptyReason(st))
  <2>. DEFINE reason == EmptyReason(st)
  <2>1. /\ reason \in {"search_provider_unavailable", "no_results_from_discovery"}
        /\ reason = "no_results_from_discovery" => st.discovery # "unavailable"
        /\ reason = "search_provider_unavailable" => st.discovery = "unavailable"
    BY DEF EmptyReason
  <2>. HIDE DEF reason
  <2>. DEFINE told == [st EXCEPT !.reason = reason]
  <2>2. told.reason = reason /\ told.failedQueries = st.failedQueries /\ told.failedEngines = st.failedEngines
    BY <1>6, FieldsAre
  <2>. HIDE DEF told
  <2>3. Reasons(search, told)
    BY <1>7, <1>12, <2>1, <2>2 DEF Reasons
  <2>. QED BY <1>1, <1>9, <1>10, <1>12, <2>1, <2>3, EmptyAnswers DEF told, reason
<1>13. CASE GoOn("safety", st)
  <2>1. stage' = "safety" /\ stats' = st
    BY <1>13, Zenon DEF GoOn
  <2>. QED BY <1>1, <1>9, <1>10, <2>1 DEF Counts, CountParts, Before, AnswersWell, AnswerParts, Answered
<1>. QED BY <1>2, <1>11, <1>12, <1>13, Zenon DEF DiscoverWith, st, all

LEMMA ToldKeepsAll ==
  ASSUME NEW safe \in Seq(Result), PickedOf(safe) \in Seq(Result)
  PROVE  /\ Len(ToldOf(safe).kept) \in Nat /\ ToldOf(safe).omitted \in Nat
         /\ Len(ToldOf(safe).kept) + ToldOf(safe).omitted >= Len(PickedOf(safe))
<1>. DEFINE I == {i \in DOMAIN safe : ~IsPicked(PickedOf(safe), safe[i])}
            others == ItemsAt(safe, I)
<1>1. ToldOf(safe) = Diagnosed(PickedOf(safe), others)
  BY DEF ToldOf, Kept
<1>2. I \in SUBSET (1..Len(safe))
  BY LenProperties
<1>. HIDE DEF I
<1>3. others \in Seq(Result)
  BY <1>2, ItemsAtKeeps
<1>. HIDE DEF others
<1>4. LET d == Diagnosed(PickedOf(safe), others) IN
        d.kept \in Seq(Urls) /\ d.omitted \in Nat /\ Len(d.kept) + d.omitted >= Len(PickedOf(safe))
  BY <1>3, DiagnosedKeeps
<1>. QED BY <1>1, <1>4, LenProperties

LEMMA SelectStatsAre ==
  ASSUME NEW safe, DOMAIN stats = Fields
  PROVE  LET st == SelectStats(safe) IN
         /\ DOMAIN st = Fields /\ st.chosen = Len(PickedOf(safe))
         /\ st.diagnosed = Len(ToldOf(safe).kept) /\ st.undiagnosed = ToldOf(safe).omitted
         /\ \A x \in Fields \ {"chosen", "diagnosed", "undiagnosed"} : st[x] = stats[x]
<1>. DEFINE n == Len(PickedOf(safe))
            k == Len(ToldOf(safe).kept)
            o == ToldOf(safe).omitted
            st == SelectStats(safe)
<1>1. st = [stats EXCEPT !.chosen = n, !.diagnosed = k, !.undiagnosed = o]
  BY DEF SelectStats
<1>. HIDE DEF n, k, o, st
<1>2. /\ DOMAIN st = Fields /\ st.chosen = n /\ st.diagnosed = k /\ st.undiagnosed = o
      /\ \A x \in Fields \ {"chosen", "diagnosed", "undiagnosed"} : st[x] = stats[x]
  BY <1>1, FieldsAre
<1>. QED BY <1>2 DEF n, k, o, st

\* An end with a reason that says nothing of the counters
LEMMA PlainReasons ==
  ASSUME NEW s, NEW st, DOMAIN st = Fields, NEW reason \in {"no_urls_after_selection", "no_chunks_after_dedup"}
  PROVE  Reasons(s, [st EXCEPT !.reason = reason])
<1>1. [st EXCEPT !.reason = reason].reason = reason
  BY FieldsAre
<1>. QED BY <1>1 DEF Reasons

LEMMA SelectCounts ==
  ASSUME SearchTypes, SearchTypes', Counts, SelectUrls
  PROVE  Counts' /\ AnswersWell'
<1>1. /\ stage = "safety" /\ UNCHANGED <<search, queries, pages, chunks, offered>>
      /\ \E works : SelectFrom(SafeOf(works))
  BY SelectIs
<1>2. PICK works : SelectFrom(SafeOf(works))
  BY <1>1
<1>. DEFINE safe == SafeOf(works)
            st == SelectStats(safe)
            picked == PickedOf(safe)
<1>3. /\ safe \in Seq(Result) /\ OneOfEachKey(safe) /\ \A i \in 1..Len(safe) : HostIsSafe(safe[i])
  BY SafeKeeps DEF SearchTypes, TypeParts
<1>. HIDE DEF safe
<1>4. /\ picked \in Seq(Result) /\ Cardinality(UrlsOf(picked)) = Len(picked) /\ Len(picked) \in Nat
  <2>1. RequestOK(search)
    BY SearchIsOK DEF SearchTypes, TypeParts
  <2>2. picked \in Seq(Result) /\ \A i, j \in 1..Len(picked) : picked[i].url = picked[j].url => i = j
    BY <1>3, <2>1, SelectIsSound DEF PickedOf
  <2>. HIDE DEF picked
  <2>. QED BY <2>2, UrlsOfPicks, LenProperties
<1>5. AllCounts(stats, asked) /\ Nothing(stats) /\ NoPages(stats)
  BY <1>1 DEF Counts, CountParts, Before
<1>6. /\ DOMAIN st = Fields /\ st.chosen = Len(picked)
      /\ st.diagnosed = Len(ToldOf(safe).kept) /\ st.undiagnosed = ToldOf(safe).omitted
      /\ \A x \in Fields \ {"chosen", "diagnosed", "undiagnosed"} : st[x] = stats[x]
  BY <1>5, SelectStatsAre DEF AllCounts
<1>7. /\ Len(ToldOf(safe).kept) \in Nat /\ ToldOf(safe).omitted \in Nat
      /\ Len(ToldOf(safe).kept) + ToldOf(safe).omitted >= Len(picked)
  BY <1>3, <1>4, ToldKeepsAll
<1>8. ChosenCounts(st, UrlsOf(picked))
  BY <1>4, <1>6, <1>7 DEF ChosenCounts
<1>. HIDE DEF st, picked
<1>9. FoundCounts(st) /\ ChunkCounts(st) /\ Nothing(st) /\ NoPages(st)
  BY <1>5, <1>6, FieldsAre DEF AllCounts, FoundCounts, ChunkCounts, Nothing, NoPages
<1>10. AllCounts(st, UrlsOf(picked))
  BY <1>6, <1>8, <1>9 DEF AllCounts
<1>11. CASE picked = <<>> /\ Empty(st, "no_urls_after_selection") /\ UNCHANGED asked
  <2>1. asked = {} /\ Len(pages) = 0 /\ UrlsOf(picked) = {}
    BY <1>1, <1>11 DEF SearchTypes, TypeParts, Sel, UrlsOf, ToSet, Before
  <2>2. st.chosen = 0
    BY <1>8, <2>1, FS_EmptySet DEF ChosenCounts
  <2>3. PageCounts(st, pages)
    BY <1>9, <2>1, <2>2 DEF PageCounts, NoPages
  <2>4. asked' = UrlsOf(picked) /\ pages' = pages /\ search' = search
    BY <1>1, <1>11, <2>1
  <2>. QED BY <1>6, <1>9, <1>10, <1>11, <2>3, <2>4, PlainReasons, EmptyAnswers
<1>12. CASE GoOn("fetch", st) /\ asked' = UrlsOf(picked)
  <2>1. stage' = "fetch" /\ stats' = st /\ asked' = UrlsOf(picked)
    BY <1>12, Zenon DEF GoOn
  <2>. QED BY <1>9, <1>10, <2>1 DEF Counts, CountParts, Before, AnswersWell, AnswerParts, Answered
<1>. QED BY <1>2, <1>11, <1>12, Zenon DEF SelectFrom, st, picked, safe

LEMMA FetchStatsAre ==
  ASSUME NEW outcome, DOMAIN stats = Fields
  PROVE  LET st == FetchStats(outcome) IN
         /\ DOMAIN st = Fields /\ st.codes = [i \in DOMAIN selected |-> CodeAt(outcome, i)]
         /\ st.crawled = Len(GoodOf(outcome)) /\ st.failed = Len(selected) - Len(GoodOf(outcome))
         /\ \A x \in Fields \ {"codes", "crawled", "failed"} : st[x] = stats[x]
<1>. DEFINE c == [i \in DOMAIN selected |-> CodeAt(outcome, i)]
            n == Len(GoodOf(outcome))
            f == Len(selected) - Len(GoodOf(outcome))
            st == FetchStats(outcome)
<1>1. st = [stats EXCEPT !.codes = c, !.crawled = n, !.failed = f]
  BY DEF FetchStats
<1>. HIDE DEF c, n, f, st
<1>2. /\ DOMAIN st = Fields /\ st.codes = c /\ st.crawled = n /\ st.failed = f
      /\ \A x \in Fields \ {"codes", "crawled", "failed"} : st[x] = stats[x]
  BY <1>1, FieldsAre
<1>. QED BY <1>2 DEF c, n, f, st

\* All crawls failed: no address has content.
LEMMA CrawlReasons ==
  ASSUME NEW s, NEW st, DOMAIN st = Fields, \A i \in DOMAIN st.codes : st.codes[i] # "content"
  PROVE  Reasons(s, [st EXCEPT !.reason = "all_crawls_failed"])
<1>. DEFINE r == [st EXCEPT !.reason = "all_crawls_failed"]
<1>1. r.reason = "all_crawls_failed" /\ r.codes = st.codes
  BY FieldsAre
<1>. HIDE DEF r
<1>2. Reasons(s, r)
  BY <1>1 DEF Reasons
<1>. QED BY <1>2 DEF r

LEMMA FetchCounts ==
  ASSUME SearchTypes, SearchTypes', Counts, Fetch
  PROVE  Counts' /\ AnswersWell'
<1>1. /\ stage = "fetch" /\ UNCHANGED <<search, queries, merged, selected, chunks, asked, offered>>
      /\ \E outcome \in [DOMAIN selected -> search.fetches] : FetchWith(outcome)
  BY FetchIs
<1>2. PICK outcome \in [DOMAIN selected -> search.fetches] : FetchWith(outcome)
  BY <1>1
<1>. DEFINE found == FoundPages(outcome)
            st == FetchStats(outcome)
            n == Len(GoodOf(outcome))
            left == Deduped(found)
<1>3. /\ selected \in Seq(Result) /\ asked = UrlsOf(selected) /\ AnswersOK(search)
      /\ Len(selected) \in Nat /\ Cardinality(asked) = Len(selected)
  <2>1. selected \in Seq(Result) /\ asked = UrlsOf(selected) /\ \A i, j \in 1..Len(selected) : selected[i].url = selected[j].url => i = j
    BY DEF SearchTypes, TypeParts, Sel
  <2>. QED BY <2>1, SearchIsOK, UrlsOfPicks, LenProperties DEF SearchTypes, TypeParts
<1>4. /\ found \in Seq(Page) /\ Len(found) = n /\ n \in 0..Len(selected)
      /\ \A k \in 1..Len(found) : Arrived(found[k], search, asked)
      /\ found = <<>> => \A i \in DOMAIN selected : CodeAt(outcome, i) # "content"
  BY <1>3, FetchKeeps
<1>5. AllCounts(stats, asked) /\ Nothing(stats) /\ NoPages(stats)
  BY <1>1 DEF Counts, CountParts, Before
<1>6. /\ DOMAIN st = Fields /\ st.codes = [i \in DOMAIN selected |-> CodeAt(outcome, i)]
      /\ st.crawled = n /\ st.failed = Len(selected) - n
      /\ \A x \in Fields \ {"codes", "crawled", "failed"} : st[x] = stats[x]
  BY <1>5, FetchStatsAre DEF AllCounts
<1>. HIDE DEF st, found, n
<1>7. AllCounts(st, asked) /\ Nothing(st) /\ st.deduped = 0 /\ st.chosen = Len(selected)
  BY <1>3, <1>5, <1>6, FieldsAre DEF AllCounts, FoundCounts, ChosenCounts, ChunkCounts, Nothing, NoPages
<1>8. CASE found = <<>> /\ Empty(st, "all_crawls_failed") /\ pages' = <<>>
  <2>1. n = 0 /\ Len(pages') = 0
    BY <1>4, <1>8
  <2>2. PageCounts(st, pages')
    BY <1>3, <1>6, <1>7, <2>1 DEF PageCounts
  <2>3. \A i \in DOMAIN st.codes : st.codes[i] # "content"
    BY <1>4, <1>6, <1>8
  <2>4. Reasons(search', [st EXCEPT !.reason = "all_crawls_failed"])
    BY <1>6, <2>3, CrawlReasons
  <2>. QED BY <1>1, <1>7, <1>8, <2>2, <2>4, EmptyAnswers
<1>9. CASE pages' = left /\ GoOn("chunk", [st EXCEPT !.deduped = Len(found) - Len(pages')])
  <2>. DEFINE d == Len(found) - Len(pages')
  <2>1. Len(left) \in 0..Len(found)
    BY <1>4, DedupedKeeps
  <2>2. d \in Nat /\ Len(pages') \in Nat /\ n = Len(pages') + d /\ n \in Nat /\ Len(selected) - n \in Nat
    BY <1>3, <1>4, <1>9, <2>1
  <2>. HIDE DEF d, left
  <2>3. stage' = "chunk" /\ stats' = [st EXCEPT !.deduped = d]
    BY <1>9, Zenon DEF GoOn, d
  <2>4. DOMAIN stats' = Fields /\ stats'.deduped = d /\ \A x \in Fields \ {"deduped"} : stats'[x] = st[x]
    BY <1>6, <2>3, FieldsAre
  <2>5. AllCounts(stats', asked) /\ Nothing(stats')
    BY <1>7, <2>4, FieldsAre DEF AllCounts, FoundCounts, ChosenCounts, ChunkCounts, Nothing
  <2>6. stats'.crawled = n /\ stats'.failed = Len(selected) - n /\ stats'.chosen = Len(selected)
    BY <1>6, <1>7, <2>4, FieldsAre
  <2>7. PageCounts(stats', pages')
    <3>1. Len(selected) = n + (Len(selected) - n)
      BY <1>3, <2>2
    <3>. QED BY <2>2, <2>4, <2>6, <3>1, Zenon DEF PageCounts
  <2>. QED BY <1>1, <2>3, <2>5, <2>7 DEF Counts, CountParts, Before, AnswersWell, AnswerParts, Answered
<1>. QED BY <1>2, <1>8, <1>9, Zenon DEF FetchWith, found, st, left

LEMMA FetchDeadlineCounts ==
  ASSUME SearchTypes, SearchTypes', Counts, FetchDeadline
  PROVE  Counts' /\ AnswersWell'
<1>. DEFINE c == [i \in DOMAIN selected |-> "deadline_cancelled"]
            f == Len(selected)
            st == [stats EXCEPT !.codes = c, !.failed = f]
<1>1. /\ stage = "fetch" /\ UNCHANGED <<search, queries, merged, selected, pages, chunks, asked, offered>>
      /\ Empty(st, "all_crawls_failed")
  BY Zenon DEF FetchDeadline
<1>2. AllCounts(stats, asked) /\ Nothing(stats) /\ NoPages(stats) /\ pages = <<>>
  BY <1>1 DEF Counts, CountParts, Before, SearchTypes, TypeParts
<1>3. f \in Nat /\ Cardinality(asked) = f
  <2>1. /\ selected \in Seq(Result) /\ asked = UrlsOf(selected)
        /\ \A i, j \in 1..Len(selected) : selected[i].url = selected[j].url => i = j
    BY DEF SearchTypes, TypeParts, Sel
  <2>. QED BY <2>1, UrlsOfPicks, LenProperties
<1>4. \A i \in DOMAIN c : c[i] # "content"
  OBVIOUS
<1>. HIDE DEF c, f
<1>5. /\ DOMAIN st = Fields /\ st.codes = c /\ st.failed = f
      /\ \A x \in Fields \ {"codes", "failed"} : st[x] = stats[x]
  BY <1>2, FieldsAre DEF AllCounts
<1>. HIDE DEF st
<1>6. AllCounts(st, asked) /\ Nothing(st) /\ st.deduped = 0 /\ st.chosen = f /\ st.crawled = 0
  BY <1>2, <1>3, <1>5, FieldsAre DEF AllCounts, FoundCounts, ChosenCounts, ChunkCounts, Nothing, NoPages
<1>7. PageCounts(st, pages)
  BY <1>2, <1>3, <1>5, <1>6 DEF PageCounts
<1>8. Reasons(search', [st EXCEPT !.reason = "all_crawls_failed"])
  BY <1>4, <1>5, CrawlReasons
<1>. QED BY <1>1, <1>6, <1>7, <1>8, EmptyAnswers

LEMMA ChunkStatsAre ==
  ASSUME NEW answer, DOMAIN stats = Fields
  PROVE  LET st == ChunkStats(answer) IN
         /\ DOMAIN st = Fields /\ st.produced = Len(ProducedOf(answer))
         /\ st.sent = Len(Prefilter(ProducedOf(answer)))
         /\ st.prefiltered = Len(ProducedOf(answer)) - Len(Prefilter(ProducedOf(answer)))
         /\ \A x \in Fields \ {"produced", "sent", "prefiltered"} : st[x] = stats[x]
<1>. DEFINE p == Len(ProducedOf(answer))
            s == Len(Prefilter(ProducedOf(answer)))
            f == p - s
            st == ChunkStats(answer)
<1>1. st = [stats EXCEPT !.produced = p, !.sent = s, !.prefiltered = f]
  BY DEF ChunkStats
<1>. HIDE DEF f, st
<1>2. /\ DOMAIN st = Fields /\ st.produced = p /\ st.sent = s /\ st.prefiltered = f
      /\ \A x \in Fields \ {"produced", "sent", "prefiltered"} : st[x] = stats[x]
  <2>. HIDE DEF p, s
  <2>. QED BY <1>1, FieldsAre
<1>. QED BY <1>2 DEF f, st

LEMMA ChunkStepCounts ==
  ASSUME SearchTypes, SearchTypes', Counts, Chunk
  PROVE  Counts' /\ AnswersWell'
<1>1. /\ stage = "chunk" /\ UNCHANGED <<search, queries, merged, selected, pages, asked>>
      /\ \E answer : /\ \A i \in DOMAIN pages : answer[i] \in search.chunkings[pages[i].body]
                     /\ ChunkWith(answer)
  BY ChunkIs
<1>2. PICK answer : /\ \A i \in DOMAIN pages : answer[i] \in search.chunkings[pages[i].body]
                    /\ ChunkWith(answer)
  BY <1>1
<1>. DEFINE all == ProducedOf(answer)
            left == Prefilter(all)
            st == ChunkStats(answer)
<1>3. all \in Seq(ChunksFrom(pages))
  BY <1>2, SearchIsOK, ProducedKeeps DEF SearchTypes, TypeParts, Fetched
<1>4. Len(all) \in Nat /\ Len(left) \in 0..Len(all)
  <2>1. ChunksFrom(pages) \in SUBSET ChunkRecord
    BY DEF ChunksFrom
  <2>. HIDE DEF all
  <2>. QED BY <1>3, <2>1, PrefilterKeeps, LenProperties
<1>5. AllCounts(stats, asked) /\ Nothing(stats) /\ PageCounts(stats, pages)
  BY <1>1 DEF Counts, CountParts
<1>6. /\ DOMAIN st = Fields /\ st.produced = Len(all) /\ st.sent = Len(left)
      /\ st.prefiltered = Len(all) - Len(left)
      /\ \A x \in Fields \ {"produced", "sent", "prefiltered"} : st[x] = stats[x]
  BY <1>5, ChunkStatsAre DEF AllCounts
<1>. HIDE DEF st, left, all
<1>7. ChunkCounts(st)
  BY <1>4, <1>6 DEF ChunkCounts
<1>8. AllCounts(st, asked) /\ Nothing(st) /\ PageCounts(st, pages)
  BY <1>5, <1>6, <1>7, FieldsAre DEF AllCounts, FoundCounts, ChosenCounts, PageCounts, Nothing
<1>9. CASE Unavailable("chunker")
  <2>1. stage' = "done" /\ stats' = stats /\ response' = [NoResponse EXCEPT !.status = "chunker"]
    BY <1>9, Zenon DEF Unavailable, Respond
  <2>. QED BY <1>1, <2>1, NoAnswer
<1>10. CASE Empty(st, "no_chunks_after_dedup")
  BY <1>1, <1>6, <1>8, <1>10, PlainReasons, EmptyAnswers
<1>11. CASE GoOn("rerank", st) /\ chunks' = left
  <2>1. stage' = "rerank" /\ stats' = st
    BY <1>11, Zenon DEF GoOn
  <2>. QED BY <1>1, <1>6, <1>8, <1>11, <2>1 DEF Counts, CountParts, Before, AnswersWell, AnswerParts, Answered
<1>. QED BY <1>2, <1>9, <1>10, <1>11, Zenon DEF ChunkWith, all, left, st

\* The counters at the end
LEMMA FinishStatsAre ==
  ASSUME NEW scored, NEW above, NEW clean, NEW reranked, NEW count, NEW tokens, NEW omitted, NEW rawOmitted,
         DOMAIN stats = Fields,
         NEW st1, st1 = ScoredStats(scored, above, reranked, count), NEW st2, st2 = CleanStats(st1, above, clean),
         NEW st3, st3 = BoundStats(st2, omitted), NEW st4, st4 = LastStats(st3, tokens, rawOmitted)
  PROVE  /\ DOMAIN st1 = Fields /\ DOMAIN st2 = Fields /\ DOMAIN st3 = Fields /\ DOMAIN st4 = Fields
         /\ \A x \in Fields \ {"reranked", "scored", "floorFilled", "belowFloor", "noise",
                               "evidenceOmitted", "tokens", "rawOmitted"} :
              st1[x] = stats[x] /\ st2[x] = stats[x] /\ st3[x] = stats[x] /\ st4[x] = stats[x]
         /\ st1.tokens = stats.tokens /\ st2.tokens = stats.tokens /\ st3.tokens = stats.tokens
         /\ st1.reranked = reranked /\ st2.noise = Len(above) - Len(clean) /\ st3.evidenceOmitted = omitted
         /\ st4.belowFloor = Len(scored) - Len(above) /\ st4.noise = Len(above) - Len(clean)
         /\ st4.evidenceOmitted = omitted /\ st4.tokens = tokens
<1>. DEFINE b == Len(scored) - Len(above)
            n == Len(above) - Len(clean)
            ff == reranked /\ count < Len(chunks)
            Same == Fields \ {"reranked", "scored", "floorFilled", "belowFloor", "noise",
                              "evidenceOmitted", "tokens", "rawOmitted"}
<1>1. st1 = [stats EXCEPT !.reranked = reranked, !.scored = count, !.floorFilled = ff, !.belowFloor = b]
  BY DEF ScoredStats
<1>2. st2 = [st1 EXCEPT !.noise = n]
  BY DEF CleanStats
<1>3. st3 = [st2 EXCEPT !.evidenceOmitted = omitted]
  BY DEF BoundStats
<1>4. st4 = [st3 EXCEPT !.tokens = tokens, !.rawOmitted = rawOmitted]
  BY DEF LastStats
<1>. HIDE DEF b, n, ff
<1>5. /\ DOMAIN st1 = Fields /\ (\A x \in Same : st1[x] = stats[x])
      /\ st1.tokens = stats.tokens /\ st1.reranked = reranked /\ st1.belowFloor = b
  BY <1>1, FieldsAre
<1>6. /\ DOMAIN st2 = Fields /\ (\A x \in Same : st2[x] = st1[x])
      /\ st2.tokens = st1.tokens /\ st2.belowFloor = st1.belowFloor /\ st2.noise = n
  BY <1>2, <1>5, FieldsAre
<1>7. /\ DOMAIN st3 = Fields /\ (\A x \in Same : st3[x] = st2[x])
      /\ st3.tokens = st2.tokens /\ st3.belowFloor = st2.belowFloor /\ st3.noise = st2.noise
      /\ st3.evidenceOmitted = omitted
  BY <1>3, <1>6, FieldsAre
<1>8. /\ DOMAIN st4 = Fields /\ (\A x \in Same : st4[x] = st3[x])
      /\ st4.belowFloor = st3.belowFloor /\ st4.noise = st3.noise
      /\ st4.evidenceOmitted = st3.evidenceOmitted /\ st4.tokens = tokens
  BY <1>4, <1>7, FieldsAre
<1>. HIDE DEF Same
<1>9. \A x \in Same : st1[x] = stats[x] /\ st2[x] = stats[x] /\ st3[x] = stats[x] /\ st4[x] = stats[x]
  BY <1>5, <1>6, <1>7, <1>8
<1>10. /\ st2.tokens = stats.tokens /\ st3.tokens = stats.tokens
       /\ st4.belowFloor = b /\ st4.noise = n /\ st4.evidenceOmitted = omitted
  <2>1. st2.tokens = stats.tokens /\ st2.belowFloor = b
    BY <1>5, <1>6, Zenon
  <2>2. st3.tokens = stats.tokens /\ st3.belowFloor = b /\ st3.noise = n
    BY <1>6, <1>7, <2>1, Zenon
  <2>. QED BY <1>7, <1>8, <2>2, Zenon
<1>. QED BY <1>5, <1>6, <1>7, <1>8, <1>9, <1>10, Zenon DEF b, n, Same

LEMMA LateReasons ==
  ASSUME NEW s, NEW st, DOMAIN st = Fields, NEW reason,
         \/ reason = "no_chunks_after_rerank" /\ st.reranked /\ s.floor # None
         \/ reason = "no_evidence_after_quality_gate" /\ st.noise > 0
         \/ reason = "no_evidence_after_output_budget" /\ st.evidenceOmitted > 0
  PROVE  Reasons(s, [st EXCEPT !.reason = reason])
<1>. DEFINE r == [st EXCEPT !.reason = reason]
<1>1. /\ r.reason = reason /\ r.reranked = st.reranked /\ r.noise = st.noise
      /\ r.evidenceOmitted = st.evidenceOmitted
  BY FieldsAre
<1>. HIDE DEF r
<1>2. Reasons(s, r)
  BY <1>1 DEF Reasons
<1>. QED BY <1>2 DEF r

\* The counters of the stages before are not touched at the end.
LEMMA SameCounts ==
  ASSUME NEW st, DOMAIN st = Fields, NEW urls, NEW ps, AllCounts(stats, urls), PageCounts(stats, ps),
         Nothing(stats),
         \A x \in Fields \ {"reranked", "scored", "floorFilled", "belowFloor", "noise",
                            "evidenceOmitted", "tokens", "rawOmitted"} : st[x] = stats[x]
  PROVE  /\ AllCounts(st, urls) /\ PageCounts(st, ps) /\ st.reason = "none" /\ st.sent = stats.sent
         /\ st.tokens = stats.tokens => Nothing(st)
<1>1. /\ st.found = stats.found /\ st.discovered = stats.discovered /\ st.failedQueries = stats.failedQueries
      /\ st.failedEngines = stats.failedEngines /\ st.discovery = stats.discovery
      /\ st.chosen = stats.chosen /\ st.diagnosed = stats.diagnosed /\ st.undiagnosed = stats.undiagnosed
      /\ st.crawled = stats.crawled /\ st.failed = stats.failed /\ st.deduped = stats.deduped
      /\ st.sent = stats.sent /\ st.prefiltered = stats.prefiltered /\ st.produced = stats.produced
      /\ st.reason = stats.reason
  BY FieldsAre
<1>. QED BY <1>1 DEF AllCounts, FoundCounts, ChosenCounts, ChunkCounts, PageCounts, Nothing

LEMMA FinishCounts ==
  ASSUME SearchTypes, SearchTypes', Counts, stage = "rerank",
         UNCHANGED <<search, queries, merged, selected, pages, chunks, asked, offered>>,
         NEW scored \in Seq(Scored(ChunksFrom(pages))), Len(scored) = Len(chunks),
         NEW f, About(scored, chunks, f), NEW reranked, NEW count, Finish(scored, reranked, count)
  PROVE  Counts' /\ AnswersWell'
<1>. DEFINE above == AboveOf(scored, reranked)
            clean == CleanOf(above)
            bound == Bound(clean)
            built == BuiltOf(bound.kept)
            raw == RawOf(built.citations)
            st1 == ScoredStats(scored, above, reranked, count)
            st2 == CleanStats(st1, above, clean)
            st3 == BoundStats(st2, bound.omitted)
            st4 == LastStats(st3, built.tokens, raw.omitted)
<1>1. Left(scored, reranked, above, clean, bound) /\ FinishWith(scored, reranked, count, above, clean, bound)
  <2>1. Left(scored, reranked, above, clean, bound)
    BY DEF Left
  <2>. HIDE DEF above, clean, bound
  <2>. QED BY <2>1, FinishIs
<1>2. /\ RequestOK(search) /\ pages \in Seq(Page) /\ Numbered(pages)
      /\ chunks \in Seq(ChunksFrom(pages)) /\ scored # <<>> /\ Len(scored) \in Nat
  <2>1. RequestOK(search) /\ pages \in Seq(Page) /\ Numbered(pages) /\ chunks \in Seq(ChunksFrom(pages)) /\ chunks # <<>>
    BY SearchIsOK DEF SearchTypes, TypeParts, Fetched
  <2>2. Len(chunks) # 0
    BY <2>1, EmptySeq
  <2>3. Len(scored) # 0 /\ Len(scored) \in Nat
    BY <2>2, LenProperties
  <2>. QED BY <2>1, <2>3, EmptySeq
<1>3. AllCounts(stats, asked) /\ Nothing(stats) /\ PageCounts(stats, pages) /\ stats.sent = Len(chunks) /\ DOMAIN stats = Fields
  BY DEF Counts, CountParts, AllCounts
<1>. HIDE DEF above, clean, bound, built, raw
<1>4. /\ above \in Seq(Scored(ChunksFrom(pages))) /\ Len(above) \in 0..Len(scored)
      /\ clean \in Seq(Scored(ChunksFrom(pages))) /\ Len(clean) \in 0..Len(above)
      /\ bound.kept \in Seq(Scored(ChunksFrom(pages))) /\ bound.omitted \in Nat
      /\ Len(bound.kept) + bound.omitted = Len(clean) /\ Len(bound.kept) <= MaxPassages
      /\ Total(BytesOf(bound.kept)) <= MaxEvidence
      /\ Total(SizesOf(bound.kept)) <= Total(SizesOf(scored))
      /\ above = <<>> => reranked /\ search.floor # None
  BY <1>1, <1>2, LeftKeeps
<1>5. /\ (above = <<>> <=> Len(above) = 0) /\ (clean = <<>> <=> Len(clean) = 0)
      /\ (bound.kept = <<>> <=> Len(bound.kept) = 0) /\ Len(bound.kept) \in Nat
  BY <1>4, EmptySeq, LenProperties
<1>6. /\ DOMAIN st1 = Fields /\ DOMAIN st2 = Fields /\ DOMAIN st3 = Fields /\ DOMAIN st4 = Fields
      /\ \A x \in Fields \ {"reranked", "scored", "floorFilled", "belowFloor", "noise",
                            "evidenceOmitted", "tokens", "rawOmitted"} :
           st1[x] = stats[x] /\ st2[x] = stats[x] /\ st3[x] = stats[x] /\ st4[x] = stats[x]
      /\ st1.tokens = stats.tokens /\ st2.tokens = stats.tokens /\ st3.tokens = stats.tokens
      /\ st1.reranked = reranked /\ st2.noise = Len(above) - Len(clean) /\ st3.evidenceOmitted = bound.omitted
      /\ st4.belowFloor = Len(scored) - Len(above) /\ st4.noise = Len(above) - Len(clean)
      /\ st4.evidenceOmitted = bound.omitted /\ st4.tokens = built.tokens
  <2>1. /\ st1 = ScoredStats(scored, above, reranked, count) /\ st2 = CleanStats(st1, above, clean)
        /\ st3 = BoundStats(st2, bound.omitted) /\ st4 = LastStats(st3, built.tokens, raw.omitted)
    OBVIOUS
  <2>. HIDE DEF st1, st2, st3, st4
  <2>2. DOMAIN stats = Fields
    BY <1>3
  <2>. QED BY <2>1, <2>2, FinishStatsAre
<1>. HIDE DEF st1, st2, st3, st4
<1>7. /\ AllCounts(st1, asked) /\ PageCounts(st1, pages) /\ Nothing(st1)
      /\ AllCounts(st2, asked) /\ PageCounts(st2, pages) /\ Nothing(st2)
      /\ AllCounts(st3, asked) /\ PageCounts(st3, pages) /\ Nothing(st3)
      /\ AllCounts(st4, asked) /\ PageCounts(st4, pages) /\ st4.reason = "none" /\ st4.sent = Len(chunks)
  BY <1>3, <1>6, SameCounts
<1>8. search' = search /\ pages' = pages /\ chunks' = chunks /\ asked' = asked
  OBVIOUS
<1>9. CASE above = <<>> /\ Empty(st1, "no_chunks_after_rerank")
  <2>1. st1.reranked /\ search.floor # None
    BY <1>4, <1>6, <1>9
  <2>2. Reasons(search', [st1 EXCEPT !.reason = "no_chunks_after_rerank"])
    BY <1>6, <1>8, <2>1, LateReasons
  <2>. QED BY <1>7, <1>8, <1>9, <2>2, EmptyAnswers
<1>10. CASE above # <<>> /\ clean = <<>> /\ Empty(st2, "no_evidence_after_quality_gate")
  <2>1. st2.noise > 0
    BY <1>4, <1>5, <1>6, <1>10
  <2>2. Reasons(search', [st2 EXCEPT !.reason = "no_evidence_after_quality_gate"])
    BY <1>6, <1>8, <2>1, LateReasons
  <2>. QED BY <1>7, <1>8, <1>10, <2>2, EmptyAnswers
<1>11. CASE clean # <<>> /\ bound.kept = <<>> /\ Empty(st3, "no_evidence_after_output_budget")
  <2>1. st3.evidenceOmitted > 0
    BY <1>4, <1>5, <1>6, <1>11
  <2>2. Reasons(search', [st3 EXCEPT !.reason = "no_evidence_after_output_budget"])
    BY <1>6, <1>8, <2>1, LateReasons
  <2>. QED BY <1>7, <1>8, <1>11, <2>2, EmptyAnswers
<1>12. CASE Respond(st4, Answer(built, raw))
  <2>. DEFINE r == Answer(built, raw)
              left == st4.sent - st4.belowFloor - st4.noise - st4.evidenceOmitted
  <2>1. stage' = "done" /\ stats' = st4 /\ response' = r
    BY <1>12, Zenon DEF Respond
  <2>2. /\ Served(search, pages, st4, r) /\ Len(built.passages) \in 0..Len(bound.kept)
        /\ search.maxPassages = None /\ Total(SizesOf(bound.kept)) <= search.tokenBudget
             => Len(built.passages) = Len(bound.kept)
    BY <1>2, <1>4, <1>6, FullServes DEF built, raw
  <2>3. r.passages = built.passages
    BY DEF Answer
  <2>. HIDE DEF r
  <2>4. left = Len(bound.kept)
    <3>1. /\ st4.sent = Len(scored) /\ st4.belowFloor = Len(scored) - Len(above)
          /\ st4.noise = Len(above) - Len(clean) /\ st4.evidenceOmitted = bound.omitted
      BY <1>6, <1>7
    <3>2. /\ Len(scored) \in Int /\ Len(above) \in Int /\ Len(clean) \in Int
          /\ Len(bound.kept) \in Int /\ bound.omitted \in Int /\ Len(bound.kept) + bound.omitted = Len(clean)
      BY <1>2, <1>4, <1>5
    <3>3. Len(scored) - (Len(scored) - Len(above)) - (Len(above) - Len(clean)) - bound.omitted = Len(bound.kept)
      BY <3>2
    <3>. QED BY <3>1, <3>3, Zenon
  <2>5. /\ Total(SizesOf(bound.kept)) <= Total(SizesOf(scored)) /\ Total(SizesOf(scored)) <= Total(ChunkSizes(chunks))
        /\ Total(SizesOf(bound.kept)) \in Nat /\ Total(SizesOf(scored)) \in Nat /\ Total(ChunkSizes(chunks)) \in Nat
        /\ search.tokenBudget \in Nat
    BY <1>2, <1>4, WeightsAre, AboutWeighs, RequestIs
  <2>6. Total(ChunkSizes(chunks)) <= search.tokenBudget => Total(SizesOf(bound.kept)) <= search.tokenBudget
    BY <2>5
  <2>7. Len(r.passages) <= left
    BY <1>5, <2>2, <2>3, <2>4
  <2>8. PassageCounts(search, st4, chunks, r)
    BY <2>2, <2>3, <2>4, <2>6, <2>7, Zenon DEF PassageCounts
  <2>9. Reasons(search, st4)
    BY <1>7 DEF Reasons
  <2>10. Counts'
    BY <1>7, <1>8, <2>1 DEF Counts, CountParts, Before
  <2>11. AnswersWell'
    BY <1>7, <1>8, <2>1, <2>2, <2>8, <2>9 DEF AnswersWell, AnswerParts
  <2>. QED BY <2>10, <2>11
<1>. QED BY <1>1, <1>9, <1>10, <1>11, <1>12, Zenon DEF FinishWith, st1, st2, st3, st4, built, raw

LEMMA RerankCounts ==
  ASSUME SearchTypes, SearchTypes', Counts, Rerank \/ RerankDeadline
  PROVE  Counts' /\ AnswersWell'
<1>1. /\ stage = "rerank" /\ UNCHANGED <<search, queries, merged, selected, pages, chunks, asked, offered>>
      /\ \/ Finish(ByPosition(chunks), FALSE, 0)
         \/ \E answers \in [1..Batches(Len(chunks)) -> search.ranks] :
              /\ ScoresOf(Len(chunks), answers) # <<>>
              /\ Finish(Reranked(chunks, answers), TRUE, Len(ScoresOf(Len(chunks), answers)))
  BY RerankIs
<1>2. chunks \in Seq(ChunksFrom(pages)) /\ AnswersOK(search)
  BY SearchIsOK DEF SearchTypes, TypeParts
<1>3. CASE Finish(ByPosition(chunks), FALSE, 0)
  <2>1. /\ ByPosition(chunks) \in Seq(Scored(ChunksFrom(pages))) /\ Len(ByPosition(chunks)) = Len(chunks)
        /\ \E f : About(ByPosition(chunks), chunks, f)
    BY <1>2, ByPositionKeeps
  <2>. QED BY <1>1, <1>3, <2>1, FinishCounts
<1>4. CASE \E answers \in [1..Batches(Len(chunks)) -> search.ranks] :
             /\ ScoresOf(Len(chunks), answers) # <<>>
             /\ Finish(Reranked(chunks, answers), TRUE, Len(ScoresOf(Len(chunks), answers)))
  <2>1. PICK answers \in [1..Batches(Len(chunks)) -> search.ranks] :
             /\ ScoresOf(Len(chunks), answers) # <<>>
             /\ Finish(Reranked(chunks, answers), TRUE, Len(ScoresOf(Len(chunks), answers)))
    BY <1>4
  <2>2. \A a \in search.ranks : a = None \/ a \in Seq(Int \X Int)
    BY <1>2, Zenon DEF AnswersOK
  <2>3. \A k \in 1..Batches(Len(chunks)) : answers[k] = None \/ answers[k] \in Seq(Int \X Int)
    BY <2>2
  <2>4. /\ Reranked(chunks, answers) \in Seq(Scored(ChunksFrom(pages))) /\ Len(Reranked(chunks, answers)) = Len(chunks)
        /\ \E f : About(Reranked(chunks, answers), chunks, f)
    BY <1>2, <2>1, <2>3, RerankedKeeps
  <2>. QED BY <1>1, <2>1, <2>4, FinishCounts
<1>. QED BY <1>1, <1>3, <1>4

\* Invariant: the counters of the stages that are over add up, and an answer says what it holds.
LEMMA AnswersStay == SearchTypes /\ SearchTypes' /\ Counts /\ AnswersWell /\ [Next]_vars => Counts' /\ AnswersWell'
<1>. SUFFICES ASSUME SearchTypes, SearchTypes', Counts, AnswersWell, [Next]_vars PROVE Counts' /\ AnswersWell'
  OBVIOUS
<1>1. CASE ChunkerFails
  <2>1. /\ stage' = "done" /\ UNCHANGED <<stats, asked>>
        /\ response' = [NoResponse EXCEPT !.status = "chunker"]
    BY <1>1, Zenon DEF ChunkerFails, Unavailable, Respond
  <2>. QED BY <2>1, NoAnswer
<1>2. CASE RouteDeadline
  <2>1. /\ stage' = "done" /\ UNCHANGED <<stats, asked>>
        /\ response' = [NoResponse EXCEPT !.status = "deadline"]
    BY <1>2, Zenon DEF RouteDeadline, Respond
  <2>. QED BY <2>1, NoAnswer
<1>3. CASE UNCHANGED vars
  BY <1>3 DEF vars, Counts, CountParts, AnswersWell, AnswerParts, Answered
<1>. QED BY <1>1, <1>2, <1>3, PlanCounts, DiscoverCounts, SelectCounts, FetchCounts, FetchDeadlineCounts,
            ChunkStepCounts, RerankCounts DEF Next

LEMMA AnswersFirst == Init => Counts /\ AnswersWell
<1>. SUFFICES ASSUME Init PROVE CountParts /\ AnswerParts
  BY DEF Counts, AnswersWell
<1>1. stage = "plan" /\ asked = {} /\ stats = NoStats /\ Cardinality({}) = 0
  BY FS_EmptySet DEF Init
<1>2. /\ NoStats.found = 0 /\ NoStats.discovered = 0 /\ NoStats.failedQueries = 0 /\ NoStats.failedEngines = 0
      /\ NoStats.chosen = 0 /\ NoStats.diagnosed = 0 /\ NoStats.undiagnosed = 0 /\ NoStats.crawled = 0
      /\ NoStats.failed = 0 /\ NoStats.deduped = 0 /\ NoStats.produced = 0 /\ NoStats.prefiltered = 0
      /\ NoStats.sent = 0 /\ NoStats.reason = "none" /\ NoStats.tokens = 0
  BY DEF NoStats
<1>3. AllCounts(stats, asked) /\ Nothing(stats) /\ NoPages(stats)
  BY <1>1, <1>2 DEF AllCounts, FoundCounts, ChosenCounts, ChunkCounts, Nothing, NoPages, Fields
<1>. QED BY <1>1, <1>3 DEF CountParts, AnswerParts, Answered

LEMMA AnswersAlways == Spec => [](Counts /\ AnswersWell)
BY SearchTypesAlways, AnswersFirst, AnswersStay, PTL DEF Spec

-----------------------------------------------------------------------------
(* The properties.                                                         *)

\* README and docs/architecture/url-identity-and-outcomes.md:51: a passage quotes the page its
\* citation names, at the span it names, also after it was cut to a budget; the page came from
\* an address the search selected, and where that redirected, from one the operator allows
\* (_truncate, _citation_id_for, _add_evidence_span, _fetch_pages).
THEOREM EvidenceStaysFaithful == Spec => []EvidenceIsFaithful
<1>1. SearchTypes /\ AnswersWell => EvidenceIsFaithful
  <2>. SUFFICES ASSUME SearchTypes, AnswersWell, Answered PROVE EvidenceIsFaithful
    BY DEF EvidenceIsFaithful
  <2>. DEFINE passages == response.passages
              cs == response.citations
              raw == response.raw
  <2>1. /\ passages \in Seq(PassageRecord) /\ cs \in Seq(CitationRecord) /\ raw \in Seq(RawRecord)
        /\ DifferentDocs(cs) /\ OfPages(cs, pages)
        /\ \A i \in 1..Len(passages) : Quotes(passages[i], cs)
        /\ \A i \in 1..Len(raw) : raw[i].citation \in 1..Len(cs) /\ cs[raw[i].citation].doc[2] = raw[i].body
    BY DEF AnswersWell, AnswerParts, Served, Cited
  <2>2. /\ pages \in Seq(Page) /\ Numbered(pages)
        /\ \A k \in 1..Len(pages) : Arrived(pages[k], search, asked)
    BY DEF SearchTypes, TypeParts, Fetched
  <2>. HIDE DEF passages, cs, raw
  <2>3. DOMAIN passages = 1..Len(passages) /\ DOMAIN cs = 1..Len(cs) /\ DOMAIN raw = 1..Len(raw) /\ DOMAIN pages = 1..Len(pages)
    BY <2>1, <2>2, LenProperties
  <2>4. ASSUME NEW i \in DOMAIN passages
        PROVE  LET p == passages[i] IN
               /\ p.citation \in DOMAIN cs /\ cs[p.citation].doc = p.doc /\ Span(p) \in cs[p.citation].spans
               /\ p.verbatim => /\ 0 <= p.start /\ p.start < p.end /\ p.end <= LengthOf[p.doc[2]]
                                /\ p.words = p.end - p.start
                                /\ p.evidence = EvidenceId(p.doc, p.start, p.end)
               /\ ~p.verbatim => {p.start, p.end, p.evidence} = {None}
    <3>. DEFINE p == passages[i]
    <3>1. Quotes(p, cs)
      BY <2>1, <2>3
    <3>. HIDE DEF p
    <3>2. p.citation \in DOMAIN cs /\ cs[p.citation].doc = p.doc /\ Span(p) \in cs[p.citation].spans /\ Genuine(p)
      BY <2>3, <3>1 DEF Quotes
    <3>3. p.verbatim => 0 <= p.start
      BY <3>2 DEF Genuine
    <3>. QED BY <3>2, <3>3 DEF Genuine, p
  <2>5. ASSUME NEW i \in DOMAIN cs
        PROVE  LET c == cs[i] IN
               /\ \A j \in DOMAIN cs : cs[j].doc = c.doc => i = j
               /\ \E k \in DOMAIN pages :
                    /\ pages[k].source = c.source /\ <<pages[k].final, pages[k].body>> = c.doc
                    /\ pages[k].requested \in asked
                    /\ \/ pages[k].final = pages[k].requested
                       \/ /\ OperatorAllows(search, pages[k].final)
                          /\ HostOf[pages[k].final] \notin UnsafeHosts
    <3>. DEFINE c == cs[i]
                k == c.source
    <3>1. \A j \in DOMAIN cs : cs[j].doc = c.doc => i = j
      BY <2>1, <2>3 DEF DifferentDocs
    <3>2. k \in DOMAIN pages /\ c.doc = <<pages[k].final, pages[k].body>>
      BY <2>1, <2>3 DEF OfPages, FromPage
    <3>3. pages[k].source = k /\ Arrived(pages[k], search, asked)
      BY <2>2, <2>3, <3>2 DEF Numbered
    <3>. HIDE DEF k
    <3>4. /\ pages[k].requested \in asked
          /\ \/ pages[k].final = pages[k].requested
             \/ OperatorAllows(search, pages[k].final) /\ HostOf[pages[k].final] \notin UnsafeHosts
      BY <3>3, Zenon DEF Arrived, CrawlSafe
    <3>5. pages[k].source = c.source
      BY <3>3 DEF k
    <3>. HIDE DEF c
    <3>6. \E m \in DOMAIN pages :
            /\ pages[m].source = c.source /\ <<pages[m].final, pages[m].body>> = c.doc
            /\ pages[m].requested \in asked
            /\ \/ pages[m].final = pages[m].requested
               \/ /\ OperatorAllows(search, pages[m].final)
                  /\ HostOf[pages[m].final] \notin UnsafeHosts
      BY <3>2, <3>4, <3>5, Zenon
    <3>. QED BY <3>1, <3>6, Zenon DEF c
  <2>6. \A i \in DOMAIN raw : cs[raw[i].citation].doc[2] = raw[i].body
    BY <2>1, <2>3
  <2>. QED BY <2>4, <2>5, <2>6, Zenon DEF EvidenceIsFaithful, passages, cs, raw
<1>. QED BY <1>1, SearchTypesAlways, AnswersAlways, PTL

\* docs/architecture/configuration-reference.md:302: the budgets of the request and of the
\* process hold for what is returned, however the services answer (_bound_evidence,
\* ResultAssemblerImpl.assemble, _build_raw_markdown, _request_limits).
THEOREM BudgetsStay == Spec => []BudgetsHold
<1>1. SearchTypes /\ AnswersWell => BudgetsHold
  <2>. SUFFICES ASSUME SearchTypes, AnswersWell PROVE BudgetsHold
    OBVIOUS
  <2>1. Cardinality(asked) <= MaxUrlsOf(search)
    <3>1. /\ selected \in Seq(Result) /\ asked = UrlsOf(selected) /\ Len(selected) <= MaxUrlsOf(search)
          /\ \A i, j \in 1..Len(selected) : selected[i].url = selected[j].url => i = j
      BY DEF SearchTypes, TypeParts, Sel
    <3>2. Cardinality(asked) = Len(selected)
      BY <3>1, UrlsOfPicks
    <3>. QED BY <3>1, <3>2
  <2>2. ASSUME Answered
        PROVE  /\ TokensOf(response.passages) <= search.tokenBudget
               /\ stats.tokens = TokensOf(response.passages)
               /\ Len(response.passages) <= MaxPassages
               /\ search.maxPassages # None => Len(response.passages) <= search.maxPassages
               /\ Sum(Len(response.passages), LAMBDA i : ItemOverhead + response.passages[i].words)
                    <= MaxEvidence
               /\ Sum(Len(response.raw), LAMBDA i : ItemOverhead + LengthOf[response.raw[i].body])
                    <= MaxRawBytes
    <3>1. /\ stats.tokens = Total(TokensIn(response.passages)) /\ stats.tokens <= search.tokenBudget
          /\ Len(response.passages) <= MaxPassages
          /\ search.maxPassages # None => Len(response.passages) <= search.maxPassages
          /\ Total(BytesIn(response.passages)) <= MaxEvidence /\ Total(RawBytesOf(response.raw)) <= MaxRawBytes
      BY <2>2, Zenon DEF AnswersWell, AnswerParts, Served
    <3>2. TokensOf(response.passages) = Total(TokensIn(response.passages))
      BY DEF TokensOf, Sum, TokensIn
    <3>3. Sum(Len(response.passages), LAMBDA i : ItemOverhead + response.passages[i].words)
            = Total(BytesIn(response.passages))
      BY DEF Sum, BytesIn
    <3>4. Sum(Len(response.raw), LAMBDA i : ItemOverhead + LengthOf[response.raw[i].body])
            = Total(RawBytesOf(response.raw))
      BY DEF Sum, RawBytesOf
    <3>. QED BY <3>1, <3>2, <3>3, <3>4, Zenon
  <2>. QED BY <2>1, <2>2, Zenon DEF BudgetsHold
<1>. QED BY <1>1, SearchTypesAlways, AnswersAlways, PTL

\* Every result, address, page and chunk is accounted for: the counters of SearchStats add up to
\* what was returned, unless the budgets of the request leave passages out (run_search).
THEOREM StatsStayTrue == Spec => []StatsAddUp
<1>1. Counts /\ AnswersWell => StatsAddUp
  <2>. SUFFICES ASSUME Counts, AnswersWell, Answered PROVE StatsAddUp
    BY DEF StatsAddUp
  <2>1. FoundCounts(stats) /\ ChosenCounts(stats, asked) /\ ChunkCounts(stats)
    BY DEF Counts, CountParts, AllCounts
  <2>2. /\ PageCounts(stats, pages)
        /\ stats.reason = "none" => PassageCounts(search, stats, chunks, response)
    BY DEF AnswersWell, AnswerParts
  <2>3. Sum(Len(chunks), LAMBDA i : SizeOf(chunks[i])) = Total(ChunkSizes(chunks))
    BY DEF Sum, ChunkSizes
  <2>4. stats.reason = "none" =>
          LET left == stats.sent - stats.belowFloor - stats.noise - stats.evidenceOmitted
              roomy == /\ search.maxPassages = None
                       /\ Sum(Len(chunks), LAMBDA i : SizeOf(chunks[i])) <= search.tokenBudget
          IN Len(response.passages) <= left /\ (roomy => Len(response.passages) = left)
    BY <2>2, <2>3 DEF PassageCounts
  <2>5. /\ stats.discovered <= stats.found
        /\ stats.chosen = stats.crawled + stats.failed /\ stats.chosen = Cardinality(asked)
        /\ stats.diagnosed + stats.undiagnosed >= stats.chosen
        /\ stats.crawled = Len(pages) + stats.deduped
        /\ stats.produced = stats.prefiltered + stats.sent
    BY <2>1, <2>2, Zenon DEF FoundCounts, ChosenCounts, ChunkCounts, PageCounts
  <2>. QED BY <2>4, <2>5, Zenon DEF StatsAddUp
<1>. QED BY <1>1, AnswersAlways, PTL

\* docs/architecture/pipeline-workflow.md:148: the reason of an empty answer names the stage that
\* left nothing, and a provider that failed is never taken for a query without results
\* (_timed_empty_response and its callers).
THEOREM ReasonStaysTrue == Spec => []ReasonIsTrue
<1>1. Counts /\ AnswersWell => ReasonIsTrue
  <2>. SUFFICES ASSUME Counts, AnswersWell, Answered PROVE ReasonIsTrue
    BY DEF ReasonIsTrue
  <2>1. stats.discovery = "ok" => stats.failedQueries = 0 /\ stats.failedEngines = 0
    BY DEF Counts, CountParts, AllCounts, FoundCounts
  <2>2. Reasons(search, stats) /\ (stats.reason # "none" => response.passages = <<>>)
    BY DEF AnswersWell, AnswerParts
  <2>. QED BY <2>1, <2>2, Zenon DEF Reasons, ReasonIsTrue
<1>. QED BY <1>1, AnswersAlways, PTL

\* Invariant: what is fetched was selected soundly.
Selecting == stage = "fetch" => SoundSelection(search, merged, selected, asked)

LEMMA SelectingStays == SearchTypes /\ Selecting /\ [Next]_vars => Selecting'
<1>. SUFFICES ASSUME SearchTypes, Selecting, [Next]_vars, stage' = "fetch"
              PROVE  SoundSelection(search', merged', selected', asked')
  BY DEF Selecting
<1>1. CASE SelectUrls
  <2>1. search' = search /\ \E works : SelectFrom(SafeOf(works))
    BY <1>1, SelectIs
  <2>2. PICK works : SelectFrom(SafeOf(works))
    BY <2>1
  <2>. DEFINE safe == SafeOf(works)
  <2>3. /\ safe \in Seq(Result) /\ OneOfEachKey(safe) /\ \A i \in 1..Len(safe) : HostIsSafe(safe[i])
    BY SafeKeeps DEF SearchTypes, TypeParts
  <2>4. RequestOK(search)
    BY SearchIsOK DEF SearchTypes, TypeParts
  <2>. HIDE DEF safe
  <2>5. SoundSelection(search, safe, PickedOf(safe), UrlsOf(PickedOf(safe)))
    BY <2>3, <2>4, SelectIsSound DEF PickedOf
  <2>6. \/ stage' = "done"
        \/ merged' = safe /\ selected' = PickedOf(safe) /\ asked' = UrlsOf(PickedOf(safe))
    BY <2>2, Zenon DEF SelectFrom, Empty, Respond, safe
  <2>7. merged' = safe /\ selected' = PickedOf(safe) /\ asked' = UrlsOf(PickedOf(safe))
    BY <2>6
  <2>. QED BY <2>1, <2>5, <2>7
<1>2. CASE UNCHANGED vars
  BY <1>2 DEF vars, Selecting
<1>3. CASE ~SelectUrls /\ ~UNCHANGED vars
  <2>1. Plan \/ Discover \/ Fetch \/ FetchDeadline \/ Chunk \/ ChunkerFails \/ Rerank \/ RerankDeadline \/ RouteDeadline
    BY <1>3 DEF Next
  <2>2. CASE Plan
    BY <2>2 DEF Plan, GoOn
  <2>3. CASE Discover
    <3>1. stage' # "fetch"
      BY <2>3, DiscoverIs, Zenon DEF DiscoverWith, Unavailable, Empty, GoOn, Respond
    <3>. QED BY <3>1
  <2>4. CASE Fetch
    BY <2>4, FetchIs, Zenon DEF FetchWith, Empty, GoOn, Respond
  <2>5. CASE Chunk
    BY <2>5, ChunkIs, Zenon DEF ChunkWith, Unavailable, Empty, GoOn, Respond
  <2>6. CASE Rerank \/ RerankDeadline
    BY <2>6, RerankIs, FinishEnds
  <2>7. CASE FetchDeadline \/ ChunkerFails \/ RouteDeadline
    BY <2>7, Zenon DEF FetchDeadline, ChunkerFails, RouteDeadline, Unavailable, Empty, Respond
  <2>. QED BY <2>1, <2>2, <2>3, <2>4, <2>5, <2>6, <2>7
<1>. QED BY <1>1, <1>2, <1>3

\* docs/architecture/security.md:72 and docs/architecture/pipeline-workflow.md:107: only safe
\* addresses the operator and the caller allow are fetched, each page once, the domains evenly,
\* and one that is left out for its rank is left out for want of room (_safe_candidates,
\* _select_results, ResultSelectorImpl.select).
THEOREM SelectionStaysSound == Spec => []SelectionIsSound
<1>1. Init => Selecting
  BY DEF Init, Selecting
<1>2. Selecting => SelectionIsSound
  BY Zenon DEF Selecting, SoundSelection, SelectionIsSound
<1>. QED BY <1>1, <1>2, SearchTypesAlways, SelectingStays, PTL DEF Spec

\* Invariant: no page is crowded out of the chunks.
Crowding ==
  stage = "rerank" => (Cardinality(offered) <= MaxCandidates => SourcesOf(chunks) = offered)

LEMMA CrowdingStays == SearchTypes /\ Crowding /\ [Next]_vars => Crowding'
<1>. SUFFICES ASSUME SearchTypes, Crowding, [Next]_vars, stage' = "rerank", Cardinality(offered') <= MaxCandidates
              PROVE  SourcesOf(chunks') = offered'
  BY DEF Crowding
<1>1. CASE Chunk
  <2>1. \E answer : /\ \A i \in DOMAIN pages : answer[i] \in search.chunkings[pages[i].body]
                    /\ ChunkWith(answer) /\ offered' = SourcesOf(ProducedOf(answer))
    BY <1>1, ChunkIs
  <2>2. PICK answer : /\ \A i \in DOMAIN pages : answer[i] \in search.chunkings[pages[i].body]
                      /\ ChunkWith(answer) /\ offered' = SourcesOf(ProducedOf(answer))
    BY <2>1
  <2>. DEFINE all == ProducedOf(answer)
  <2>3. all \in Seq(ChunksFrom(pages)) /\ ChunksFrom(pages) \in SUBSET ChunkRecord
    BY <2>2, SearchIsOK, ProducedKeeps DEF SearchTypes, TypeParts, Fetched, ChunksFrom
  <2>4. stage' = "done" \/ chunks' = Prefilter(all)
    BY <2>2, Zenon DEF ChunkWith, Unavailable, Empty, Respond
  <2>5. chunks' = Prefilter(all) /\ Cardinality(SourcesOf(all)) <= MaxCandidates
    BY <2>2, <2>4
  <2>. HIDE DEF all
  <2>6. SourcesOf(Prefilter(all)) = SourcesOf(all)
    BY <2>3, <2>5, PrefilterKeeps
  <2>. QED BY <2>2, <2>5, <2>6 DEF all
<1>2. CASE UNCHANGED vars
  BY <1>2 DEF vars, Crowding
<1>3. CASE ~Chunk /\ ~UNCHANGED vars
  <2>1. Plan \/ Discover \/ SelectUrls \/ Fetch \/ FetchDeadline \/ ChunkerFails \/ Rerank \/ RerankDeadline \/ RouteDeadline
    BY <1>3 DEF Next
  <2>2. CASE Plan
    BY <2>2 DEF Plan, GoOn
  <2>3. CASE Discover
    <3>1. stage' # "rerank"
      BY <2>3, DiscoverIs, Zenon DEF DiscoverWith, Unavailable, Empty, GoOn, Respond
    <3>. QED BY <3>1
  <2>4. CASE SelectUrls
    <3>1. stage' # "rerank"
      BY <2>4, SelectIs, Zenon DEF SelectFrom, Empty, GoOn, Respond
    <3>. QED BY <3>1
  <2>5. CASE Fetch
    <3>1. stage' # "rerank"
      BY <2>5, FetchIs, Zenon DEF FetchWith, Empty, GoOn, Respond
    <3>. QED BY <3>1
  <2>6. CASE Rerank \/ RerankDeadline
    BY <2>6, RerankIs, FinishEnds
  <2>7. CASE FetchDeadline \/ ChunkerFails \/ RouteDeadline
    BY <2>7, Zenon DEF FetchDeadline, ChunkerFails, RouteDeadline, Unavailable, Empty, Respond
  <2>. QED BY <2>1, <2>2, <2>3, <2>4, <2>5, <2>6, <2>7
<1>. QED BY <1>1, <1>2, <1>3

\* docs/architecture/pipeline-workflow.md:120 ("source-preserving"): no page is crowded out by
\* the chunks of others while there is room for one chunk of each (CandidatePrefilterImpl.filter).
THEOREM NoSourceStaysOut == Spec => []NoSourceIsCrowdedOut
<1>1. Init => Crowding
  BY DEF Init, Crowding
<1>2. Crowding => NoSourceIsCrowdedOut
  BY DEF Crowding, SourcesOf, NoSourceIsCrowdedOut
<1>. QED BY <1>1, <1>2, SearchTypesAlways, CrowdingStays, PTL DEF Spec
=============================================================================
