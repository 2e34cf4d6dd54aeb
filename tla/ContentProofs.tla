---------------------------- MODULE ContentProofs ----------------------------
(***************************************************************************)
(* Proofs about the structured part of a fetched page, for any page, any   *)
(* nesting of its tags, any answer of the model, any limits and any budget *)
(* of the response.                                                        *)
(***************************************************************************)
EXTENDS PageContent, FiniteSetTheorems, SequenceTheorems, TLAPS

-----------------------------------------------------------------------------
(* Induction over the numbers, and loops.                                  *)

\* A set of numbers with 0 and the successor of each of its numbers has them all.
LEMMA EveryNumber ==
  ASSUME NEW K, 0 \in K, \A n \in Nat : n \in K => n + 1 \in K
  PROVE  Nat \subseteq K
<1>. SUFFICES ASSUME NEW m \in Nat, m \notin K PROVE FALSE
  OBVIOUS
<1>. DEFINE T == {X \in FiniteSubsetsOf(Nat) : \E n \in Nat \ K : X = 1..n}
<1>1. IsWellFoundedOn(StrictSubsetOrdering(Nat), FiniteSubsetsOf(Nat))
  BY FS_StrictSubsetOrderingWellFounded
<1>2. \A n \in Nat \ K : 1..n \in T
  <2>1. \A n \in Nat : IsFiniteSet(1..n)
    BY FS_Interval
  <2>. QED BY <2>1 DEF FiniteSubsetsOf
<1>3. T \subseteq FiniteSubsetsOf(Nat) /\ T # {}
  BY <1>2
<1>4. \E X \in T : \A Y \in T : ~(<<Y, X>> \in StrictSubsetOrdering(Nat))
  <2>. HIDE DEF T
  <2>. QED BY <1>1, <1>3, WFMin
<1>5. PICK X \in T : \A Y \in T : ~(<<Y, X>> \in StrictSubsetOrdering(Nat))
  BY <1>4
<1>6. PICK n \in Nat \ K : X = 1..n
  BY <1>5
<1>7. n - 1 \in Nat \ K
  BY <1>6
<1>8. <<1..n - 1, 1..n>> \in StrictSubsetOrdering(Nat)
  <2>1. 1..n - 1 \subseteq 1..n /\ n \in 1..n /\ n \notin 1..n - 1
    BY <1>6, <1>7
  <2>2. 1..n \in SUBSET Nat /\ 1..n - 1 \in SUBSET Nat
    BY <1>6, <1>7
  <2>. QED BY <2>1, <2>2 DEF StrictSubsetOrdering
<1>9. 1..n - 1 \in T
  BY <1>2, <1>7
<1>. HIDE DEF T
<1>. QED BY <1>5, <1>6, <1>8, <1>9

\* The values of a loop whose steps each lead from one set to the next.
IsRun(h, top, first, G) == h = [n \in 0..top |-> IF n = 0 THEN first ELSE G[n][h[n - 1]]]
LEMMA LoopRuns ==
  ASSUME NEW top \in Nat, NEW B, NEW G, NEW first \in B[0],
         \A n \in 1..top : \A q \in B[n - 1] : G[n][q] \in B[n]
  PROVE  \E h : IsRun(h, top, first, G) /\ \A n \in 0..top : h[n] \in B[n]
<1>. DEFINE Run(h, m) == /\ h = [n \in 0..m |-> IF n = 0 THEN first ELSE G[n][h[n - 1]]]
                         /\ \A n \in 0..m : h[n] \in B[n]
            K == {m \in Nat : m <= top => \E h : Run(h, m)}
<1>1. 0 \in K
  <2>1. Run([n \in 0..0 |-> first], 0)
    OBVIOUS
  <2>. QED BY <2>1
<1>2. ASSUME NEW m \in Nat, m \in K PROVE m + 1 \in K
  <2>. SUFFICES ASSUME m + 1 <= top PROVE \E h : Run(h, m + 1)
    OBVIOUS
  <2>1. PICK g : Run(g, m)
    BY <1>2
  <2>. DEFINE h == [n \in 0..m + 1 |-> IF n = m + 1 THEN G[m + 1][g[m]] ELSE g[n]]
  <2>2. ASSUME NEW n \in 0..m + 1
        PROVE  /\ h[n] = IF n = 0 THEN first ELSE G[n][h[n - 1]]
               /\ h[n] \in B[n]
    <3>1. CASE n = m + 1
      <4>1. m + 1 \in 1..top /\ (m + 1) - 1 = m /\ g[m] \in B[m] /\ h[m] = g[m]
        BY <2>1
      <4>2. G[m + 1][g[m]] \in B[m + 1]
        BY <4>1
      <4>. QED BY <3>1, <4>1, <4>2
    <3>2. CASE n # m + 1
      <4>1. n \in 0..m /\ h[n] = g[n] /\ (n # 0 => n - 1 \in 0..m /\ h[n - 1] = g[n - 1])
        BY <3>2
      <4>2. g[n] = (IF n = 0 THEN first ELSE G[n][g[n - 1]]) /\ g[n] \in B[n]
        BY <2>1, <4>1
      <4>. HIDE DEF h
      <4>. QED BY <4>1, <4>2
    <3>. QED BY <3>1, <3>2
  <2>3. h = [n \in 0..m + 1 |-> IF n = 0 THEN first ELSE G[n][h[n - 1]]]
    BY <2>2
  <2>. HIDE DEF h
  <2>. QED BY <2>2, <2>3
<1>3. Nat \subseteq K
  <2>. HIDE DEF K
  <2>. QED BY <1>1, <1>2, EveryNumber
<1>4. \E h : Run(h, top)
  <2>1. top \in K
    BY <1>3
  <2>. HIDE DEF Run
  <2>. QED BY <2>1
<1>. HIDE DEF K
<1>. QED BY <1>4, Zenon DEF IsRun, Run

\* And so are the values of any function that is such a loop.
LEMMA LoopLeads ==
  ASSUME NEW top \in Nat, NEW B, NEW h, h[0] \in B[0],
         \A n \in 1..top : h[n - 1] \in B[n - 1] => h[n] \in B[n]
  PROVE  h[top] \in B[top]
<1>. DEFINE K == {m \in Nat : m <= top => h[m] \in B[m]}
<1>1. 0 \in K
  OBVIOUS
<1>2. ASSUME NEW m \in Nat, m \in K PROVE m + 1 \in K
  <2>. SUFFICES ASSUME m + 1 <= top PROVE h[m + 1] \in B[m + 1]
    OBVIOUS
  <2>1. m + 1 \in 1..top /\ (m + 1) - 1 = m /\ h[m] \in B[m]
    BY <1>2
  <2>. QED BY <2>1
<1>3. Nat \subseteq K
  <2>. HIDE DEF K
  <2>. QED BY <1>1, <1>2, EveryNumber
<1>. QED BY <1>3

\* A set of numbers up to n that is not empty has a largest one.
LEMMA MaxIsLargest ==
  ASSUME NEW n \in Nat, NEW S \in SUBSET (1..n), S # {}
  PROVE  Max(S) \in S /\ \A x \in S : x <= Max(S)
<1>. DEFINE K == {m \in Nat : \A X \in SUBSET (1..m) :
                                X # {} => \E x \in X : \A y \in X : x >= y}
<1>1. 0 \in K
  <2>1. \A X \in SUBSET (1..0) : X = {}
    OBVIOUS
  <2>. QED BY <2>1
<1>2. ASSUME NEW m \in Nat, m \in K PROVE m + 1 \in K
  <2>. SUFFICES ASSUME NEW X \in SUBSET (1..m + 1), X # {}
                PROVE  \E x \in X : \A y \in X : x >= y
    OBVIOUS
  <2>1. CASE m + 1 \in X
    BY <2>1
  <2>2. CASE m + 1 \notin X
    <3>1. X \in SUBSET (1..m)
      BY <2>2
    <3>. QED BY <1>2, <3>1
  <2>. QED BY <2>1, <2>2
<1>3. n \in K
  <2>. HIDE DEF K
  <2>1. Nat \subseteq K
    BY <1>1, <1>2, EveryNumber
  <2>. QED BY <2>1
<1>4. \E x \in S : \A y \in S : x >= y
  BY <1>3
<1>5. Max(S) \in S /\ \A y \in S : Max(S) >= y
  BY <1>4 DEF Max
<1>6. \A x \in S : x \in Int
  OBVIOUS
<1>. QED BY <1>5, <1>6

\* Of two numbers.
LEMMA SmallerAndLarger ==
  ASSUME NEW a \in Int, NEW b \in Int
  PROVE  /\ Min({a, b}) = IF a <= b THEN a ELSE b
         /\ Max({a, b}) = IF a >= b THEN a ELSE b
BY DEF Min, Max

\* What is counted of something is at least one.
LEMMA AtLeastOne ==
  ASSUME NEW k \in Nat
  PROVE  Max({1, k}) \in Nat /\ (k >= 1 => Max({1, k}) = k)
<1>1. Max({1, k}) = IF 1 >= k THEN 1 ELSE k
  BY SmallerAndLarger
<1>. QED BY ONLY k \in Nat, <1>1

-----------------------------------------------------------------------------
(* Sequences that are changed at their end.                                *)

\* What is left of a sequence without its last item.
LEMMA LastLeaves ==
  ASSUME NEW T, NEW s \in Seq(T), s # <<>>
  PROVE  /\ Len(s) \in Nat \ {0} /\ Last(s) = s[Len(s)] /\ Last(s) \in T
         /\ Front(s) \in Seq(T) /\ Len(Front(s)) = Len(s) - 1
         /\ \A i \in 1..Len(s) - 1 : Front(s)[i] = s[i]
<1>. DEFINE n == Len(s) - 1
            z == SubSeq(s, 1, n)
<1>1. Len(s) \in Nat /\ Len(s) # 0 /\ \A i \in 1..Len(s) : s[i] \in T
  BY EmptySeq, LenProperties, ElementOfSeq
<1>2. Front(s) = z /\ Last(s) = s[Len(s)]
  BY DEF Front, Last
<1>3. n \in Nat /\ n + 1 = Len(s) /\ \A i \in 1..n : s[i] \in T
  BY <1>1
<1>. HIDE DEF n
<1>4. /\ z \in Seq(T) /\ Len(z) = IF 1 <= n THEN n - 1 + 1 ELSE 0
      /\ \A i \in 1..n - 1 + 1 : z[i] = s[1 + i - 1]
  BY <1>3, SubSeqProperties
<1>. HIDE DEF z
<1>5. Len(z) = n /\ n - 1 + 1 = n
  BY <1>3, <1>4
<1>6. \A i \in 1..n : z[i] = s[i]
  <2>1. \A i \in 1..n : 1 + i - 1 = i
    BY <1>3
  <2>. QED BY <1>4, <1>5, <2>1
<1>7. Len(s) \in 1..Len(s)
  BY <1>1
<1>. QED BY <1>1, <1>2, <1>4, <1>5, <1>6, <1>7 DEF n

-----------------------------------------------------------------------------
(* Sums.                                                                   *)

\* The sum up to a number is a number, and with one more it is so much more.
LEMMA SumOfMore ==
  ASSUME NEW n \in Nat, NEW f \in [1..n -> Nat], NEW g \in [1..n + 1 -> Nat],
         \A i \in 1..n : g[i] = f[i], IsFiniteSet(UNION {{k} \X (1..f[k]) : k \in DOMAIN f})
  PROVE  /\ IsFiniteSet(UNION {{k} \X (1..g[k]) : k \in DOMAIN g})
         /\ SumOf(g) = SumOf(f) + g[n + 1]
<1>. DEFINE A == UNION {{k} \X (1..f[k]) : k \in DOMAIN f}
            D == UNION {{k} \X (1..g[k]) : k \in DOMAIN g}
            E == {n + 1} \X (1..g[n + 1])
<1>1. D = A \cup E
  <2>1. \A k \in DOMAIN f : f[k] = g[k] /\ k \in DOMAIN g /\ k # n + 1
    OBVIOUS
  <2>2. \A k \in DOMAIN g : k \in DOMAIN f \/ k = n + 1
    OBVIOUS
  <2>3. n + 1 \in DOMAIN g
    OBVIOUS
  <2>. QED BY <2>1, <2>2, <2>3
<1>2. A \cap E = {}
  OBVIOUS
<1>3. IsFiniteSet(E) /\ Cardinality(E) = g[n + 1]
  <2>1. IsFiniteSet(1..g[n + 1]) /\ Cardinality(1..g[n + 1]) = g[n + 1]
    BY FS_Interval
  <2>2. IsFiniteSet({n + 1}) /\ Cardinality({n + 1}) = 1
    BY FS_Singleton
  <2>3. IsFiniteSet(E) /\ Cardinality(E) = 1 * Cardinality(1..g[n + 1])
    BY <2>1, <2>2, FS_Product
  <2>. QED BY <2>1, <2>3
<1>4. IsFiniteSet({}) /\ Cardinality({}) = 0
  BY FS_EmptySet
<1>5. /\ IsFiniteSet(A \cup E)
      /\ Cardinality(A \cup E) = Cardinality(A) + Cardinality(E) - Cardinality(A \cap E)
  BY <1>3, FS_Union
<1>6. Cardinality(A) \in Nat
  BY FS_CardinalityType
<1>7. g[n + 1] \in Nat
  OBVIOUS
<1>. HIDE DEF A, D, E
<1>8. Cardinality(A \cap E) = 0
  BY <1>2, <1>4
<1>9. Cardinality(D) = Cardinality(A) + g[n + 1]
  BY <1>1, <1>3, <1>5, <1>6, <1>7, <1>8
<1>. QED BY <1>1, <1>5, <1>9 DEF SumOf, A, D

\* All of them.
LEMMA SumOfIsNat ==
  ASSUME NEW n \in Nat, NEW f \in [1..n -> Nat]
  PROVE  SumOf(f) \in Nat /\ IsFiniteSet(UNION {{k} \X (1..f[k]) : k \in DOMAIN f})
<1>1. \A k \in DOMAIN f : IsFiniteSet({k} \X (1..f[k]))
  <2>. TAKE k \in DOMAIN f
  <2>1. IsFiniteSet(1..f[k])
    BY FS_Interval
  <2>2. IsFiniteSet({k})
    BY FS_Singleton
  <2>. QED BY <2>1, <2>2, FS_Product
<1>. DEFINE S == {{k} \X (1..f[k]) : k \in DOMAIN f}
            pairs == [k \in DOMAIN f |-> {k} \X (1..f[k])]
<1>2. IsFiniteSet(DOMAIN f)
  <2>1. DOMAIN f = 1..n
    OBVIOUS
  <2>2. IsFiniteSet(1..n)
    BY FS_Interval
  <2>. QED BY <2>1, <2>2
<1>3. IsFiniteSet(S)
  <2>1. pairs \in Surjection(DOMAIN f, S)
    BY DEF Surjection
  <2>. HIDE DEF pairs, S
  <2>. QED BY <1>2, <2>1, FS_Surjection
<1>4. \A X \in S : IsFiniteSet(X)
  BY <1>1
<1>5. IsFiniteSet(UNION S)
  <2>. HIDE DEF S
  <2>. QED BY <1>3, <1>4, FS_UNION
<1>6. Cardinality(UNION S) \in Nat
  <2>. HIDE DEF S
  <2>. QED BY <1>5, FS_CardinalityType
<1>. QED BY <1>5, <1>6 DEF SumOf

\* The sum of nothing, and with one more.
LEMMA SumOfNothing ==
  ASSUME NEW f, DOMAIN f = {}
  PROVE  SumOf(f) = 0
<1>1. UNION {{k} \X (1..f[k]) : k \in DOMAIN f} = {}
  OBVIOUS
<1>2. Cardinality({}) = 0
  BY FS_EmptySet
<1>. QED BY <1>1, <1>2 DEF SumOf

LEMMA SumOfOneMore ==
  ASSUME NEW n \in Nat, NEW f \in [1..n -> Nat], NEW g \in [1..n + 1 -> Nat],
         \A i \in 1..n : g[i] = f[i]
  PROVE  SumOf(f) \in Nat /\ SumOf(g) \in Nat /\ SumOf(g) = SumOf(f) + g[n + 1]
<1>1. IsFiniteSet(UNION {{k} \X (1..f[k]) : k \in DOMAIN f}) /\ SumOf(f) \in Nat
  BY SumOfIsNat
<1>2. SumOf(g) = SumOf(f) + g[n + 1]
  BY <1>1, SumOfMore
<1>3. g[n + 1] \in Nat
  OBVIOUS
<1>. QED BY <1>1, <1>2, <1>3

\* The sum of what the items of a sequence weigh.
Weigh(W, s) == SumOf([k \in DOMAIN s |-> W[s[k]]])

\* Two sequences that have the same items but for the last of the second, and their weights.
LEMMA SumOfSeqs ==
  ASSUME NEW T, NEW W \in [T -> Nat], NEW s \in Seq(T), NEW t \in Seq(T),
         Len(t) = Len(s) + 1, \A i \in 1..Len(s) : t[i] = s[i]
  PROVE  Weigh(W, s) \in Nat /\ Weigh(W, t) = Weigh(W, s) + W[t[Len(t)]]
<1>. DEFINE f == [k \in DOMAIN s |-> W[s[k]]]
            g == [k \in DOMAIN t |-> W[t[k]]]
            n == Len(s)
<1>1. /\ n \in Nat /\ DOMAIN s = 1..n /\ DOMAIN t = 1..n + 1
      /\ \A i \in 1..n : s[i] \in T /\ W[s[i]] \in Nat
      /\ \A i \in 1..n + 1 : t[i] \in T /\ W[t[i]] \in Nat
  BY LenProperties, ElementOfSeq
<1>2. f \in [1..n -> Nat] /\ g \in [1..n + 1 -> Nat] /\ \A i \in 1..n : g[i] = f[i]
  BY <1>1
<1>3. g[n + 1] = W[t[Len(t)]]
  BY <1>1
<1>. HIDE DEF f, g, n
<1>4. SumOf(f) \in Nat /\ SumOf(g) = SumOf(f) + g[n + 1]
  BY <1>1, <1>2, SumOfOneMore
<1>. QED BY <1>3, <1>4 DEF f, g, Weigh

\* The second sequence is the first with one more item at its end.
OneMoreItem(s, t) == Len(t) = Len(s) + 1 /\ \A i \in 1..Len(s) : t[i] = s[i]

\* Its weight is that of the first and of the item.
LEMMA WeighOneMore ==
  ASSUME NEW T, NEW W \in [T -> Nat]
  PROVE  \A s, t \in Seq(T) :
           OneMoreItem(s, t) => Weigh(W, t) = Weigh(W, s) + W[t[Len(t)]]
<1>. SUFFICES ASSUME NEW s \in Seq(T), NEW t \in Seq(T), OneMoreItem(s, t)
              PROVE  Weigh(W, t) = Weigh(W, s) + W[t[Len(t)]]
  OBVIOUS
<1>1. Len(t) = Len(s) + 1 /\ \A i \in 1..Len(s) : t[i] = s[i]
  BY DEF OneMoreItem
<1>. QED BY <1>1, SumOfSeqs

LEMMA WeighItems ==
  ASSUME NEW T, NEW W \in [T -> Nat], NEW s \in Seq(T)
  PROVE  /\ Weigh(W, s) \in Nat /\ (s = <<>> => Weigh(W, s) = 0)
         /\ \A e \in T : Weigh(W, Append(s, e)) = Weigh(W, s) + W[e]
         /\ s # <<>> => Weigh(W, s) = Weigh(W, Front(s)) + W[Last(s)]
<1>1. Weigh(W, s) \in Nat /\ (s = <<>> => Weigh(W, s) = 0)
  <2>1. /\ Len(s) \in Nat /\ DOMAIN s = 1..Len(s)
        /\ \A i \in 1..Len(s) : W[s[i]] \in Nat
    BY LenProperties, ElementOfSeq
  <2>2. [k \in DOMAIN s |-> W[s[k]]] \in [1..Len(s) -> Nat]
    BY <2>1
  <2>3. Weigh(W, s) \in Nat
    BY <2>1, <2>2, SumOfIsNat DEF Weigh
  <2>4. ASSUME s = <<>> PROVE Weigh(W, s) = 0
    <3>1. DOMAIN [k \in DOMAIN s |-> W[s[k]]] = {}
      BY <2>4
    <3>. QED BY <3>1, SumOfNothing DEF Weigh
  <2>. QED BY <2>3, <2>4
<1>2. ASSUME NEW e \in T PROVE Weigh(W, Append(s, e)) = Weigh(W, s) + W[e]
  <2>. DEFINE t == Append(s, e)
  <2>1. /\ Len(s) \in Nat /\ t \in Seq(T) /\ Len(t) = Len(s) + 1
        /\ \A i \in 1..Len(s) : t[i] = s[i]
        /\ t[Len(s) + 1] = e
    BY AppendProperties, LenProperties
  <2>. HIDE DEF t
  <2>2. Weigh(W, t) = Weigh(W, s) + W[t[Len(t)]]
    BY <2>1, WeighOneMore, Zenon DEF OneMoreItem
  <2>. QED BY <2>1, <2>2 DEF t
<1>3. ASSUME s # <<>> PROVE Weigh(W, s) = Weigh(W, Front(s)) + W[Last(s)]
  <2>. DEFINE f == Front(s)
  <2>1. /\ Len(s) \in Nat \ {0} /\ f \in Seq(T) /\ Len(f) = Len(s) - 1 /\ Last(s) = s[Len(s)]
        /\ \A i \in 1..Len(s) - 1 : f[i] = s[i]
    BY <1>3, LastLeaves
  <2>. HIDE DEF f
  <2>2. Len(s) = Len(f) + 1 /\ \A i \in 1..Len(f) : s[i] = f[i]
    <3>1. Len(s) = Len(f) + 1
      BY ONLY <2>1
    <3>2. \A i \in 1..Len(f) : s[i] = f[i]
      BY <2>1, Zenon
    <3>. QED BY <3>1, <3>2
  <2>3. Weigh(W, s) = Weigh(W, f) + W[s[Len(s)]]
    <3>1. OneMoreItem(f, s)
      BY <2>2, Zenon DEF OneMoreItem
    <3>2. f \in Seq(T)
      BY <2>1, Zenon
    <3>. QED BY <3>1, <3>2, WeighOneMore, Zenon
  <2>. QED BY <2>1, <2>3 DEF f
<1>. QED BY <1>1, <1>2, <1>3

-----------------------------------------------------------------------------
(* The inductive invariant.                                                *)

\* What the parser holds after n tokens; what is open began before.
Row == Seq(Cell) \ {<<>>}
Rows == {r \in Seq(Row) : Len(r) <= MaxRows}
Table == {t \in [caption: Nat, rows: Rows \ {<<>>}, start: Nat, end: Nat] : t.start < t.end}
Links == {s \in Seq(Cell) : Len(s) <= MaxLinks}
Tables == {s \in Seq(Table) : Len(s) <= MaxTables}
Documents == {s \in Seq([kind: Kinds, fields: Nat]) : Len(s) <= MaxDocuments}

OpenLink(n) == {d \in LinkDraft : d.start < n}
OpenCell(n) == {d \in CellDraft : d.start < n}
TableDraft(n) ==
  {t \in [start: Nat, rows: Rows, row: Seq(Cell) \cup {Nil}, cell: OpenCell(n) \cup {Nil},
          caption: Nat \cup {Nil}, captionOpen: BOOLEAN] : t.start < n}
Captioned(t) == t.captionOpen => t.caption \in Nat
OpenTable(n) == {t \in TableDraft(n) : Captioned(t)}

Parser(n) ==
  [stack: Seq([tag: STRING, hidden: BOOLEAN]), activeLinks: Seq(OpenLink(n)),
   activeTables: Seq(OpenTable(n)), links: Links, tables: Tables, omittedLinks: Nat,
   omittedTables: Nat, linksTruncated: BOOLEAN, tablesTruncated: BOOLEAN, cells: Int]

\* Open links that will be a link or omitted
Counts(d) == IF d.href \in {"web", "bad"} THEN 1 ELSE 0
Waiting(links) == SumOf([k \in DOMAIN links |-> Counts(links[k])])

\* Cells of an open table that are kept, and the one that is open
KeptIn(t) == CellsOf(t.rows) + (IF t.row = Nil THEN 0 ELSE Len(t.row))
Kept(tables) == SumOf([k \in DOMAIN tables |-> KeptIn(tables[k])])
OpenIn(t) == IF t.cell = Nil THEN 0 ELSE 1
Open(tables) == SumOf([k \in DOMAIN tables |-> OpenIn(tables[k])])

\* Of the n links, or cells, of the page each is kept, omitted or open.
LinksOK(p, n) ==
  /\ Len(p.links) + p.omittedLinks + Waiting(p.activeLinks) = n
  /\ p.omittedLinks > 0 => p.linksTruncated
Told(p) == p.omittedTables > 0 => p.tablesTruncated
CellsOK(p, n) ==
  /\ p.cells = TableCells(p) + Kept(p.activeTables)
  /\ p.cells <= MaxCells
  /\ p.cells + p.omittedTables + Open(p.activeTables) = n
  /\ Told(p)

\* Unless something was cut all the n documents of the page are there.
LdParser == [seen: Nat, documents: Documents, omitted: Nat, truncated: BOOLEAN]
LdOK(l, n) ==
  /\ l \in LdParser
  /\ ~l.truncated => l.omitted = 0 /\ Len(l.documents) >= n

\* An extraction, and what is right about one
Datas == {r.data : r \in ModelReplies}
FieldsOf(data) == {[path |-> p, text |-> Leaf(data, p).text] : p \in Paths(data)}
Statuses == {"unsupported", "ok", "empty", "truncated", "validation_failed", "model_failed"}
Extraction ==
  [format: Formats, status: Statuses, document: BOOLEAN, links: Links, tables: Tables,
   documents: Documents, data: Datas \cup {Nil}, fields: {FieldsOf(d) : d \in Datas} \cup {{}},
   failures: 0..MaxFailures, usage: BOOLEAN, omitted: Nat, omittedSource: BOOLEAN]

\* What was taken from the HTML, of a page with so much to see
FromHtml(x) ==
  /\ x.data = Nil /\ x.fields = {} /\ x.failures = 0 /\ ~x.usage
  /\ x.links # <<>> => x.format = "links"
  /\ x.tables # <<>> => x.format = "tables"
  /\ x.documents # <<>> => x.format = "json_ld"
  /\ IF x.status = "unsupported" THEN ~x.document ELSE x.document
  /\ ~x.document => x.links = <<>> /\ x.tables = <<>> /\ x.documents = <<>>
  /\ x.status \in {"unsupported", "ok", "empty", "truncated"}
  /\ x.status \in {"ok", "empty"} => x.omitted = 0 /\ ~x.omittedSource
  /\ TableCells(x) <= MaxCells
Counted(x, s) ==
  x.document =>
    /\ x.format = "links" => Len(x.links) + x.omitted = s.links
    /\ x.format = "tables" => TableCells(x) + x.omitted = s.cells
    /\ x.format = "json_ld" /\ x.status \in {"ok", "empty"} =>
         Len(x.documents) + x.omitted >= s.documents

\* What the model said of the page of j
Proven(x, j) ==
  /\ x.data # Nil /\ x.status = "ok" /\ x.failures = 0 /\ x.document
  /\ x.fields = FieldsOf(x.data) /\ Cardinality(x.fields) <= MaxFields
  /\ Mismatches(j.schema, x.data) = {}
  /\ \A f \in x.fields : f.text \in WordsOf(j.text)
Refused(x) ==
  /\ x.data = Nil /\ x.fields = {}
  /\ \/ x.status = "unsupported" /\ ~x.document
     \/ x.status \in {"validation_failed", "model_failed"} /\ x.failures > 0 /\ x.document
FromModel(x, j) ==
  /\ x.links = <<>> /\ x.tables = <<>> /\ x.documents = <<>>
  /\ Proven(x, j) \/ Refused(x)

Right(x, j, s) ==
  /\ x \in Extraction
  /\ IF x.format = "json_schema" THEN FromModel(x, j) ELSE FromHtml(x) /\ Counted(x, s)

PageOK ==
  /\ position \in Nat /\ seen \in [links: Nat, cells: Nat, documents: Nat, crowded: Nat]
  /\ parser \in Parser(position) /\ LinksOK(parser, seen.links) /\ CellsOK(parser, seen.cells)
  /\ LdOK(ld, seen.documents)
ExtractionsOK ==
  \A k \in DOMAIN extractions : Right(extractions[k], job, seen)
StageOK ==
  /\ structStage \in {"idle", "fetched", "read", "extract", "schema", "bound", "done"}
  /\ structStage # "idle" => job \in Jobs
  /\ structStage \in {"idle", "fetched"} => extractions = <<>>
  /\ structStage \in {"read", "extract", "schema"} =>
       /\ DOMAIN extractions = DOMAIN job.formats
       /\ \A k \in DOMAIN extractions : extractions[k].format = job.formats[k]
  /\ structStage \in {"read", "extract"} => \A k \in DOMAIN extractions : ~extractions[k].document
  /\ structStage \notin {"read", "extract"} => parser.activeTables = <<>>

StructuredInv == StageOK /\ PageOK /\ ExtractionsOK

-----------------------------------------------------------------------------
(* What the parts of a page hold, item by item.                            *)

\* The cells of some rows.
LEMMA CellsOfRows ==
  ASSUME NEW s \in Seq(Row)
  PROVE  /\ CellsOf(s) \in Nat /\ (s = <<>> => CellsOf(s) = 0)
         /\ \A r \in Row : CellsOf(Append(s, r)) = CellsOf(s) + Len(r)
         /\ s # <<>> => /\ CellsOf(s) = CellsOf(Front(s)) + Len(Last(s))
                        /\ CellsOf(s) >= 1 /\ Last(s) \in Row
<1>. DEFINE W == [r \in Row |-> Len(r)]
<1>1. \A r \in Row : r \in Seq(Cell) /\ Len(r) \in Nat /\ Len(r) >= 1
  BY EmptySeq, LenProperties DEF Row
<1>2. W \in [Row -> Nat]
  BY <1>1
<1>3. \A z \in Seq(Row) : CellsOf(z) = Weigh(W, z)
  <2>. TAKE z \in Seq(Row)
  <2>1. \A i \in DOMAIN z : z[i] \in Row
    BY LenProperties, ElementOfSeq
  <2>2. [i \in DOMAIN z |-> Len(z[i])] = [i \in DOMAIN z |-> W[z[i]]]
    BY <2>1
  <2>. QED BY <2>2, Zenon DEF CellsOf, Weigh
<1>4. \A r \in Row : W[r] = Len(r)
  OBVIOUS
<1>. HIDE DEF W
<1>5. /\ Weigh(W, s) \in Nat /\ (s = <<>> => Weigh(W, s) = 0)
      /\ \A r \in Row : Weigh(W, Append(s, r)) = Weigh(W, s) + W[r]
      /\ s # <<>> => Weigh(W, s) = Weigh(W, Front(s)) + W[Last(s)]
  BY <1>2, WeighItems
<1>6. \A r \in Row : Append(s, r) \in Seq(Row)
  BY AppendProperties
<1>7. s # <<>> => Front(s) \in Seq(Row) /\ Last(s) \in Row
  BY LastLeaves
<1>8. s # <<>> => Weigh(W, Front(s)) \in Nat
  BY <1>2, <1>7, WeighItems
<1>9. ASSUME s # <<>>
      PROVE  /\ CellsOf(s) = CellsOf(Front(s)) + Len(Last(s))
             /\ CellsOf(s) >= 1 /\ Last(s) \in Row
  <2>1. /\ Front(s) \in Seq(Row) /\ Last(s) \in Row /\ Weigh(W, Front(s)) \in Nat
        /\ Weigh(W, s) = Weigh(W, Front(s)) + W[Last(s)]
    BY <1>5, <1>7, <1>8, <1>9
  <2>2. W[Last(s)] = Len(Last(s)) /\ Len(Last(s)) \in Nat /\ Len(Last(s)) >= 1
    BY <1>1, <1>4, <2>1
  <2>3. CellsOf(s) = Weigh(W, s) /\ CellsOf(Front(s)) = Weigh(W, Front(s))
    BY <1>3, <2>1
  <2>. QED BY <2>1, <2>2, <2>3
<1>10. CellsOf(s) = Weigh(W, s) /\ \A r \in Row : CellsOf(Append(s, r)) = Weigh(W, Append(s, r))
  BY <1>3, <1>6
<1>. QED BY <1>4, <1>5, <1>9, <1>10

\* The cells of some tables.
CellsIn(s) == SumOf([k \in DOMAIN s |-> CellsOf(s[k].rows)])
LEMMA CellsOfTables ==
  ASSUME NEW s \in Seq(Table)
  PROVE  /\ CellsIn(s) \in Nat /\ (s = <<>> => CellsIn(s) = 0)
         /\ \A t \in Table : CellsIn(Append(s, t)) = CellsIn(s) + CellsOf(t.rows)
         /\ s # <<>> => CellsIn(s) = CellsIn(Front(s)) + CellsOf(Last(s).rows)
<1>. DEFINE W == [t \in Table |-> CellsOf(t.rows)]
<1>1. \A t \in Table : t.rows \in Seq(Row) /\ CellsOf(t.rows) \in Nat
  <2>. TAKE t \in Table
  <2>1. t.rows \in Seq(Row)
    BY DEF Table, Rows
  <2>. QED BY <2>1, CellsOfRows
<1>2. W \in [Table -> Nat]
  BY <1>1
<1>3. \A z \in Seq(Table) : CellsIn(z) = Weigh(W, z)
  <2>. TAKE z \in Seq(Table)
  <2>1. \A i \in DOMAIN z : z[i] \in Table
    BY LenProperties, ElementOfSeq
  <2>2. [i \in DOMAIN z |-> CellsOf(z[i].rows)] = [i \in DOMAIN z |-> W[z[i]]]
    BY <2>1
  <2>. QED BY <2>2, Zenon DEF CellsIn, Weigh
<1>4. \A t \in Table : W[t] = CellsOf(t.rows)
  OBVIOUS
<1>. HIDE DEF W
<1>5. /\ Weigh(W, s) \in Nat /\ (s = <<>> => Weigh(W, s) = 0)
      /\ \A r \in Table : Weigh(W, Append(s, r)) = Weigh(W, s) + W[r]
      /\ s # <<>> => Weigh(W, s) = Weigh(W, Front(s)) + W[Last(s)]
  BY <1>2, WeighItems
<1>6. \A r \in Table : Append(s, r) \in Seq(Table)
  BY AppendProperties
<1>7. s # <<>> => Front(s) \in Seq(Table) /\ Last(s) \in Table
  BY LastLeaves
<1>. QED BY <1>3, <1>4, <1>5, <1>6, <1>7

\* What open tables keep, and how many of them have an open cell.
LEMMA SameCaption ==
  ASSUME NEW n, NEW t \in OpenTable(n), NEW m, NEW u \in TableDraft(m),
         u.caption = t.caption, u.captionOpen = t.captionOpen
  PROVE  u \in OpenTable(m)
BY Zenon DEF OpenTable, Captioned

LEMMA KeptInTable ==
  ASSUME NEW n \in Nat, NEW t \in OpenTable(n)
  PROVE  KeptIn(t) \in Nat /\ OpenIn(t) \in {0, 1}
<1>1. t.rows \in Seq(Row) /\ (t.row # Nil => t.row \in Seq(Cell))
  BY DEF OpenTable, TableDraft, Rows
<1>2. CellsOf(t.rows) \in Nat
  BY <1>1, CellsOfRows
<1>3. t.row # Nil => Len(t.row) \in Nat
  BY <1>1, LenProperties
<1>. QED BY <1>2, <1>3 DEF KeptIn, OpenIn

LEMMA KeptAndOpen ==
  ASSUME NEW n \in Nat, NEW s \in Seq(OpenTable(n))
  PROVE  /\ Kept(s) \in Nat /\ Open(s) \in Nat
         /\ s = <<>> => Kept(s) = 0 /\ Open(s) = 0
         /\ \A t \in OpenTable(n) : /\ Kept(Append(s, t)) = Kept(s) + KeptIn(t)
                                    /\ Open(Append(s, t)) = Open(s) + OpenIn(t)
         /\ s # <<>> => /\ Kept(s) = Kept(Front(s)) + KeptIn(Last(s))
                        /\ Open(s) = Open(Front(s)) + OpenIn(Last(s))
<1>. DEFINE T == OpenTable(n)
            V == [t \in T |-> KeptIn(t)]
            W == [t \in T |-> OpenIn(t)]
<1>1. V \in [T -> Nat] /\ W \in [T -> Nat]
  BY KeptInTable
<1>2. \A z \in Seq(T) : Kept(z) = Weigh(V, z) /\ Open(z) = Weigh(W, z)
  <2>. TAKE z \in Seq(T)
  <2>1. \A i \in DOMAIN z : z[i] \in T
    BY LenProperties, ElementOfSeq
  <2>2. /\ [i \in DOMAIN z |-> KeptIn(z[i])] = [i \in DOMAIN z |-> V[z[i]]]
        /\ [i \in DOMAIN z |-> OpenIn(z[i])] = [i \in DOMAIN z |-> W[z[i]]]
    BY <2>1
  <2>. QED BY <2>2, Zenon DEF Kept, Open, Weigh
<1>3. \A t \in T : V[t] = KeptIn(t) /\ W[t] = OpenIn(t)
  OBVIOUS
<1>. HIDE DEF V, W, T
<1>4. s \in Seq(T)
  BY DEF T
<1>5. /\ Weigh(V, s) \in Nat /\ (s = <<>> => Weigh(V, s) = 0)
      /\ \A r \in T : Weigh(V, Append(s, r)) = Weigh(V, s) + V[r]
      /\ s # <<>> => Weigh(V, s) = Weigh(V, Front(s)) + V[Last(s)]
  BY <1>1, <1>4, WeighItems
<1>6. /\ Weigh(W, s) \in Nat /\ (s = <<>> => Weigh(W, s) = 0)
      /\ \A r \in T : Weigh(W, Append(s, r)) = Weigh(W, s) + W[r]
      /\ s # <<>> => Weigh(W, s) = Weigh(W, Front(s)) + W[Last(s)]
  BY <1>1, <1>4, WeighItems
<1>7. \A r \in T : Append(s, r) \in Seq(T)
  BY <1>4, AppendProperties
<1>8. s # <<>> => Front(s) \in Seq(T) /\ Last(s) \in T
  BY <1>4, LastLeaves
<1>. QED BY <1>2, <1>3, <1>4, <1>5, <1>6, <1>7, <1>8 DEF T

\* How many open links wait.
LEMMA WaitingLinks ==
  ASSUME NEW s \in Seq(LinkDraft)
  PROVE  /\ Waiting(s) \in Nat /\ (s = <<>> => Waiting(s) = 0)
         /\ \A d \in LinkDraft : Waiting(Append(s, d)) = Waiting(s) + Counts(d)
         /\ s # <<>> => Waiting(s) = Waiting(Front(s)) + Counts(Last(s))
<1>. DEFINE T == LinkDraft
            W == [d \in T |-> Counts(d)]
<1>1. W \in [T -> Nat]
  BY DEF Counts
<1>2. \A z \in Seq(T) : Waiting(z) = Weigh(W, z)
  <2>. TAKE z \in Seq(T)
  <2>1. \A i \in DOMAIN z : z[i] \in T
    BY LenProperties, ElementOfSeq
  <2>2. [i \in DOMAIN z |-> Counts(z[i])] = [i \in DOMAIN z |-> W[z[i]]]
    BY <2>1
  <2>. QED BY <2>2, Zenon DEF Waiting, Weigh
<1>3. \A d \in T : W[d] = Counts(d)
  OBVIOUS
<1>. HIDE DEF W, T
<1>4. s \in Seq(T)
  BY DEF T
<1>5. /\ Weigh(W, s) \in Nat /\ (s = <<>> => Weigh(W, s) = 0)
      /\ \A r \in T : Weigh(W, Append(s, r)) = Weigh(W, s) + W[r]
      /\ s # <<>> => Weigh(W, s) = Weigh(W, Front(s)) + W[Last(s)]
  BY <1>1, <1>4, WeighItems
<1>6. \A r \in T : Append(s, r) \in Seq(T)
  BY <1>4, AppendProperties
<1>7. s # <<>> => Front(s) \in Seq(T) /\ Last(s) \in T
  BY <1>4, LastLeaves
<1>. QED BY <1>2, <1>3, <1>4, <1>5, <1>6, <1>7 DEF T

-----------------------------------------------------------------------------
(* The parser of the HTML: every step keeps account of the links and cells *)
(* of the page.                                                            *)

\* A parser that has read n tokens with so many links and cells
Fine(p, n, links, cells) == p \in Parser(n) /\ LinksOK(p, links) /\ CellsOK(p, cells)

\* What two parsers have in common if only tables differ
SameLinks(p, q) ==
  /\ q.stack = p.stack /\ q.activeLinks = p.activeLinks /\ q.links = p.links
  /\ q.omittedLinks = p.omittedLinks /\ q.linksTruncated = p.linksTruncated
SameTables(p, q) ==
  /\ q.tables = p.tables /\ q.cells = p.cells
  /\ q.omittedTables = p.omittedTables /\ q.tablesTruncated = p.tablesTruncated

LEMMA LinksStay ==
  ASSUME NEW p, NEW q, SameLinks(p, q), NEW n, LinksOK(p, n)
  PROVE  LinksOK(q, n)
BY DEF SameLinks, LinksOK

\* Leaving out cells.
LEMMA OmitCellsIs ==
  ASSUME NEW n \in Nat, NEW p \in Parser(n), NEW k \in Nat, NEW q, q = OmitCells(p, k)
  PROVE  /\ q \in Parser(n) /\ SameLinks(p, q) /\ q.activeTables = p.activeTables
         /\ q.tables = p.tables /\ q.cells = p.cells
         /\ q.omittedTables = p.omittedTables + k /\ Told(q)
<1>. DEFINE o == p.omittedTables + k
<1>1. q = [p EXCEPT !.omittedTables = o, !.tablesTruncated = TRUE]
  BY Zenon DEF OmitCells
<1>2. o \in Nat
  BY DEF Parser
<1>. HIDE DEF o
<1>3. PICK cut \in BOOLEAN : cut = TRUE
  OBVIOUS
<1>4. q = [p EXCEPT !.omittedTables = o, !.tablesTruncated = cut]
  BY <1>1, <1>3, Zenon
<1>5. /\ q \in Parser(n) /\ SameLinks(p, q) /\ q.activeTables = p.activeTables
      /\ q.tables = p.tables /\ q.cells = p.cells /\ q.omittedTables = o
  <2>1. q \in Parser(n)
    BY <1>2, <1>4 DEF Parser
  <2>. QED BY <1>4, <2>1 DEF Parser, SameLinks
<1>6. q.tablesTruncated = cut
  BY <1>4 DEF Parser
<1>7. Told(q)
  BY <1>3, <1>6, Zenon DEF Told
<1>. QED BY <1>5, <1>7 DEF o

\* No longer counting cells.
LEMMA UncountIs ==
  ASSUME NEW n \in Nat, NEW p \in Parser(n), NEW k \in Nat, NEW q, q = [p EXCEPT !.cells = @ - k]
  PROVE  /\ q \in Parser(n) /\ SameLinks(p, q) /\ q.activeTables = p.activeTables
         /\ q.tables = p.tables /\ q.cells = p.cells - k
         /\ q.omittedTables = p.omittedTables /\ (Told(p) => Told(q))
<1>. DEFINE c == p.cells - k
<1>1. q = [p EXCEPT !.cells = c]
  BY Zenon
<1>2. c \in Int
  BY DEF Parser
<1>. HIDE DEF c
<1>3. q \in Parser(n)
  BY <1>1, <1>2 DEF Parser
<1>4. /\ SameLinks(p, q) /\ q.activeTables = p.activeTables
      /\ q.tables = p.tables /\ q.cells = c
      /\ q.omittedTables = p.omittedTables /\ q.tablesTruncated = p.tablesTruncated
  BY <1>1 DEF Parser, SameLinks
<1>5. Told(p) => Told(q)
  BY <1>4, Zenon DEF Told
<1>. QED BY <1>3, <1>4, <1>5 DEF c

\* A table is open.
Opened(p) == p.activeTables # <<>>

\* Replacing the table that is open.
LEMMA WithTableIs ==
  ASSUME NEW n \in Nat, NEW p \in Parser(n), Opened(p), NEW u \in OpenTable(n)
  PROVE  LET q == WithTable(p, u)
         IN /\ q \in Parser(n) /\ SameLinks(p, q) /\ SameTables(p, q)
            /\ Opened(q) /\ Len(q.activeTables) = Len(p.activeTables)
            /\ ActiveTable(q) = u
            /\ Kept(q.activeTables) = Kept(p.activeTables) - KeptIn(ActiveTable(p)) + KeptIn(u)
            /\ Open(q.activeTables) = Open(p.activeTables) - OpenIn(ActiveTable(p)) + OpenIn(u)
<1>. DEFINE q == WithTable(p, u)
            s == p.activeTables
            T == OpenTable(n)
<1>1. s \in Seq(T) /\ s # <<>>
  BY DEF Parser, Opened
<1>2. /\ Len(s) \in Nat \ {0} /\ Last(s) \in T
      /\ Front(s) \in Seq(T) /\ Len(Front(s)) = Len(s) - 1
  BY <1>1, LastLeaves
<1>3. /\ Append(Front(s), u) \in Seq(T) /\ Append(Front(s), u) # <<>>
      /\ Len(Append(Front(s), u)) = Len(s) /\ Append(Front(s), u)[Len(s)] = u
  BY <1>2, AppendProperties
<1>4. q = [p EXCEPT !.activeTables = Append(Front(s), u)]
  BY DEF WithTable
<1>5. q \in Parser(n) /\ q.activeTables = Append(Front(s), u) /\ SameLinks(p, q) /\ SameTables(p, q)
  BY <1>3, <1>4 DEF Parser, SameLinks, SameTables
<1>6. ActiveTable(q) = u /\ ActiveTable(p) = Last(s)
  BY <1>3, <1>5 DEF ActiveTable, Last
<1>7. /\ Kept(s) = Kept(Front(s)) + KeptIn(Last(s)) /\ Open(s) = Open(Front(s)) + OpenIn(Last(s))
      /\ Kept(Front(s)) \in Nat /\ Open(Front(s)) \in Nat
      /\ Kept(Append(Front(s), u)) = Kept(Front(s)) + KeptIn(u)
      /\ Open(Append(Front(s), u)) = Open(Front(s)) + OpenIn(u)
  BY <1>1, <1>2, KeptAndOpen
<1>8. KeptIn(Last(s)) \in Nat /\ OpenIn(Last(s)) \in Nat /\ KeptIn(u) \in Nat /\ OpenIn(u) \in Nat
  BY <1>2, KeptInTable
<1>. HIDE DEF q, s
<1>9. /\ Kept(q.activeTables) = Kept(s) - KeptIn(ActiveTable(p)) + KeptIn(u)
      /\ Open(q.activeTables) = Open(s) - OpenIn(ActiveTable(p)) + OpenIn(u)
  BY <1>5, <1>6, <1>7, <1>8
<1>. QED BY <1>3, <1>5, <1>6, <1>9 DEF q, s, Opened

\* The table that is open, of what one holds.
LEMMA ActiveTableIs ==
  ASSUME NEW n \in Nat, NEW p \in Parser(n), Opened(p)
  PROVE  /\ ActiveTable(p) \in OpenTable(n) /\ KeptIn(ActiveTable(p)) \in Nat
         /\ OpenIn(ActiveTable(p)) \in Nat
         /\ Kept(p.activeTables) \in Nat /\ Open(p.activeTables) \in Nat
         /\ Kept(p.activeTables) >= KeptIn(ActiveTable(p))
         /\ CellsIn(p.tables) \in Nat
<1>. DEFINE s == p.activeTables
            T == OpenTable(n)
<1>1. s \in Seq(T) /\ s # <<>> /\ ActiveTable(p) = Last(s) /\ p.tables \in Seq(Table)
  BY DEF Parser, ActiveTable, Tables, Opened
<1>2. Front(s) \in Seq(T) /\ Last(s) \in T
  BY <1>1, LastLeaves
<1>3. Kept(s) = Kept(Front(s)) + KeptIn(Last(s)) /\ Kept(Front(s)) \in Nat /\ Open(s) \in Nat
  BY <1>1, <1>2, KeptAndOpen
<1>4. KeptIn(Last(s)) \in Nat /\ OpenIn(Last(s)) \in Nat
  BY <1>2, KeptInTable
<1>5. CellsIn(p.tables) \in Nat
  BY <1>1, CellsOfTables
<1>. QED BY <1>1, <1>2, <1>3, <1>4, <1>5

\* _finish_cell: the cell is kept or omitted.
LEMMA FinishCellKeeps ==
  ASSUME NEW n \in Nat, NEW p, NEW links \in Nat, NEW cells \in Nat,
         Fine(p, n, links, cells), Opened(p)
  PROVE  LET q == FinishCell(p, n)
         IN /\ Fine(q, n, links, cells) /\ SameLinks(p, q)
            /\ Opened(q) /\ Len(q.activeTables) = Len(p.activeTables)
            /\ ActiveTable(q).cell = Nil
<1>. DEFINE t == ActiveTable(p)
            row == IF t.row = Nil THEN <<>> ELSE t.row
            cell == [text |-> Bounded(t.cell.text), start |-> t.cell.start, end |-> n]
            left == [t EXCEPT !.cell = Nil]
            kept == [t EXCEPT !.cell = Nil, !.row = Append(row, cell)]
            q == FinishCell(p, n)
<1>1. p \in Parser(n) /\ LinksOK(p, links) /\ CellsOK(p, cells)
  BY DEF Fine
<1>2. /\ t \in OpenTable(n) /\ KeptIn(t) \in Nat /\ OpenIn(t) \in Nat
      /\ Kept(p.activeTables) \in Nat /\ Open(p.activeTables) \in Nat /\ CellsIn(p.tables) \in Nat
  BY <1>1, ActiveTableIs
<1>3. /\ p.cells = CellsIn(p.tables) + Kept(p.activeTables) /\ p.cells <= MaxCells
      /\ p.cells + p.omittedTables + Open(p.activeTables) = cells
      /\ p.cells \in Int /\ p.omittedTables \in Nat /\ Told(p)
  BY <1>1 DEF CellsOK, TableCells, CellsIn, Parser
<1>4. MaxCells \in Nat /\ MaxText \in Nat
  BY HtmlConstants
<1>5. CASE t.cell = Nil
  <2>1. q = p
    BY <1>5 DEF FinishCell
  <2>. QED BY <1>1, <1>5, <2>1 DEF SameLinks, Fine
<1>6. CASE t.cell # Nil
  <2>1. t.cell \in OpenCell(n) /\ t.cell \in CellDraft /\ t.cell.start < n
    BY <1>2, <1>6 DEF OpenTable, TableDraft, OpenCell
  <2>2. left \in OpenTable(n) /\ KeptIn(left) = KeptIn(t) /\ OpenIn(left) = 0 /\ OpenIn(t) = 1
    <3>1. /\ left \in TableDraft(n) /\ left.caption = t.caption /\ left.captionOpen = t.captionOpen
          /\ KeptIn(left) = KeptIn(t) /\ OpenIn(left) = 0 /\ OpenIn(t) = 1
      BY <1>2, <1>6 DEF OpenTable, TableDraft, KeptIn, OpenIn
    <3>. HIDE DEF left, t
    <3>. QED BY <1>2, <3>1, SameCaption
  <2>3. CASE p.cells >= MaxCells
    <3>. DEFINE r == WithTable(p, left)
    <3>1. q = OmitCells(r, 1)
      BY <1>6, <2>3 DEF FinishCell
    <3>2. /\ r \in Parser(n) /\ SameLinks(p, r) /\ SameTables(p, r)
          /\ Opened(r) /\ Len(r.activeTables) = Len(p.activeTables)
          /\ ActiveTable(r) = left
          /\ Kept(r.activeTables) = Kept(p.activeTables) - KeptIn(t) + KeptIn(left)
          /\ Open(r.activeTables) = Open(p.activeTables) - OpenIn(t) + OpenIn(left)
      BY <1>1, <2>2, WithTableIs
    <3>. HIDE DEF r, left, t
    <3>3. /\ q \in Parser(n) /\ SameLinks(r, q) /\ q.activeTables = r.activeTables
          /\ q.tables = r.tables /\ q.cells = r.cells
          /\ q.omittedTables = r.omittedTables + 1 /\ Told(q)
      <4>1. r \in Parser(n) /\ 1 \in Nat
        BY <3>2
      <4>. QED BY ONLY <3>1, <4>1, OmitCellsIs
    <3>. HIDE DEF q
    <3>4. SameLinks(p, q)
      BY <3>2, <3>3 DEF SameLinks
    <3>5. LinksOK(q, links)
      BY <1>1, <3>4, LinksStay
    <3>6. /\ Kept(q.activeTables) = Kept(p.activeTables)
          /\ Open(q.activeTables) = Open(p.activeTables) - 1
          /\ q.tables = p.tables /\ q.cells = p.cells /\ q.omittedTables = p.omittedTables + 1
      BY <1>2, <2>2, <3>2, <3>3 DEF SameTables
    <3>7. CellsOK(q, cells)
      BY <1>2, <1>3, <3>3, <3>6 DEF CellsOK, TableCells, CellsIn
    <3>8. ActiveTable(q).cell = Nil
      <4>1. ActiveTable(q) = left
        BY <3>2, <3>3 DEF ActiveTable
      <4>2. left.cell = Nil
        BY <1>2 DEF left, OpenTable, TableDraft
      <4>. QED BY <4>1, <4>2
    <3>. QED BY <3>2, <3>3, <3>4, <3>5, <3>7, <3>8 DEF Fine, q, Opened
  <2>4. CASE p.cells < MaxCells
    <3>. DEFINE r == WithTable(p, kept)
    <3>1. q = [r EXCEPT !.cells = @ + 1, !.tablesTruncated = @ \/ IsCut(t.cell.text)]
      BY <1>3, <1>4, <1>6, <2>4 DEF FinishCell
    <3>2. /\ row \in Seq(Cell) /\ cell \in Cell
          /\ Len(row) = (IF t.row = Nil THEN 0 ELSE Len(t.row)) /\ Len(row) \in Nat
      <4>1. t.row \in Seq(Cell) \cup {Nil}
        BY <1>2 DEF OpenTable, TableDraft
      <4>2. row \in Seq(Cell) /\ Len(row) = (IF t.row = Nil THEN 0 ELSE Len(t.row))
        BY <4>1, EmptySeq
      <4>3. t.cell.text \in Nat /\ t.cell.start \in Nat
        BY <2>1 DEF CellDraft
      <4>4. Bounded(t.cell.text) \in Nat
        BY <1>4, <4>3, SmallerAndLarger DEF Bounded
      <4>5. cell \in Cell
        BY <2>1, <4>3, <4>4 DEF Cell
      <4>. QED BY <4>2, <4>5, LenProperties
    <3>3. Append(row, cell) \in Seq(Cell) /\ Len(Append(row, cell)) = Len(row) + 1
      BY <3>2, AppendProperties
    <3>4. Append(row, cell) # Nil
      BY <3>3, NilIsNoValue
    <3>. HIDE DEF row, cell
    <3>5. kept \in OpenTable(n) /\ kept.cell = Nil /\ kept.row = Append(row, cell)
          /\ kept.rows = t.rows
      <4>1. /\ kept \in TableDraft(n) /\ kept.cell = Nil /\ kept.row = Append(row, cell)
            /\ kept.rows = t.rows /\ kept.caption = t.caption /\ kept.captionOpen = t.captionOpen
        BY <1>2, <3>3 DEF OpenTable, TableDraft
      <4>. HIDE DEF kept, t
      <4>. QED BY <1>2, <4>1, SameCaption
    <3>6. CellsOf(t.rows) \in Nat
      BY <1>2, CellsOfRows DEF OpenTable, TableDraft, Rows
    <3>. HIDE DEF kept
    <3>7. KeptIn(kept) = KeptIn(t) + 1 /\ OpenIn(kept) = 0
      BY <3>2, <3>3, <3>4, <3>5, <3>6 DEF KeptIn, OpenIn
    <3>8. /\ r \in Parser(n) /\ SameLinks(p, r) /\ SameTables(p, r)
          /\ Opened(r) /\ Len(r.activeTables) = Len(p.activeTables)
          /\ ActiveTable(r) = kept
          /\ Kept(r.activeTables) = Kept(p.activeTables) - KeptIn(t) + KeptIn(kept)
          /\ Open(r.activeTables) = Open(p.activeTables) - OpenIn(t) + OpenIn(kept)
      BY <1>1, <3>5, WithTableIs
    <3>. HIDE DEF r, t
    <3>9. /\ q \in Parser(n) /\ SameLinks(r, q) /\ q.activeTables = r.activeTables
          /\ q.tables = r.tables /\ q.cells = r.cells + 1
          /\ q.omittedTables = r.omittedTables /\ (Told(r) => Told(q))
      <4>1. PICK cut \in BOOLEAN : cut = (r.tablesTruncated \/ IsCut(t.cell.text))
        OBVIOUS
      <4>2. q = [r EXCEPT !.cells = r.cells + 1, !.tablesTruncated = cut]
        BY <3>1, <4>1, Zenon
      <4>. HIDE DEF q
      <4>3. r.cells + 1 \in Int
        BY <3>8 DEF Parser
      <4>4. q \in Parser(n)
        BY <3>8, <4>2, <4>3 DEF Parser
      <4>5. q.tablesTruncated = cut
        BY <3>8, <4>2 DEF Parser
      <4>6. /\ SameLinks(r, q) /\ q.activeTables = r.activeTables /\ q.tables = r.tables
            /\ q.cells = r.cells + 1 /\ q.omittedTables = r.omittedTables
        BY <3>8, <4>2 DEF Parser, SameLinks
      <4>7. Told(r) => Told(q)
        BY <4>1, <4>5, <4>6, Zenon DEF Told
      <4>. QED BY <4>4, <4>6, <4>7
    <3>. HIDE DEF q
    <3>10. SameLinks(p, q)
      BY <3>8, <3>9 DEF SameLinks
    <3>11. LinksOK(q, links)
      BY <1>1, <3>10, LinksStay
    <3>12. /\ Kept(q.activeTables) = Kept(p.activeTables) + 1
           /\ Open(q.activeTables) = Open(p.activeTables) - 1
           /\ q.tables = p.tables /\ q.cells = p.cells + 1 /\ q.omittedTables = p.omittedTables
      BY <1>2, <2>2, <3>7, <3>8, <3>9 DEF SameTables
    <3>13. CellsOK(q, cells)
      <4>1. TableCells(q) = CellsIn(p.tables)
        BY <3>12 DEF TableCells, CellsIn
      <4>2. /\ q.cells = CellsIn(p.tables) + Kept(q.activeTables) /\ q.cells <= MaxCells
            /\ q.cells + q.omittedTables + Open(q.activeTables) = cells
        BY <1>2, <1>3, <1>4, <2>4, <3>12
      <4>3. Told(q)
        BY <1>3, <3>8, <3>9, Zenon DEF SameTables, Told
      <4>. QED BY <4>1, <4>2, <4>3 DEF CellsOK
    <3>14. ActiveTable(q).cell = Nil
      BY <3>5, <3>8, <3>9 DEF ActiveTable
    <3>. QED BY <3>8, <3>9, <3>10, <3>11, <3>13, <3>14 DEF Fine, q, Opened
  <2>. QED BY <1>3, <1>4, <2>3, <2>4
<1>. QED BY <1>5, <1>6

\* _finish_row: the cells of the row are kept, or omitted and no longer counted.
LEMMA FinishRowKeeps ==
  ASSUME NEW n \in Nat, NEW p, NEW links \in Nat, NEW cells \in Nat,
         Fine(p, n, links, cells), Opened(p)
  PROVE  LET q == FinishRow(p, n)
         IN /\ Fine(q, n, links, cells) /\ SameLinks(p, q)
            /\ Opened(q) /\ Len(q.activeTables) = Len(p.activeTables)
            /\ ActiveTable(q).cell = Nil /\ ActiveTable(q).row = Nil
<1>. DEFINE q == FinishCell(p, n)
            t == ActiveTable(q)
            none == [t EXCEPT !.row = Nil]
            closed == WithTable(q, none)
            f == FinishRow(p, n)
<1>1. /\ Fine(q, n, links, cells) /\ SameLinks(p, q)
      /\ Opened(q) /\ Len(q.activeTables) = Len(p.activeTables) /\ t.cell = Nil
  BY FinishCellKeeps
<1>. HIDE DEF q
<1>2. q \in Parser(n) /\ LinksOK(q, links) /\ CellsOK(q, cells)
  BY <1>1 DEF Fine
<1>3. /\ t \in OpenTable(n) /\ KeptIn(t) \in Nat /\ OpenIn(t) \in Nat
      /\ Kept(q.activeTables) \in Nat /\ Open(q.activeTables) \in Nat /\ CellsIn(q.tables) \in Nat
      /\ Kept(q.activeTables) >= KeptIn(t)
  BY <1>1, <1>2, ActiveTableIs
<1>4. /\ q.cells = CellsIn(q.tables) + Kept(q.activeTables) /\ q.cells <= MaxCells
      /\ q.cells + q.omittedTables + Open(q.activeTables) = cells
      /\ q.cells \in Int /\ q.omittedTables \in Nat /\ Told(q)
  BY <1>2 DEF CellsOK, TableCells, CellsIn, Parser
<1>5. MaxCells \in Nat /\ MaxRows \in Nat
  BY HtmlConstants
<1>. HIDE DEF t
<1>6. /\ t.row \in Seq(Cell) \cup {Nil} /\ t.rows \in Seq(Row) /\ Len(t.rows) <= MaxRows
      /\ CellsOf(t.rows) \in Nat
  <2>1. t.row \in Seq(Cell) \cup {Nil} /\ t.rows \in Rows
    BY <1>3 DEF OpenTable, TableDraft
  <2>2. t.rows \in Seq(Row) /\ Len(t.rows) <= MaxRows
    BY <2>1 DEF Rows
  <2>. QED BY <2>1, <2>2, CellsOfRows
<1>7. CASE t.row = Nil
  <2>1. f = q
    <3>1. t.row # <<>>
      BY <1>7, NilIsNoValue, EmptySeq
    <3>. QED BY <1>7, <3>1, Zenon DEF FinishRow, q, t
  <2>. HIDE DEF f
  <2>2. ActiveTable(f).cell = Nil /\ ActiveTable(f).row = Nil
    BY <1>1, <1>7, <2>1 DEF t
  <2>3. Fine(f, n, links, cells) /\ SameLinks(p, f) /\ Opened(f)
        /\ Len(f.activeTables) = Len(p.activeTables)
    BY <1>1, <2>1
  <2>. QED BY <2>2, <2>3 DEF f
<1>8. none \in OpenTable(n) /\ none.row = Nil /\ none.cell = Nil /\ none.rows = t.rows
  <2>1. /\ none \in TableDraft(n) /\ none.row = Nil /\ none.cell = Nil /\ none.rows = t.rows
        /\ none.caption = t.caption /\ none.captionOpen = t.captionOpen
    BY <1>1, <1>3 DEF OpenTable, TableDraft, t
  <2>. HIDE DEF none
  <2>. QED BY <1>3, <2>1, SameCaption
<1>. HIDE DEF none
<1>9. KeptIn(none) = CellsOf(t.rows) /\ OpenIn(none) = 0 /\ OpenIn(t) = 0
  <2>1. t.cell = Nil
    BY <1>1
  <2>. QED BY <1>6, <1>8, <2>1 DEF KeptIn, OpenIn
<1>10. /\ closed \in Parser(n) /\ SameLinks(q, closed) /\ SameTables(q, closed)
       /\ Opened(closed) /\ Len(closed.activeTables) = Len(q.activeTables)
       /\ ActiveTable(closed) = none
       /\ Kept(closed.activeTables) = Kept(q.activeTables) - KeptIn(t) + KeptIn(none)
       /\ Open(closed.activeTables) = Open(q.activeTables) - OpenIn(t) + OpenIn(none)
  BY ONLY <1>1, <1>2, <1>8, WithTableIs, n \in Nat DEF t
<1>. HIDE DEF closed
<1>11. CASE t.row # Nil /\ t.row = <<>>
  <2>1. f = closed
    BY <1>11 DEF FinishRow, q, t, closed, none
  <2>2. KeptIn(t) = CellsOf(t.rows)
    <3>1. Len(t.row) = 0
      BY <1>11
    <3>. QED BY <1>6, <1>11, <3>1 DEF KeptIn
  <2>3. SameLinks(p, closed)
    BY <1>1, <1>10 DEF SameLinks
  <2>4. LinksOK(closed, links)
    BY <1>2, <1>10, LinksStay
  <2>5. /\ Kept(closed.activeTables) = Kept(q.activeTables)
        /\ Open(closed.activeTables) = Open(q.activeTables)
    BY ONLY <1>3, <1>9, <1>10, <2>2
  <2>6. CellsOK(closed, cells)
    BY <1>2, <1>10, <2>5 DEF CellsOK, SameTables, TableCells, Told
  <2>. QED BY <1>1, <1>8, <1>10, <2>1, <2>3, <2>4, <2>6 DEF Fine
<1>12. CASE t.row # Nil /\ t.row # <<>>
  <2>1. t.row \in Row /\ Len(t.row) \in Nat /\ KeptIn(t) = CellsOf(t.rows) + Len(t.row)
    <3>1. t.row \in Seq(Cell)
      BY <1>6, <1>12
    <3>2. KeptIn(t) = CellsOf(t.rows) + Len(t.row)
      BY <1>12, Zenon DEF KeptIn
    <3>. QED BY <1>12, <3>1, <3>2, LenProperties DEF Row
  <2>2. CASE Len(t.rows) < MaxRows
    <3>. DEFINE more == [t EXCEPT !.row = Nil, !.rows = Append(t.rows, t.row)]
    <3>1. f = WithTable(q, more)
      BY <1>12, <2>2 DEF FinishRow, q, t
    <3>2. /\ Append(t.rows, t.row) \in Seq(Row) /\ Len(Append(t.rows, t.row)) = Len(t.rows) + 1
          /\ CellsOf(Append(t.rows, t.row)) = CellsOf(t.rows) + Len(t.row)
      BY <1>6, <2>1, AppendProperties, CellsOfRows
    <3>3. Append(t.rows, t.row) \in Rows
      <4>1. Len(t.rows) \in Nat
        BY <1>6, LenProperties
      <4>. QED BY <1>5, <2>2, <3>2, <4>1 DEF Rows
    <3>4. more \in OpenTable(n) /\ more.row = Nil /\ more.cell = Nil
          /\ more.rows = Append(t.rows, t.row)
      <4>1. t.cell = Nil
        BY <1>1
      <4>2. /\ more \in TableDraft(n) /\ more.row = Nil /\ more.cell = Nil
            /\ more.rows = Append(t.rows, t.row)
            /\ more.caption = t.caption /\ more.captionOpen = t.captionOpen
        BY <1>3, <3>3, <4>1 DEF OpenTable, TableDraft
      <4>. HIDE DEF more
      <4>. QED BY <1>3, <4>2, SameCaption
    <3>. HIDE DEF more
    <3>5. KeptIn(more) = KeptIn(t) /\ OpenIn(more) = 0
      BY <1>6, <2>1, <3>2, <3>4 DEF KeptIn, OpenIn
    <3>6. /\ f \in Parser(n) /\ SameLinks(q, f) /\ SameTables(q, f)
          /\ Opened(f) /\ Len(f.activeTables) = Len(q.activeTables)
          /\ ActiveTable(f) = more
          /\ Kept(f.activeTables) = Kept(q.activeTables) - KeptIn(t) + KeptIn(more)
          /\ Open(f.activeTables) = Open(q.activeTables) - OpenIn(t) + OpenIn(more)
      BY ONLY <1>1, <1>2, <3>1, <3>4, WithTableIs, n \in Nat DEF t
    <3>. HIDE DEF f
    <3>7. /\ Kept(f.activeTables) = Kept(q.activeTables)
          /\ Open(f.activeTables) = Open(q.activeTables)
      BY ONLY <1>3, <1>9, <3>5, <3>6
    <3>8. CellsOK(f, cells)
      BY <1>2, <3>6, <3>7 DEF CellsOK, SameTables, TableCells, Told
    <3>9. SameLinks(p, f)
      BY <1>1, <3>6 DEF SameLinks
    <3>10. LinksOK(f, links)
      BY <1>2, <3>6, LinksStay
    <3>. QED BY <1>1, <3>4, <3>6, <3>8, <3>9, <3>10 DEF Fine, f
  <2>3. CASE ~(Len(t.rows) < MaxRows)
    <3>. DEFINE o == OmitCells(closed, Len(t.row))
    <3>1. f = [o EXCEPT !.cells = @ - Len(t.row)]
      BY <1>12, <2>3 DEF FinishRow, q, t, closed, none
    <3>2. /\ o \in Parser(n) /\ SameLinks(closed, o) /\ o.activeTables = closed.activeTables
          /\ o.tables = closed.tables /\ o.cells = closed.cells
          /\ o.omittedTables = closed.omittedTables + Len(t.row) /\ Told(o)
      <4>1. closed \in Parser(n) /\ Len(t.row) \in Nat
        BY <1>10, <2>1
      <4>. QED BY ONLY <4>1, OmitCellsIs, n \in Nat
    <3>. HIDE DEF f, o
    <3>3. /\ f \in Parser(n) /\ SameLinks(o, f) /\ f.activeTables = o.activeTables
          /\ f.tables = o.tables /\ f.cells = o.cells - Len(t.row)
          /\ f.omittedTables = o.omittedTables /\ (Told(o) => Told(f))
      <4>1. Len(t.row) \in Nat /\ o \in Parser(n)
        BY <2>1, <3>2
      <4>. QED BY ONLY <3>1, <4>1, UncountIs, n \in Nat
    <3>4. Told(f)
      BY <3>2, <3>3
    <3>5. SameLinks(p, f)
      BY <1>1, <1>10, <3>2, <3>3 DEF SameLinks
    <3>6. LinksOK(f, links)
      BY <1>2, <1>10, <3>2, <3>3, LinksStay
    <3>7. /\ Kept(f.activeTables) = Kept(q.activeTables) - Len(t.row)
          /\ Open(f.activeTables) = Open(q.activeTables)
          /\ f.tables = q.tables /\ f.cells = q.cells - Len(t.row)
          /\ f.omittedTables = q.omittedTables + Len(t.row)
      BY ONLY <1>3, <1>6, <1>9, <1>10, <2>1, <3>2, <3>3 DEF SameTables
    <3>8. CellsOK(f, cells)
      <4>1. TableCells(f) = CellsIn(q.tables)
        BY <3>7 DEF TableCells, CellsIn
      <4>2. /\ f.cells = CellsIn(q.tables) + Kept(f.activeTables) /\ f.cells <= MaxCells
            /\ f.cells + f.omittedTables + Open(f.activeTables) = cells
        <5>1. /\ CellsIn(q.tables) \in Nat /\ Kept(q.activeTables) \in Nat
              /\ Open(q.activeTables) \in Nat /\ q.cells \in Int /\ q.omittedTables \in Nat
              /\ q.cells = CellsIn(q.tables) + Kept(q.activeTables) /\ q.cells <= MaxCells
              /\ q.cells + q.omittedTables + Open(q.activeTables) = cells
          BY <1>3, <1>4
        <5>2. PICK k \in Nat : k = Len(t.row)
          BY <2>1
        <5>3. /\ Kept(f.activeTables) = Kept(q.activeTables) - k
              /\ Open(f.activeTables) = Open(q.activeTables)
              /\ f.cells = q.cells - k /\ f.omittedTables = q.omittedTables + k
          BY <3>7, <5>2
        <5>. QED BY ONLY <1>5, <5>1, <5>3, cells \in Nat
      <4>. QED BY <3>4, <4>1, <4>2 DEF CellsOK
    <3>9. ActiveTable(f) = none /\ Opened(f)
      BY <1>10, <3>2, <3>3 DEF ActiveTable, Opened
    <3>. QED BY <1>1, <1>8, <1>10, <3>2, <3>3, <3>5, <3>6, <3>8, <3>9 DEF Fine, f
  <2>. QED BY <2>2, <2>3
<1>. QED BY <1>7, <1>11, <1>12

\* Closing the table that is open.
LEMMA ClosedIs ==
  ASSUME NEW n \in Nat, NEW p \in Parser(n), Opened(p),
         NEW q, q = [p EXCEPT !.activeTables = Front(@)]
  PROVE  /\ q \in Parser(n) /\ SameLinks(p, q) /\ SameTables(p, q)
         /\ Len(q.activeTables) = Len(p.activeTables) - 1
         /\ Kept(q.activeTables) \in Nat /\ Open(q.activeTables) \in Nat
         /\ Kept(p.activeTables) = Kept(q.activeTables) + KeptIn(ActiveTable(p))
         /\ Open(p.activeTables) = Open(q.activeTables) + OpenIn(ActiveTable(p))
<1>. DEFINE s == p.activeTables
            T == OpenTable(n)
            z == Front(s)
<1>1. s \in Seq(T) /\ s # <<>> /\ ActiveTable(p) = Last(s)
  BY DEF Parser, Opened, ActiveTable
<1>2. z \in Seq(T) /\ Len(z) = Len(s) - 1
  BY <1>1, LastLeaves
<1>3. q = [p EXCEPT !.activeTables = z]
  BY Zenon
<1>4. Kept(z) \in Nat /\ Open(z) \in Nat /\ Kept(s) = Kept(z) + KeptIn(Last(s))
      /\ Open(s) = Open(z) + OpenIn(Last(s))
  BY <1>1, <1>2, KeptAndOpen
<1>. HIDE DEF z
<1>5. q \in Parser(n) /\ q.activeTables = z /\ SameLinks(p, q) /\ SameTables(p, q)
  BY <1>2, <1>3 DEF Parser, SameLinks, SameTables
<1>. HIDE DEF s
<1>. QED BY <1>1, <1>2, <1>4, <1>5 DEF s

\* Keeping a table.
KeepTable(p, u, text) ==
  [p EXCEPT !.tables = Append(@, u), !.tablesTruncated = @ \/ IsCut(text)]
LEMMA AddTableIs ==
  ASSUME NEW n \in Nat, NEW p \in Parser(n), NEW u \in Table, Len(p.tables) < MaxTables,
         NEW text \in Nat,
         NEW q, q = KeepTable(p, u, text)
  PROVE  /\ q \in Parser(n) /\ SameLinks(p, q) /\ q.activeTables = p.activeTables
         /\ CellsIn(q.tables) = CellsIn(p.tables) + CellsOf(u.rows) /\ CellsIn(p.tables) \in Nat
         /\ q.cells = p.cells /\ q.omittedTables = p.omittedTables /\ (Told(p) => Told(q))
<1>. DEFINE s == Append(p.tables, u)
<1>1. p.tables \in Seq(Table) /\ Len(p.tables) \in Nat /\ MaxTables \in Nat
  BY LenProperties, HtmlConstants DEF Parser, Tables
<1>2. /\ s \in Seq(Table) /\ Len(s) = Len(p.tables) + 1
      /\ CellsIn(s) = CellsIn(p.tables) + CellsOf(u.rows) /\ CellsIn(p.tables) \in Nat
  BY <1>1, AppendProperties, CellsOfTables
<1>3. s \in Tables
  BY <1>1, <1>2 DEF Tables
<1>4. PICK cut \in BOOLEAN : cut = (p.tablesTruncated \/ IsCut(text))
  OBVIOUS
<1>5. q = [p EXCEPT !.tables = s, !.tablesTruncated = cut]
  BY <1>4, Zenon DEF KeepTable
<1>. HIDE DEF s
<1>6. q \in Parser(n)
  BY <1>3, <1>5 DEF Parser
<1>7. q.tablesTruncated = cut
  BY <1>5 DEF Parser
<1>8. /\ SameLinks(p, q) /\ q.activeTables = p.activeTables /\ q.tables = s
      /\ q.cells = p.cells /\ q.omittedTables = p.omittedTables
  BY <1>5 DEF Parser, SameLinks
<1>9. Told(p) => Told(q)
  BY <1>4, <1>7, <1>8, Zenon DEF Told
<1>. QED BY <1>2, <1>6, <1>8, <1>9

\* _finish_table: the cells of the table are kept, or omitted and no longer counted.
LEMMA FinishTableKeeps ==
  ASSUME NEW n \in Nat, NEW p, NEW links \in Nat, NEW cells \in Nat,
         Fine(p, n, links, cells), Opened(p)
  PROVE  LET q == FinishTable(p, n)
         IN /\ Fine(q, n, links, cells) /\ SameLinks(p, q)
            /\ Len(q.activeTables) = Len(p.activeTables) - 1
<1>. DEFINE q == FinishRow(p, n)
            t == ActiveTable(q)
            k == CellsOf(t.rows)
            r == [q EXCEPT !.activeTables = Front(@)]
            caption == IF t.caption = Nil THEN 0 ELSE t.caption
            f == FinishTable(p, n)
<1>1. /\ Fine(q, n, links, cells) /\ SameLinks(p, q)
      /\ Opened(q) /\ Len(q.activeTables) = Len(p.activeTables) /\ t.cell = Nil /\ t.row = Nil
  BY FinishRowKeeps
<1>. HIDE DEF q
<1>2. q \in Parser(n) /\ LinksOK(q, links) /\ CellsOK(q, cells)
  BY <1>1 DEF Fine
<1>3. /\ t \in OpenTable(n) /\ Kept(q.activeTables) \in Nat /\ Open(q.activeTables) \in Nat
      /\ CellsIn(q.tables) \in Nat
  BY <1>1, <1>2, ActiveTableIs
<1>4. /\ q.cells = CellsIn(q.tables) + Kept(q.activeTables) /\ q.cells <= MaxCells
      /\ q.cells + q.omittedTables + Open(q.activeTables) = cells
      /\ q.cells \in Int /\ q.omittedTables \in Nat
  BY <1>2 DEF CellsOK, TableCells, CellsIn, Parser
<1>5. Told(q)
  BY <1>2 DEF CellsOK
<1>6. MaxCells \in Nat /\ MaxTables \in Nat /\ MaxText \in Nat
  BY HtmlConstants
<1>. HIDE DEF t
<1>7. t.rows \in Rows /\ t.rows \in Seq(Row) /\ k \in Nat
      /\ (t.rows = <<>> => k = 0) /\ (t.rows # <<>> => k >= 1)
  <2>1. t.rows \in Rows /\ t.rows \in Seq(Row)
    BY <1>3 DEF OpenTable, TableDraft, Rows
  <2>. QED BY <2>1, CellsOfRows
<1>8. KeptIn(t) = k /\ OpenIn(t) = 0
  BY <1>1, <1>7 DEF KeptIn, OpenIn
<1>9. /\ r \in Parser(n) /\ SameLinks(q, r) /\ SameTables(q, r)
      /\ Len(r.activeTables) = Len(q.activeTables) - 1
      /\ Kept(r.activeTables) \in Nat /\ Open(r.activeTables) \in Nat
      /\ Kept(q.activeTables) = Kept(r.activeTables) + KeptIn(t)
      /\ Open(q.activeTables) = Open(r.activeTables) + OpenIn(t)
  BY <1>1, <1>2, ClosedIs DEF t
<1>10. /\ r.tables = q.tables /\ r.cells = q.cells /\ r.omittedTables = q.omittedTables
       /\ r.tablesTruncated = q.tablesTruncated
  BY <1>9 DEF SameTables
<1>11. /\ Kept(q.activeTables) = Kept(r.activeTables) + k
       /\ Open(q.activeTables) = Open(r.activeTables)
       /\ Kept(r.activeTables) \in Nat /\ Open(r.activeTables) \in Nat
  BY <1>8, <1>9
<1>12. Told(r)
  BY <1>5, <1>10, Zenon DEF Told
<1>. HIDE DEF k, r
<1>13. CASE t.rows = <<>>
  <2>1. f = r
    BY <1>13, Zenon DEF FinishTable, q, t, r
  <2>. HIDE DEF f
  <2>2. CellsOK(f, cells)
    <3>1. TableCells(f) = CellsIn(q.tables)
      BY <1>10, <2>1 DEF TableCells, CellsIn
    <3>2. /\ f.cells = CellsIn(q.tables) + Kept(f.activeTables) /\ f.cells <= MaxCells
          /\ f.cells + f.omittedTables + Open(f.activeTables) = cells
      BY <1>4, <1>7, <1>10, <1>11, <1>13, <2>1
    <3>. QED BY <1>12, <2>1, <3>1, <3>2 DEF CellsOK
  <2>3. SameLinks(p, f)
    BY <1>1, <1>9, <2>1 DEF SameLinks
  <2>4. LinksOK(f, links)
    BY <1>2, <1>9, <2>1, LinksStay
  <2>5. f \in Parser(n) /\ Len(f.activeTables) = Len(p.activeTables) - 1
    BY <1>1, <1>9, <2>1
  <2>. QED BY <2>2, <2>3, <2>4, <2>5 DEF f, Fine
<1>14. CASE t.rows # <<>> /\ Len(r.tables) >= MaxTables
  <2>. DEFINE o == OmitCells(r, k)
  <2>1. Max({1, k}) = k
    <3>1. k \in Nat /\ k >= 1
      BY <1>7, <1>14
    <3>. QED BY ONLY <3>1, SmallerAndLarger
  <2>2. f = [o EXCEPT !.cells = @ - k]
    BY <1>14, <2>1, Zenon DEF FinishTable, q, t, r, k
  <2>3. /\ o \in Parser(n) /\ SameLinks(r, o) /\ o.activeTables = r.activeTables
        /\ o.tables = r.tables /\ o.cells = r.cells
        /\ o.omittedTables = r.omittedTables + k /\ Told(o)
    <3>1. r \in Parser(n) /\ k \in Nat
      BY <1>7, <1>9
    <3>. QED BY ONLY <3>1, OmitCellsIs, n \in Nat
  <2>. HIDE DEF f, o
  <2>4. /\ f \in Parser(n) /\ SameLinks(o, f) /\ f.activeTables = o.activeTables
        /\ f.tables = o.tables /\ f.cells = o.cells - k
        /\ f.omittedTables = o.omittedTables /\ (Told(o) => Told(f))
    <3>1. o \in Parser(n) /\ k \in Nat
      BY <1>7, <2>3
    <3>. QED BY ONLY <2>2, <3>1, UncountIs, n \in Nat
  <2>5. CellsOK(f, cells)
    <3>1. TableCells(f) = CellsIn(q.tables)
      BY <1>10, <2>3, <2>4 DEF TableCells, CellsIn
    <3>2. /\ f.cells = CellsIn(q.tables) + Kept(f.activeTables) /\ f.cells <= MaxCells
          /\ f.cells + f.omittedTables + Open(f.activeTables) = cells
      <4>1. /\ Kept(f.activeTables) = Kept(r.activeTables)
            /\ Open(f.activeTables) = Open(r.activeTables)
            /\ f.cells = r.cells - k /\ f.omittedTables = r.omittedTables + k /\ k \in Nat
        BY <1>7, <2>3, <2>4
      <4>2. r.cells = q.cells /\ r.omittedTables = q.omittedTables
        BY <1>10
      <4>. QED BY ONLY <1>3, <1>4, <1>6, <1>11, <4>1, <4>2, cells \in Nat
    <3>. QED BY <2>3, <2>4, <3>1, <3>2 DEF CellsOK
  <2>6. SameLinks(p, f)
    BY <1>1, <1>9, <2>3, <2>4 DEF SameLinks
  <2>7. LinksOK(f, links)
    BY <1>1, <1>2, <1>9, <2>3, <2>4, LinksStay
  <2>8. f \in Parser(n) /\ Len(f.activeTables) = Len(p.activeTables) - 1
    BY <1>1, <1>9, <2>3, <2>4
  <2>. QED BY <2>5, <2>6, <2>7, <2>8 DEF f, Fine
<1>15. CASE t.rows # <<>> /\ ~(Len(r.tables) >= MaxTables)
  <2>. DEFINE u == [caption |-> Bounded(caption), rows |-> t.rows, start |-> t.start, end |-> n]
  <2>1. f = KeepTable(r, u, caption)
    BY <1>15, Zenon DEF FinishTable, KeepTable, q, t, r
  <2>2. caption \in Nat /\ t.start \in Nat /\ t.start < n
    BY <1>3 DEF OpenTable, TableDraft
  <2>. HIDE DEF caption
  <2>3. Bounded(caption) \in Nat
    BY <1>6, <2>2, SmallerAndLarger DEF Bounded
  <2>4. u \in Table /\ u.rows = t.rows
    BY <1>7, <1>15, <2>2, <2>3 DEF Table
  <2>. HIDE DEF u
  <2>5. Len(r.tables) < MaxTables
    <3>1. Len(r.tables) \in Nat
      BY <1>9, LenProperties DEF Parser, Tables
    <3>. QED BY <1>6, <1>15, <3>1
  <2>. HIDE DEF f
  <2>6. /\ f \in Parser(n) /\ SameLinks(r, f) /\ f.activeTables = r.activeTables
        /\ CellsIn(f.tables) = CellsIn(r.tables) + CellsOf(u.rows) /\ CellsIn(r.tables) \in Nat
        /\ f.cells = r.cells /\ f.omittedTables = r.omittedTables /\ (Told(r) => Told(f))
    <3>1. r \in Parser(n)
      BY <1>9
    <3>. QED BY ONLY <2>1, <2>2, <2>4, <2>5, <3>1, AddTableIs, n \in Nat
  <2>7. CellsOK(f, cells)
    <3>1. TableCells(f) = CellsIn(f.tables)
      BY DEF TableCells, CellsIn
    <3>2. CellsIn(f.tables) = CellsIn(q.tables) + k
      BY <1>10, <2>4, <2>6 DEF k
    <3>3. /\ f.cells = CellsIn(f.tables) + Kept(f.activeTables) /\ f.cells <= MaxCells
          /\ f.cells + f.omittedTables + Open(f.activeTables) = cells
      <4>1. /\ Kept(f.activeTables) = Kept(r.activeTables)
            /\ Open(f.activeTables) = Open(r.activeTables)
            /\ f.cells = q.cells /\ f.omittedTables = q.omittedTables /\ k \in Nat
        BY <1>7, <1>10, <2>6
      <4>. QED BY ONLY <1>3, <1>4, <1>6, <1>11, <3>2, <4>1, cells \in Nat
    <3>. QED BY <1>12, <2>6, <3>1, <3>3 DEF CellsOK
  <2>8. SameLinks(p, f)
    BY <1>1, <1>9, <2>6 DEF SameLinks
  <2>9. LinksOK(f, links)
    BY <1>1, <1>2, <1>9, <2>6, LinksStay
  <2>10. f \in Parser(n) /\ Len(f.activeTables) = Len(p.activeTables) - 1
    BY <1>1, <1>9, <2>6
  <2>. QED BY <2>7, <2>8, <2>9, <2>10 DEF f, Fine
<1>. QED BY <1>13, <1>14, <1>15

\* A sequence of a set is one of a larger set.
LEMMA SeqGrows ==
  ASSUME NEW S, NEW T, S \subseteq T
  PROVE  Seq(S) \subseteq Seq(T)
<1>. SUFFICES ASSUME NEW s \in Seq(S) PROVE s \in Seq(T)
  OBVIOUS
<1>1. Len(s) \in Nat /\ s \in [1..Len(s) -> S]
  BY LenProperties
<1>2. s \in [1..Len(s) -> T]
  BY <1>1
<1>. QED BY <1>1, <1>2, SeqDef

\* What a parser holds after some tokens it may hold after more.
LEMMA ParserGrows ==
  ASSUME NEW n \in Nat, NEW p \in Parser(n)
  PROVE  p \in Parser(n + 1)
<1>1. OpenLink(n) \subseteq OpenLink(n + 1)
  BY DEF OpenLink, LinkDraft
<1>2. OpenCell(n) \subseteq OpenCell(n + 1)
  BY DEF OpenCell, CellDraft
<1>3. OpenTable(n) \subseteq OpenTable(n + 1)
  <2>. SUFFICES ASSUME NEW t \in OpenTable(n) PROVE t \in OpenTable(n + 1)
    OBVIOUS
  <2>1. t.cell \in OpenCell(n + 1) \cup {Nil} /\ t.start < n + 1
    BY <1>2 DEF OpenTable, TableDraft
  <2>. QED BY <2>1 DEF OpenTable, TableDraft
<1>4. p.activeLinks \in Seq(OpenLink(n + 1)) /\ p.activeTables \in Seq(OpenTable(n + 1))
  <2>1. p.activeLinks \in Seq(OpenLink(n)) /\ p.activeTables \in Seq(OpenTable(n))
    BY DEF Parser
  <2>. QED BY <1>1, <1>3, <2>1, SeqGrows
<1>. QED BY <1>4 DEF Parser

LEMMA FineGrows ==
  ASSUME NEW n \in Nat, NEW p, NEW links, NEW cells, Fine(p, n, links, cells)
  PROVE  Fine(p, n + 1, links, cells)
BY ParserGrows DEF Fine

LEMMA CellsStay ==
  ASSUME NEW p, NEW q, SameTables(p, q), q.activeTables = p.activeTables, NEW n, CellsOK(p, n)
  PROVE  CellsOK(q, n)
BY DEF SameTables, CellsOK, TableCells, Told

\* A link is open.
Linked(p) == p.activeLinks # <<>>

\* The links that are open.
LEMMA ActiveLinkIs ==
  ASSUME NEW n \in Nat, NEW p \in Parser(n)
  PROVE  /\ p.activeLinks \in Seq(OpenLink(n)) /\ p.activeLinks \in Seq(LinkDraft)
         /\ Waiting(p.activeLinks) \in Nat /\ Len(p.activeLinks) \in Nat
         /\ p.links \in Seq(Cell) /\ Len(p.links) \in Nat /\ Len(p.links) <= MaxLinks
         /\ p.omittedLinks \in Nat
         /\ (p.activeLinks = <<>> => Waiting(p.activeLinks) = 0)
         /\ Linked(p) =>
              /\ Last(p.activeLinks) \in OpenLink(n) /\ Last(p.activeLinks) \in LinkDraft
              /\ Front(p.activeLinks) \in Seq(OpenLink(n))
              /\ Front(p.activeLinks) \in Seq(LinkDraft)
              /\ Len(Front(p.activeLinks)) = Len(p.activeLinks) - 1
              /\ Waiting(Front(p.activeLinks)) \in Nat
              /\ Waiting(p.activeLinks)
                   = Waiting(Front(p.activeLinks)) + Counts(Last(p.activeLinks))
<1>. DEFINE s == p.activeLinks
<1>1. OpenLink(n) \subseteq LinkDraft
  BY DEF OpenLink
<1>2. s \in Seq(OpenLink(n)) /\ s \in Seq(LinkDraft) /\ Len(s) \in Nat
  <2>1. s \in Seq(OpenLink(n))
    BY DEF Parser
  <2>. QED BY <1>1, <2>1, SeqGrows, LenProperties
<1>3. Waiting(s) \in Nat /\ (s = <<>> => Waiting(s) = 0)
  BY <1>2, WaitingLinks
<1>4. /\ p.links \in Seq(Cell) /\ Len(p.links) \in Nat /\ Len(p.links) <= MaxLinks
      /\ p.omittedLinks \in Nat
  <2>1. p.links \in Links /\ p.omittedLinks \in Nat
    BY DEF Parser
  <2>. QED BY <2>1, LenProperties DEF Links
<1>5. ASSUME Linked(p)
      PROVE  /\ Last(s) \in OpenLink(n) /\ Last(s) \in LinkDraft
             /\ Front(s) \in Seq(OpenLink(n)) /\ Front(s) \in Seq(LinkDraft)
             /\ Len(Front(s)) = Len(s) - 1 /\ Waiting(Front(s)) \in Nat
             /\ Waiting(s) = Waiting(Front(s)) + Counts(Last(s))
  <2>1. s # <<>>
    BY <1>5 DEF Linked
  <2>2. /\ Last(s) \in OpenLink(n) /\ Front(s) \in Seq(OpenLink(n))
        /\ Len(Front(s)) = Len(s) - 1
    BY <1>2, <2>1, LastLeaves
  <2>3. Last(s) \in LinkDraft /\ Front(s) \in Seq(LinkDraft)
    BY <1>1, <2>2, SeqGrows
  <2>. QED BY <1>2, <2>1, <2>2, <2>3, WaitingLinks
<1>. QED BY <1>2, <1>3, <1>4, <1>5

\* Closing the link that is open, omitting it and keeping it.
CloseLink(p) == [p EXCEPT !.activeLinks = Front(@)]
KeepLink(p, link, text) ==
  [p EXCEPT !.links = Append(@, link), !.linksTruncated = @ \/ IsCut(text)]

\* What two parsers have in common if only links differ
SameCells(p, q) ==
  q.stack = p.stack /\ q.activeTables = p.activeTables /\ SameTables(p, q)

LEMMA CloseLinkIs ==
  ASSUME NEW n \in Nat, NEW p \in Parser(n), Linked(p), NEW q, q = CloseLink(p)
  PROVE  /\ q \in Parser(n) /\ SameCells(p, q) /\ q.links = p.links
         /\ q.omittedLinks = p.omittedLinks /\ q.linksTruncated = p.linksTruncated
         /\ q.activeLinks = Front(p.activeLinks)
<1>. DEFINE s == Front(p.activeLinks)
<1>1. s \in Seq(OpenLink(n))
  BY ActiveLinkIs
<1>2. q = [p EXCEPT !.activeLinks = s]
  BY DEF CloseLink
<1>. HIDE DEF s
<1>3. q \in Parser(n) /\ q.activeLinks = s
  BY <1>1, <1>2 DEF Parser
<1>4. /\ SameCells(p, q) /\ q.links = p.links /\ q.omittedLinks = p.omittedLinks
      /\ q.linksTruncated = p.linksTruncated
  BY <1>2 DEF Parser, SameCells, SameTables
<1>. QED BY <1>3, <1>4 DEF s

LEMMA OmitLinkIs ==
  ASSUME NEW n \in Nat, NEW p \in Parser(n), NEW q, q = OmitLink(p)
  PROVE  /\ q \in Parser(n) /\ SameCells(p, q) /\ q.links = p.links
         /\ q.activeLinks = p.activeLinks /\ q.omittedLinks = p.omittedLinks + 1
         /\ q.omittedLinks > 0 => q.linksTruncated
<1>. DEFINE o == p.omittedLinks + 1
<1>1. o \in Nat
  BY DEF Parser
<1>2. PICK cut \in BOOLEAN : cut = TRUE
  OBVIOUS
<1>3. q = [p EXCEPT !.omittedLinks = o, !.linksTruncated = cut]
  BY <1>2, Zenon DEF OmitLink
<1>. HIDE DEF o
<1>4. q \in Parser(n)
  BY <1>1, <1>3 DEF Parser
<1>5. q.linksTruncated = cut
  BY <1>3 DEF Parser
<1>6. /\ SameCells(p, q) /\ q.links = p.links /\ q.activeLinks = p.activeLinks
      /\ q.omittedLinks = o
  BY <1>3 DEF Parser, SameCells, SameTables
<1>7. q.linksTruncated
  BY <1>2, <1>5, Zenon
<1>. QED BY <1>4, <1>6, <1>7 DEF o

LEMMA KeepLinkIs ==
  ASSUME NEW n \in Nat, NEW p \in Parser(n), NEW link \in Cell, Len(p.links) < MaxLinks,
         NEW text \in Nat, NEW q, q = KeepLink(p, link, text)
  PROVE  /\ q \in Parser(n) /\ SameCells(p, q) /\ Len(q.links) = Len(p.links) + 1
         /\ q.activeLinks = p.activeLinks /\ q.omittedLinks = p.omittedLinks
         /\ p.linksTruncated => q.linksTruncated
<1>. DEFINE s == Append(p.links, link)
<1>1. s \in Links /\ Len(s) = Len(p.links) + 1
  <2>1. p.links \in Seq(Cell) /\ Len(p.links) \in Nat /\ MaxLinks \in Nat
    BY ActiveLinkIs, HtmlConstants
  <2>2. s \in Seq(Cell) /\ Len(s) = Len(p.links) + 1
    BY <2>1, AppendProperties
  <2>. QED BY <2>1, <2>2 DEF Links
<1>2. PICK cut \in BOOLEAN : cut = (p.linksTruncated \/ IsCut(text))
  OBVIOUS
<1>3. q = [p EXCEPT !.links = s, !.linksTruncated = cut]
  BY <1>2, Zenon DEF KeepLink
<1>. HIDE DEF s
<1>4. q \in Parser(n)
  BY <1>1, <1>3 DEF Parser
<1>5. q.linksTruncated = cut
  BY <1>3 DEF Parser
<1>6. /\ SameCells(p, q) /\ q.links = s /\ q.activeLinks = p.activeLinks
      /\ q.omittedLinks = p.omittedLinks
  BY <1>3 DEF Parser, SameCells, SameTables
<1>7. p.linksTruncated => q.linksTruncated
  BY <1>2, <1>5, Zenon
<1>. QED BY <1>1, <1>4, <1>6, <1>7

\* What one more omitted link adds to the sum of kept and omitted links.
LEMMA OneMoreOmitted ==
  ASSUME NEW kept \in Nat, NEW omitted \in Nat
  PROVE  \A k : k = kept => k + (omitted + 1) = kept + omitted + 1
OBVIOUS

\* _finish_link: a link of the web is kept or omitted.
LEMMA FinishLinkKeeps ==
  ASSUME NEW n \in Nat, NEW p, NEW links \in Nat, NEW cells \in Nat,
         Fine(p, n, links, cells), Linked(p)
  PROVE  LET q == FinishLink(p, n)
         IN /\ Fine(q, n, links, cells) /\ SameCells(p, q)
            /\ q.activeLinks = Front(p.activeLinks)
            /\ Len(q.activeLinks) = Len(p.activeLinks) - 1
<1>. DEFINE draft == Last(p.activeLinks)
            q == CloseLink(p)
            link == [text |-> Bounded(draft.text), start |-> draft.start, end |-> n]
            f == FinishLink(p, n)
            Done(x) == /\ x \in Parser(n) /\ SameCells(q, x) /\ x.activeLinks = q.activeLinks
                       /\ Len(x.links) + x.omittedLinks = Len(p.links) + p.omittedLinks + Counts(draft)
                       /\ x.omittedLinks > 0 => x.linksTruncated
<1>1. p \in Parser(n) /\ LinksOK(p, links) /\ CellsOK(p, cells)
  BY DEF Fine
<1>2. /\ q \in Parser(n) /\ SameCells(p, q) /\ q.links = p.links
      /\ q.omittedLinks = p.omittedLinks /\ q.linksTruncated = p.linksTruncated
      /\ q.activeLinks = Front(p.activeLinks)
  BY <1>1, CloseLinkIs
<1>3. /\ draft \in OpenLink(n) /\ draft \in LinkDraft
      /\ Len(Front(p.activeLinks)) = Len(p.activeLinks) - 1
      /\ Waiting(Front(p.activeLinks)) \in Nat
      /\ Waiting(p.activeLinks) = Waiting(Front(p.activeLinks)) + Counts(draft)
      /\ Len(p.links) \in Nat /\ Len(p.links) <= MaxLinks /\ p.omittedLinks \in Nat
  BY <1>1, ActiveLinkIs
<1>4. Len(p.links) + p.omittedLinks + Waiting(p.activeLinks) = links
  BY <1>1 DEF LinksOK
<1>5. p.omittedLinks > 0 => p.linksTruncated
  BY <1>1 DEF LinksOK
<1>6. draft.href \in {"web", "bad", "other"} /\ draft.start \in Nat /\ draft.text \in Nat
      /\ draft.start < n
  BY <1>3 DEF OpenLink, LinkDraft
<1>7. MaxLinks \in Nat /\ MaxText \in Nat
  BY HtmlConstants
<1>. HIDE DEF draft, q
<1>8. Done(f)
  <2>1. CASE draft.href = "other"
    <3>1. f = q
      BY <2>1, Zenon DEF FinishLink, CloseLink, q, draft
    <3>2. Counts(draft) = 0
      BY <2>1 DEF Counts
    <3>3. Len(q.links) + q.omittedLinks = Len(p.links) + p.omittedLinks + Counts(draft)
      BY <1>2, <1>3, <3>2
    <3>4. q.omittedLinks > 0 => q.linksTruncated
      BY <1>2, <1>5, Zenon
    <3>5. SameCells(q, q)
      BY DEF SameCells, SameTables
    <3>. HIDE DEF f
    <3>. QED BY <1>2, <3>1, <3>3, <3>4, <3>5
  <2>2. CASE draft.href = "bad" \/ (draft.href = "web" /\ Len(q.links) >= MaxLinks)
    <3>1. f = OmitLink(q)
      <4>1. draft.href # "other"
        BY <2>2
      <4>. QED BY <2>2, <4>1, Zenon DEF FinishLink, CloseLink, q, draft
    <3>. HIDE DEF f
    <3>2. /\ f \in Parser(n) /\ SameCells(q, f) /\ f.links = q.links
          /\ f.activeLinks = q.activeLinks /\ f.omittedLinks = q.omittedLinks + 1
          /\ f.omittedLinks > 0 => f.linksTruncated
      BY <1>2, <3>1, OmitLinkIs
    <3>3. Counts(draft) = 1
      BY <2>2 DEF Counts
    <3>4. Len(f.links) = Len(p.links) /\ f.omittedLinks = p.omittedLinks + 1
      BY <1>2, <3>2, Zenon
    <3>5. Len(p.links) \in Nat /\ p.omittedLinks \in Nat
      BY <1>3, Zenon
    <3>6. Len(f.links) + f.omittedLinks = Len(p.links) + p.omittedLinks + Counts(draft)
      <4>1. Len(f.links) + (p.omittedLinks + 1) = Len(p.links) + p.omittedLinks + 1
        BY <3>4, <3>5, OneMoreOmitted
      <4>. QED BY <3>3, <3>4, <4>1, Zenon
    <3>. QED BY <3>2, <3>6
  <2>3. CASE draft.href = "web" /\ ~(Len(q.links) >= MaxLinks)
    <3>1. f = KeepLink(q, link, draft.text)
      <4>1. draft.href # "other" /\ draft.href # "bad"
        BY <2>3
      <4>. QED BY <2>3, <4>1, Zenon DEF FinishLink, KeepLink, CloseLink, q, draft
    <3>2. Bounded(draft.text) \in Nat
      BY <1>6, <1>7, SmallerAndLarger DEF Bounded
    <3>3. link \in Cell
      BY <1>6, <3>2 DEF Cell
    <3>4. Len(q.links) < MaxLinks
      BY <1>2, <1>3, <1>7, <2>3
    <3>. HIDE DEF f, link
    <3>5. /\ f \in Parser(n) /\ SameCells(q, f) /\ Len(f.links) = Len(q.links) + 1
          /\ f.activeLinks = q.activeLinks /\ f.omittedLinks = q.omittedLinks
          /\ q.linksTruncated => f.linksTruncated
      BY <1>2, <1>6, <3>1, <3>3, <3>4, KeepLinkIs
    <3>6. Counts(draft) = 1
      BY <2>3 DEF Counts
    <3>7. Len(f.links) + f.omittedLinks = Len(p.links) + p.omittedLinks + Counts(draft)
      BY <1>2, <1>3, <3>5, <3>6
    <3>8. f.omittedLinks > 0 => f.linksTruncated
      BY <1>2, <1>5, <3>5, Zenon
    <3>. QED BY <3>5, <3>7, <3>8
  <2>. QED BY <1>6, <2>1, <2>2, <2>3
<1>. HIDE DEF f
<1>9. LinksOK(f, links)
  <2>1. PICK w \in Nat : w = Waiting(Front(p.activeLinks))
    BY <1>3
  <2>2. Waiting(f.activeLinks) = w /\ Waiting(p.activeLinks) = w + Counts(draft)
    BY <1>2, <1>3, <1>8, <2>1
  <2>3. Counts(draft) \in Nat /\ Len(f.links) \in Nat /\ f.omittedLinks \in Nat
    BY <1>8, ActiveLinkIs DEF Counts
  <2>4. Len(f.links) + f.omittedLinks + Waiting(f.activeLinks) = links
    <3>1. Len(f.links) + f.omittedLinks = Len(p.links) + p.omittedLinks + Counts(draft)
      BY <1>8
    <3>2. Len(p.links) \in Nat /\ p.omittedLinks \in Nat
      BY <1>3
    <3>. QED BY ONLY <1>4, <2>2, <2>3, <3>1, <3>2, w \in Nat
  <2>5. f.omittedLinks > 0 => f.linksTruncated
    BY <1>8
  <2>. QED BY <2>4, <2>5 DEF LinksOK
<1>10. SameCells(p, f)
  BY <1>2, <1>8 DEF SameCells, SameTables
<1>11. CellsOK(f, cells)
  BY <1>1, <1>10, CellsStay DEF SameCells
<1>12. f \in Parser(n) /\ f.activeLinks = Front(p.activeLinks)
       /\ Len(f.activeLinks) = Len(p.activeLinks) - 1
  BY <1>2, <1>3, <1>8
<1>. QED BY <1>9, <1>10, <1>11, <1>12 DEF f, Fine

\* Replacing the table that is open by one that keeps as many cells.
LEMMA RetableKeeps ==
  ASSUME NEW n \in Nat, NEW p, NEW links \in Nat, NEW cells \in Nat,
         Fine(p, n, links, cells), Opened(p), NEW u \in OpenTable(n), NEW more \in Nat,
         KeptIn(u) = KeptIn(ActiveTable(p)), OpenIn(u) = OpenIn(ActiveTable(p)) + more,
         NEW q, q = WithTable(p, u)
  PROVE  Fine(q, n, links, cells + more) /\ SameLinks(p, q)
<1>1. p \in Parser(n) /\ LinksOK(p, links) /\ CellsOK(p, cells)
  BY DEF Fine
<1>2. /\ KeptIn(ActiveTable(p)) \in Nat /\ OpenIn(ActiveTable(p)) \in Nat
      /\ Kept(p.activeTables) \in Nat /\ Open(p.activeTables) \in Nat /\ CellsIn(p.tables) \in Nat
  BY <1>1, ActiveTableIs
<1>3. /\ p.cells = CellsIn(p.tables) + Kept(p.activeTables) /\ p.cells <= MaxCells
      /\ p.cells + p.omittedTables + Open(p.activeTables) = cells
      /\ p.cells \in Int /\ p.omittedTables \in Nat
  BY <1>1 DEF CellsOK, TableCells, CellsIn, Parser
<1>4. Told(p)
  BY <1>1 DEF CellsOK
<1>5. /\ q \in Parser(n) /\ SameLinks(p, q) /\ SameTables(p, q)
      /\ Kept(q.activeTables) = Kept(p.activeTables) - KeptIn(ActiveTable(p)) + KeptIn(u)
      /\ Open(q.activeTables) = Open(p.activeTables) - OpenIn(ActiveTable(p)) + OpenIn(u)
  BY <1>1, WithTableIs
<1>6. /\ Kept(q.activeTables) = Kept(p.activeTables)
      /\ Open(q.activeTables) = Open(p.activeTables) + more
  BY ONLY <1>2, <1>5, KeptIn(u) = KeptIn(ActiveTable(p)),
          OpenIn(u) = OpenIn(ActiveTable(p)) + more, more \in Nat
<1>7. /\ q.tables = p.tables /\ q.cells = p.cells
      /\ q.omittedTables = p.omittedTables /\ q.tablesTruncated = p.tablesTruncated
  BY <1>5 DEF SameTables
<1>8. Told(q)
  BY <1>4, <1>7, Zenon DEF Told
<1>9. TableCells(q) = CellsIn(p.tables)
  BY <1>7 DEF TableCells, CellsIn
<1>10. /\ q.cells = CellsIn(p.tables) + Kept(q.activeTables) /\ q.cells <= MaxCells
       /\ q.cells + q.omittedTables + Open(q.activeTables) = cells + more
  BY ONLY <1>2, <1>3, <1>6, <1>7, more \in Nat, cells \in Nat
<1>11. CellsOK(q, cells + more)
  BY <1>8, <1>9, <1>10 DEF CellsOK
<1>12. LinksOK(q, links)
  BY <1>1, <1>5, LinksStay
<1>. QED BY <1>5, <1>11, <1>12 DEF Fine

\* Opening and closing elements changes the stack and nothing else.
WithStack(p, s) == [p EXCEPT !.stack = s]
Element == [tag: STRING, hidden: BOOLEAN]
LEMMA WithStackIs ==
  ASSUME NEW n \in Nat, NEW p, NEW links, NEW cells, Fine(p, n, links, cells),
         NEW s \in Seq(Element), NEW q, q = WithStack(p, s)
  PROVE  /\ Fine(q, n, links, cells)
         /\ q.activeLinks = p.activeLinks /\ q.activeTables = p.activeTables
<1>1. p \in Parser(n) /\ LinksOK(p, links) /\ CellsOK(p, cells)
  BY DEF Fine
<1>2. q \in Parser(n)
  BY <1>1 DEF Parser, WithStack, Element
<1>3. /\ q.activeLinks = p.activeLinks /\ q.activeTables = p.activeTables
      /\ q.links = p.links /\ q.omittedLinks = p.omittedLinks
      /\ q.linksTruncated = p.linksTruncated /\ SameTables(p, q)
  BY <1>1 DEF Parser, WithStack, SameTables
<1>4. LinksOK(q, links)
  BY <1>1, <1>3 DEF LinksOK
<1>5. CellsOK(q, cells)
  BY <1>1, <1>3, CellsStay
<1>. QED BY <1>2, <1>3, <1>4, <1>5 DEF Fine

\* Opening a link, and a table.
WithLink(p, d) == [p EXCEPT !.activeLinks = Append(@, d)]
WithNewTable(p, t) == [p EXCEPT !.activeTables = Append(@, t)]

LEMMA WithLinkIs ==
  ASSUME NEW n \in Nat, NEW p, NEW links \in Nat, NEW cells \in Nat,
         Fine(p, n, links, cells), NEW d \in OpenLink(n), NEW q, q = WithLink(p, d)
  PROVE  Fine(q, n, links + Counts(d), cells)
<1>. DEFINE s == Append(p.activeLinks, d)
<1>1. p \in Parser(n) /\ LinksOK(p, links) /\ CellsOK(p, cells) /\ d \in LinkDraft
  BY DEF Fine, OpenLink
<1>2. /\ p.activeLinks \in Seq(OpenLink(n)) /\ p.activeLinks \in Seq(LinkDraft)
      /\ Waiting(p.activeLinks) \in Nat /\ Len(p.links) \in Nat /\ p.omittedLinks \in Nat
  BY <1>1, ActiveLinkIs
<1>3. s \in Seq(OpenLink(n))
  BY <1>2, AppendProperties
<1>4. Waiting(s) = Waiting(p.activeLinks) + Counts(d) /\ Counts(d) \in Nat
  BY <1>1, <1>2, WaitingLinks DEF Counts
<1>5. q = [p EXCEPT !.activeLinks = s]
  BY DEF WithLink
<1>. HIDE DEF s
<1>6. q \in Parser(n)
  BY <1>1, <1>3, <1>5 DEF Parser
<1>7. /\ q.activeLinks = s /\ q.activeTables = p.activeTables
      /\ q.links = p.links /\ q.omittedLinks = p.omittedLinks
      /\ q.linksTruncated = p.linksTruncated /\ SameTables(p, q)
  BY <1>1, <1>5 DEF Parser, SameTables
<1>8. LinksOK(q, links + Counts(d))
  <2>1. Len(p.links) + p.omittedLinks + Waiting(p.activeLinks) = links
    BY <1>1 DEF LinksOK
  <2>2. Len(q.links) + q.omittedLinks + Waiting(q.activeLinks) = links + Counts(d)
    BY <1>2, <1>4, <1>7, <2>1
  <2>3. q.omittedLinks > 0 => q.linksTruncated
    BY <1>1, <1>7, Zenon DEF LinksOK
  <2>. QED BY <2>2, <2>3 DEF LinksOK
<1>9. CellsOK(q, cells)
  BY <1>1, <1>7, CellsStay
<1>. QED BY <1>6, <1>8, <1>9 DEF Fine

LEMMA WithNewTableIs ==
  ASSUME NEW n \in Nat, NEW p, NEW links \in Nat, NEW cells \in Nat,
         Fine(p, n, links, cells), NEW t \in OpenTable(n), KeptIn(t) = 0, OpenIn(t) = 0,
         NEW q, q = WithNewTable(p, t)
  PROVE  Fine(q, n, links, cells)
<1>. DEFINE s == Append(p.activeTables, t)
<1>1. p \in Parser(n) /\ LinksOK(p, links) /\ CellsOK(p, cells)
  BY DEF Fine
<1>2. p.activeTables \in Seq(OpenTable(n))
  BY <1>1 DEF Parser
<1>3. s \in Seq(OpenTable(n))
  BY <1>2, AppendProperties
<1>4. Kept(s) = Kept(p.activeTables) /\ Open(s) = Open(p.activeTables)
  BY <1>2, KeptAndOpen
<1>5. q = [p EXCEPT !.activeTables = s]
  BY DEF WithNewTable
<1>. HIDE DEF s
<1>6. q \in Parser(n)
  BY <1>1, <1>3, <1>5 DEF Parser
<1>7. q.activeTables = s /\ SameLinks(p, q) /\ SameTables(p, q)
  BY <1>1, <1>5 DEF Parser, SameTables, SameLinks
<1>8. LinksOK(q, links)
  BY <1>1, <1>7, LinksStay
<1>9. CellsOK(q, cells)
  BY <1>1, <1>4, <1>7 DEF CellsOK, SameTables, TableCells, Told
<1>. QED BY <1>6, <1>8, <1>9 DEF Fine

\* handle_starttag in a table: a td opens a cell.
LEMMA StartInTableKeeps ==
  ASSUME NEW n \in Nat, NEW p, NEW links \in Nat, NEW cells \in Nat,
         Fine(p, n, links, cells), Opened(p), NEW tag \in STRING
  PROVE  Fine(StartInTable(p, tag, n), n + 1, links, cells + IF tag = "td" THEN 1 ELSE 0)
<1>. DEFINE t == ActiveTable(p)
            f == StartInTable(p, tag, n)
<1>1. Fine(p, n + 1, links, cells) /\ n + 1 \in Nat
  BY FineGrows
<1>2. t \in OpenTable(n + 1)
  BY <1>1, ActiveTableIs DEF Fine
<1>3. CASE tag = "caption"
  <2>. DEFINE u == [t EXCEPT !.caption = 0, !.captionOpen = TRUE]
  <2>1. f = WithTable(p, u)
    BY <1>3, Zenon DEF StartInTable
  <2>2. PICK yes \in BOOLEAN : yes = TRUE
    OBVIOUS
  <2>3. u = [t EXCEPT !.caption = 0, !.captionOpen = yes]
    BY <2>2, Zenon
  <2>. HIDE DEF u, t
  <2>4. u \in OpenTable(n + 1)
    <3>1. u \in TableDraft(n + 1) /\ u.caption \in Nat
      BY <1>2, <2>3 DEF OpenTable, TableDraft
    <3>. QED BY <3>1, Zenon DEF OpenTable, Captioned
  <2>5. u.rows = t.rows /\ u.row = t.row /\ u.cell = t.cell
    BY <1>2, <2>3 DEF OpenTable, TableDraft
  <2>6. KeptIn(u) = KeptIn(t) /\ OpenIn(u) = OpenIn(t) + 0
    BY <2>5 DEF KeptIn, OpenIn
  <2>. HIDE DEF f
  <2>7. Fine(f, n + 1, links, cells + 0)
    BY ONLY <1>1, <2>1, <2>4, <2>6, RetableKeeps, links \in Nat, cells \in Nat, Opened(p) DEF t
  <2>. QED BY <1>3, <2>7 DEF f
<1>4. CASE tag = "tr"
  <2>. DEFINE q == FinishRow(p, n)
              v == ActiveTable(q)
              u == [v EXCEPT !.row = <<>>]
  <2>1. f = WithTable(q, u)
    BY <1>4, Zenon DEF StartInTable
  <2>2. Fine(q, n, links, cells) /\ Opened(q) /\ v.cell = Nil /\ v.row = Nil
    BY FinishRowKeeps
  <2>. HIDE DEF q
  <2>3. Fine(q, n + 1, links, cells)
    BY <2>2, FineGrows
  <2>4. v \in OpenTable(n + 1)
    BY <1>1, <2>2, <2>3, ActiveTableIs DEF Fine
  <2>. HIDE DEF v
  <2>5. u \in OpenTable(n + 1) /\ u.rows = v.rows /\ u.row = <<>> /\ u.cell = v.cell
    <3>1. <<>> \in Seq(Cell)
      BY EmptySeq
    <3>2. /\ u \in TableDraft(n + 1) /\ u.rows = v.rows /\ u.row = <<>> /\ u.cell = v.cell
          /\ u.caption = v.caption /\ u.captionOpen = v.captionOpen
      BY <2>4, <3>1 DEF OpenTable, TableDraft
    <3>. HIDE DEF u
    <3>. QED BY <2>4, <3>2, SameCaption
  <2>. HIDE DEF u
  <2>6. KeptIn(u) = KeptIn(v) /\ OpenIn(u) = OpenIn(v) + 0
    <3>1. Len(<<>>) = 0 /\ <<>> # Nil
      BY EmptySeq, NilIsNoValue
    <3>. QED BY <2>2, <2>5, <3>1 DEF KeptIn, OpenIn
  <2>. HIDE DEF f
  <2>7. Fine(f, n + 1, links, cells + 0)
    BY ONLY <1>1, <2>1, <2>2, <2>3, <2>5, <2>6, RetableKeeps, links \in Nat, cells \in Nat DEF v
  <2>. QED BY <1>4, <2>7 DEF f
<1>5. CASE tag = "td"
  <2>. DEFINE q == FinishCell(p, n)
              v == ActiveTable(q)
              row == IF v.row = Nil THEN <<>> ELSE v.row
              d == [start |-> n, text |-> 0]
              u == [v EXCEPT !.row = row, !.cell = d]
  <2>1. f = WithTable(q, u)
    BY <1>5, Zenon DEF StartInTable
  <2>2. Fine(q, n, links, cells) /\ Opened(q) /\ v.cell = Nil
    BY FinishCellKeeps
  <2>. HIDE DEF q
  <2>3. Fine(q, n + 1, links, cells)
    BY <2>2, FineGrows
  <2>4. v \in OpenTable(n + 1)
    BY <1>1, <2>2, <2>3, ActiveTableIs DEF Fine
  <2>5. d \in OpenCell(n + 1) /\ d # Nil
    <3>1. d \in OpenCell(n + 1) /\ d \in CellDraft
      BY DEF OpenCell, CellDraft
    <3>. QED BY <3>1, NilIsNoValue
  <2>. HIDE DEF v, d
  <2>6. row \in Seq(Cell) /\ row # Nil /\ Len(row) = (IF v.row = Nil THEN 0 ELSE Len(v.row))
    <3>1. v.row \in Seq(Cell) \cup {Nil}
      BY <2>4 DEF OpenTable, TableDraft
    <3>. QED BY <3>1, EmptySeq, NilIsNoValue
  <2>. HIDE DEF row
  <2>7. u \in OpenTable(n + 1) /\ u.rows = v.rows /\ u.row = row /\ u.cell = d
    <3>1. /\ u \in TableDraft(n + 1) /\ u.rows = v.rows /\ u.row = row /\ u.cell = d
          /\ u.caption = v.caption /\ u.captionOpen = v.captionOpen
      BY <2>4, <2>5, <2>6 DEF OpenTable, TableDraft
    <3>. HIDE DEF u
    <3>. QED BY <2>4, <3>1, SameCaption
  <2>. HIDE DEF u
  <2>8. KeptIn(u) = KeptIn(v) /\ OpenIn(u) = OpenIn(v) + 1
    <3>1. KeptIn(u) = KeptIn(v)
      BY <2>6, <2>7, Zenon DEF KeptIn
    <3>. QED BY <2>2, <2>5, <2>7, <3>1 DEF OpenIn
  <2>. HIDE DEF f
  <2>9. Fine(f, n + 1, links, cells + 1)
    BY ONLY <1>1, <2>1, <2>2, <2>3, <2>7, <2>8, RetableKeeps, links \in Nat, cells \in Nat DEF v
  <2>. QED BY <1>5, <2>9 DEF f
<1>6. CASE tag \notin {"caption", "tr", "td"}
  <2>1. f = p
    BY <1>6, Zenon DEF StartInTable
  <2>2. cells + 0 = cells
    OBVIOUS
  <2>. QED BY <1>1, <1>6, <2>1, <2>2
<1>. QED BY <1>3, <1>4, <1>5, <1>6

\* The links and cells that the start of an element shows.
Shown(p, token) == ~IsHidden(p) /\ ~token.hides
LinkSeen(p, token) ==
  IF Shown(p, token) /\ token.tag = "a" /\ token.href \in {"web", "bad"} THEN 1 ELSE 0
CellSeen(p, token) ==
  IF Shown(p, token) /\ token.tag = "td" /\ p.activeTables # <<>> THEN 1 ELSE 0

\* handle_starttag: what it shows is open.
LEMMA StartTagKeeps ==
  ASSUME NEW n \in Nat, NEW p, NEW links \in Nat, NEW cells \in Nat,
         Fine(p, n, links, cells), NEW token \in Token
  PROVE  Fine(StartTag(p, token, n), n + 1,
              links + LinkSeen(p, token), cells + CellSeen(p, token))
<1>. DEFINE hidden == IsHidden(p) \/ token.hides
            item == [tag |-> token.tag, hidden |-> hidden]
            q == IF token.tag = "br" THEN p ELSE WithStack(p, Append(p.stack, item))
            f == StartTag(p, token, n)
<1>1. token.tag \in STRING /\ token.href \in {"web", "bad", "other", "none"}
  BY DEF Token
<1>2. Fine(q, n, links, cells) /\ q.activeLinks = p.activeLinks /\ q.activeTables = p.activeTables
  <2>1. CASE token.tag = "br"
    BY <2>1
  <2>2. CASE token.tag # "br"
    <3>1. PICK b \in BOOLEAN : b = hidden
      OBVIOUS
    <3>2. item = [tag |-> token.tag, hidden |-> b]
      BY <3>1, Zenon
    <3>. DEFINE s == Append(p.stack, item)
    <3>3. q = WithStack(p, s)
      BY <2>2
    <3>. HIDE DEF item, q
    <3>4. item \in Element
      BY <1>1, <3>2 DEF Element
    <3>5. p.stack \in Seq(Element)
      BY DEF Fine, Parser, Element
    <3>6. s \in Seq(Element)
      BY <3>4, <3>5, AppendProperties
    <3>. HIDE DEF s
    <3>. QED BY ONLY <3>3, <3>6, WithStackIs, n \in Nat, Fine(p, n, links, cells)
  <2>. QED BY <2>1, <2>2
<1>3. Fine(q, n + 1, links, cells) /\ n + 1 \in Nat
  BY <1>2, FineGrows
<1>4. links + 0 = links /\ cells + 0 = cells
  OBVIOUS
<1>5. hidden <=> ~Shown(p, token)
  BY Zenon DEF Shown
<1>6. CASE hidden
  <2>1. f = q
    BY <1>6, Zenon DEF StartTag, WithStack
  <2>2. LinkSeen(p, token) = 0 /\ CellSeen(p, token) = 0
    BY <1>5, <1>6, Zenon DEF LinkSeen, CellSeen
  <2>. HIDE DEF q
  <2>. QED BY <1>3, <1>4, <2>1, <2>2
<1>7. CASE ~hidden /\ token.tag = "a" /\ token.href # "none"
  <2>. DEFINE d == [href |-> token.href, start |-> n, text |-> 0]
  <2>1. f = WithLink(q, d)
    BY <1>7, Zenon DEF StartTag, WithStack, WithLink
  <2>2. d \in OpenLink(n + 1) /\ d.href = token.href
    BY <1>1, <1>7 DEF OpenLink, LinkDraft
  <2>. HIDE DEF d
  <2>3. CellSeen(p, token) = 0
    BY <1>7 DEF CellSeen
  <2>4. LinkSeen(p, token) = Counts(d)
    <3>1. Shown(p, token)
      BY <1>5, <1>7
    <3>. QED BY <1>7, <2>2, <3>1, Zenon DEF LinkSeen, Counts
  <2>. HIDE DEF q, f
  <2>5. Fine(f, n + 1, links + Counts(d), cells)
    BY <1>3, <2>1, <2>2, WithLinkIs
  <2>. QED BY <1>4, <2>3, <2>4, <2>5 DEF f
<1>8. CASE ~hidden /\ token.tag = "table"
  <2>. DEFINE t == [start |-> n, rows |-> <<>>, row |-> Nil,
                    cell |-> Nil, caption |-> Nil, captionOpen |-> FALSE]
  <2>1. f = WithNewTable(q, t)
    BY <1>8, Zenon DEF StartTag, WithStack, WithNewTable
  <2>2. <<>> \in Rows /\ CellsOf(<<>>) = 0
    <3>. DEFINE e == <<>>
    <3>1. e \in Seq(Row) /\ Len(e) = 0 /\ MaxRows \in Nat /\ e = <<>>
      BY EmptySeq, HtmlConstants
    <3>. HIDE DEF e
    <3>2. e \in Rows
      BY <3>1 DEF Rows
    <3>3. CellsOf(e) = 0
      BY <3>1, CellsOfRows
    <3>. QED BY <3>2, <3>3 DEF e
  <2>3. PICK no \in BOOLEAN : no = FALSE
    OBVIOUS
  <2>4. t = [start |-> n, rows |-> <<>>, row |-> Nil, cell |-> Nil, caption |-> Nil,
             captionOpen |-> no]
    BY <2>3, Zenon
  <2>. HIDE DEF t
  <2>5. t \in OpenTable(n + 1) /\ t.rows = <<>> /\ t.row = Nil /\ t.cell = Nil
    <3>. DEFINE e == <<>>
    <3>1. e \in Rows /\ t = [start |-> n, rows |-> e, row |-> Nil, cell |-> Nil, caption |-> Nil,
             captionOpen |-> no]
      BY <2>2, <2>4
    <3>. HIDE DEF e
    <3>2. t \in OpenTable(n + 1) /\ t.rows = e /\ t.row = Nil /\ t.cell = Nil
      <4>1. /\ t \in TableDraft(n + 1) /\ t.rows = e /\ t.row = Nil /\ t.cell = Nil
        BY <3>1 DEF TableDraft
      <4>2. t.captionOpen = no
        BY <3>1
      <4>3. Captioned(t)
        BY <2>3, <4>2, Zenon DEF Captioned
      <4>. QED BY <4>1, <4>3, Zenon DEF OpenTable
    <3>. QED BY <3>2 DEF e
  <2>6. KeptIn(t) = 0 /\ OpenIn(t) = 0
    BY <2>2, <2>5 DEF KeptIn, OpenIn
  <2>7. LinkSeen(p, token) = 0 /\ CellSeen(p, token) = 0
    BY <1>8 DEF LinkSeen, CellSeen
  <2>. HIDE DEF q, f
  <2>8. Fine(f, n + 1, links, cells)
    BY <1>3, <2>1, <2>5, <2>6, WithNewTableIs
  <2>. QED BY <1>4, <2>7, <2>8 DEF f
<1>9. CASE ~hidden /\ token.tag \notin {"a", "table"} /\ q.activeTables # <<>>
  <2>1. f = StartInTable(q, token.tag, n)
    BY <1>9, Zenon DEF StartTag, WithStack
  <2>2. LinkSeen(p, token) = 0
    BY <1>9 DEF LinkSeen
  <2>3. CellSeen(p, token) = IF token.tag = "td" THEN 1 ELSE 0
    <3>1. Shown(p, token) /\ p.activeTables # <<>>
      BY <1>2, <1>5, <1>9
    <3>. QED BY <3>1, Zenon DEF CellSeen
  <2>4. Opened(q)
    BY <1>9 DEF Opened
  <2>. HIDE DEF q, f
  <2>5. Fine(f, n + 1, links, cells + IF token.tag = "td" THEN 1 ELSE 0)
    BY <1>1, <1>2, <2>1, <2>4, StartInTableKeeps
  <2>. QED BY <1>4, <2>2, <2>3, <2>5 DEF f
<1>10. CASE /\ ~hidden /\ ~(token.tag = "a" /\ token.href # "none") /\ token.tag # "table"
            /\ ~(token.tag \notin {"a", "table"} /\ q.activeTables # <<>>)
  <2>1. f = q
    BY <1>10, Zenon DEF StartTag, WithStack
  <2>2. LinkSeen(p, token) = 0
    <3>1. token.tag = "a" => token.href = "none"
      BY <1>10
    <3>2. "none" \notin {"web", "bad"}
      OBVIOUS
    <3>. QED BY <3>1, <3>2 DEF LinkSeen
  <2>3. CellSeen(p, token) = 0
    <3>1. token.tag = "td" => q.activeTables = <<>>
      <4>1. "td" \notin {"a", "table"}
        OBVIOUS
      <4>. HIDE DEF q
      <4>. QED BY <1>10, <4>1
    <3>. HIDE DEF q
    <3>. QED BY <1>2, <3>1 DEF CellSeen
  <2>. HIDE DEF q
  <2>. QED BY <1>3, <1>4, <2>1, <2>2, <2>3
<1>. HIDE DEF hidden, q
<1>. QED BY <1>6, <1>7, <1>8, <1>9, <1>10

\* handle_endtag in a table.
LEMMA EndInTableKeeps ==
  ASSUME NEW n \in Nat, NEW p, NEW links \in Nat, NEW cells \in Nat,
         Fine(p, n, links, cells), Opened(p), NEW tag \in STRING
  PROVE  /\ Fine(EndInTable(p, tag, n), n, links, cells)
         /\ EndInTable(p, tag, n).stack = p.stack
<1>. DEFINE f == EndInTable(p, tag, n)
<1>1. CASE tag = "td"
  <2>1. f = FinishCell(p, n)
    BY <1>1, Zenon DEF EndInTable
  <2>. QED BY <2>1, FinishCellKeeps DEF SameLinks
<1>2. CASE tag = "tr"
  <2>1. f = FinishRow(p, n)
    BY <1>2, Zenon DEF EndInTable
  <2>. QED BY <2>1, FinishRowKeeps DEF SameLinks
<1>3. CASE tag = "table"
  <2>1. f = FinishTable(p, n)
    BY <1>3, Zenon DEF EndInTable
  <2>. QED BY <2>1, FinishTableKeeps DEF SameLinks
<1>4. CASE tag = "caption"
  <2>. DEFINE t == ActiveTable(p)
              u == [t EXCEPT !.captionOpen = FALSE]
  <2>1. f = WithTable(p, u)
    BY <1>4, Zenon DEF EndInTable
  <2>2. t \in OpenTable(n)
    BY ActiveTableIs DEF Fine
  <2>3. PICK no \in BOOLEAN : no = FALSE
    OBVIOUS
  <2>4. u = [t EXCEPT !.captionOpen = no]
    BY <2>3, Zenon
  <2>. HIDE DEF u, t, f
  <2>5. u \in OpenTable(n) /\ u.rows = t.rows /\ u.row = t.row /\ u.cell = t.cell
    <3>1. /\ u \in TableDraft(n) /\ u.rows = t.rows /\ u.row = t.row /\ u.cell = t.cell
          /\ u.captionOpen = no
      BY <2>2, <2>4 DEF OpenTable, TableDraft
    <3>2. Captioned(u)
      BY <2>3, <3>1, Zenon DEF Captioned
    <3>. QED BY <3>1, <3>2, Zenon DEF OpenTable
  <2>6. KeptIn(u) = KeptIn(t) /\ OpenIn(u) = OpenIn(t) + 0
    BY <2>5 DEF KeptIn, OpenIn
  <2>7. Fine(f, n, links, cells + 0) /\ SameLinks(p, f)
    BY <2>1, <2>5, <2>6, RetableKeeps DEF t
  <2>8. cells + 0 = cells
    OBVIOUS
  <2>. QED BY <2>7, <2>8 DEF f, SameLinks
<1>5. CASE tag \notin {"td", "tr", "table", "caption"}
  <2>1. f = p
    BY <1>5, Zenon DEF EndInTable
  <2>. QED BY <2>1
<1>. QED BY <1>1, <1>2, <1>3, <1>4, <1>5

\* handle_endtag.
LEMMA EndTagKeeps ==
  ASSUME NEW n \in Nat, NEW p, NEW links \in Nat, NEW cells \in Nat,
         Fine(p, n, links, cells), NEW tag \in STRING
  PROVE  Fine(EndTag(p, tag, n), n, links, cells)
<1>. DEFINE open == {i \in DOMAIN p.stack : p.stack[i].tag = tag}
            hidden == open # {} /\ p.stack[Max(open)].hidden
            q == IF tag = "a" /\ p.activeLinks # <<>> THEN FinishLink(p, n) ELSE p
            r == IF q.activeTables # <<>> THEN EndInTable(q, tag, n) ELSE q
            x == IF hidden THEN p ELSE r
            s == IF open = {} THEN x.stack ELSE SubSeq(x.stack, 1, Max(open) - 1)
            f == EndTag(p, tag, n)
<1>1. Fine(q, n, links, cells) /\ q.stack = p.stack
  <2>1. CASE tag = "a" /\ p.activeLinks # <<>>
    BY <2>1, FinishLinkKeeps DEF Linked, SameCells
  <2>2. CASE ~(tag = "a" /\ p.activeLinks # <<>>)
    BY <2>2
  <2>. QED BY <2>1, <2>2
<1>. HIDE DEF q
<1>2. Fine(r, n, links, cells) /\ r.stack = q.stack
  <2>1. CASE q.activeTables # <<>>
    <3>1. Opened(q) /\ r = EndInTable(q, tag, n)
      BY <2>1 DEF Opened
    <3>. HIDE DEF r
    <3>. QED BY <1>1, <3>1, EndInTableKeeps
  <2>2. CASE ~(q.activeTables # <<>>)
    BY <1>1, <2>2
  <2>. QED BY <2>1, <2>2
<1>. HIDE DEF r
<1>3. Fine(x, n, links, cells) /\ x.stack = p.stack
  BY <1>1, <1>2
<1>4. f = WithStack(x, s)
  BY Zenon DEF EndTag, WithStack, q, r
<1>. HIDE DEF x
<1>5. p.stack \in Seq(Element) /\ Len(p.stack) \in Nat /\ DOMAIN p.stack = 1..Len(p.stack)
  <2>1. p.stack \in Seq(Element)
    BY DEF Fine, Parser, Element
  <2>. QED BY <2>1, LenProperties
<1>6. s \in Seq(Element)
  <2>1. CASE open = {}
    BY <1>3, <1>5, <2>1
  <2>2. CASE open # {}
    <3>1. open \in SUBSET (1..Len(p.stack))
      BY <1>5
    <3>. DEFINE m == Max(open)
    <3>2. m \in 1..Len(p.stack)
      <4>. HIDE DEF open
      <4>. QED BY <1>5, <2>2, <3>1, MaxIsLargest
    <3>. HIDE DEF m
    <3>3. \A i \in 1..Len(p.stack) : p.stack[i] \in Element
      BY <1>5, ElementOfSeq
    <3>4. SubSeq(p.stack, 1, m - 1) \in Seq(Element)
      <4>1. m - 1 \in Nat /\ \A i \in 1..m - 1 : p.stack[i] \in Element
        BY <1>5, <3>2, <3>3
      <4>. QED BY <4>1, SubSeqProperties
    <3>5. s = SubSeq(p.stack, 1, m - 1)
      BY <1>3, <2>2 DEF m
    <3>. QED BY <3>4, <3>5
  <2>. QED BY <2>1, <2>2
<1>. HIDE DEF s, f
<1>7. Fine(f, n, links, cells)
  BY <1>3, <1>4, <1>6, WithStackIs
<1>. QED BY <1>7 DEF f

\* Text in a link that is open.
WithText(p) == [p EXCEPT !.activeLinks[Len(p.activeLinks)].text = @ + 1]
LEMMA WithTextIs ==
  ASSUME NEW n \in Nat, NEW p, NEW links \in Nat, NEW cells \in Nat,
         Fine(p, n, links, cells), Linked(p), NEW q, q = WithText(p)
  PROVE  Fine(q, n, links, cells) /\ q.activeTables = p.activeTables
<1>. DEFINE s == p.activeLinks
            d == [s[Len(s)] EXCEPT !.text = @ + 1]
            z == [s EXCEPT ![Len(s)] = d]
<1>1. p \in Parser(n) /\ LinksOK(p, links) /\ CellsOK(p, cells)
  BY DEF Fine
<1>2. s \in Seq(OpenLink(n)) /\ s # <<>> /\ Len(s) \in Nat /\ Len(s) # 0
      /\ DOMAIN s = 1..Len(s) /\ \A i \in 1..Len(s) : s[i] \in OpenLink(n)
  BY <1>1, ActiveLinkIs, LenProperties, ElementOfSeq, EmptySeq DEF Linked
<1>3. d \in OpenLink(n) /\ d.href = s[Len(s)].href
  <2>1. s[Len(s)] \in OpenLink(n)
    BY <1>2
  <2>. QED BY <2>1 DEF OpenLink, LinkDraft
<1>4. q = [p EXCEPT !.activeLinks = z]
  BY Zenon DEF WithText
<1>. HIDE DEF d
<1>5. z \in Seq(OpenLink(n))
  <2>1. z \in [1..Len(s) -> OpenLink(n)]
    BY <1>2, <1>3
  <2>. QED BY <1>2, <2>1, SeqDef
<1>6. Waiting(z) = Waiting(s)
  <2>1. \A i \in DOMAIN s : z[i].href = s[i].href
    BY <1>2, <1>3
  <2>2. DOMAIN z = DOMAIN s
    OBVIOUS
  <2>. HIDE DEF z, s
  <2>3. [k \in DOMAIN z |-> Counts(z[k])] = [k \in DOMAIN s |-> Counts(s[k])]
    BY <2>1, <2>2 DEF Counts
  <2>. QED BY <2>3, Zenon DEF Waiting
<1>. HIDE DEF z
<1>7. q \in Parser(n)
  BY <1>1, <1>4, <1>5 DEF Parser
<1>8. /\ q.activeLinks = z /\ q.activeTables = p.activeTables
      /\ q.links = p.links /\ q.omittedLinks = p.omittedLinks
      /\ q.linksTruncated = p.linksTruncated /\ SameTables(p, q)
  BY <1>1, <1>4 DEF Parser, SameTables
<1>9. LinksOK(q, links)
  BY <1>1, <1>6, <1>8 DEF LinksOK
<1>10. CellsOK(q, cells)
  BY <1>1, <1>8, CellsStay
<1>. QED BY <1>7, <1>8, <1>9, <1>10 DEF Fine

\* handle_data.
LEMMA DataKeeps ==
  ASSUME NEW n \in Nat, NEW p, NEW links \in Nat, NEW cells \in Nat,
         Fine(p, n, links, cells)
  PROVE  Fine(Data(p), n, links, cells)
<1>. DEFINE q == IF p.activeLinks = <<>> THEN p ELSE WithText(p)
            t == ActiveTable(q)
            f == Data(p)
<1>1. Fine(q, n, links, cells)
  BY WithTextIs DEF Linked
<1>2. cells + 0 = cells
  OBVIOUS
<1>3. CASE IsHidden(p)
  <2>1. f = p
    BY <1>3, Zenon DEF Data
  <2>. QED BY <2>1
<1>4. CASE ~IsHidden(p) /\ q.activeTables # <<>> /\ t.cell # Nil
  <2>. DEFINE u == [t EXCEPT !.cell.text = @ + 1]
  <2>1. f = WithTable(q, u)
    BY <1>4, Zenon DEF Data, WithText
  <2>2. Opened(q)
    BY <1>4 DEF Opened
  <2>. HIDE DEF q
  <2>3. t \in OpenTable(n)
    BY <1>1, <2>2, ActiveTableIs DEF Fine
  <2>. HIDE DEF t
  <2>4. u \in OpenTable(n) /\ u.rows = t.rows /\ u.row = t.row /\ u.cell # Nil
    <3>. DEFINE d == [t.cell EXCEPT !.text = @ + 1]
    <3>1. t.cell \in OpenCell(n)
      BY <1>4, <2>3 DEF OpenTable, TableDraft
    <3>2. d \in OpenCell(n) /\ d \in CellDraft
      BY <3>1 DEF OpenCell, CellDraft
    <3>3. d # Nil
      BY <3>2, NilIsNoValue
    <3>4. u = [t EXCEPT !.cell = d]
      OBVIOUS
    <3>. HIDE DEF d, u
    <3>5. u \in OpenTable(n) /\ u.rows = t.rows /\ u.row = t.row /\ u.cell = d
      <4>1. /\ u \in TableDraft(n) /\ u.rows = t.rows /\ u.row = t.row /\ u.cell = d
            /\ u.caption = t.caption /\ u.captionOpen = t.captionOpen
        BY <2>3, <3>2, <3>4 DEF OpenTable, TableDraft
      <4>. QED BY <2>3, <4>1, SameCaption
    <3>. QED BY <3>3, <3>5
  <2>. HIDE DEF u, f
  <2>5. KeptIn(u) = KeptIn(t) /\ OpenIn(u) = OpenIn(t) + 0
    BY <1>4, <2>4 DEF KeptIn, OpenIn
  <2>6. Fine(f, n, links, cells + 0)
    BY <1>1, <2>1, <2>2, <2>4, <2>5, RetableKeeps DEF t
  <2>. QED BY <1>2, <2>6 DEF f
<1>5. CASE ~IsHidden(p) /\ q.activeTables # <<>> /\ t.cell = Nil /\ t.captionOpen
  <2>. DEFINE u == [t EXCEPT !.caption = @ + 1]
  <2>1. f = WithTable(q, u)
    BY <1>5, Zenon DEF Data, WithText
  <2>2. Opened(q)
    BY <1>5 DEF Opened
  <2>. HIDE DEF q
  <2>3. t \in OpenTable(n)
    BY <1>1, <2>2, ActiveTableIs DEF Fine
  <2>. HIDE DEF t
  <2>4. t.caption \in Nat
    BY <1>5, <2>3, Zenon DEF OpenTable, Captioned
  <2>5. u \in OpenTable(n) /\ u.rows = t.rows /\ u.row = t.row /\ u.cell = t.cell
    <3>1. /\ u \in TableDraft(n) /\ u.rows = t.rows /\ u.row = t.row /\ u.cell = t.cell
          /\ u.caption \in Nat
      BY <2>3, <2>4 DEF OpenTable, TableDraft
    <3>. HIDE DEF u
    <3>. QED BY <3>1, Zenon DEF OpenTable, Captioned
  <2>. HIDE DEF u, f
  <2>6. KeptIn(u) = KeptIn(t) /\ OpenIn(u) = OpenIn(t) + 0
    BY <1>5, <2>5 DEF KeptIn, OpenIn
  <2>7. Fine(f, n, links, cells + 0)
    BY <1>1, <2>1, <2>2, <2>5, <2>6, RetableKeeps DEF t
  <2>. QED BY <1>2, <2>7 DEF f
<1>6. CASE /\ ~IsHidden(p) /\ ~(q.activeTables # <<>> /\ t.cell # Nil)
           /\ ~(q.activeTables # <<>> /\ t.cell = Nil /\ t.captionOpen)
  <2>1. f = q
    BY <1>6, Zenon DEF Data, WithText
  <2>. HIDE DEF q
  <2>. QED BY <1>1, <2>1
<1>. QED BY <1>3, <1>4, <1>5, <1>6

\* The next token.
Starts(token) == token.event \in {"start", "both"}
LEMMA HandleKeeps ==
  ASSUME NEW n \in Nat, NEW p, NEW links \in Nat, NEW cells \in Nat,
         Fine(p, n, links, cells), NEW token \in Token
  PROVE  Fine(Handle(p, token, n), n + 1,
              links + (IF Starts(token) THEN LinkSeen(p, token) ELSE 0),
              cells + (IF Starts(token) THEN CellSeen(p, token) ELSE 0))
<1>. DEFINE s == StartTag(p, token, n)
            f == Handle(p, token, n)
            l == links + LinkSeen(p, token)
            c == cells + CellSeen(p, token)
<1>1. token.tag \in STRING /\ token.event \in {"start", "end", "both", "data"}
  BY DEF Token
<1>2. Fine(s, n + 1, l, c) /\ Fine(p, n + 1, links, cells)
  BY StartTagKeeps, FineGrows
<1>3. l \in Nat /\ c \in Nat /\ links + 0 = links /\ cells + 0 = cells /\ n + 1 \in Nat
  BY DEF LinkSeen, CellSeen
<1>. HIDE DEF s, l, c
<1>4. CASE token.event = "start"
  <2>1. f = s /\ Starts(token)
    BY <1>4, Zenon DEF Handle, Starts, s
  <2>. QED BY <1>2, <2>1 DEF l, c
<1>5. CASE token.event = "end"
  <2>1. f = EndTag(p, token.tag, n + 1) /\ ~Starts(token)
    <3>1. token.event # "start" /\ token.event \notin {"start", "both"}
      BY <1>5
    <3>. QED BY <1>5, <3>1, Zenon DEF Handle, Starts
  <2>. HIDE DEF f
  <2>2. Fine(f, n + 1, links, cells)
    BY <1>1, <1>2, <1>3, <2>1, EndTagKeeps
  <2>. QED BY <1>3, <2>1, <2>2 DEF f
<1>6. CASE token.event = "both"
  <2>1. f = EndTag(s, token.tag, n + 1) /\ Starts(token)
    <3>1. token.event # "start" /\ token.event # "end" /\ token.event \in {"start", "both"}
      BY <1>6
    <3>. QED BY <1>6, <3>1, Zenon DEF Handle, Starts, s
  <2>. HIDE DEF f
  <2>2. Fine(f, n + 1, l, c)
    BY <1>1, <1>2, <1>3, <2>1, EndTagKeeps
  <2>. QED BY <2>1, <2>2 DEF f, l, c
<1>7. CASE token.event = "data"
  <2>1. f = Data(p) /\ ~Starts(token)
    <3>1. /\ token.event # "start" /\ token.event # "end" /\ token.event # "both"
          /\ token.event \notin {"start", "both"}
      BY <1>7
    <3>. QED BY <1>7, <3>1, Zenon DEF Handle, Starts
  <2>. HIDE DEF f
  <2>2. Fine(f, n + 1, links, cells)
    BY <1>2, <1>3, <2>1, DataKeeps
  <2>. QED BY <1>3, <2>1, <2>2 DEF f
<1>. QED BY <1>1, <1>4, <1>5, <1>6, <1>7

\* finish ends the links that are open,
LEMMA LinksFinished ==
  ASSUME NEW n \in Nat, NEW p, NEW links \in Nat, NEW cells \in Nat,
         Fine(p, n, links, cells)
  PROVE  LET q == Looped(LAMBDA r, link : FinishLink(r, n), p, p.activeLinks)
         IN Fine(q, n, links, cells) /\ q.activeLinks = <<>>
<1>. DEFINE top == Len(p.activeLinks)
            Left(k) == {r \in Parser(n) : Fine(r, n, links, cells) /\ Len(r.activeLinks) = top - k}
            Is(f) == f = [k \in 0..top |-> IF k = 0 THEN p ELSE FinishLink(f[k - 1], n)]
            B == [k \in 0..top |-> Left(k)]
            G == [k \in 0..top |-> [r \in Parser(n) |-> FinishLink(r, n)]]
            f == CHOOSE f : Is(f)
<1>1. top \in Nat /\ p \in Parser(n)
  <2>1. p \in Parser(n)
    BY DEF Fine
  <2>. QED BY <2>1, ActiveLinkIs
<1>. HIDE DEF top
<1>2. p \in B[0]
  <2>1. top - 0 = Len(p.activeLinks)
    BY <1>1 DEF top
  <2>. QED BY <1>1, <2>1
<1>3. ASSUME NEW k \in 1..top, NEW r \in B[k - 1]
      PROVE  FinishLink(r, n) \in B[k] /\ G[k][r] = FinishLink(r, n)
  <2>1. k - 1 \in 0..top /\ k \in 0..top /\ top - (k - 1) = (top - k) + 1 /\ top - k \in Nat
    BY <1>1
  <2>2. r \in Parser(n) /\ Fine(r, n, links, cells) /\ Len(r.activeLinks) = (top - k) + 1
    BY <2>1
  <2>3. Linked(r)
    <3>1. Len(r.activeLinks) # 0
      BY <2>1, <2>2
    <3>. QED BY <3>1, EmptySeq DEF Linked
  <2>4. /\ Fine(FinishLink(r, n), n, links, cells)
        /\ Len(FinishLink(r, n).activeLinks) = Len(r.activeLinks) - 1
    BY <2>2, <2>3, FinishLinkKeeps
  <2>5. FinishLink(r, n) \in Left(k)
    BY <2>1, <2>2, <2>4 DEF Fine
  <2>. QED BY <2>1, <2>2, <2>5
<1>. HIDE DEF B, G
<1>4. PICK h : IsRun(h, top, p, G) /\ \A k \in 0..top : h[k] \in B[k]
  <2>1. \A k \in 1..top : \A r \in B[k - 1] : G[k][r] \in B[k]
    BY <1>3
  <2>2. top \in Nat
    BY <1>1
  <2>. QED BY ONLY <1>2, <2>1, <2>2, LoopRuns
<1>5. Is(h)
  <2>1. \A k \in 0..top : k # 0 => k \in 1..top /\ k - 1 \in 0..top
    BY <1>1
  <2>2. \A k \in 0..top : h[k] = IF k = 0 THEN p ELSE FinishLink(h[k - 1], n)
    BY <1>3, <1>4, <2>1 DEF IsRun
  <2>3. h = [k \in 0..top |-> h[k]]
    BY <1>4 DEF IsRun
  <2>. QED BY <2>2, <2>3
<1>6. Is(f)
  <2>. HIDE DEF Is
  <2>. QED BY <1>5
<1>. HIDE DEF f
<1>7. f[top] \in B[top]
  <2>1. f[0] \in B[0]
    BY <1>1, <1>2, <1>6
  <2>2. \A k \in 1..top : f[k] = FinishLink(f[k - 1], n)
    BY <1>1, <1>6
  <2>3. \A k \in 1..top : f[k - 1] \in B[k - 1] => f[k] \in B[k]
    BY <1>3, <2>2
  <2>. QED BY <1>1, <2>1, <2>3, LoopLeads
<1>8. f[top] = Looped(LAMBDA r, link : FinishLink(r, n), p, p.activeLinks)
  BY Zenon DEF Looped, f, top
<1>9. f[top] \in Parser(n) /\ Fine(f[top], n, links, cells) /\ Len(f[top].activeLinks) = 0
  <2>1. top - top = 0 /\ top \in 0..top
    BY <1>1
  <2>. QED BY <1>7, <2>1 DEF B
<1>10. f[top].activeLinks = <<>>
  <2>1. f[top].activeLinks \in Seq(OpenLink(n))
    BY <1>9, ActiveLinkIs
  <2>. QED BY <1>9, <2>1, EmptySeq
<1>. QED BY <1>8, <1>9, <1>10

\* and the tables that are open.
LEMMA TablesFinished ==
  ASSUME NEW n \in Nat, NEW p, NEW links \in Nat, NEW cells \in Nat,
         Fine(p, n, links, cells), p.activeLinks = <<>>
  PROVE  LET q == Looped(LAMBDA r, table : FinishTable(r, n), p, p.activeTables)
         IN Fine(q, n, links, cells) /\ q.activeLinks = <<>> /\ q.activeTables = <<>>
<1>. DEFINE top == Len(p.activeTables)
            Left(k) == {r \in Parser(n) : /\ Fine(r, n, links, cells) /\ r.activeLinks = p.activeLinks
                                          /\ Len(r.activeTables) = top - k}
            Is(f) == f = [k \in 0..top |-> IF k = 0 THEN p ELSE FinishTable(f[k - 1], n)]
            B == [k \in 0..top |-> Left(k)]
            G == [k \in 0..top |-> [r \in Parser(n) |-> FinishTable(r, n)]]
            f == CHOOSE f : Is(f)
<1>1. top \in Nat /\ p \in Parser(n)
  <2>1. p \in Parser(n)
    BY DEF Fine
  <2>2. p.activeTables \in Seq(OpenTable(n))
    BY <2>1 DEF Parser
  <2>. QED BY <2>1, <2>2, LenProperties
<1>. HIDE DEF top
<1>2. p \in B[0]
  <2>1. top - 0 = Len(p.activeTables)
    BY <1>1 DEF top
  <2>. QED BY <1>1, <2>1
<1>3. ASSUME NEW k \in 1..top, NEW r \in B[k - 1]
      PROVE  FinishTable(r, n) \in B[k] /\ G[k][r] = FinishTable(r, n)
  <2>1. k - 1 \in 0..top /\ k \in 0..top /\ top - (k - 1) = (top - k) + 1 /\ top - k \in Nat
    BY <1>1
  <2>2. /\ r \in Parser(n) /\ Fine(r, n, links, cells) /\ r.activeLinks = p.activeLinks
        /\ Len(r.activeTables) = (top - k) + 1
    BY <2>1
  <2>3. Opened(r)
    <3>1. Len(r.activeTables) # 0
      BY <2>1, <2>2
    <3>. QED BY <3>1, EmptySeq DEF Opened
  <2>4. /\ Fine(FinishTable(r, n), n, links, cells) /\ SameLinks(r, FinishTable(r, n))
        /\ Len(FinishTable(r, n).activeTables) = Len(r.activeTables) - 1
    BY <2>2, <2>3, FinishTableKeeps
  <2>5. FinishTable(r, n) \in Left(k)
    BY <2>1, <2>2, <2>4 DEF Fine, SameLinks
  <2>. QED BY <2>1, <2>2, <2>5
<1>. HIDE DEF B, G
<1>4. PICK h : IsRun(h, top, p, G) /\ \A k \in 0..top : h[k] \in B[k]
  <2>1. \A k \in 1..top : \A r \in B[k - 1] : G[k][r] \in B[k]
    BY <1>3
  <2>2. top \in Nat
    BY <1>1
  <2>. QED BY ONLY <1>2, <2>1, <2>2, LoopRuns
<1>5. Is(h)
  <2>1. \A k \in 0..top : k # 0 => k \in 1..top /\ k - 1 \in 0..top
    BY <1>1
  <2>2. \A k \in 0..top : h[k] = IF k = 0 THEN p ELSE FinishTable(h[k - 1], n)
    <3>1. \A k \in 0..top : h[k] = IF k = 0 THEN p ELSE G[k][h[k - 1]]
      BY <1>4, Zenon DEF IsRun
    <3>2. \A k \in 0..top : k # 0 => G[k][h[k - 1]] = FinishTable(h[k - 1], n)
      BY <1>3, <1>4, <2>1, Zenon
    <3>. QED BY <3>1, <3>2, Zenon
  <2>3. h = [k \in 0..top |-> h[k]]
    BY <1>4 DEF IsRun
  <2>. QED BY <2>2, <2>3
<1>6. Is(f)
  <2>. HIDE DEF Is
  <2>. QED BY <1>5
<1>. HIDE DEF f
<1>7. f[top] \in B[top]
  <2>1. f[0] \in B[0]
    BY <1>1, <1>2, <1>6
  <2>2. \A k \in 1..top : f[k] = FinishTable(f[k - 1], n)
    BY <1>1, <1>6
  <2>3. \A k \in 1..top : f[k - 1] \in B[k - 1] => f[k] \in B[k]
    BY <1>3, <2>2
  <2>. QED BY <1>1, <2>1, <2>3, LoopLeads
<1>8. f[top] = Looped(LAMBDA r, table : FinishTable(r, n), p, p.activeTables)
  BY Zenon DEF Looped, f, top
<1>9. /\ f[top] \in Parser(n) /\ Fine(f[top], n, links, cells) /\ f[top].activeLinks = <<>>
      /\ Len(f[top].activeTables) = 0
  <2>1. top - top = 0 /\ top \in 0..top
    BY <1>1
  <2>. QED BY <1>7, <2>1 DEF B
<1>10. f[top].activeTables = <<>>
  <2>1. f[top].activeTables \in Seq(OpenTable(n))
    BY <1>9 DEF Parser
  <2>. QED BY <1>9, <2>1, EmptySeq
<1>. QED BY <1>8, <1>9, <1>10

LEMMA FinishedKeeps ==
  ASSUME NEW n \in Nat, NEW p, NEW links \in Nat, NEW cells \in Nat,
         Fine(p, n, links, cells)
  PROVE  LET q == Finished(p, n)
         IN Fine(q, n, links, cells) /\ q.activeLinks = <<>> /\ q.activeTables = <<>>
<1>. DEFINE q == Looped(LAMBDA r, link : FinishLink(r, n), p, p.activeLinks)
            f == Looped(LAMBDA r, table : FinishTable(r, n), q, q.activeTables)
<1>1. Fine(q, n, links, cells) /\ q.activeLinks = <<>>
  BY LinksFinished
<1>2. Finished(p, n) = f
  BY Zenon DEF Finished
<1>. HIDE DEF q
<1>3. Fine(f, n, links, cells) /\ f.activeLinks = <<>> /\ f.activeTables = <<>>
  BY <1>1, TablesFinished
<1>. HIDE DEF f
<1>. QED BY <1>2, <1>3

-----------------------------------------------------------------------------
(* The parser of JSON-LD.                                                  *)

\* The first items of a sequence.
LEMMA FirstOfIs ==
  ASSUME NEW T, NEW s \in Seq(T), NEW n \in Nat
  PROVE  FirstOf(s, n) \in Seq(T)
<1>. DEFINE m == Min({n, Len(s)})
<1>1. Len(s) \in Nat /\ \A i \in 1..Len(s) : s[i] \in T
  BY LenProperties, ElementOfSeq
<1>2. m \in Nat /\ m <= Len(s)
  BY <1>1, SmallerAndLarger
<1>. HIDE DEF m
<1>3. \A i \in 1..m : s[i] \in T
  BY <1>1, <1>2
<1>4. SubSeq(s, 1, m) \in Seq(T)
  BY <1>2, <1>3, SubSeqProperties
<1>. QED BY <1>4, Zenon DEF FirstOf, m

\* A document of what the page says.
AnyNode == JsonNode \cup JsonRoot
LEMMA AnyNodeIs ==
  ASSUME NEW node \in AnyNode
  PROVE  node.kind \in Kinds \cup {Nil} /\ node.fields \in Nat
BY DEF AnyNode, JsonNode, JsonRoot

\* The nodes of a block, of its graphs the first ones only or all.
GraphOf(root, cut) == IF cut THEN FirstOf(root.graph, MaxDocuments) ELSE root.graph
RunOfNodes(h, roots, cut) ==
  h = [k \in 0..Len(roots) |->
         IF k = 0 THEN <<>> ELSE h[k - 1] \o <<roots[k]>> \o GraphOf(roots[k], cut)]

LEMMA NodesRun ==
  ASSUME NEW roots \in Seq(JsonRoot), NEW cut \in BOOLEAN
  PROVE  \E h : RunOfNodes(h, roots, cut) /\ h[Len(roots)] \in Seq(AnyNode)
<1>. DEFINE With(nodes, root) == nodes \o <<root>> \o GraphOf(root, cut)
            top == Len(roots)
            B == [k \in 0..top |-> Seq(AnyNode)]
            G == [k \in 0..top |-> [nodes \in Seq(AnyNode) |-> With(nodes, roots[k])]]
<1>1. top \in Nat /\ \A k \in 1..top : roots[k] \in JsonRoot
  BY LenProperties, ElementOfSeq
<1>. HIDE DEF top
<1>2. \A root \in JsonRoot : \A nodes \in Seq(AnyNode) : With(nodes, root) \in Seq(AnyNode)
  <2>. SUFFICES ASSUME NEW root \in JsonRoot, NEW nodes \in Seq(AnyNode)
                PROVE  With(nodes, root) \in Seq(AnyNode)
    OBVIOUS
  <2>1. JsonNode \subseteq AnyNode /\ root \in AnyNode /\ root.graph \in Seq(JsonNode)
    BY DEF AnyNode, JsonRoot
  <2>. DEFINE g == GraphOf(root, cut)
              e == <<root>>
  <2>2. g \in Seq(AnyNode)
    <3>1. FirstOf(root.graph, MaxDocuments) \in Seq(JsonNode)
      BY <2>1, FirstOfIs, HtmlConstants
    <3>2. g \in Seq(JsonNode)
      BY <2>1, <3>1 DEF GraphOf
    <3>. HIDE DEF g
    <3>. QED BY <2>1, <3>2, SeqGrows
  <2>3. e \in Seq(AnyNode)
    BY <2>1
  <2>. HIDE DEF g, e
  <2>4. nodes \o e \in Seq(AnyNode)
    BY <2>3, ConcatProperties
  <2>. DEFINE h == nodes \o e
  <2>. HIDE DEF h
  <2>5. h \o g \in Seq(AnyNode)
    BY <2>2, <2>4, ConcatProperties DEF h
  <2>. QED BY <2>5 DEF h, g, e
<1>. HIDE DEF With
<1>3. ASSUME NEW k \in 1..top, NEW nodes \in B[k - 1]
      PROVE  With(nodes, roots[k]) \in B[k] /\ G[k][nodes] = With(nodes, roots[k])
  <2>1. k - 1 \in 0..top /\ k \in 0..top
    BY <1>1
  <2>2. nodes \in Seq(AnyNode)
    BY <2>1
  <2>. QED BY <1>1, <1>2, <2>1, <2>2
<1>4. <<>> \in B[0]
  BY <1>1, EmptySeq
<1>5. \A k \in 0..top : B[k] = Seq(AnyNode)
  OBVIOUS
<1>. HIDE DEF B, G
<1>6. PICK h : IsRun(h, top, <<>>, G) /\ \A k \in 0..top : h[k] \in B[k]
  <2>1. \A k \in 1..top : \A r \in B[k - 1] : G[k][r] \in B[k]
    BY <1>3
  <2>. QED BY ONLY <1>1, <1>4, <2>1, LoopRuns
<1>7. h = [k \in 0..top |-> IF k = 0 THEN <<>> ELSE With(h[k - 1], roots[k])]
  <2>1. \A k \in 0..top : k # 0 => k \in 1..top /\ k - 1 \in 0..top
    BY <1>1
  <2>2. \A k \in 0..top : h[k] = IF k = 0 THEN <<>> ELSE With(h[k - 1], roots[k])
    BY <1>3, <1>6, <2>1 DEF IsRun
  <2>3. h = [k \in 0..top |-> h[k]]
    BY <1>6 DEF IsRun
  <2>. QED BY <2>2, <2>3
<1>8. h[top] \in Seq(AnyNode)
  BY <1>1, <1>5, <1>6
<1>. QED BY <1>7, <1>8, Zenon DEF RunOfNodes, With, top

\* They end with the same nodes when the graphs are the same.
LEMMA RunsAgree ==
  ASSUME NEW roots \in Seq(JsonRoot), NEW cut, NEW other,
         \A k \in 1..Len(roots) : GraphOf(roots[k], cut) = GraphOf(roots[k], other),
         NEW f, RunOfNodes(f, roots, cut), NEW g, RunOfNodes(g, roots, other)
  PROVE  f[Len(roots)] = g[Len(roots)]
<1>. DEFINE top == Len(roots)
            B == [k \in 0..top |-> {g[k]}]
<1>1. top \in Nat
  BY LenProperties
<1>2. f[0] = <<>> /\ g[0] = <<>>
  BY <1>1 DEF RunOfNodes
<1>3. \A k \in 1..top : /\ f[k] = f[k - 1] \o <<roots[k]>> \o GraphOf(roots[k], cut)
                        /\ g[k] = g[k - 1] \o <<roots[k]>> \o GraphOf(roots[k], other)
  <2>. SUFFICES ASSUME NEW k \in 1..top
                PROVE  /\ f[k] = f[k - 1] \o <<roots[k]>> \o GraphOf(roots[k], cut)
                       /\ g[k] = g[k - 1] \o <<roots[k]>> \o GraphOf(roots[k], other)
    OBVIOUS
  <2>1. k \in 0..top /\ k # 0
    BY <1>1
  <2>2. f[k] = f[k - 1] \o <<roots[k]>> \o GraphOf(roots[k], cut)
    BY <2>1, Zenon DEF RunOfNodes
  <2>3. g[k] = g[k - 1] \o <<roots[k]>> \o GraphOf(roots[k], other)
    BY <2>1, Zenon DEF RunOfNodes
  <2>. QED BY <2>2, <2>3
<1>4. f[0] \in B[0]
  BY <1>1, <1>2
<1>5. \A k \in 1..top : f[k - 1] \in B[k - 1] => f[k] \in B[k]
  <2>. SUFFICES ASSUME NEW k \in 1..top, f[k - 1] \in B[k - 1] PROVE f[k] \in B[k]
    OBVIOUS
  <2>1. k - 1 \in 0..top /\ k \in 0..top
    BY <1>1
  <2>2. f[k - 1] = g[k - 1]
    BY <2>1
  <2>3. f[k] = g[k]
    BY <1>3, <2>2
  <2>. QED BY <2>1, <2>3
<1>6. f[top] \in B[top]
  <2>. HIDE DEF B
  <2>. QED BY ONLY <1>1, <1>4, <1>5, LoopLeads
<1>. QED BY <1>1, <1>6

\* The nodes that are read are the beginning of such a run, those of the block its end.
LEMMA NodesEnd ==
  ASSUME NEW roots \in Seq(JsonRoot)
  PROVE  LET q == Looped(LAMBDA nodes, root : nodes \o <<root>> \o FirstOf(root.graph, MaxDocuments),
                         <<>>, roots)
         IN q \in Seq(AnyNode) /\ \E h : RunOfNodes(h, roots, TRUE) /\ q = h[Len(roots)]
<1>. DEFINE top == Len(roots)
            Is(f) == f = [k \in 0..top |-> IF k = 0 THEN <<>>
                           ELSE f[k - 1] \o <<roots[k]>> \o FirstOf(roots[k].graph, MaxDocuments)]
            f == CHOOSE f : Is(f)
            q == Looped(LAMBDA nodes, root : nodes \o <<root>> \o FirstOf(root.graph, MaxDocuments),
                        <<>>, roots)
<1>1. \A h : Is(h) <=> RunOfNodes(h, roots, TRUE)
  BY DEF RunOfNodes, GraphOf
<1>2. PICK h : RunOfNodes(h, roots, TRUE) /\ h[top] \in Seq(AnyNode)
  BY NodesRun
<1>3. q = f[top]
  BY Zenon DEF Looped, f, top
<1>. HIDE DEF Is
<1>4. Is(f)
  BY <1>1, <1>2
<1>. HIDE DEF f, q
<1>5. RunOfNodes(f, roots, TRUE)
  BY <1>1, <1>4
<1>6. f[top] = h[top]
  BY <1>2, <1>5, RunsAgree
<1>7. q \in Seq(AnyNode) /\ \E g : RunOfNodes(g, roots, TRUE) /\ q = g[top]
  BY <1>2, <1>3, <1>5, <1>6
<1>. QED BY <1>7 DEF q

LEMMA AllNodesEnd ==
  ASSUME NEW value \in Seq(JsonRoot)
  PROVE  /\ AllNodes(value) \in Seq(AnyNode)
         /\ \E h : RunOfNodes(h, value, FALSE) /\ AllNodes(value) = h[Len(value)]
<1>. DEFINE top == Len(value)
            Is(f) == f = [k \in 0..top |-> IF k = 0 THEN <<>>
                           ELSE f[k - 1] \o <<value[k]>> \o value[k].graph]
            f == CHOOSE f : Is(f)
<1>1. \A h : Is(h) <=> RunOfNodes(h, value, FALSE)
  BY DEF RunOfNodes, GraphOf
<1>2. PICK h : RunOfNodes(h, value, FALSE) /\ h[top] \in Seq(AnyNode)
  BY NodesRun
<1>3. AllNodes(value) = f[top]
  BY Zenon DEF AllNodes, Looped, f, top
<1>. HIDE DEF Is
<1>4. Is(f)
  BY <1>1, <1>2
<1>. HIDE DEF f
<1>5. RunOfNodes(f, value, FALSE)
  BY <1>1, <1>4
<1>6. f[top] = h[top]
  BY <1>2, <1>5, RunsAgree
<1>. QED BY <1>2, <1>3, <1>5, <1>6

\* The nodes are a sequence of them.
LEMMA NodesAre ==
  ASSUME NEW value \in Seq(JsonRoot)
  PROVE  Nodes(value) \in Seq(AnyNode)
<1>1. MaxDocuments \in Nat /\ 2 * MaxDocuments \in Nat
  BY HtmlConstants
<1>2. FirstOf(value, MaxDocuments) \in Seq(JsonRoot)
  BY <1>1, FirstOfIs
<1>. QED BY <1>1, <1>2, NodesEnd, FirstOfIs DEF Nodes

\* Of a block within the limits every node is read.
LEMMA NodesAreAll ==
  ASSUME NEW value \in Seq(JsonRoot), ~IsCrowded(value), value # Nil
  PROVE  Nodes(value) = AllNodes(value)
<1>1. MaxDocuments \in Nat /\ 2 * MaxDocuments \in Nat
  BY HtmlConstants
<1>2. ASSUME NEW T, NEW q \in Seq(T), NEW n \in Nat, Len(q) <= n
      PROVE  FirstOf(q, n) = q
  <2>1. Len(q) \in Nat
    BY LenProperties
  <2>2. Min({n, Len(q)}) = Len(q)
    BY <1>2, <2>1, SmallerAndLarger
  <2>. QED BY <2>2, SubSeqFull DEF FirstOf
<1>3. /\ Len(value) \in Nat /\ DOMAIN value = 1..Len(value)
      /\ \A k \in 1..Len(value) : value[k].graph \in Seq(JsonNode) /\ Len(value[k].graph) \in Nat
  <2>1. \A k \in 1..Len(value) : value[k] \in JsonRoot
    BY ElementOfSeq
  <2>2. \A k \in 1..Len(value) : value[k].graph \in Seq(JsonNode)
    BY <2>1 DEF JsonRoot
  <2>. QED BY <2>2, LenProperties
<1>4. /\ Len(value) <= MaxDocuments
      /\ \A k \in 1..Len(value) : Len(value[k].graph) <= MaxDocuments
      /\ Len(AllNodes(value)) <= 2 * MaxDocuments
  <2>1. AllNodes(value) \in Seq(AnyNode) /\ Len(AllNodes(value)) \in Nat
    BY AllNodesEnd, LenProperties
  <2>. QED BY <1>1, <1>3, <2>1 DEF IsCrowded
<1>5. FirstOf(value, MaxDocuments) = value
  BY <1>1, <1>2, <1>4
<1>6. \A k \in 1..Len(value) : GraphOf(value[k], TRUE) = GraphOf(value[k], FALSE)
  BY <1>1, <1>2, <1>3, <1>4 DEF GraphOf
<1>. DEFINE q == Looped(LAMBDA nodes, root : nodes \o <<root>> \o FirstOf(root.graph, MaxDocuments),
                        <<>>, value)
<1>7. PICK h : RunOfNodes(h, value, TRUE) /\ q = h[Len(value)]
  BY NodesEnd
<1>8. Nodes(value) = FirstOf(q, 2 * MaxDocuments)
  BY <1>5, Zenon DEF Nodes, q
<1>. HIDE DEF q
<1>9. PICK g : RunOfNodes(g, value, FALSE) /\ AllNodes(value) = g[Len(value)]
  BY AllNodesEnd
<1>10. h[Len(value)] = g[Len(value)]
  <2>. DEFINE cut == TRUE
              other == FALSE
  <2>1. \A k \in 1..Len(value) : GraphOf(value[k], cut) = GraphOf(value[k], other)
    BY <1>6
  <2>2. RunOfNodes(h, value, cut) /\ RunOfNodes(g, value, other)
    BY <1>7, <1>9
  <2>. HIDE DEF cut, other
  <2>. QED BY ONLY value \in Seq(JsonRoot), <2>1, <2>2, RunsAgree
<1>11. q = AllNodes(value)
  BY <1>7, <1>9, <1>10
<1>. QED BY <1>1, <1>2, <1>4, <1>8, <1>11, AllNodesEnd

\* Omitting a document tells that the documents are not all there.
LEMMA OmitLdKeeps ==
  ASSUME NEW l \in LdParser, NEW n, NEW q, q = OmitLd(l)
  PROVE  LdOK(q, n)
<1>. DEFINE o == l.omitted + 1
<1>1. o \in Nat
  BY DEF LdParser
<1>2. PICK cut \in BOOLEAN : cut = TRUE
  OBVIOUS
<1>3. q = [l EXCEPT !.omitted = o, !.truncated = cut]
  BY <1>2, Zenon DEF OmitLd
<1>. HIDE DEF o
<1>4. q \in LdParser
  BY <1>1, <1>3 DEF LdParser
<1>5. q.truncated = cut
  BY <1>3 DEF LdParser
<1>. QED BY <1>2, <1>4, <1>5, Zenon DEF LdOK

\* A node that is a document is kept, or omitted.
LEMMA NodeKeeps ==
  ASSUME NEW n \in Nat, NEW l, LdOK(l, n), NEW node \in AnyNode
  PROVE  LdOK(Node(l, node), n + IF IsDocument(node) THEN 1 ELSE 0)
<1>. DEFINE q == IF node.kind # Nil /\ node.cut THEN OmitLd(l) ELSE l
            doc == [kind |-> node.kind, fields |-> node.fields]
            f == Node(l, node)
<1>1. LdOK(q, n)
  <2>1. CASE node.kind # Nil /\ node.cut
    BY <2>1, OmitLdKeeps DEF LdOK
  <2>2. CASE ~(node.kind # Nil /\ node.cut)
    BY <2>2
  <2>. QED BY <2>1, <2>2
<1>. HIDE DEF q
<1>2. q \in LdParser
  BY <1>1 DEF LdOK
<1>3. CASE ~IsDocument(node)
  <2>1. f = q
    BY <1>3, Zenon DEF Node, q
  <2>2. n + 0 = n
    OBVIOUS
  <2>. QED BY <1>1, <1>3, <2>1, <2>2
<1>4. CASE IsDocument(node) /\ Len(q.documents) >= MaxDocuments
  <2>1. f = OmitLd(q)
    BY <1>4, Zenon DEF Node, q
  <2>. HIDE DEF f
  <2>2. LdOK(f, n + 1)
    BY <1>2, <2>1, OmitLdKeeps
  <2>. QED BY <1>4, <2>2 DEF f
<1>5. CASE IsDocument(node) /\ ~(Len(q.documents) >= MaxDocuments)
  <2>1. f = [q EXCEPT !.documents = Append(@, doc)]
    BY <1>5, Zenon DEF Node, q
  <2>. DEFINE s == Append(q.documents, doc)
  <2>2. doc \in [kind: Kinds, fields: Nat]
    BY <1>5, AnyNodeIs DEF IsDocument
  <2>. HIDE DEF doc
  <2>3. /\ q.documents \in Seq([kind: Kinds, fields: Nat]) /\ Len(q.documents) \in Nat
        /\ MaxDocuments \in Nat
    BY <1>2, LenProperties, HtmlConstants DEF LdParser, Documents
  <2>4. s \in Seq([kind: Kinds, fields: Nat]) /\ Len(s) = Len(q.documents) + 1
    BY <2>2, <2>3, AppendProperties
  <2>5. s \in Documents
    BY <1>5, <2>3, <2>4 DEF Documents
  <2>6. f = [q EXCEPT !.documents = s]
    BY <2>1
  <2>. HIDE DEF s, f
  <2>7. /\ f \in LdParser /\ f.documents = s /\ f.omitted = q.omitted
        /\ f.truncated = q.truncated
    BY <1>2, <2>5, <2>6 DEF LdParser
  <2>8. ~q.truncated => q.omitted = 0 /\ Len(q.documents) >= n
    BY <1>1 DEF LdOK
  <2>9. Len(q.documents) >= n => Len(f.documents) >= n + 1
    BY <2>3, <2>4, <2>7
  <2>10. ~f.truncated => f.omitted = 0 /\ Len(f.documents) >= n + 1
    BY <2>7, <2>8, <2>9, Zenon
  <2>11. LdOK(f, n + 1)
    BY <2>7, <2>10, Zenon DEF LdOK
  <2>. QED BY <1>5, <2>11 DEF f
<1>. QED BY <1>3, <1>4, <1>5

\* How many of the first nodes are documents.
DocumentsOf(nodes, k) == {i \in 1..k : IsDocument(nodes[i])}
LEMMA DocumentsCount ==
  ASSUME NEW nodes
  PROVE  /\ Cardinality(DocumentsOf(nodes, 0)) = 0
         /\ \A k \in Nat : Cardinality(DocumentsOf(nodes, k)) \in Nat
         /\ \A k \in Nat \ {0} :
              Cardinality(DocumentsOf(nodes, k))
                = Cardinality(DocumentsOf(nodes, k - 1)) + IF IsDocument(nodes[k]) THEN 1 ELSE 0
<1>1. DocumentsOf(nodes, 0) = {}
  BY DEF DocumentsOf
<1>2. \A k \in Nat : IsFiniteSet(DocumentsOf(nodes, k))
  <2>. TAKE k \in Nat
  <2>1. IsFiniteSet(1..k) /\ DocumentsOf(nodes, k) \subseteq 1..k
    BY FS_Interval DEF DocumentsOf
  <2>. QED BY <2>1, FS_Subset
<1>3. ASSUME NEW k \in Nat \ {0}
      PROVE  Cardinality(DocumentsOf(nodes, k))
               = Cardinality(DocumentsOf(nodes, k - 1)) + IF IsDocument(nodes[k]) THEN 1 ELSE 0
  <2>. DEFINE S == DocumentsOf(nodes, k - 1)
  <2>1. k - 1 \in Nat /\ IsFiniteSet(S) /\ Cardinality(S) \in Nat /\ k \notin S
    BY <1>2, FS_CardinalityType DEF DocumentsOf
  <2>2. DocumentsOf(nodes, k) = IF IsDocument(nodes[k]) THEN S \cup {k} ELSE S
    BY DEF DocumentsOf
  <2>. HIDE DEF S
  <2>3. Cardinality(S \cup {k}) = Cardinality(S) + 1
    BY <2>1, FS_AddElement
  <2>. QED BY <2>1, <2>2, <2>3 DEF S
<1>. QED BY <1>1, <1>2, <1>3, FS_EmptySet, FS_CardinalityType

\* A block: what is read of it is kept or omitted.
BlockRead(b) ==
  IF b.value = Nil THEN 0
  ELSE Cardinality({i \in DOMAIN Nodes(b.value) : IsDocument(Nodes(b.value)[i])})
LEMMA BlockKeeps ==
  ASSUME NEW n \in Nat, NEW l, LdOK(l, n), NEW b \in JsonBlock
  PROVE  LdOK(Block(l, b), n + BlockRead(b)) /\ BlockRead(b) \in Nat
<1>. DEFINE q == [l EXCEPT !.seen = @ + 1]
            nodes == Nodes(b.value)
            top == Len(nodes)
            Left(k) == {r \in LdParser : LdOK(r, n + Cardinality(DocumentsOf(nodes, k)))}
            Is(f) == f = [k \in 0..top |-> IF k = 0 THEN q ELSE Node(f[k - 1], nodes[k])]
            B == [k \in 0..top |-> Left(k)]
            G == [k \in 0..top |-> [r \in LdParser |-> Node(r, nodes[k])]]
            f == CHOOSE f : Is(f)
<1>1. b.value # Nil => nodes \in Seq(AnyNode)
  BY NodesAre DEF JsonBlock
<1>2. BlockRead(b) \in Nat
  <2>1. CASE b.value = Nil
    BY <2>1 DEF BlockRead
  <2>2. CASE b.value # Nil
    <3>1. DOMAIN nodes = 1..top /\ top \in Nat
      BY <1>1, <2>2, LenProperties
    <3>2. BlockRead(b) = Cardinality(DocumentsOf(nodes, top))
      BY <2>2, <3>1 DEF BlockRead, DocumentsOf
    <3>. QED BY <3>1, <3>2, DocumentsCount
  <2>. QED BY <2>1, <2>2
<1>3. LdOK(q, n)
  <2>1. l \in LdParser
    BY DEF LdOK
  <2>2. q \in LdParser /\ q.documents = l.documents /\ q.omitted = l.omitted /\ q.truncated = l.truncated
    BY <2>1 DEF LdParser
  <2>. HIDE DEF q
  <2>. QED BY <2>2, Zenon DEF LdOK
<1>. HIDE DEF q
<1>4. CASE ~b.ended \/ ~b.small \/ q.seen > MaxDocuments \/ b.value = Nil
  <2>1. Block(l, b) = OmitLd(q)
    BY <1>4, Zenon DEF Block, q
  <2>. QED BY <1>2, <1>3, <2>1, OmitLdKeeps DEF LdOK
<1>5. CASE ~(~b.ended \/ ~b.small \/ q.seen > MaxDocuments \/ b.value = Nil)
  <2>1. Block(l, b) = Looped(Node, q, nodes)
    BY <1>5, Zenon DEF Block, q
  <2>2. nodes \in Seq(AnyNode) /\ b.value # Nil
    BY <1>1, <1>5
  <2>. HIDE DEF nodes
  <2>3. /\ top \in Nat /\ DOMAIN nodes = 1..top /\ \A k \in 1..top : nodes[k] \in AnyNode
    BY <2>2, LenProperties, ElementOfSeq
  <2>. HIDE DEF top
  <2>4. q \in B[0]
    <3>1. n + Cardinality(DocumentsOf(nodes, 0)) = n
      BY DocumentsCount
    <3>2. q \in LdParser
      BY <1>3 DEF LdOK
    <3>3. q \in Left(0)
      BY <1>3, <3>1, <3>2
    <3>. QED BY <2>3, <3>3
  <2>5. ASSUME NEW k \in 1..top, NEW r \in B[k - 1]
        PROVE  Node(r, nodes[k]) \in B[k] /\ G[k][r] = Node(r, nodes[k])
    <3>1. k - 1 \in 0..top /\ k \in 0..top /\ k - 1 \in Nat /\ k \in Nat \ {0}
      BY <2>3
    <3>. DEFINE c == Cardinality(DocumentsOf(nodes, k - 1))
                d == Cardinality(DocumentsOf(nodes, k))
    <3>2. r \in LdParser /\ LdOK(r, n + c)
      BY <3>1
    <3>3. c \in Nat /\ d = c + IF IsDocument(nodes[k]) THEN 1 ELSE 0
      BY <3>1, DocumentsCount
    <3>. HIDE DEF c, d
    <3>4. n + c \in Nat /\ (n + c) + (IF IsDocument(nodes[k]) THEN 1 ELSE 0) = n + d
      BY <3>3
    <3>5. LdOK(Node(r, nodes[k]), n + d)
      <4>1. LdOK(Node(r, nodes[k]), (n + c) + IF IsDocument(nodes[k]) THEN 1 ELSE 0)
        BY <2>3, <3>2, <3>4, NodeKeeps
      <4>. QED BY <3>4, <4>1
    <3>6. Node(r, nodes[k]) \in Left(k)
      BY <3>5 DEF LdOK, d
    <3>. QED BY <3>1, <3>2, <3>6
  <2>. HIDE DEF B, G
  <2>6. PICK h : IsRun(h, top, q, G) /\ \A k \in 0..top : h[k] \in B[k]
    <3>1. \A k \in 1..top : \A r \in B[k - 1] : G[k][r] \in B[k]
      BY <2>5
    <3>2. top \in Nat
      BY <2>3
    <3>. QED BY ONLY <2>4, <3>1, <3>2, LoopRuns
  <2>7. Is(h)
    <3>1. \A k \in 0..top : k # 0 => k \in 1..top /\ k - 1 \in 0..top
      BY <2>3
    <3>2. \A k \in 0..top : h[k] = IF k = 0 THEN q ELSE Node(h[k - 1], nodes[k])
      BY <2>5, <2>6, <3>1 DEF IsRun
    <3>3. h = [k \in 0..top |-> h[k]]
      BY <2>6 DEF IsRun
    <3>. QED BY <3>2, <3>3
  <2>8. Is(f)
    <3>. HIDE DEF Is
    <3>. QED BY <2>7
  <2>. HIDE DEF f
  <2>9. f[top] \in B[top]
    <3>1. f[0] \in B[0]
      BY <2>3, <2>4, <2>8
    <3>2. \A k \in 1..top : f[k] = Node(f[k - 1], nodes[k])
      BY <2>3, <2>8
    <3>3. \A k \in 1..top : f[k - 1] \in B[k - 1] => f[k] \in B[k]
      BY <2>5, <3>2
    <3>4. top \in Nat
      BY <2>3
    <3>. QED BY ONLY <3>1, <3>3, <3>4, LoopLeads
  <2>10. Block(l, b) = f[top]
    BY <2>1, Zenon DEF Looped, f, top
  <2>11. BlockRead(b) = Cardinality(DocumentsOf(nodes, top))
    BY <2>2, <2>3 DEF BlockRead, DocumentsOf, nodes
  <2>12. f[top] \in Left(top)
    BY <2>3, <2>9 DEF B
  <2>. QED BY <1>2, <2>10, <2>11, <2>12
<1>. QED BY <1>4, <1>5

\* Of a block within the limits that is all it has.
LEMMA BlockIsRead ==
  ASSUME NEW b \in JsonBlock
  PROVE  /\ DocumentsIn(b.value) \in Nat
         /\ ~IsCrowded(b.value) => DocumentsIn(b.value) = BlockRead(b)
<1>1. CASE b.value = Nil
  BY <1>1 DEF DocumentsIn, BlockRead
<1>2. CASE b.value # Nil
  <2>. DEFINE nodes == AllNodes(b.value)
              top == Len(nodes)
  <2>1. b.value \in Seq(JsonRoot)
    BY <1>2 DEF JsonBlock
  <2>2. nodes \in Seq(AnyNode)
    BY <2>1, AllNodesEnd
  <2>. HIDE DEF nodes
  <2>3. DOMAIN nodes = 1..top /\ top \in Nat
    BY <2>2, LenProperties
  <2>4. DocumentsIn(b.value) = Cardinality(DocumentsOf(nodes, top))
    BY <1>2, <2>3 DEF DocumentsIn, DocumentsOf, nodes
  <2>5. DocumentsIn(b.value) \in Nat
    BY <2>3, <2>4, DocumentsCount
  <2>6. ~IsCrowded(b.value) => DocumentsIn(b.value) = BlockRead(b)
    <3>1. ~IsCrowded(b.value) => Nodes(b.value) = AllNodes(b.value)
      BY <1>2, <2>1, NodesAreAll
    <3>. QED BY <1>2, <3>1, Zenon DEF DocumentsIn, BlockRead
  <2>. QED BY <2>5, <2>6
<1>. QED BY <1>1, <1>2

-----------------------------------------------------------------------------
(* The extraction of each format.                                          *)

\* What has nothing is of each kind of payload.
LEMMA NothingIs ==
  ASSUME NEW e, e = <<>>
  PROVE  e \in Links /\ e \in Tables /\ e \in Documents /\ CellsIn(e) = 0 /\ Len(e) = 0
<1>1. /\ e \in Seq(Cell) /\ e \in Seq(Table) /\ e \in Seq([kind: Kinds, fields: Nat])
      /\ Len(e) = 0
  BY EmptySeq
<1>2. MaxLinks \in Nat /\ MaxTables \in Nat /\ MaxDocuments \in Nat
  BY HtmlConstants
<1>3. CellsIn(e) = 0
  BY <1>1, CellsOfTables
<1>. QED BY <1>1, <1>2, <1>3 DEF Links, Tables, Documents

LEMMA EmptyIs ==
  ASSUME NEW format \in Formats, NEW x, x = EmptyExtraction(format)
  PROVE  /\ x \in Extraction /\ x.format = format /\ x.status = "unsupported"
         /\ x.links = <<>> /\ x.tables = <<>> /\ x.documents = <<>>
         /\ x.data = Nil /\ x.fields = {} /\ x.failures = 0 /\ x.omitted = 0
         /\ ~x.document /\ ~x.usage /\ ~x.omittedSource
<1>. DEFINE e == <<>>
            none == {}
<1>1. e \in Links /\ e \in Tables /\ e \in Documents
  BY NothingIs
<1>2. PICK no \in BOOLEAN : no = FALSE
  OBVIOUS
<1>3. x = [format |-> format, status |-> "unsupported", document |-> no, links |-> e,
           tables |-> e, documents |-> e, data |-> Nil, fields |-> none, failures |-> 0,
           usage |-> no, omitted |-> 0, omittedSource |-> no]
  BY <1>2, Zenon DEF EmptyExtraction
<1>4. none \in {FieldsOf(d) : d \in Datas} \cup {{}} /\ Nil \in Datas \cup {Nil}
  OBVIOUS
<1>5. 0 \in 0..MaxFailures
  BY StructuredConstants
<1>. DEFINE F == {FieldsOf(d) : d \in Datas} \cup {{}}
            D == Datas \cup {Nil}
<1>. HIDE DEF e, none, F, D
<1>6. x \in Extraction
  <2>1. "unsupported" \in Statuses
    BY DEF Statuses
  <2>2. none \in F /\ Nil \in D
    BY <1>4 DEF F, D
  <2>3. x \in [format: Formats, status: Statuses, document: BOOLEAN, links: Links, tables: Tables,
               documents: Documents, data: D, fields: F,
               failures: 0..MaxFailures, usage: BOOLEAN, omitted: Nat, omittedSource: BOOLEAN]
    BY <1>1, <1>3, <1>5, <2>1, <2>2
  <2>. QED BY <2>3 DEF Extraction, F, D
<1>7. /\ x.format = format /\ x.status = "unsupported"
      /\ x.links = e /\ x.tables = e /\ x.documents = e
      /\ x.data = Nil /\ x.fields = none /\ x.failures = 0 /\ x.omitted = 0
  BY <1>3
<1>8. x.document = no /\ x.usage = no /\ x.omittedSource = no
  BY <1>3
<1>9. ~x.document /\ ~x.usage /\ ~x.omittedSource
  BY <1>2, <1>8, Zenon
<1>. QED BY <1>6, <1>7, <1>9 DEF e, none

LEMMA EmptyIsRight ==
  ASSUME NEW format \in Formats, NEW x, x = EmptyExtraction(format), NEW j, NEW s
  PROVE  Right(x, j, s)
<1>1. /\ x \in Extraction /\ x.format = format /\ x.status = "unsupported"
      /\ x.links = <<>> /\ x.tables = <<>> /\ x.documents = <<>>
      /\ x.data = Nil /\ x.fields = {} /\ x.failures = 0 /\ x.omitted = 0
      /\ ~x.document /\ ~x.usage /\ ~x.omittedSource
  BY EmptyIs
<1>2. TableCells(x) = 0
  <2>1. CellsIn(x.tables) = 0
    BY <1>1, NothingIs
  <2>. QED BY <2>1 DEF CellsIn, TableCells
<1>3. TableCells(x) <= MaxCells
  BY <1>2, HtmlConstants
<1>4. x.status \in {"unsupported", "ok", "empty", "truncated"} /\ x.status \notin {"ok", "empty"}
  BY <1>1
<1>5. FromHtml(x) /\ Counted(x, s)
  BY <1>1, <1>3, <1>4, Zenon DEF FromHtml, Counted
<1>6. FromModel(x, j)
  BY <1>1, Zenon DEF FromModel, Refused
<1>. QED BY <1>1, <1>5, <1>6, Zenon DEF Right

\* _collection_status.
LEMMA StatusIs ==
  ASSUME NEW cut, NEW populated, NEW st, st = CollectionStatus(cut, populated)
  PROVE  /\ st \in {"unsupported", "ok", "empty", "truncated"} /\ st \in Statuses
         /\ st # "unsupported" /\ (st \in {"ok", "empty"} => ~cut)
<1>1. CASE cut
  <2>1. st = "truncated"
    BY <1>1, Zenon DEF CollectionStatus
  <2>. QED BY <2>1 DEF Statuses
<1>2. CASE ~cut
  <2>1. st = "ok" \/ st = "empty"
    BY <1>2, Zenon DEF CollectionStatus
  <2>. QED BY <1>2, <2>1 DEF Statuses
<1>. QED BY <1>1, <1>2

\* _structured_result: what was taken from a page that was read to its end.
AtEnd(p, l, n, s) ==
  /\ Fine(p, n, s.links, s.cells) /\ p.activeLinks = <<>> /\ p.activeTables = <<>>
  /\ LdOK(l, s.documents)
LEMMA ResultIsRight ==
  ASSUME NEW n \in Nat, NEW p, NEW l, NEW s \in [links: Nat, cells: Nat, documents: Nat, crowded: Nat],
         AtEnd(p, l, n, s), NEW left \in BOOLEAN, NEW malformed \in BOOLEAN,
         NEW format \in Formats, NEW j, NEW x, x = StructuredResult(format, p, l, left, malformed)
  PROVE  Right(x, j, s) /\ x.format = format
<1>0. /\ Fine(p, n, s.links, s.cells) /\ p.activeLinks = <<>> /\ p.activeTables = <<>>
      /\ LdOK(l, s.documents)
  BY DEF AtEnd
<1>. DEFINE e == EmptyExtraction(format)
<1>1. /\ e \in Extraction /\ e.format = format
      /\ e.links = <<>> /\ e.tables = <<>> /\ e.documents = <<>>
      /\ e.data = Nil /\ e.fields = {} /\ e.failures = 0 /\ ~e.usage
  BY EmptyIs
<1>2. PICK yes \in BOOLEAN : yes = TRUE
  OBVIOUS
<1>3. p \in Parser(n) /\ LinksOK(p, s.links) /\ CellsOK(p, s.cells)
  BY <1>0 DEF Fine
<1>4. /\ p.links \in Links /\ Len(p.links) \in Nat /\ p.omittedLinks \in Nat
      /\ p.tables \in Tables /\ p.omittedTables \in Nat
  <2>1. p.links \in Links /\ p.omittedLinks \in Nat /\ p.tables \in Tables /\ p.omittedTables \in Nat
    BY <1>3 DEF Parser
  <2>. QED BY <1>3, <2>1, ActiveLinkIs
<1>5. CASE format = "links"
  <2>. DEFINE st == CollectionStatus(left \/ p.linksTruncated \/ malformed, p.links # <<>>)
  <2>1. x = [e EXCEPT !.document = yes, !.omittedSource = left, !.links = p.links,
                      !.omitted = p.omittedLinks, !.status = st]
    BY <1>2, <1>5, Zenon DEF StructuredResult
  <2>2. /\ st \in {"unsupported", "ok", "empty", "truncated"} /\ st \in Statuses
        /\ st # "unsupported"
        /\ (st \in {"ok", "empty"} => ~(left \/ p.linksTruncated \/ malformed))
    BY StatusIs, Zenon
  <2>. HIDE DEF st, e
  <2>3. x \in Extraction
    BY <1>1, <1>4, <2>1, <2>2 DEF Extraction
  <2>4. /\ x.format = format /\ x.links = p.links /\ x.tables = e.tables
        /\ x.documents = e.documents /\ x.data = e.data /\ x.fields = e.fields
        /\ x.failures = e.failures /\ x.omitted = p.omittedLinks /\ x.status = st
    BY <1>1, <2>1 DEF Extraction
  <2>5. x.document = yes /\ x.omittedSource = left /\ x.usage = e.usage
    BY <1>1, <2>1 DEF Extraction
  <2>6. Len(x.links) + x.omitted = s.links
    <3>1. Waiting(p.activeLinks) = 0
      BY <1>0, <1>3, ActiveLinkIs
    <3>2. Len(p.links) + p.omittedLinks + Waiting(p.activeLinks) = s.links
      BY <1>3 DEF LinksOK
    <3>. QED BY <1>4, <2>4, <3>1, <3>2
  <2>7. st \in {"ok", "empty"} => x.omitted = 0
    <3>1. ~p.linksTruncated => ~(p.omittedLinks > 0)
      BY <1>3, Zenon DEF LinksOK
    <3>2. ~(p.omittedLinks > 0) => p.omittedLinks = 0
      BY <1>4
    <3>. QED BY <2>2, <2>4, <3>1, <3>2, Zenon
  <2>8. TableCells(x) <= MaxCells
    <3>1. CellsIn(x.tables) = 0
      BY <1>1, <2>4, NothingIs
    <3>2. MaxCells \in Nat
      BY HtmlConstants
    <3>. QED BY <3>1, <3>2 DEF TableCells, CellsIn
  <2>9. /\ x.data = Nil /\ x.fields = {} /\ x.failures = 0
        /\ x.tables = <<>> /\ x.documents = <<>> /\ x.format = "links"
    BY <1>1, <1>5, <2>4
  <2>10. ~x.usage /\ x.document /\ (st \in {"ok", "empty"} => ~x.omittedSource)
    BY <1>1, <1>2, <2>2, <2>5, Zenon
  <2>11. FromHtml(x)
    BY <2>2, <2>4, <2>7, <2>8, <2>9, <2>10, Zenon DEF FromHtml
  <2>12. "links" # "json_schema" /\ "links" # "tables" /\ "links" # "json_ld"
    OBVIOUS
  <2>13. Counted(x, s)
    BY <2>6, <2>9, <2>12, Zenon DEF Counted
  <2>. QED BY <1>5, <2>3, <2>9, <2>11, <2>12, <2>13, Zenon DEF Right
<1>6. CASE format = "tables"
  <2>. DEFINE st == CollectionStatus(left \/ p.tablesTruncated \/ malformed, p.tables # <<>>)
  <2>1. x = [e EXCEPT !.document = yes, !.omittedSource = left, !.tables = p.tables,
                      !.omitted = p.omittedTables, !.status = st]
    <3>1. format # "links"
      BY <1>6
    <3>. QED BY <1>2, <1>6, <3>1, Zenon DEF StructuredResult
  <2>2. /\ st \in {"unsupported", "ok", "empty", "truncated"} /\ st \in Statuses
        /\ st # "unsupported"
        /\ (st \in {"ok", "empty"} => ~(left \/ p.tablesTruncated \/ malformed))
    BY StatusIs, Zenon
  <2>. HIDE DEF st, e
  <2>3. x \in Extraction
    BY <1>1, <1>4, <2>1, <2>2 DEF Extraction
  <2>4. /\ x.format = format /\ x.links = e.links /\ x.tables = p.tables
        /\ x.documents = e.documents /\ x.data = e.data /\ x.fields = e.fields
        /\ x.failures = e.failures /\ x.omitted = p.omittedTables /\ x.status = st
    BY <1>1, <2>1 DEF Extraction
  <2>5. x.document = yes /\ x.omittedSource = left /\ x.usage = e.usage
    BY <1>1, <2>1 DEF Extraction
  <2>6. TableCells(x) = TableCells(p) /\ TableCells(p) \in Nat /\ TableCells(x) <= MaxCells
        /\ TableCells(x) + x.omitted = s.cells
    <3>1. TableCells(x) = TableCells(p)
      BY <2>4 DEF TableCells
    <3>2. TableCells(p) \in Nat
      BY <1>4, CellsOfTables DEF TableCells, CellsIn, Tables
    <3>3. p.activeTables \in Seq(OpenTable(n))
      BY <1>3 DEF Parser
    <3>4. Kept(p.activeTables) = 0 /\ Open(p.activeTables) = 0
      BY <1>0, <3>3, KeptAndOpen
    <3>5. /\ p.cells = TableCells(p) + Kept(p.activeTables) /\ p.cells <= MaxCells
          /\ p.cells + p.omittedTables + Open(p.activeTables) = s.cells
      BY <1>3 DEF CellsOK
    <3>. QED BY <1>4, <2>4, <3>1, <3>2, <3>4, <3>5
  <2>7. st \in {"ok", "empty"} => x.omitted = 0
    <3>1. ~p.tablesTruncated => ~(p.omittedTables > 0)
      BY <1>3, Zenon DEF CellsOK, Told
    <3>2. ~(p.omittedTables > 0) => p.omittedTables = 0
      BY <1>4
    <3>. QED BY <2>2, <2>4, <3>1, <3>2, Zenon
  <2>9. /\ x.data = Nil /\ x.fields = {} /\ x.failures = 0
        /\ x.links = <<>> /\ x.documents = <<>> /\ x.format = "tables"
    BY <1>1, <1>6, <2>4
  <2>10. ~x.usage /\ x.document /\ (st \in {"ok", "empty"} => ~x.omittedSource)
    BY <1>1, <1>2, <2>2, <2>5, Zenon
  <2>11. FromHtml(x)
    BY <2>2, <2>4, <2>6, <2>7, <2>9, <2>10, Zenon DEF FromHtml
  <2>12. "tables" # "json_schema" /\ "tables" # "links" /\ "tables" # "json_ld"
    OBVIOUS
  <2>13. Counted(x, s)
    BY <2>6, <2>9, <2>12, Zenon DEF Counted
  <2>. QED BY <1>6, <2>3, <2>9, <2>11, <2>12, <2>13, Zenon DEF Right
<1>7. CASE format = "json_ld"
  <2>. DEFINE st == CollectionStatus(left \/ l.truncated, l.documents # <<>>)
  <2>1. x = [e EXCEPT !.document = yes, !.omittedSource = left, !.documents = l.documents,
                      !.omitted = l.omitted, !.status = st]
    <3>1. format # "links" /\ format # "tables"
      BY <1>7
    <3>. QED BY <1>2, <1>7, <3>1, Zenon DEF StructuredResult
  <2>2. /\ st \in {"unsupported", "ok", "empty", "truncated"} /\ st \in Statuses
        /\ st # "unsupported" /\ (st \in {"ok", "empty"} => ~(left \/ l.truncated))
    BY StatusIs, Zenon
  <2>. HIDE DEF st, e
  <2>3. l.documents \in Documents /\ l.omitted \in Nat /\ Len(l.documents) \in Nat
    <3>1. l.documents \in Documents /\ l.omitted \in Nat
      BY <1>0 DEF LdOK, LdParser
    <3>. QED BY <3>1, LenProperties DEF Documents
  <2>4. x \in Extraction
    BY <1>1, <2>1, <2>2, <2>3 DEF Extraction
  <2>5. /\ x.format = format /\ x.links = e.links /\ x.tables = e.tables
        /\ x.documents = l.documents /\ x.data = e.data /\ x.fields = e.fields
        /\ x.failures = e.failures /\ x.omitted = l.omitted /\ x.status = st
    BY <1>1, <2>1 DEF Extraction
  <2>6. x.document = yes /\ x.omittedSource = left /\ x.usage = e.usage
    BY <1>1, <2>1 DEF Extraction
  <2>7. st \in {"ok", "empty"} => x.omitted = 0 /\ Len(l.documents) >= s.documents
    BY <1>0, <2>2, <2>5, Zenon DEF LdOK
  <2>8. st \in {"ok", "empty"} => Len(x.documents) + x.omitted >= s.documents
    BY <2>3, <2>5, <2>7
  <2>9. TableCells(x) <= MaxCells
    <3>1. CellsIn(x.tables) = 0
      BY <1>1, <2>5, NothingIs
    <3>2. MaxCells \in Nat
      BY HtmlConstants
    <3>. QED BY <3>1, <3>2 DEF TableCells, CellsIn
  <2>10. /\ x.data = Nil /\ x.fields = {} /\ x.failures = 0
         /\ x.links = <<>> /\ x.tables = <<>> /\ x.format = "json_ld"
    BY <1>1, <1>7, <2>5
  <2>11. ~x.usage /\ x.document /\ (st \in {"ok", "empty"} => ~x.omittedSource)
    BY <1>1, <1>2, <2>2, <2>6, Zenon
  <2>12. FromHtml(x)
    BY <2>2, <2>5, <2>7, <2>9, <2>10, <2>11, Zenon DEF FromHtml
  <2>13. "json_ld" # "json_schema" /\ "json_ld" # "links" /\ "json_ld" # "tables"
    OBVIOUS
  <2>14. Counted(x, s)
    BY <2>5, <2>8, <2>10, <2>13, Zenon DEF Counted
  <2>. QED BY <1>7, <2>4, <2>10, <2>12, <2>13, <2>14, Zenon DEF Right
<1>8. CASE format = "json_schema"
  <2>1. x = e
    <3>1. format # "links" /\ format # "tables" /\ format # "json_ld"
      BY <1>8
    <3>. QED BY <3>1, Zenon DEF StructuredResult
  <2>. QED BY <1>1, <2>1, EmptyIsRight
<1>. QED BY <1>5, <1>6, <1>7, <1>8 DEF Formats

-----------------------------------------------------------------------------
(* The answer of the model.                                                *)

\* What a function makes of a finite set is finite, and not more.
LEMMA ImageIsFinite ==
  ASSUME NEW S, IsFiniteSet(S), NEW f, DOMAIN f = S, NEW T, T = {f[a] : a \in S}
  PROVE  IsFiniteSet(T) /\ Cardinality(T) <= Cardinality(S)
<1>1. \E g : g \in Surjection(S, T)
  <2>. DEFINE g == [a \in S |-> f[a]]
  <2>1. g \in Surjection(S, T)
    BY DEF Surjection
  <2>. QED BY <2>1
<1>2. PICK g : g \in Surjection(S, T)
  BY <1>1
<1>. QED BY <1>2, FS_Surjection

\* A request, and an answer.
LEMMA RequestIs ==
  ASSUME NEW j \in Jobs
  PROVE  /\ j.formats \in Seq(Formats) /\ j.tokens \subseteq Token /\ j.blocks \subseteq JsonBlock
         /\ IsFiniteSet(j.schema.required) /\ j.text \in Seq(STRING)
         /\ \A n \in DOMAIN j.schema.properties : j.schema.properties[n].type \in SchemaTypes
BY JobsAreRequests

LEMMA AnswerIs ==
  ASSUME NEW r \in ModelReplies
  PROVE  /\ r.data # Nil /\ IsFiniteSet(DOMAIN r.data)
         /\ \A n \in DOMAIN r.data : r.data[n] \in Value
         /\ \A path \in DOMAIN r.evidence : r.evidence[path] \in Seq(STRING)
BY RepliesAreObjects

\* The leaves of an answer are finite,
LEMMA PathsAreFinite ==
  ASSUME NEW r \in ModelReplies
  PROVE  IsFiniteSet(Paths(r.data))
<1>. DEFINE D == DOMAIN r.data
            At(name) == {<<name, i>> : i \in DOMAIN r.data[name].leaves}
            f == [name \in D |-> At(name)]
            S == {f[name] : name \in D}
<1>1. IsFiniteSet(D) /\ \A name \in D : r.data[name] \in Value
  BY AnswerIs
<1>2. \A name \in D : IsFiniteSet(At(name))
  <2>. TAKE name \in D
  <2>. DEFINE I == DOMAIN r.data[name].leaves
              g == [i \in I |-> <<name, i>>]
  <2>1. IsFiniteSet(I)
    <3>1. \E T : r.data[name].leaves \in Seq(T)
      BY <1>1 DEF Value
    <3>2. I = 1..Len(r.data[name].leaves) /\ Len(r.data[name].leaves) \in Nat
      BY <3>1, LenProperties
    <3>. QED BY <3>2, FS_Interval
  <2>2. DOMAIN g = I /\ At(name) = {g[i] : i \in I}
    OBVIOUS
  <2>. HIDE DEF I, g, At
  <2>. QED BY <2>1, <2>2, ImageIsFinite
<1>3. DOMAIN f = D
  OBVIOUS
<1>4. IsFiniteSet(S)
  <2>. HIDE DEF f
  <2>1. S = {f[a] : a \in D}
    OBVIOUS
  <2>. HIDE DEF S, D
  <2>. QED BY <1>1, <1>3, <2>1, ImageIsFinite
<1>5. \A X \in S : IsFiniteSet(X)
  BY <1>2
<1>6. Paths(r.data) = UNION S
  BY DEF Paths
<1>. HIDE DEF S
<1>. QED BY <1>4, <1>5, <1>6, FS_UNION

\* and so are its fields
LEMMA FieldsAreFinite ==
  ASSUME NEW r \in ModelReplies
  PROVE  /\ Cardinality(FieldsOf(r.data)) \in Nat /\ Cardinality(Paths(r.data)) \in Nat
         /\ Cardinality(FieldsOf(r.data)) <= Cardinality(Paths(r.data))
<1>. DEFINE P == Paths(r.data)
            f == FieldsOf(r.data)
            g == [p \in P |-> [path |-> p, text |-> Leaf(r.data, p).text]]
<1>1. DOMAIN g = P /\ f = {g[p] : p \in P}
  BY DEF FieldsOf
<1>2. IsFiniteSet(P)
  BY PathsAreFinite
<1>. HIDE DEF P, f, g
<1>3. IsFiniteSet(f) /\ Cardinality(f) <= Cardinality(P)
  BY <1>1, <1>2, ImageIsFinite
<1>4. Cardinality(f) \in Nat /\ Cardinality(P) \in Nat
  BY <1>2, <1>3, FS_CardinalityType
<1>. QED BY <1>3, <1>4 DEF f, P

\* and what is wrong about them.
LEMMA MismatchesAreFinite ==
  ASSUME NEW r \in ModelReplies, NEW j \in Jobs
  PROVE  IsFiniteSet(Mismatches(j.schema, r.data))
<1>. DEFINE s == j.schema
            d == r.data
            A == s.required \ DOMAIN d
            B == DOMAIN d \ DOMAIN s.properties
            C == {n \in DOMAIN d \cap DOMAIN s.properties : d[n].array # s.properties[n].array}
            P == {q \in Paths(d) : /\ q[1] \in DOMAIN s.properties
                                   /\ d[q[1]].array = s.properties[q[1]].array
                                   /\ Leaf(d, q).type # s.properties[q[1]].type}
            f == [n \in A |-> [path |-> n, code |-> "required_missing"]]
            g == [n \in B |-> [path |-> n, code |-> "additional_property"]]
            h == [n \in C |-> [path |-> n, code |-> "type_mismatch"]]
            k == [n \in P |-> [path |-> n, code |-> "type_mismatch"]]
            F == {f[n] : n \in A}
            G == {g[n] : n \in B}
            H == {h[n] : n \in C}
            K == {k[n] : n \in P}
<1>1. IsFiniteSet(A) /\ IsFiniteSet(B) /\ IsFiniteSet(C) /\ IsFiniteSet(P)
  <2>1. IsFiniteSet(s.required) /\ IsFiniteSet(DOMAIN d) /\ IsFiniteSet(Paths(d))
    BY RequestIs, AnswerIs, PathsAreFinite
  <2>2. A \in SUBSET s.required /\ B \in SUBSET DOMAIN d /\ C \in SUBSET DOMAIN d
        /\ P \in SUBSET Paths(d)
    OBVIOUS
  <2>. HIDE DEF A, B, C, P, s, d
  <2>. QED BY <2>1, <2>2, FS_Subset
<1>2. DOMAIN f = A /\ DOMAIN g = B /\ DOMAIN h = C /\ DOMAIN k = P
  OBVIOUS
<1>3. Mismatches(s, d) = F \cup G \cup H \cup K
  BY DEF Mismatches
<1>. HIDE DEF A, B, C, P, f, g, h, k, s, d
<1>4. IsFiniteSet(F) /\ IsFiniteSet(G) /\ IsFiniteSet(H) /\ IsFiniteSet(K)
  BY <1>1, <1>2, ImageIsFinite
<1>. HIDE DEF F, G, H, K
<1>5. IsFiniteSet(F \cup G)
  BY <1>4, FS_Union
<1>6. IsFiniteSet((F \cup G) \cup H)
  BY <1>4, <1>5, FS_Union
<1>7. IsFiniteSet(((F \cup G) \cup H) \cup K)
  BY <1>4, <1>6, FS_Union
<1>. QED BY <1>3, <1>7 DEF s, d

\* _validated_schema_extraction counts the failures,
LEMMA VerdictIs ==
  ASSUME NEW r \in ModelReplies, NEW j \in Jobs
  PROVE  /\ Verdict(j.schema, r, j.text) \in Nat
         /\ Verdict(j.schema, r, j.text) = 0 =>
              /\ Mismatches(j.schema, r.data) = {} /\ Ungrounded(r, j.text) = {}
              /\ Cardinality(Paths(r.data)) <= MaxFields
<1>. DEFINE M == Mismatches(j.schema, r.data)
            U == Ungrounded(r, j.text)
            P == Paths(r.data)
<1>1. IsFiniteSet(M) /\ IsFiniteSet(P)
  BY MismatchesAreFinite, PathsAreFinite
<1>2. U \in SUBSET P
  BY DEF Ungrounded
<1>3. Verdict(j.schema, r, j.text)
        = Cardinality(M) + Cardinality(U) + IF Cardinality(P) > MaxFields THEN 1 ELSE 0
  BY DEF Verdict
<1>4. MaxFields \in Nat
  BY StructuredConstants
<1>. HIDE DEF M, U, P
<1>5. IsFiniteSet(U)
  BY <1>1, <1>2, FS_Subset
<1>6. Cardinality(M) \in Nat /\ Cardinality(U) \in Nat /\ Cardinality(P) \in Nat
  BY <1>1, <1>5, FS_CardinalityType
<1>7. (Cardinality(M) = 0 => M = {}) /\ (Cardinality(U) = 0 => U = {})
  BY <1>1, <1>5, FS_EmptySet
<1>8. Verdict(j.schema, r, j.text) = 0 =>
        Cardinality(M) = 0 /\ Cardinality(U) = 0 /\ Cardinality(P) <= MaxFields
  BY <1>3, <1>4, <1>6
<1>9. Verdict(j.schema, r, j.text) \in Nat
  BY <1>3, <1>6
<1>. QED BY <1>7, <1>8, <1>9 DEF M, U, P

\* and where there is none, every leaf is on the page.
LEMMA LeavesAreThere ==
  ASSUME NEW r \in ModelReplies, NEW j \in Jobs, Mismatches(j.schema, r.data) = {},
         Ungrounded(r, j.text) = {}, NEW path \in Paths(r.data)
  PROVE  Leaf(r.data, path).text \in WordsOf(j.text)
<1>. DEFINE s == j.schema
            d == r.data
            leaf == Leaf(d, path)
            e == r.evidence[path]
<1>1. path[1] \in DOMAIN d
  BY DEF Paths
<1>2. path[1] \in DOMAIN s.properties
  <2>1. path[1] \notin DOMAIN s.properties =>
          [path |-> path[1], code |-> "additional_property"] \in Mismatches(s, d)
    BY <1>1 DEF Mismatches
  <2>. QED BY <2>1
<1>3. d[path[1]].array = s.properties[path[1]].array
  <2>1. d[path[1]].array # s.properties[path[1]].array =>
          [path |-> path[1], code |-> "type_mismatch"] \in Mismatches(s, d)
    BY <1>1, <1>2 DEF Mismatches
  <2>. QED BY <2>1
<1>4. leaf.type = s.properties[path[1]].type
  <2>1. leaf.type # s.properties[path[1]].type =>
          [path |-> path, code |-> "type_mismatch"] \in Mismatches(s, d)
    BY <1>2, <1>3 DEF Mismatches
  <2>. QED BY <2>1
<1>5. leaf.type # "null"
  <2>1. s.properties[path[1]].type \in SchemaTypes
    BY <1>2, RequestIs
  <2>. QED BY <1>4, <2>1 DEF SchemaTypes
<1>6. /\ path \in DOMAIN r.evidence /\ Occurrences(e, j.text) # {} /\ Supports(e, leaf)
  BY <1>5, Zenon DEF Ungrounded
<1>7. leaf.text \in WordsOf(e)
  BY <1>6, Zenon DEF Supports
<1>8. e \in Seq(STRING) /\ j.text \in Seq(STRING)
  BY <1>6, AnswerIs, RequestIs
<1>. HIDE DEF leaf, e
<1>9. WordsOf(e) \subseteq WordsOf(j.text)
  <2>. DEFINE t == j.text
  <2>1. /\ Len(e) \in Nat /\ DOMAIN e = 1..Len(e) /\ Len(t) \in Nat /\ DOMAIN t = 1..Len(t)
        /\ \A i \in 1..Len(t) : t[i] \in STRING
    BY <1>8, LenProperties, ElementOfSeq
  <2>2. PICK i \in 0..(Len(t) - Len(e)) : SubSeq(t, i + 1, i + Len(e)) = e
    BY <1>6 DEF Occurrences
  <2>. HIDE DEF t
  <2>3. ASSUME NEW k \in 1..Len(e) PROVE e[k] \in WordsOf(t)
    <3>1. /\ i + 1 \in Int /\ i + Len(e) \in Int /\ i + k \in 1..Len(t)
          /\ \A m \in (i + 1)..(i + Len(e)) : m \in 1..Len(t)
          /\ (i + Len(e)) - (i + 1) + 1 = Len(e) /\ (i + 1) + k - 1 = i + k
      BY <2>1
    <3>2. \A m \in (i + 1)..(i + Len(e)) : t[m] \in STRING
      BY <2>1, <3>1
    <3>3. SubSeq(t, i + 1, i + Len(e))[k] = t[i + k]
      <4>. DEFINE a == i + 1
                  c == i + Len(e)
      <4>1. /\ a \in Int /\ c \in Int /\ \A m \in a..c : t[m] \in STRING
            /\ k \in 1..c - a + 1 /\ a + k - 1 = i + k
        BY <2>1, <3>1, <3>2
      <4>. HIDE DEF a, c
      <4>2. SubSeq(t, a, c)[k] = t[a + k - 1]
        BY <4>1, SubSeqProperties
      <4>. QED BY <4>1, <4>2 DEF a, c
    <3>4. e[k] = t[i + k]
      BY <2>2, <3>1, <3>3
    <3>. QED BY <2>1, <3>1, <3>4 DEF WordsOf
  <2>. QED BY <2>1, <2>3 DEF WordsOf, t
<1>. QED BY <1>7, <1>9 DEF leaf

\* The model may fail,
LEMMA FailureIsRight ==
  ASSUME NEW reason, NEW x, x = ModelFailure(reason), NEW j, NEW s
  PROVE  Right(x, j, s) /\ x.format = "json_schema"
<1>. DEFINE e == EmptyExtraction("json_schema")
            st == IF reason = "model_unavailable" THEN "unsupported" ELSE "model_failed"
<1>1. /\ e \in Extraction /\ e.format = "json_schema"
      /\ e.links = <<>> /\ e.tables = <<>> /\ e.documents = <<>>
      /\ e.data = Nil /\ e.fields = {}
  <2>1. "json_schema" \in Formats
    BY DEF Formats
  <2>. QED BY <2>1, EmptyIs
<1>2. PICK yes \in BOOLEAN : yes = TRUE
  OBVIOUS
<1>3. PICK told \in BOOLEAN : told = (reason # "model_unavailable")
  OBVIOUS
<1>4. x = [e EXCEPT !.status = st, !.document = told, !.failures = 1, !.usage = yes]
  BY <1>2, <1>3, Zenon DEF ModelFailure
<1>5. 1 \in 0..MaxFailures /\ st \in Statuses
  BY StructuredConstants DEF Statuses
<1>6. (st = "unsupported" /\ ~told) \/ (st = "model_failed" /\ told)
  BY <1>3
<1>. HIDE DEF st, e
<1>7. x \in Extraction
  BY <1>1, <1>4, <1>5 DEF Extraction
<1>8. /\ x.format = e.format /\ x.links = e.links /\ x.tables = e.tables
      /\ x.documents = e.documents /\ x.data = e.data /\ x.fields = e.fields
      /\ x.failures = 1 /\ x.status = st
  BY <1>1, <1>4 DEF Extraction
<1>9. x.document = told
  BY <1>1, <1>4 DEF Extraction
<1>10. x.failures > 0 /\ (st = "model_failed" => st \in {"validation_failed", "model_failed"})
  BY <1>8
<1>11. Refused(x)
  BY <1>1, <1>6, <1>8, <1>9, <1>10, Zenon DEF Refused
<1>12. FromModel(x, j)
  BY <1>1, <1>8, <1>11, Zenon DEF FromModel
<1>. QED BY <1>1, <1>7, <1>8, <1>12, Zenon DEF Right

\* and what it says is handed out if it is proven, and refused as a whole otherwise.
LEMMA ValidatedIsRight ==
  ASSUME NEW r \in ModelReplies, NEW j \in Jobs, NEW x, x = Validated(j.schema, r, j.text), NEW s
  PROVE  Right(x, j, s) /\ x.format = "json_schema"
<1>. DEFINE e == EmptyExtraction("json_schema")
            v == Verdict(j.schema, r, j.text)
            w == Min({v, MaxFailures})
            f == FieldsOf(r.data)
<1>1. /\ e \in Extraction /\ e.format = "json_schema"
      /\ e.links = <<>> /\ e.tables = <<>> /\ e.documents = <<>>
      /\ e.data = Nil /\ e.fields = {}
  <2>1. "json_schema" \in Formats
    BY DEF Formats
  <2>. QED BY <2>1, EmptyIs
<1>2. PICK yes \in BOOLEAN : yes = TRUE
  OBVIOUS
<1>3. v \in Nat /\ (v = 0 => /\ Mismatches(j.schema, r.data) = {} /\ Ungrounded(r, j.text) = {}
                             /\ Cardinality(Paths(r.data)) <= MaxFields)
  BY VerdictIs
<1>4. w \in 0..MaxFailures /\ (v = 0 => w = 0) /\ (v > 0 => w > 0)
  <2>1. MaxFailures \in Nat \ {0}
    BY StructuredConstants
  <2>. HIDE DEF v
  <2>2. w = IF v <= MaxFailures THEN v ELSE MaxFailures
    BY <1>3, <2>1, SmallerAndLarger
  <2>. QED BY <1>3, <2>1, <2>2
<1>5. CASE v > 0
  <2>1. x = [e EXCEPT !.document = yes, !.usage = yes, !.failures = w, !.status = "validation_failed"]
    BY <1>2, <1>5, Zenon DEF Validated
  <2>2. "validation_failed" \in Statuses
    BY DEF Statuses
  <2>. HIDE DEF e, w, v
  <2>3. x \in Extraction
    BY <1>1, <1>4, <2>1, <2>2 DEF Extraction
  <2>4. /\ x.format = e.format /\ x.links = e.links /\ x.tables = e.tables
        /\ x.documents = e.documents /\ x.data = e.data /\ x.fields = e.fields
        /\ x.failures = w /\ x.status = "validation_failed"
    BY <1>1, <2>1 DEF Extraction
  <2>5. x.document = yes
    BY <1>1, <2>1 DEF Extraction
  <2>6. x.failures > 0 /\ x.status \in {"validation_failed", "model_failed"}
    BY <1>4, <1>5, <2>4
  <2>7. Refused(x)
    BY <1>1, <1>2, <2>4, <2>5, <2>6, Zenon DEF Refused
  <2>8. FromModel(x, j)
    BY <1>1, <2>4, <2>7, Zenon DEF FromModel
  <2>. QED BY <1>1, <2>3, <2>4, <2>8, Zenon DEF Right
<1>6. CASE ~(v > 0)
  <2>1. v = 0
    BY <1>3, <1>6
  <2>2. x = [e EXCEPT !.document = yes, !.usage = yes, !.failures = w, !.status = "ok",
                      !.data = r.data, !.fields = f]
    BY <1>2, <1>6, Zenon DEF Validated, FieldsOf
  <2>3. r.data \in Datas /\ f \in {FieldsOf(d) : d \in Datas} /\ "ok" \in Statuses
    BY DEF Datas, Statuses
  <2>. DEFINE F == {FieldsOf(d) : d \in Datas} \cup {{}}
              D == Datas \cup {Nil}
  <2>4. r.data \in D /\ f \in F
    BY <2>3
  <2>. HIDE DEF e, w, v, F, D, f
  <2>5. e \in [format: Formats, status: Statuses, document: BOOLEAN, links: Links, tables: Tables,
               documents: Documents, data: D, fields: F,
               failures: 0..MaxFailures, usage: BOOLEAN, omitted: Nat, omittedSource: BOOLEAN]
    BY <1>1 DEF Extraction, F, D
  <2>6. x \in [format: Formats, status: Statuses, document: BOOLEAN, links: Links, tables: Tables,
               documents: Documents, data: D, fields: F,
               failures: 0..MaxFailures, usage: BOOLEAN, omitted: Nat, omittedSource: BOOLEAN]
    BY <1>4, <2>2, <2>3, <2>4, <2>5
  <2>7. x \in Extraction
    BY <2>6 DEF Extraction, F, D
  <2>8. /\ x.format = e.format /\ x.links = e.links /\ x.tables = e.tables
        /\ x.documents = e.documents /\ x.data = r.data /\ x.fields = f
        /\ x.failures = w /\ x.status = "ok"
    BY <2>2, <2>5
  <2>9. x.document = yes
    BY <2>2, <2>5
  <2>10. Cardinality(f) <= MaxFields
    <3>1. /\ Cardinality(f) \in Nat /\ Cardinality(Paths(r.data)) \in Nat /\ MaxFields \in Nat
          /\ Cardinality(f) <= Cardinality(Paths(r.data))
      BY FieldsAreFinite, StructuredConstants DEF f
    <3>2. Cardinality(Paths(r.data)) <= MaxFields
      BY <1>3, <2>1
    <3>. QED BY ONLY <3>1, <3>2
  <2>11. \A field \in f : field.text \in WordsOf(j.text)
    <3>1. \A path \in Paths(r.data) : Leaf(r.data, path).text \in WordsOf(j.text)
      BY <1>3, <2>1, LeavesAreThere
    <3>. QED BY <3>1 DEF f, FieldsOf
  <2>12. r.data # Nil
    BY AnswerIs
  <2>13. w = 0
    BY <1>4, <2>1
  <2>14. Proven(x, j)
    BY <1>2, <1>3, <2>1, <2>8, <2>9, <2>10, <2>11, <2>12, <2>13, Zenon DEF Proven, f
  <2>15. FromModel(x, j)
    BY <1>1, <2>8, <2>14, Zenon DEF FromModel
  <2>. QED BY <1>1, <2>7, <2>8, <2>15, Zenon DEF Right
<1>. QED BY <1>5, <1>6

-----------------------------------------------------------------------------
(* Bounding the response.                                                  *)

Shorter(y, x, n) ==
  /\ y \in Extraction /\ y.status = "truncated" /\ y.omitted = x.omitted + n
  /\ y.format = x.format /\ y.links = x.links /\ y.tables = x.tables
  /\ y.documents = x.documents /\ y.data = x.data /\ y.fields = x.fields
  /\ y.failures = x.failures
  /\ y.document = x.document /\ y.usage = x.usage
LEMMA CutIs ==
  ASSUME NEW x \in Extraction, NEW n \in Nat
  PROVE  Shorter(Cut(x, n), x, n)
<1>. DEFINE y == Cut(x, n)
<1>1. y = [x EXCEPT !.omitted = x.omitted + n, !.status = "truncated"]
  BY Zenon DEF Cut
<1>2. "truncated" \in Statuses /\ x.omitted + n \in Nat
  BY DEF Statuses, Extraction
<1>3. y \in Extraction
  BY <1>1, <1>2 DEF Extraction
<1>4. /\ y.status = "truncated" /\ y.omitted = x.omitted + n
      /\ y.format = x.format /\ y.links = x.links /\ y.tables = x.tables
      /\ y.documents = x.documents /\ y.data = x.data /\ y.fields = x.fields
      /\ y.failures = x.failures
  BY <1>1 DEF Extraction
<1>5. y.document = x.document /\ y.usage = x.usage
  BY <1>1 DEF Extraction
<1>. QED BY <1>3, <1>4, <1>5 DEF Shorter

\* What is left out of what the page has is counted.
LEMMA CutIsRight ==
  ASSUME NEW s \in [links: Nat, cells: Nat, documents: Nat, crowded: Nat], NEW j,
         NEW x \in Extraction, FromHtml(x), Counted(x, s), x.format # "json_schema", x.document,
         NEW u \in Extraction, NEW n \in Nat, NEW y, y = Cut(u, n),
         u.format = x.format, u.data = x.data, u.fields = x.fields, u.failures = x.failures,
         u.document = x.document, u.usage = x.usage, u.omitted = x.omitted,
         u.links # <<>> => x.format = "links", u.tables # <<>> => x.format = "tables",
         u.documents # <<>> => x.format = "json_ld", TableCells(u) <= MaxCells,
         x.format = "links" => Len(x.links) = Len(u.links) + n,
         x.format = "tables" => TableCells(x) = TableCells(u) + n
  PROVE  Right(y, j, s)
<1>1. /\ y \in Extraction /\ y.status = "truncated" /\ y.omitted = u.omitted + n
      /\ y.format = u.format /\ y.links = u.links /\ y.tables = u.tables
      /\ y.documents = u.documents /\ y.data = u.data /\ y.fields = u.fields
      /\ y.failures = u.failures
      /\ y.document = u.document /\ y.usage = u.usage
  <2>1. Shorter(y, u, n)
    BY ONLY u \in Extraction, n \in Nat, y = Cut(u, n), CutIs
  <2>. QED BY <2>1, Zenon DEF Shorter
<1>2. TableCells(y) = TableCells(u)
  BY <1>1 DEF TableCells
<1>3. /\ y.status # "unsupported" /\ y.status \notin {"ok", "empty"}
      /\ y.status \in {"unsupported", "ok", "empty", "truncated"}
  BY <1>1
<1>4. /\ x.data = Nil /\ x.fields = {} /\ x.failures = 0 /\ ~x.usage
  BY Zenon DEF FromHtml
<1>5. FromHtml(y)
  BY <1>1, <1>2, <1>3, <1>4, Zenon DEF FromHtml
<1>6. /\ x.omitted \in Nat /\ Len(u.links) \in Nat /\ TableCells(u) \in Nat
  <2>1. x.omitted \in Nat /\ u.links \in Seq(Cell) /\ u.tables \in Seq(Table)
    BY DEF Extraction, Links, Tables
  <2>2. Len(u.links) \in Nat
    BY <2>1, LenProperties
  <2>3. TableCells(u) \in Nat
    BY <2>1, CellsOfTables DEF TableCells, CellsIn
  <2>. QED BY <2>1, <2>2, <2>3
<1>7. y.format = "links" => Len(y.links) + y.omitted = s.links
  <2>1. ASSUME x.format = "links" PROVE Len(u.links) + (x.omitted + n) = s.links
    <3>1. Len(x.links) + x.omitted = s.links
      BY <2>1, Zenon DEF Counted
    <3>2. Len(x.links) = Len(u.links) + n
      BY <2>1
    <3>. QED BY ONLY <1>6, <3>1, <3>2, n \in Nat
  <2>. QED BY <1>1, <2>1
<1>8. y.format = "tables" => TableCells(y) + y.omitted = s.cells
  <2>1. ASSUME x.format = "tables" PROVE TableCells(u) + (x.omitted + n) = s.cells
    <3>1. TableCells(x) + x.omitted = s.cells
      BY <2>1, Zenon DEF Counted
    <3>2. TableCells(x) = TableCells(u) + n
      BY <2>1
    <3>. QED BY ONLY <1>6, <3>1, <3>2, n \in Nat
  <2>. QED BY <1>1, <1>2, <2>1
<1>9. Counted(y, s)
  BY <1>3, <1>7, <1>8, Zenon DEF Counted
<1>. QED BY <1>1, <1>5, <1>9, Zenon DEF Right

\* One link less,
LEMMA TrimmedLinks ==
  ASSUME NEW s \in [links: Nat, cells: Nat, documents: Nat, crowded: Nat], NEW j,
         NEW x, Right(x, j, s), x.links # <<>>, NEW y, y = Trimmed(x)
  PROVE  Right(y, j, s)
<1>1. x.format # "json_schema"
  BY Zenon DEF Right, FromModel
<1>2. x \in Extraction /\ FromHtml(x) /\ Counted(x, s)
  BY <1>1, Zenon DEF Right
<1>3. x.document /\ x.format = "links"
  BY <1>2, Zenon DEF FromHtml
<1>4. "links" # "tables" /\ "links" # "json_ld"
  OBVIOUS
<1>5. x.tables = <<>> /\ x.documents = <<>>
  BY <1>2, <1>3, <1>4, Zenon DEF FromHtml
<1>. DEFINE u == [x EXCEPT !.links = Front(x.links)]
<1>6. y = Cut(u, 1)
  BY <1>5, Zenon DEF Trimmed
<1>7. /\ x.links \in Seq(Cell) /\ Len(x.links) <= MaxLinks /\ MaxLinks \in Nat
  BY <1>2, HtmlConstants DEF Extraction, Links
<1>8. Front(x.links) \in Seq(Cell) /\ Len(x.links) \in Nat \ {0} /\ Len(Front(x.links)) = Len(x.links) - 1
  BY <1>7, LastLeaves
<1>9. Len(Front(x.links)) <= MaxLinks /\ Len(x.links) = Len(Front(x.links)) + 1
  BY ONLY <1>7, <1>8
<1>10. Front(x.links) \in Links
  BY <1>8, <1>9 DEF Links
<1>11. u \in Extraction
  BY <1>2, <1>10 DEF Extraction
<1>12. /\ u.format = x.format /\ u.links = Front(x.links) /\ u.tables = x.tables
       /\ u.documents = x.documents /\ u.data = x.data /\ u.fields = x.fields
       /\ u.failures = x.failures /\ u.omitted = x.omitted
  BY <1>2 DEF Extraction
<1>13. u.document = x.document /\ u.usage = x.usage
  BY <1>2 DEF Extraction
<1>. HIDE DEF u
<1>14. TableCells(u) = TableCells(x) /\ TableCells(x) <= MaxCells
  BY <1>2, <1>12 DEF TableCells, FromHtml
<1>15. /\ u.links # <<>> => x.format = "links"
       /\ u.tables # <<>> => x.format = "tables"
       /\ u.documents # <<>> => x.format = "json_ld"
       /\ x.format = "links" => Len(x.links) = Len(u.links) + 1
       /\ x.format = "tables" => TableCells(x) = TableCells(u) + 1
  BY <1>3, <1>4, <1>5, <1>9, <1>12, Zenon
<1>16. 1 \in Nat /\ TableCells(u) <= MaxCells
  BY <1>14
<1>. QED
  BY <1>1, <1>2, <1>3, <1>6, <1>11, <1>12, <1>13, <1>15, <1>16, CutIsRight

\* a row or a table less,
LEMMA TrimmedTables ==
  ASSUME NEW s \in [links: Nat, cells: Nat, documents: Nat, crowded: Nat], NEW j,
         NEW x, Right(x, j, s), x.tables # <<>>, NEW y, y = Trimmed(x)
  PROVE  Right(y, j, s)
<1>. DEFINE f == Front(x.tables)
            t == Last(x.tables)
            r == Front(t.rows)
<1>1. x.format # "json_schema"
  BY Zenon DEF Right, FromModel
<1>2. x \in Extraction /\ FromHtml(x) /\ Counted(x, s)
  BY <1>1, Zenon DEF Right
<1>3. x.document /\ x.format = "tables"
  BY <1>2, Zenon DEF FromHtml
<1>4. "tables" # "links" /\ "tables" # "json_ld"
  OBVIOUS
<1>5. x.links = <<>> /\ x.documents = <<>>
  BY <1>2, <1>3, <1>4, Zenon DEF FromHtml
<1>6. /\ x.tables \in Seq(Table) /\ Len(x.tables) <= MaxTables
      /\ MaxTables \in Nat /\ MaxRows \in Nat /\ MaxCells \in Nat
  BY <1>2, HtmlConstants DEF Extraction, Tables
<1>7. /\ f \in Seq(Table) /\ t \in Table /\ Len(x.tables) \in Nat \ {0}
      /\ Len(f) = Len(x.tables) - 1
  BY <1>6, LastLeaves
<1>8. CellsIn(x.tables) = CellsIn(f) + CellsOf(t.rows) /\ CellsIn(f) \in Nat
      /\ CellsIn(x.tables) <= MaxCells
  <2>1. CellsIn(x.tables) = CellsIn(f) + CellsOf(t.rows)
    BY <1>6, CellsOfTables
  <2>2. CellsIn(f) \in Nat
    BY <1>7, CellsOfTables
  <2>3. TableCells(x) <= MaxCells
    BY <1>2, Zenon DEF FromHtml
  <2>. QED BY <2>1, <2>2, <2>3 DEF TableCells, CellsIn
<1>9. /\ t.rows \in Seq(Row) /\ t.rows # <<>> /\ Len(t.rows) <= MaxRows
      /\ t = [caption |-> t.caption, rows |-> t.rows, start |-> t.start, end |-> t.end]
      /\ t.caption \in Nat /\ t.start \in Nat /\ t.end \in Nat /\ t.start < t.end
  BY <1>7 DEF Table, Rows
<1>10. /\ r \in Seq(Row) /\ Len(t.rows) \in Nat \ {0} /\ Len(r) = Len(t.rows) - 1
       /\ Last(t.rows) \in Row
  BY <1>9, LastLeaves
<1>11. /\ CellsOf(t.rows) = CellsOf(r) + Len(Last(t.rows)) /\ CellsOf(t.rows) >= 1
       /\ CellsOf(t.rows) \in Nat /\ CellsOf(r) \in Nat
  BY <1>9, <1>10, CellsOfRows
<1>12. Len(Last(t.rows)) \in Nat /\ Len(Last(t.rows)) >= 1
  BY <1>10, EmptySeq, LenProperties DEF Row
<1>13. ASSUME NEW g \in Seq(Table), Len(g) <= MaxTables, NEW n \in Nat,
              CellsIn(x.tables) = CellsIn(g) + n, y = Cut([x EXCEPT !.tables = g], n)
       PROVE  Right(y, j, s)
  <2>. DEFINE u == [x EXCEPT !.tables = g]
  <2>1. g \in Tables
    BY <1>13 DEF Tables
  <2>2. u \in Extraction
    BY <1>2, <2>1 DEF Extraction
  <2>3. /\ u.format = x.format /\ u.links = x.links /\ u.tables = g
        /\ u.documents = x.documents /\ u.data = x.data /\ u.fields = x.fields
        /\ u.failures = x.failures /\ u.omitted = x.omitted
    BY <1>2 DEF Extraction
  <2>4. u.document = x.document /\ u.usage = x.usage
    BY <1>2 DEF Extraction
  <2>5. y = Cut(u, n)
    BY <1>13
  <2>. HIDE DEF u
  <2>6. CellsIn(g) \in Nat
    BY CellsOfTables
  <2>7. CellsIn(g) <= MaxCells
    BY ONLY <1>6, <1>8, <1>13, <2>6
  <2>8. TableCells(u) = CellsIn(g) /\ TableCells(x) = CellsIn(x.tables)
    BY <2>3 DEF TableCells, CellsIn
  <2>9. TableCells(u) <= MaxCells /\ TableCells(x) = TableCells(u) + n
    BY <1>13, <2>7, <2>8
  <2>10. /\ u.links # <<>> => x.format = "links"
         /\ u.tables # <<>> => x.format = "tables"
         /\ u.documents # <<>> => x.format = "json_ld"
         /\ x.format = "links" => Len(x.links) = Len(u.links) + n
         /\ x.format = "tables" => TableCells(x) = TableCells(u) + n
    BY <1>3, <1>4, <1>5, <2>3, <2>9, Zenon
  <2>. QED
    BY <1>1, <1>2, <1>3, <2>2, <2>3, <2>4, <2>5, <2>9, <2>10, CutIsRight
<1>14. CASE Len(t.rows) > 1
  <2>. DEFINE z == [t EXCEPT !.rows = r]
              n == Max({1, Len(Last(t.rows))})
              g == Append(f, z)
  <2>1. ~(Len(t.rows) <= 1)
    BY <1>10, <1>14
  <2>2. y = Cut([x EXCEPT !.tables = g], n)
    BY <1>5, <1>14, <2>1, Zenon DEF Trimmed
  <2>3. n = Len(Last(t.rows))
    BY <1>12, AtLeastOne
  <2>4. r # <<>> /\ Len(r) <= MaxRows
    <3>1. Len(r) > 0 /\ Len(r) <= MaxRows
      BY ONLY <1>6, <1>9, <1>10, <1>14
    <3>. QED BY <3>1, EmptySeq
  <2>5. r \in Rows \ {<<>>}
    BY <1>10, <2>4 DEF Rows
  <2>. HIDE DEF r
  <2>6. z \in Table /\ z.rows = r
    BY <1>9, <2>5 DEF Table
  <2>. HIDE DEF f, t, z, n
  <2>7. g \in Seq(Table) /\ Len(g) = Len(f) + 1
    BY <1>7, <2>6, AppendProperties
  <2>8. CellsIn(g) = CellsIn(f) + CellsOf(r)
    BY <1>7, <2>6, CellsOfTables
  <2>. HIDE DEF g
  <2>9. Len(g) <= MaxTables
    BY ONLY <1>6, <1>7, <2>7
  <2>10. CellsIn(x.tables) = CellsIn(g) + n /\ n \in Nat
    BY ONLY <1>8, <1>11, <1>12, <2>3, <2>8
  <2>. QED BY <1>13, <2>2, <2>7, <2>9, <2>10
<1>15. CASE ~(Len(t.rows) > 1)
  <2>. DEFINE n == Max({1, CellsOf(t.rows)})
  <2>1. Len(t.rows) <= 1
    BY <1>10, <1>15
  <2>2. y = Cut([x EXCEPT !.tables = f], n)
    BY <1>5, <1>15, <2>1, Zenon DEF Trimmed
  <2>3. n = CellsOf(t.rows)
    BY <1>11, AtLeastOne
  <2>. HIDE DEF n, f, t
  <2>4. Len(f) <= MaxTables
    BY ONLY <1>6, <1>7
  <2>5. n \in Nat /\ CellsIn(x.tables) = CellsIn(f) + n
    BY ONLY <1>8, <1>11, <2>3
  <2>. QED BY <1>7, <1>13, <2>2, <2>4, <2>5
<1>. QED BY <1>14, <1>15

\* a document less,
LEMMA TrimmedDocuments ==
  ASSUME NEW s \in [links: Nat, cells: Nat, documents: Nat, crowded: Nat], NEW j,
         NEW x, Right(x, j, s), x.documents # <<>>, NEW y, y = Trimmed(x)
  PROVE  Right(y, j, s)
<1>1. x.format # "json_schema"
  BY Zenon DEF Right, FromModel
<1>2. x \in Extraction /\ FromHtml(x) /\ Counted(x, s)
  BY <1>1, Zenon DEF Right
<1>3. x.document /\ x.format = "json_ld"
  BY <1>2, Zenon DEF FromHtml
<1>4. "json_ld" # "tables" /\ "json_ld" # "links"
  OBVIOUS
<1>5. x.tables = <<>> /\ x.links = <<>>
  BY <1>2, <1>3, <1>4, Zenon DEF FromHtml
<1>. DEFINE f == Front(x.documents)
            u == [x EXCEPT !.documents = f]
<1>6. y = Cut(u, 1)
  BY <1>5, Zenon DEF Trimmed
<1>7. /\ x.documents \in Seq([kind: Kinds, fields: Nat]) /\ Len(x.documents) <= MaxDocuments
      /\ MaxDocuments \in Nat
  BY <1>2, HtmlConstants DEF Extraction, Documents
<1>8. /\ f \in Seq([kind: Kinds, fields: Nat]) /\ Len(x.documents) \in Nat \ {0}
      /\ Len(f) = Len(x.documents) - 1
  BY <1>7, LastLeaves
<1>9. Len(f) <= MaxDocuments
  BY ONLY <1>7, <1>8
<1>10. f \in Documents
  BY <1>8, <1>9 DEF Documents
<1>. HIDE DEF f
<1>11. u \in Extraction
  BY <1>2, <1>10 DEF Extraction
<1>12. /\ u.format = x.format /\ u.links = x.links /\ u.tables = x.tables
       /\ u.documents = f /\ u.data = x.data /\ u.fields = x.fields
       /\ u.failures = x.failures /\ u.omitted = x.omitted
  BY <1>2 DEF Extraction
<1>13. u.document = x.document /\ u.usage = x.usage
  BY <1>2 DEF Extraction
<1>. HIDE DEF u
<1>14. TableCells(u) = TableCells(x) /\ TableCells(x) <= MaxCells
  BY <1>2, <1>12 DEF TableCells, FromHtml
<1>15. /\ u.links # <<>> => x.format = "links"
       /\ u.tables # <<>> => x.format = "tables"
       /\ u.documents # <<>> => x.format = "json_ld"
       /\ x.format = "links" => Len(x.links) = Len(u.links) + 1
       /\ x.format = "tables" => TableCells(x) = TableCells(u) + 1
  BY <1>3, <1>4, <1>5, <1>12, Zenon
<1>16. 1 \in Nat /\ TableCells(u) <= MaxCells
  BY <1>14
<1>. QED
  BY <1>1, <1>2, <1>3, <1>6, <1>11, <1>12, <1>13, <1>15, <1>16, CutIsRight

\* or the data as a whole.
LEMMA TrimmedKeeps ==
  ASSUME NEW s \in [links: Nat, cells: Nat, documents: Nat, crowded: Nat], NEW j,
         NEW x, Right(x, j, s), HasPayload(x), NEW y, y = Trimmed(x)
  PROVE  Right(y, j, s)
<1>1. CASE x.links # <<>>
  BY <1>1, TrimmedLinks
<1>2. CASE x.tables # <<>>
  BY <1>2, TrimmedTables
<1>3. CASE x.documents # <<>>
  BY <1>3, TrimmedDocuments
<1>4. CASE x.links = <<>> /\ x.tables = <<>> /\ x.documents = <<>>
  <2>. DEFINE e == EmptyExtraction("json_schema")
              n == Max({1, Cardinality(x.fields)})
              told == x.document
              used == x.usage
  <2>1. x \in Extraction /\ ~(x.data = Nil /\ x.fields = {})
    BY <1>4, Zenon DEF HasPayload, Right
  <2>2. ~FromHtml(x) /\ ~Refused(x)
    BY <2>1, Zenon DEF FromHtml, Refused
  <2>3. Proven(x, j)
    BY <2>2, Zenon DEF Right, FromModel
  <2>4. PICK r \in ModelReplies : x.data = r.data
    BY <2>1, <2>3 DEF Extraction, Datas, Proven
  <2>5. Cardinality(x.fields) \in Nat
    <3>1. x.fields = FieldsOf(r.data)
      BY <2>3, <2>4, Zenon DEF Proven
    <3>. QED BY <3>1, FieldsAreFinite
  <2>6. n \in Nat
    BY <2>5, AtLeastOne
  <2>7. y = [e EXCEPT !.status = "validation_failed", !.document = told, !.failures = 1,
                      !.usage = used, !.omitted = n]
    BY <1>4, Zenon DEF Trimmed
  <2>8. /\ e \in Extraction /\ e.format = "json_schema"
        /\ e.links = <<>> /\ e.tables = <<>> /\ e.documents = <<>>
        /\ e.data = Nil /\ e.fields = {}
    <3>1. "json_schema" \in Formats
      BY DEF Formats
    <3>. QED BY <3>1, EmptyIs
  <2>9. told \in BOOLEAN /\ used \in BOOLEAN
    BY <2>1 DEF Extraction
  <2>10. told
    BY <2>3, Zenon DEF Proven
  <2>11. 1 \in 0..MaxFailures /\ "validation_failed" \in Statuses
    BY StructuredConstants DEF Statuses
  <2>. HIDE DEF e, n, told, used
  <2>12. y \in Extraction
    BY <2>6, <2>7, <2>8, <2>9, <2>11 DEF Extraction
  <2>13. /\ y.format = e.format /\ y.links = e.links /\ y.tables = e.tables
         /\ y.documents = e.documents /\ y.data = e.data /\ y.fields = e.fields
         /\ y.failures = 1 /\ y.status = "validation_failed"
    BY <2>7, <2>8 DEF Extraction
  <2>14. y.document = told
    BY <2>7, <2>8 DEF Extraction
  <2>15. y.failures > 0 /\ y.status \in {"validation_failed", "model_failed"}
    BY <2>13
  <2>16. Refused(y)
    BY <2>8, <2>10, <2>13, <2>14, <2>15, Zenon DEF Refused
  <2>17. FromModel(y, j)
    BY <2>8, <2>13, <2>16, Zenon DEF FromModel
  <2>. QED BY <2>8, <2>12, <2>13, <2>17, Zenon DEF Right
<1>. QED BY <1>1, <1>2, <1>3, <1>4

-----------------------------------------------------------------------------
(* The steps.                                                              *)

\* Before anything is read,
LEMMA NewIsFine == Fine(NewParser, 0, 0, 0) /\ NewParser.activeTables = <<>> /\ LdOK(NewLdParser, 0)
<1>. DEFINE e == <<>>
<1>1. PICK no \in BOOLEAN : no = FALSE
  OBVIOUS
<1>2. /\ NewParser = [stack |-> e, activeLinks |-> e, activeTables |-> e, links |-> e, tables |-> e,
                      omittedLinks |-> 0, omittedTables |-> 0, linksTruncated |-> no,
                      tablesTruncated |-> no, cells |-> 0]
      /\ NewLdParser = [seen |-> 0, documents |-> e, omitted |-> 0, truncated |-> no]
  BY <1>1, Zenon DEF NewParser, NewLdParser
<1>3. /\ e \in Seq([tag: STRING, hidden: BOOLEAN]) /\ e \in Seq(OpenLink(0)) /\ e \in Seq(OpenTable(0))
      /\ Len(e) = 0 /\ DOMAIN e = {}
  BY EmptySeq
<1>4. e \in Links /\ e \in Tables /\ e \in Documents /\ CellsIn(e) = 0
  BY NothingIs
<1>5. Kept(e) = 0 /\ Open(e) = 0
  BY <1>3, KeptAndOpen
<1>6. Waiting(e) = 0
  <2>1. DOMAIN [k \in DOMAIN e |-> Counts(e[k])] = {}
    BY <1>3
  <2>. QED BY <2>1, SumOfNothing DEF Waiting
<1>. HIDE DEF e
<1>7. NewParser \in Parser(0)
  BY <1>2, <1>3, <1>4 DEF Parser
<1>8. /\ NewParser.links = e /\ NewParser.tables = e /\ NewParser.activeLinks = e
      /\ NewParser.activeTables = e /\ NewParser.omittedLinks = 0
      /\ NewParser.omittedTables = 0 /\ NewParser.cells = 0
  BY <1>2
<1>9. LinksOK(NewParser, 0)
  <2>1. ~(NewParser.omittedLinks > 0)
    BY <1>8
  <2>2. Len(NewParser.links) + NewParser.omittedLinks + Waiting(NewParser.activeLinks) = 0
    BY <1>3, <1>6, <1>8
  <2>. QED BY <2>1, <2>2, Zenon DEF LinksOK
<1>10. CellsOK(NewParser, 0)
  <2>1. ~(NewParser.omittedTables > 0)
    BY <1>8
  <2>2. TableCells(NewParser) = 0
    BY <1>4, <1>8 DEF TableCells, CellsIn
  <2>3. /\ NewParser.cells = TableCells(NewParser) + Kept(NewParser.activeTables)
        /\ NewParser.cells <= MaxCells
        /\ NewParser.cells + NewParser.omittedTables + Open(NewParser.activeTables) = 0
    BY <1>5, <1>8, <2>2, HtmlConstants
  <2>. QED BY <2>1, <2>3, Zenon DEF CellsOK, Told
<1>11. LdOK(NewLdParser, 0)
  <2>1. NewLdParser \in LdParser
    BY <1>2, <1>4 DEF LdParser
  <2>2. NewLdParser.omitted = 0 /\ Len(NewLdParser.documents) >= 0
    BY <1>2, <1>3
  <2>. QED BY <2>1, <2>2, Zenon DEF LdOK
<1>. QED BY <1>7, <1>8, <1>9, <1>10, <1>11 DEF Fine, e

LEMMA StartIsRight ==
  ASSUME NEW stage \in {"idle", "fetched"}, NEW j, stage # "idle" => j \in Jobs,
         StructuredStart(stage, j)
  PROVE  StructuredInv
<1>1. /\ structStage = stage /\ job = j /\ parser = NewParser /\ ld = NewLdParser /\ position = 0
      /\ seen = [links |-> 0, cells |-> 0, documents |-> 0, crowded |-> 0] /\ extractions = <<>>
  BY DEF StructuredStart
<1>2. PageOK
  <2>1. /\ seen \in [links: Nat, cells: Nat, documents: Nat, crowded: Nat] /\ position \in Nat
        /\ seen.links = 0 /\ seen.cells = 0 /\ seen.documents = 0
    BY <1>1
  <2>. QED BY <1>1, <2>1, NewIsFine, Zenon DEF Fine, PageOK
<1>3. ExtractionsOK
  <2>1. DOMAIN extractions = {}
    BY <1>1
  <2>. QED BY <2>1 DEF ExtractionsOK
<1>4. StageOK
  BY <1>1, NewIsFine DEF StageOK
<1>. QED BY <1>2, <1>3, <1>4 DEF StructuredInv

LEMMA ContentStarts == ContentInit => StructuredInv
<1>1. CASE StructuredIdle
  BY <1>1, StartIsRight DEF StructuredIdle
<1>2. CASE StructuredInit
  BY <1>2, StartIsRight DEF StructuredInit
<1>. QED BY <1>1, <1>2 DEF ContentInit

\* Only while the page is read is something open.
LEMMA PayloadKeeps == StructuredInv /\ Payload => StructuredInv'
<1>. SUFFICES ASSUME StructuredInv, Payload PROVE StructuredInv'
  OBVIOUS
<1>1. /\ structStage = "fetched" /\ job' = job /\ parser' = parser /\ ld' = ld
      /\ position' = position /\ seen' = seen /\ structStage' \in {"read", "schema"}
      /\ extractions' = [k \in DOMAIN job.formats |-> EmptyExtraction(job.formats[k])]
  BY Zenon DEF Payload
<1>2. job \in Jobs /\ parser.activeTables = <<>> /\ PageOK
  BY <1>1 DEF StructuredInv, StageOK
<1>3. \A k \in DOMAIN job.formats : job.formats[k] \in Formats
  <2>1. job.formats \in Seq(Formats)
    BY <1>2, RequestIs
  <2>. QED BY <2>1, ElementOfSeq, LenProperties
<1>4. /\ DOMAIN extractions' = DOMAIN job.formats
      /\ \A k \in DOMAIN job.formats : extractions'[k] = EmptyExtraction(job.formats[k])
  BY <1>1
<1>5. \A k \in DOMAIN job.formats :
        /\ Right(extractions'[k], job, seen) /\ extractions'[k].format = job.formats[k]
        /\ ~extractions'[k].document
  BY <1>3, <1>4, EmptyIs, EmptyIsRight
<1>6. PageOK'
  BY <1>1, <1>2 DEF PageOK
<1>7. ExtractionsOK'
  BY <1>1, <1>4, <1>5 DEF ExtractionsOK
<1>8. StageOK'
  <2>1. structStage' \notin {"idle", "fetched"}
    BY <1>1
  <2>. QED BY <1>1, <1>2, <1>4, <1>5, <2>1 DEF StageOK
<1>. QED BY <1>6, <1>7, <1>8 DEF StructuredInv

\* What is not there yet does not miss anything.
LEMMA EmptyStaysRight ==
  ASSUME StructuredInv, structStage \in {"read", "extract"}, job' = job, extractions' = extractions
  PROVE  ExtractionsOK'
<1>1. ASSUME NEW k \in DOMAIN extractions PROVE Right(extractions[k], job, seen')
  <2>1. ~extractions[k].document /\ Right(extractions[k], job, seen)
    BY DEF StructuredInv, StageOK, ExtractionsOK
  <2>. QED BY <2>1, Zenon DEF Right, Counted
<1>. QED BY <1>1 DEF ExtractionsOK

LEMMA ReadTokenKeeps == StructuredInv /\ ReadToken => StructuredInv'
<1>. SUFFICES ASSUME StructuredInv, ReadToken PROVE StructuredInv'
  OBVIOUS
<1>1. /\ structStage = "read" /\ position' = position + 1
      /\ structStage' = structStage /\ job' = job /\ ld' = ld /\ extractions' = extractions
  BY DEF ReadToken
<1>2. /\ job \in Jobs /\ position \in Nat /\ seen \in [links: Nat, cells: Nat, documents: Nat, crowded: Nat]
      /\ LdOK(ld, seen.documents) /\ StageOK
  BY <1>1 DEF StructuredInv, StageOK, PageOK
<1>3. PICK t \in job.tokens :
        /\ parser' = Handle(parser, t, position)
        /\ seen' = [seen EXCEPT
             !.links = @ + IF Starts(t) THEN LinkSeen(parser, t) ELSE 0,
             !.cells = @ + IF Starts(t) THEN CellSeen(parser, t) ELSE 0]
  <2>1. ASSUME NEW t \in job.tokens
        PROVE  LET visible == t.event \in {"start", "both"} /\ ~IsHidden(parser) /\ ~t.hides
               IN /\ (IF visible /\ t.tag = "a" /\ t.href \in {"web", "bad"} THEN 1 ELSE 0)
                       = IF Starts(t) THEN LinkSeen(parser, t) ELSE 0
                  /\ (IF visible /\ t.tag = "td" /\ parser.activeTables # <<>> THEN 1 ELSE 0)
                       = IF Starts(t) THEN CellSeen(parser, t) ELSE 0
    BY Zenon DEF Starts, LinkSeen, CellSeen, Shown
  <2>. QED BY <2>1, Zenon DEF ReadToken
<1>4. t \in Token
  BY <1>2, RequestIs
<1>. DEFINE a == IF Starts(t) THEN LinkSeen(parser, t) ELSE 0
            c == IF Starts(t) THEN CellSeen(parser, t) ELSE 0
<1>5. a \in Nat /\ c \in Nat
  BY DEF LinkSeen, CellSeen
<1>6. Fine(parser', position + 1, seen.links + a, seen.cells + c)
  <2>1. Fine(parser, position, seen.links, seen.cells)
    BY DEF StructuredInv, PageOK, Fine
  <2>2. seen.links \in Nat /\ seen.cells \in Nat
    BY <1>2
  <2>. QED BY <1>2, <1>3, <1>4, <2>1, <2>2, HandleKeeps
<1>. HIDE DEF a, c
<1>7. seen' = [seen EXCEPT !.links = seen.links + a, !.cells = seen.cells + c]
  BY <1>3, Zenon DEF a, c
<1>8. /\ seen' \in [links: Nat, cells: Nat, documents: Nat, crowded: Nat] /\ seen'.links = seen.links + a
      /\ seen'.cells = seen.cells + c /\ seen'.documents = seen.documents
  <2>. DEFINE links == seen.links + a
              cells == seen.cells + c
  <2>1. links \in Nat /\ cells \in Nat
    BY <1>2, <1>5
  <2>2. seen' = [seen EXCEPT !.links = links, !.cells = cells]
    BY <1>7
  <2>. HIDE DEF links, cells
  <2>3. /\ seen' \in [links: Nat, cells: Nat, documents: Nat, crowded: Nat] /\ seen'.links = links
        /\ seen'.cells = cells /\ seen'.documents = seen.documents
    BY <1>2, <2>1, <2>2
  <2>. QED BY <2>3 DEF links, cells
<1>9. PageOK'
  <2>1. position' \in Nat
    BY <1>1, <1>2
  <2>2. parser' \in Parser(position') /\ LinksOK(parser', seen'.links) /\ CellsOK(parser', seen'.cells)
    BY <1>1, <1>6, <1>8, Zenon DEF Fine
  <2>3. LdOK(ld', seen'.documents)
    BY <1>1, <1>2, <1>8
  <2>. QED BY <1>8, <2>1, <2>2, <2>3 DEF PageOK
<1>10. ExtractionsOK'
  BY <1>1, EmptyStaysRight
<1>11. StageOK'
  BY <1>1, <1>2 DEF StageOK
<1>. QED BY <1>9, <1>10, <1>11 DEF StructuredInv

LEMMA ReadBlockKeeps == StructuredInv /\ ReadBlock => StructuredInv'
<1>. SUFFICES ASSUME StructuredInv, ReadBlock PROVE StructuredInv'
  OBVIOUS
<1>1. /\ structStage = "read" /\ structStage' \in {"read", "extract"}
      /\ position' = position /\ parser' = parser /\ job' = job /\ extractions' = extractions
  BY DEF ReadBlock
<1>2. /\ job \in Jobs /\ position \in Nat /\ seen \in [links: Nat, cells: Nat, documents: Nat, crowded: Nat]
      /\ LdOK(ld, seen.documents) /\ StageOK /\ PageOK
  BY <1>1 DEF StructuredInv, StageOK, PageOK
<1>3. PICK b \in job.blocks :
        /\ ld' = Block(ld, b)
        /\ seen' = IF IsCrowded(b.value)
                   THEN [seen EXCEPT !.crowded = @ + DocumentsIn(b.value)]
                   ELSE [seen EXCEPT !.documents = @ + DocumentsIn(b.value)]
  BY Zenon DEF ReadBlock
<1>4. b \in JsonBlock
  BY <1>2, RequestIs
<1>. DEFINE n == DocumentsIn(b.value)
            r == BlockRead(b)
<1>5. n \in Nat /\ r \in Nat /\ (~IsCrowded(b.value) => n = r) /\ LdOK(ld', seen.documents + r)
  <2>1. seen.documents \in Nat
    BY <1>2
  <2>. QED BY <1>2, <1>3, <1>4, <2>1, BlockKeeps, BlockIsRead
<1>6. ASSUME IsCrowded(b.value) PROVE PageOK'
  <2>1. seen' = [seen EXCEPT !.crowded = @ + n]
    BY <1>3, <1>6
  <2>. HIDE DEF n, r
  <2>2. /\ seen' \in [links: Nat, cells: Nat, documents: Nat, crowded: Nat]
        /\ seen'.links = seen.links /\ seen'.cells = seen.cells /\ seen'.documents = seen.documents
    BY <1>2, <1>5, <2>1
  <2>3. LdOK(ld', seen'.documents)
    <3>1. ld' \in LdParser /\ Len(ld'.documents) \in Nat
      <4>1. ld' \in LdParser
        BY <1>5 DEF LdOK
      <4>2. ld'.documents \in Documents
        BY <4>1 DEF LdParser
      <4>. QED BY <4>1, <4>2, LenProperties DEF Documents
    <3>2. Len(ld'.documents) >= seen.documents + r => Len(ld'.documents) >= seen.documents
      BY <1>2, <1>5, <3>1
    <3>. QED BY <1>5, <2>2, <3>1, <3>2 DEF LdOK
  <2>4. PageOK'
    BY <1>1, <1>2, <2>2, <2>3, Zenon DEF PageOK
  <2>. QED BY <2>4
<1>7. ASSUME ~IsCrowded(b.value) PROVE PageOK'
  <2>1. seen' = [seen EXCEPT !.documents = @ + n]
    BY <1>3, <1>7
  <2>2. n = r
    BY <1>5, <1>7
  <2>. HIDE DEF n, r
  <2>3. /\ seen' \in [links: Nat, cells: Nat, documents: Nat, crowded: Nat]
        /\ seen'.links = seen.links /\ seen'.cells = seen.cells
        /\ seen'.documents = seen.documents + n
    BY <1>2, <1>5, <2>1
  <2>4. LdOK(ld', seen'.documents)
    BY <1>5, <2>2, <2>3
  <2>5. PageOK'
    BY <1>1, <1>2, <2>3, <2>4, Zenon DEF PageOK
  <2>. QED BY <2>5
<1>8. ExtractionsOK'
  BY <1>1, EmptyStaysRight
<1>9. StageOK'
  BY <1>1, <1>2 DEF StageOK
<1>. QED BY <1>6, <1>7, <1>8, <1>9 DEF StructuredInv

\* The page is read to its end,
LEMMA ExtractKeeps == StructuredInv /\ Extract => StructuredInv'
<1>. SUFFICES ASSUME StructuredInv, Extract PROVE StructuredInv'
  OBVIOUS
<1>. DEFINE p == Finished(parser, position)
<1>1. /\ structStage \in {"read", "extract"} /\ parser' = p /\ structStage' = "schema"
      /\ position' = position /\ job' = job /\ ld' = ld /\ seen' = seen
  BY DEF Extract
<1>2. PICK left \in BOOLEAN, malformed \in BOOLEAN :
        extractions' = [k \in DOMAIN job.formats |->
                          StructuredResult(job.formats[k], p, ld, left, malformed)]
  BY Zenon DEF Extract
<1>3. /\ job \in Jobs /\ position \in Nat /\ seen \in [links: Nat, cells: Nat, documents: Nat, crowded: Nat]
      /\ LdOK(ld, seen.documents) /\ Fine(parser, position, seen.links, seen.cells)
  <2>1. structStage # "idle"
    BY <1>1
  <2>. QED BY <2>1, Zenon DEF StructuredInv, StageOK, PageOK, Fine
<1>4. /\ Fine(p, position, seen.links, seen.cells) /\ p.activeLinks = <<>> /\ p.activeTables = <<>>
  <2>1. seen.links \in Nat /\ seen.cells \in Nat
    BY <1>3
  <2>. QED BY <1>3, <2>1, FinishedKeeps
<1>5. \A k \in DOMAIN job.formats : job.formats[k] \in Formats
  <2>1. job.formats \in Seq(Formats)
    BY <1>3, RequestIs
  <2>. QED BY <2>1, ElementOfSeq, LenProperties
<1>. HIDE DEF p
<1>6. /\ DOMAIN extractions' = DOMAIN job.formats
      /\ \A k \in DOMAIN job.formats :
           extractions'[k] = StructuredResult(job.formats[k], p, ld, left, malformed)
  BY <1>2
<1>7. ASSUME NEW k \in DOMAIN job.formats
      PROVE  Right(extractions'[k], job, seen) /\ extractions'[k].format = job.formats[k]
  <2>. DEFINE f == job.formats[k]
              x == extractions'[k]
  <2>1. f \in Formats /\ x = StructuredResult(f, p, ld, left, malformed)
    BY <1>5, <1>6
  <2>. HIDE DEF f, x
  <2>2. position \in Nat /\ seen \in [links: Nat, cells: Nat, documents: Nat, crowded: Nat]
    BY <1>3
  <2>3. AtEnd(p, ld, position, seen)
    BY <1>3, <1>4, Zenon DEF AtEnd
  <2>4. Right(x, job, seen) /\ x.format = f
    BY ONLY left \in BOOLEAN, malformed \in BOOLEAN, <2>1, <2>2, <2>3, ResultIsRight
  <2>. QED BY <2>4 DEF f, x
<1>8. PageOK'
  BY <1>1, <1>3, <1>4, Zenon DEF PageOK, Fine
<1>9. ExtractionsOK'
  BY <1>1, <1>6, <1>7 DEF ExtractionsOK
<1>10. StageOK'
  BY <1>1, <1>3, <1>4, <1>6, <1>7 DEF StageOK
<1>. QED BY <1>8, <1>9, <1>10 DEF StructuredInv

\* the model is asked,
LEMMA AskModelKeeps == StructuredInv /\ AskModel => StructuredInv'
<1>. SUFFICES ASSUME StructuredInv, AskModel PROVE StructuredInv'
  OBVIOUS
<1>1. /\ structStage = "schema" /\ structStage' = "bound" /\ parser' = parser
      /\ position' = position /\ job' = job /\ ld' = ld /\ seen' = seen
  BY DEF AskModel
<1>2. job \in Jobs /\ PageOK /\ parser.activeTables = <<>> /\ DOMAIN extractions = DOMAIN job.formats
  BY <1>1 DEF StructuredInv, StageOK
<1>3. ExtractionsOK'
  <2>1. CASE extractions' = extractions
    BY <1>1, <2>1 DEF StructuredInv, ExtractionsOK
  <2>2. CASE extractions' # extractions
    <3>1. PICK x \in {ModelFailure(reason) : reason \in Reasons}
                     \cup {Validated(job.schema, reply, job.text) : reply \in ModelReplies} :
            extractions' = [k \in DOMAIN job.formats |->
                              IF job.formats[k] = "json_schema" THEN x ELSE extractions[k]]
      BY <2>2, Zenon DEF AskModel
    <3>2. Right(x, job, seen)
      <4>1. CASE \E reason \in Reasons : x = ModelFailure(reason)
        BY <4>1, FailureIsRight
      <4>2. CASE \E reply \in ModelReplies : x = Validated(job.schema, reply, job.text)
        BY <1>2, <4>2, ValidatedIsRight
      <4>. QED BY <3>1, <4>1, <4>2
    <3>3. ASSUME NEW k \in DOMAIN job.formats PROVE Right(extractions'[k], job, seen)
      <4>1. Right(extractions[k], job, seen)
        BY <1>2 DEF StructuredInv, ExtractionsOK
      <4>. QED BY <3>1, <3>2, <4>1
    <3>4. DOMAIN extractions' = DOMAIN job.formats
      BY <3>1
    <3>. QED BY <1>1, <3>3, <3>4 DEF ExtractionsOK
  <2>. QED BY <2>1, <2>2
<1>4. PageOK'
  BY <1>1, <1>2 DEF PageOK
<1>5. StageOK'
  BY <1>1, <1>2 DEF StageOK
<1>. QED BY <1>3, <1>4, <1>5 DEF StructuredInv

\* and the response is bounded.
LEMMA BoundKeeps == StructuredInv /\ BoundResponse => StructuredInv'
<1>. SUFFICES ASSUME StructuredInv, BoundResponse PROVE StructuredInv'
  OBVIOUS
<1>1. /\ structStage = "bound" /\ structStage' \in {"bound", "done"} /\ parser' = parser
      /\ position' = position /\ job' = job /\ ld' = ld /\ seen' = seen
  BY DEF BoundResponse
<1>2. job \in Jobs /\ PageOK /\ parser.activeTables = <<>> /\ ExtractionsOK
  BY <1>1 DEF StructuredInv, StageOK
<1>3. seen \in [links: Nat, cells: Nat, documents: Nat, crowded: Nat]
  BY <1>2 DEF PageOK
<1>4. ExtractionsOK'
  <2>1. CASE extractions' = extractions
    BY <1>1, <1>2, <2>1 DEF ExtractionsOK
  <2>2. CASE extractions' # extractions
    <3>1. PICK k \in {i \in DOMAIN extractions : HasPayload(extractions[i])} :
            extractions' = [extractions EXCEPT ![k] = Trimmed(extractions[k])]
      BY <2>2, Zenon DEF BoundResponse
    <3>2. k \in DOMAIN extractions /\ HasPayload(extractions[k])
      BY <3>1
    <3>3. Right(Trimmed(extractions[k]), job, seen)
      BY <1>2, <1>3, <3>2, TrimmedKeeps DEF ExtractionsOK
    <3>4. DOMAIN extractions' = DOMAIN extractions
      BY <3>1
    <3>5. ASSUME NEW i \in DOMAIN extractions PROVE Right(extractions'[i], job, seen)
      BY <1>2, <3>1, <3>3 DEF ExtractionsOK
    <3>. QED BY <1>1, <3>4, <3>5 DEF ExtractionsOK
  <2>. QED BY <2>1, <2>2
<1>5. PageOK'
  BY <1>1, <1>2 DEF PageOK
<1>6. StageOK'
  BY <1>1, <1>2 DEF StageOK
<1>. QED BY <1>4, <1>5, <1>6 DEF StructuredInv

\* No step leaves the invariant.
LEMMA ContentStays == StructuredInv /\ [ContentNext]_<<chunkVars, structVars>> => StructuredInv'
<1>. SUFFICES ASSUME StructuredInv, [ContentNext]_<<chunkVars, structVars>> PROVE StructuredInv'
  OBVIOUS
<1>1. ASSUME UNCHANGED structVars PROVE StructuredInv'
  <2>1. /\ structStage' = structStage /\ job' = job /\ parser' = parser /\ ld' = ld
        /\ position' = position /\ seen' = seen /\ extractions' = extractions
    BY <1>1 DEF structVars
  <2>. QED BY <2>1, Zenon DEF StructuredInv, StageOK, PageOK, ExtractionsOK
<1>2. CASE StructuredNext
  BY <1>2, PayloadKeeps, ReadTokenKeeps, ReadBlockKeeps, ExtractKeeps, AskModelKeeps, BoundKeeps
     DEF StructuredNext
<1>. QED BY <1>1, <1>2 DEF ContentNext

-----------------------------------------------------------------------------
(* What the invariant says of the extractions.                             *)

LEMMA RangeOf ==
  ASSUME NEW T, NEW s \in Seq(T)
  PROVE  Range(s) \subseteq T
<1>1. \A i \in DOMAIN s : s[i] \in T
  BY LenProperties, ElementOfSeq
<1>. QED BY <1>1 DEF Range

\* Every span ends behind its start.
LEMMA SpansAre ==
  ASSUME NEW x \in Extraction
  PROVE  \A s \in Spans(x) : 0 <= s.start /\ s.start < s.end
<1>1. x.links \in Seq(Cell) /\ x.tables \in Seq(Table)
  BY DEF Extraction, Links, Tables
<1>2. Range(x.links) \subseteq Cell /\ Range(x.tables) \subseteq Table
  BY <1>1, RangeOf
<1>3. \A t \in Table : t.rows \in Seq(Row)
  BY DEF Table, Rows
<1>4. \A t \in Range(x.tables) : Range(t.rows) \subseteq Row
  BY <1>2, <1>3, RangeOf
<1>5. \A r \in Row : Range(r) \subseteq Cell
  BY RangeOf DEF Row
<1>6. \A r \in UNION {Range(t.rows) : t \in Range(x.tables)} : Range(r) \subseteq Cell
  BY <1>4, <1>5
<1>7. \A s \in Spans(x) : s \in Cell \/ s \in Table
  BY <1>2, <1>6 DEF Spans
<1>8. \A s : s \in Cell \/ s \in Table => 0 <= s.start /\ s.start < s.end
  BY DEF Cell, Table
<1>. QED BY <1>7, <1>8

\* and what is bounded is within its bounds.
LEMMA LimitsHold ==
  ASSUME NEW x \in Extraction
  PROVE  /\ Len(x.links) <= MaxLinks /\ Len(x.tables) <= MaxTables
         /\ Len(x.documents) <= MaxDocuments /\ x.failures <= MaxFailures
         /\ \A t \in Range(x.tables) : Len(t.rows) <= MaxRows
<1>1. /\ x.links \in Links /\ x.tables \in Tables /\ x.documents \in Documents
      /\ x.failures \in 0..MaxFailures
  BY DEF Extraction
<1>2. Len(x.links) <= MaxLinks /\ Len(x.tables) <= MaxTables /\ Len(x.documents) <= MaxDocuments
  BY <1>1 DEF Links, Tables, Documents
<1>3. x.failures <= MaxFailures
  BY <1>1, StructuredConstants
<1>4. \A t \in Range(x.tables) : Len(t.rows) <= MaxRows
  <2>1. Range(x.tables) \subseteq Table
    BY <1>1, RangeOf DEF Tables
  <2>. QED BY <2>1 DEF Table, Rows
<1>. QED BY <1>2, <1>3, <1>4

\* StructuredExtraction.validate_payload accepts what was taken from the HTML
LEMMA HtmlIsAcceptable ==
  ASSUME NEW x \in Extraction, FromHtml(x), x.format # "json_schema"
  PROVE  Acceptable(x)
<1>. DEFINE payloads == {f \in {"links", "tables", "json_ld", "json_schema"} :
        CASE f = "links" -> x.links # <<>> [] f = "tables" -> x.tables # <<>>
          [] f = "json_ld" -> x.documents # <<>> [] OTHER -> x.data # Nil \/ x.fields # {}}
<1>1. /\ x.data = Nil /\ x.fields = {} /\ x.failures = 0 /\ ~x.usage
      /\ x.links # <<>> => x.format = "links"
      /\ x.tables # <<>> => x.format = "tables"
      /\ x.documents # <<>> => x.format = "json_ld"
      /\ TableCells(x) <= MaxCells
  BY Zenon DEF FromHtml
<1>2. ASSUME NEW f \in payloads
      PROVE  /\ f = x.format
             /\ x.links # <<>> \/ x.tables # <<>> \/ x.documents # <<>>
  <2>1. CASE f = "links"
    BY <1>1, <2>1
  <2>2. CASE f = "tables"
    BY <1>1, <2>2
  <2>3. CASE f = "json_ld"
    BY <1>1, <2>3
  <2>4. CASE f = "json_schema"
    BY <1>1, <2>4
  <2>. QED BY <2>1, <2>2, <2>3, <2>4
<1>3. payloads \subseteq {x.format}
  BY <1>2
<1>4. x.status = "unsupported" => ~x.document /\ payloads = {}
  <2>1. ASSUME x.status = "unsupported" PROVE ~x.document
    BY <2>1, Zenon DEF FromHtml
  <2>2. ASSUME ~x.document PROVE x.links = <<>> /\ x.tables = <<>> /\ x.documents = <<>>
    BY <2>2, Zenon DEF FromHtml
  <2>. QED BY <1>2, <2>1, <2>2
<1>5. x.status # "unsupported" => x.document
  BY Zenon DEF FromHtml
<1>6. x.status \notin {"validation_failed", "model_failed"}
  <2>1. x.status \in {"unsupported", "ok", "empty", "truncated"}
    BY Zenon DEF FromHtml
  <2>. QED BY <2>1
<1>7. Cardinality(x.fields) <= MaxFields
  BY <1>1, FS_EmptySet, StructuredConstants
<1>. HIDE DEF payloads
<1>8. /\ Len(x.links) <= MaxLinks /\ Len(x.tables) <= MaxTables
      /\ Len(x.documents) <= MaxDocuments /\ x.failures <= MaxFailures
      /\ \A t \in Range(x.tables) : Len(t.rows) <= MaxRows
      /\ \A s \in Spans(x) : 0 <= s.start /\ s.start < s.end
  BY LimitsHold, SpansAre
<1>. QED BY <1>1, <1>3, <1>4, <1>5, <1>6, <1>7, <1>8, Zenon DEF Acceptable, payloads

\* and what the model said.
LEMMA ModelIsAcceptable ==
  ASSUME NEW x \in Extraction, NEW j, FromModel(x, j), x.format = "json_schema"
  PROVE  Acceptable(x)
<1>. DEFINE payloads == {f \in {"links", "tables", "json_ld", "json_schema"} :
        CASE f = "links" -> x.links # <<>> [] f = "tables" -> x.tables # <<>>
          [] f = "json_ld" -> x.documents # <<>> [] OTHER -> x.data # Nil \/ x.fields # {}}
<1>1. x.links = <<>> /\ x.tables = <<>> /\ x.documents = <<>> /\ (Proven(x, j) \/ Refused(x))
  BY Zenon DEF FromModel
<1>2. ASSUME NEW f \in payloads
      PROVE  f = x.format /\ (x.data # Nil \/ x.fields # {})
  BY <1>1
<1>3. payloads \subseteq {x.format}
  BY <1>2
<1>4. /\ x.status \notin {"empty", "truncated"}
      /\ x.status = "ok" => x.data # Nil /\ x.failures = 0
      /\ x.status \in {"validation_failed", "model_failed"} => x.failures > 0
      /\ x.status = "unsupported" => ~x.document /\ x.data = Nil /\ x.fields = {}
      /\ x.status # "unsupported" => x.document
      /\ Cardinality(x.fields) <= MaxFields
  <2>1. CASE Proven(x, j)
    <3>1. /\ x.data # Nil /\ x.status = "ok" /\ x.failures = 0 /\ x.document
          /\ Cardinality(x.fields) <= MaxFields
      BY <2>1, Zenon DEF Proven
    <3>. QED BY <3>1
  <2>2. CASE Refused(x)
    <3>1. /\ x.data = Nil /\ x.fields = {}
          /\ \/ x.status = "unsupported" /\ ~x.document
             \/ x.status \in {"validation_failed", "model_failed"} /\ x.failures > 0 /\ x.document
      BY <2>2, Zenon DEF Refused
    <3>2. Cardinality(x.fields) <= MaxFields
      BY <3>1, FS_EmptySet, StructuredConstants
    <3>. QED BY <3>1, <3>2
  <2>. QED BY <1>1, <2>1, <2>2
<1>5. x.status = "unsupported" => payloads = {}
  BY <1>2, <1>4
<1>6. TableCells(x) <= MaxCells
  <2>1. CellsIn(x.tables) = 0
    BY <1>1, NothingIs
  <2>. QED BY <2>1, HtmlConstants DEF TableCells, CellsIn
<1>. HIDE DEF payloads
<1>7. /\ Len(x.links) <= MaxLinks /\ Len(x.tables) <= MaxTables
      /\ Len(x.documents) <= MaxDocuments /\ x.failures <= MaxFailures
      /\ \A t \in Range(x.tables) : Len(t.rows) <= MaxRows
      /\ \A s \in Spans(x) : 0 <= s.start /\ s.start < s.end
  BY LimitsHold, SpansAre
<1>. QED BY <1>3, <1>4, <1>5, <1>6, <1>7, Zenon DEF Acceptable, payloads

LEMMA InvIsSound == StructuredInv => ExtractionsAreSound
<1>. SUFFICES ASSUME StructuredInv, NEW k \in DOMAIN extractions, NEW x, x = extractions[k]
     PROVE  /\ Acceptable(x)
            /\ x.data # Nil =>
                 /\ x.status = "ok" /\ Mismatches(job.schema, x.data) = {}
                 /\ {f.path : f \in x.fields} = Paths(x.data)
                 /\ \A f \in x.fields : f.text \in WordsOf(job.text)
  BY Zenon DEF ExtractionsAreSound
<1>1. Right(x, job, seen)
  BY DEF StructuredInv, ExtractionsOK
<1>2. CASE x.format # "json_schema"
  <2>1. x \in Extraction /\ FromHtml(x) /\ x.data = Nil
    BY <1>1, <1>2, Zenon DEF Right, FromHtml
  <2>. QED BY <1>2, <2>1, HtmlIsAcceptable
<1>3. CASE x.format = "json_schema"
  <2>1. x \in Extraction /\ FromModel(x, job)
    BY <1>1, <1>3, Zenon DEF Right
  <2>2. Acceptable(x)
    BY <1>3, <2>1, ModelIsAcceptable
  <2>3. ASSUME x.data # Nil
        PROVE  /\ x.status = "ok" /\ Mismatches(job.schema, x.data) = {}
               /\ {f.path : f \in x.fields} = Paths(x.data)
               /\ \A f \in x.fields : f.text \in WordsOf(job.text)
    <3>1. Proven(x, job)
      BY <2>1, <2>3, Zenon DEF FromModel, Refused
    <3>2. /\ x.status = "ok" /\ Mismatches(job.schema, x.data) = {}
          /\ x.fields = FieldsOf(x.data)
          /\ \A f \in x.fields : f.text \in WordsOf(job.text)
      BY <3>1, Zenon DEF Proven
    <3>3. {f.path : f \in FieldsOf(x.data)} = Paths(x.data)
      <4>. DEFINE P == Paths(x.data)
                  F == FieldsOf(x.data)
      <4>1. \A f \in F : f.path \in P
        BY DEF FieldsOf
      <4>2. ASSUME NEW p \in P PROVE \E f \in F : f.path = p
        <5>. DEFINE f == [path |-> p, text |-> Leaf(x.data, p).text]
        <5>1. f \in F /\ f.path = p
          BY DEF FieldsOf
        <5>. HIDE DEF f, F
        <5>. QED BY <5>1
      <4>. HIDE DEF P, F
      <4>3. {f.path : f \in F} = P
        BY <4>1, <4>2
      <4>. QED BY <4>3 DEF P, F
    <3>. QED BY <3>2, <3>3
  <2>. QED BY <2>2, <2>3
<1>. QED BY <1>2, <1>3

LEMMA InvLosesNothing == StructuredInv => NothingIsLost
<1>. SUFFICES ASSUME StructuredInv, structStage \in {"schema", "bound", "done"} PROVE
       /\ parser.cells = TableCells(parser)
       /\ \A k \in DOMAIN extractions :
            LET x == extractions[k]
            IN /\ x.format = "links" /\ x.document => Len(x.links) + x.omitted = seen.links
               /\ x.format = "tables" /\ x.document => TableCells(x) + x.omitted = seen.cells
               /\ x.format = "json_ld" /\ x.status \in {"ok", "empty"} =>
                    Len(x.documents) + x.omitted >= seen.documents
               /\ x.format # "json_schema" /\ x.status \in {"ok", "empty"} =>
                    x.omitted = 0 /\ ~x.omittedSource
  BY Zenon DEF NothingIsLost
<1>1. parser.cells = TableCells(parser)
  <2>1. parser \in Parser(position) /\ position \in Nat /\ CellsOK(parser, seen.cells)
    BY DEF StructuredInv, PageOK
  <2>2. parser.tables \in Seq(Table) /\ parser.activeTables \in Seq(OpenTable(position))
    BY <2>1 DEF Parser, Tables
  <2>3. parser.activeTables = <<>>
    BY DEF StructuredInv, StageOK
  <2>4. TableCells(parser) \in Nat
    BY <2>2, CellsOfTables DEF TableCells, CellsIn
  <2>5. Kept(parser.activeTables) = 0
    BY <2>1, <2>2, <2>3, KeptAndOpen
  <2>6. parser.cells = TableCells(parser) + Kept(parser.activeTables)
    BY <2>1 DEF CellsOK
  <2>. QED BY <2>4, <2>5, <2>6
<1>2. ASSUME NEW k \in DOMAIN extractions, NEW x, x = extractions[k]
      PROVE  /\ x.format = "links" /\ x.document => Len(x.links) + x.omitted = seen.links
             /\ x.format = "tables" /\ x.document => TableCells(x) + x.omitted = seen.cells
             /\ x.format = "json_ld" /\ x.status \in {"ok", "empty"} =>
                  Len(x.documents) + x.omitted >= seen.documents
             /\ x.format # "json_schema" /\ x.status \in {"ok", "empty"} =>
                  x.omitted = 0 /\ ~x.omittedSource
  <2>1. Right(x, job, seen)
    BY <1>2 DEF StructuredInv, ExtractionsOK
  <2>2. CASE x.format = "json_schema"
    <3>1. x.format # "links" /\ x.format # "tables" /\ x.format # "json_ld"
      BY <2>2
    <3>. QED BY <2>2, <3>1, Zenon
  <2>3. CASE x.format # "json_schema"
    <3>1. x \in Extraction /\ FromHtml(x) /\ Counted(x, seen)
      BY <2>1, <2>3, Zenon DEF Right
    <3>. QED BY <3>1, Zenon DEF FromHtml, Counted
  <2>. QED BY <2>2, <2>3
<1>. QED BY <1>1, <1>2, Zenon

-----------------------------------------------------------------------------
(* The theorems.                                                           *)

\* Whatever the page, the model and the limits: every link and every cell that is visible is
\* kept, omitted or still open in the parser, and every extraction is whole or says so.
THEOREM StructuredInvariant == ContentSpec => []StructuredInv
<1>. QED BY ContentStarts, ContentStays, PTL DEF ContentSpec

\* README.md:420: no link and no cell is left out without being counted, by the parsers
\* (_StructuredParser, _JsonLdParser) or by _trim_structured_extraction; and where the JSON-LD
\* is "ok" or "empty", no document of a block within the limits of _json_ld_nodes is missing.
THEOREM NothingStaysLost == ContentSpec => []NothingIsLost
<1>. QED BY StructuredInvariant, InvLosesNothing, PTL

\* README.md:418: no extraction is refused by StructuredExtraction.validate_payload, and data
\* of the model is handed out only if it is as the schema says and all of it is on the page.
THEOREM ExtractionsStaySound == ContentSpec => []ExtractionsAreSound
<1>. QED BY StructuredInvariant, InvIsSound, PTL
=============================================================================
