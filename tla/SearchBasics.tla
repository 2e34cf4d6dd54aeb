---------------------------- MODULE SearchBasics ----------------------------
(***************************************************************************)
(* What the parts of a search have in common: sums, filters and orders.    *)
(* Like Loops, they are written as functions, for the sake of the proofs.  *)
(***************************************************************************)
EXTENDS Loops, FiniteSets, SequencesExt

CONSTANT None  \* Python's None

Total(weights) == Looped(LAMBDA s, w : s + w, 0, weights)
Sum(n, V(_)) == Total([i \in 1..n |-> V(i)])

\* The elements of a finite set by a strict order of them: k - 1 come before the k-th.
Ranked(S, R) ==
  [k \in 1..Cardinality(S) |-> CHOOSE x \in S : Cardinality({y \in S : <<y, x>> \in R}) = k - 1]
InOrder(S, Before(_, _)) == Ranked(S, {p \in S \X S : Before(p[1], p[2])})
Ascending(I) == InOrder(I, LAMBDA i, j : i < j)

\* The items at some positions, and those that pass a test, in their order
ItemsAt(items, I) == [k \in 1..Cardinality(I) |-> items[Ascending(I)[k]]]
Kept(items, Test(_)) == ItemsAt(items, {i \in DOMAIN items : Test(items[i])})

Indexes(n) == [i \in 1..n |-> i]

\* sorted(): stable, by a strict order of the items
Sorted(items, Before(_, _)) ==
  LET order == InOrder(DOMAIN items,
                 LAMBDA i, j : \/ Before(items[i], items[j])
                               \/ ~Before(items[j], items[i]) /\ i < j)
  IN [k \in 1..Len(items) |-> items[order[k]]]
=============================================================================
