--------------------------- MODULE ContentBasics ---------------------------
(* What the modules about the text of a page have in common. *)
EXTENDS Loops, FiniteSets, SequencesExt

CONSTANT Nil  \* Python's None

\* A sum of natural numbers: each is that many pairs.
SumOf(weights) == Cardinality(UNION {{k} \X (1..weights[k]) : k \in DOMAIN weights})

\* Where a text occurs in another; str.find answers the first of them.
Occurrences(part, text) ==
  {i \in 0..(Len(text) - Len(part)) : SubSeq(text, i + 1, i + Len(part)) = part}
=============================================================================
