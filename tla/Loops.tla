------------------------------- MODULE Loops -------------------------------
(***************************************************************************)
(* A loop over a sequence.  It is written as a function, not with the      *)
(* folds of the community modules, so that a proof can reason about it.    *)
(***************************************************************************)
EXTENDS Integers, Sequences

\* What Step makes of first, item after item.
Looped(Step(_, _), first, items) ==
  LET after[n \in 0..Len(items)] == IF n = 0 THEN first ELSE Step(after[n - 1], items[n])
  IN after[Len(items)]
=============================================================================
