---------------------------- MODULE MCResultPages ----------------------------
(* Model checking cursor pages: page keys are interchangeable.             *)
EXTENDS ResultPages, TLC

Symmetry == Permutations(PageKeys)
=============================================================================
