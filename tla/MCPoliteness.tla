---------------------------- MODULE MCPoliteness ----------------------------
(* Model-checking instance of Politeness. *)
EXTENDS Politeness, TLC

PoliteSymmetry == Permutations(Callers) \cup Permutations(Hosts)
=============================================================================
