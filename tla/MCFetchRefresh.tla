--------------------------- MODULE MCFetchRefresh ---------------------------
(* Model-checking instance of FetchRefresh: the two requests are alike.     *)
EXTENDS FetchRefresh, TLC

RequestSymmetry == Permutations(Requests)
=============================================================================
