--------------------------- MODULE MCCrawlJobStore ---------------------------
(* Model checking the job store: page keys, claims and prints are interchangeable. *)
EXTENDS CrawlJobStore, TLC

Symmetry == Permutations(PageKeys) \cup Permutations(Claims) \cup Permutations(Prints)
=============================================================================
