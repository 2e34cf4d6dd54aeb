----------------------------- MODULE MCCrawlJobs -----------------------------
(* Model checking the manager: page keys and claims are interchangeable.   *)
EXTENDS CrawlJobs, TLC

Symmetry == Permutations(PageKeys) \cup Permutations(Claims)
=============================================================================
