----------------------------- MODULE MCSiteCrawl -----------------------------
(* Model-checking instance of SiteCrawl: the seed (home), two pages, one of     *)
(* them also under a spelling with a query (tagged), which the request excludes, *)
(* and a page of a subdomain (away) that its robots file disallows.  There are   *)
(* more keys than may be discovered.                                             *)
EXTENDS SiteCrawl

CONSTANTS home, pageA, pageB, tagged, away, map1, map2

Page(u) == [http |-> TRUE, valid |-> TRUE, key |-> u, origin |-> "seed", underSeed |-> TRUE,
            query |-> FALSE, excluded |-> FALSE, included |-> TRUE, fileType |-> TRUE,
            safe |-> TRUE, disallowed |-> FALSE]

AddressOf == [u \in Urls |->
  CASE u = away -> [Page(u) EXCEPT !.origin = "sub", !.underSeed = FALSE, !.disallowed = TRUE]
    [] u = tagged -> [Page(u) EXCEPT !.key = pageA, !.query = TRUE]
    [] u = pageB -> [Page(u) EXCEPT !.underSeed = FALSE]
    [] OTHER -> Page(u)]

\* The second sitemap belongs to the subdomain, whose robots file, if there is one, disallows it.
FactsOf == [m \in Sitemaps |->
  [origin |-> IF m = map2 THEN "sub" ELSE "seed", safe |-> TRUE, disallowed |-> m = map2]]
RootsOf == <<map1, map2>>
World(x, y, c, pages, mode, search) ==
  [truth |-> [seed |-> x, sub |-> y], cached |-> c,
   request |-> [maxPages |-> pages, sitemap |-> mode, search |-> search]]
WorldsOf ==
  {World("available", "unavailable", {"seed"}, 2, "include", FALSE),
   World("available", "unreachable", {}, 3, "include", FALSE),
   World("available", "available", {"sub"}, 3, "skip", TRUE),
   World("unavailable", "available", {}, 2, "only", FALSE),
   World("unreachable", "available", {}, 2, "include", FALSE)}
=============================================================================
