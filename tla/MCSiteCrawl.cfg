SPECIFICATION FairSpec
CONSTANTS
  home = home
  pageA = pageA
  pageB = pageB
  tagged = tagged
  away = away
  map1 = map1
  map2 = map2
  None = None
  Urls = {home, pageA, pageB, tagged, away}
  Address <- AddressOf
  Sitemaps = {map1, map2}
  SitemapFacts <- FactsOf
  Roots <- RootsOf
  Seed = home
  MaxDepth = 2
  MaxDiscovered = 3
  IncludeParentPaths = TRUE
  IncludeSubdomains = TRUE
  QueryPolicy = "exclude"
  HasIncludes = FALSE
  MaxFanout = 3
  MaxSitemapDocuments = 2
  MaxSitemapDepth = 1
  Worlds <- WorldsOf
  MaxLinks = 2
  MaxEntries = 1
CHECK_DEADLOCK FALSE
INVARIANTS OncePerPage RobotsRespected EveryRecordSettled CompletedIsClosed
PROPERTY Finishes
