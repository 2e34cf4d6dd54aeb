SPECIFICATION AnswersSpec
CONSTANTS
  None = None
  Urls <- UrlsOf
  KeyOf <- KeysOf
  HostOf <- HostsOf
  Domains = {"a", "b", "c", "inside"}
  DomainsOf <- DomainsOfHosts
  LexicalOf <- Lexical
  UrlBytes <- DiagBytes
  Engines = {"g", "h"}
  ScoreUnit = 6
  MaxDiagnostics = 3
  MaxDiagnosticsBytes = 9
  LengthOf <- LengthsOf
  MaxCandidates = 3
  BatchSize = 2
  ItemOverhead = 2
  MaxItem = 6
  MaxEvidence = 14
  MaxPassages = 3
  MaxRawItem = 6
  MaxRawBytes = 9
  MaxRawItems = 2
  MaxBody = 5
  MaxContent = 5
  Queries = {"q", "r"}
  Query = "q"
  MaxSubqueries = 2
  MaxFanout = 3
  FingerprintOf <- Fingerprints
  UnsafeHosts = {"inside"}
  Searches <- SearchesOf
  east = east
  north = north
  west = west
  ChunkTexts <- MCTexts
  Strategies <- MCStrategies
  MaxSegmentsDP = 4
  Directions <- MCDirections
  Cosine <- MCCosine
  Nil = Nil
  MaxLinks = 1
  MaxTables = 1
  MaxRows = 2
  MaxCells = 3
  MaxText = 1
  MaxDocuments = 2
  MaxFields = 2
  MaxFailures = 2
  MaxTokens = 7
  MaxBlocks = 3
  Jobs <- MCJobs
  ModelReplies <- MCReplies
CHECK_DEADLOCK FALSE
INVARIANTS
  EvidenceIsFaithful BudgetsHold StatsAddUp ReasonIsTrue SelectionIsSound NoSourceIsCrowdedOut
  ChunksAreVerbatim GroupsAreBest ExtractionsAreSound NothingIsLost
