SPECIFICATION ContentSpec
CONSTANTS
  east = east
  north = north
  west = west
  ChunkTexts <- MCNoTexts
  Strategies <- MCStrategies
  MaxSegmentsDP = 4
  Directions <- MCDirections
  Cosine <- MCCosine
  Nil = Nil
  MaxLinks = 1
  MaxTables = 1
  MaxRows = 2
  MaxCells = 3
  MaxText = 1
  MaxDocuments = 2
  MaxFields = 2
  MaxFailures = 2
  MaxTokens = 7
  MaxBlocks = 3
  Jobs <- MCLdJobs
  ModelReplies <- MCReplies
INVARIANTS DocumentsAreCounted
CHECK_DEADLOCK FALSE
