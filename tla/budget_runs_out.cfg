SPECIFICATION FairSpec
CONSTANTS
  Symbols = {1, 2}
  RatioNum = 1
  RatioDen = 2
  StartDate = 0
  ChunkLen = 1
  InsertBatch = 2
  CatchUpLag = 1
  HistoryRetries = 1
  EmptyLimit = 2
  Day = 1
  Ahead = 0
  Lookback = 1
  RepairSince <- NoTime
  BackfillOn = TRUE
  RepairOn = TRUE
  PruneCache = FALSE
  Bars <- Silence
  Loaded0 <- Silence
  Stored0 <- FirstOnly
  Refusals = FALSE
  Now0 = 4
  MaxNow = 4
  MaxFaults = 0
PROPERTIES
  BackfillEnds
