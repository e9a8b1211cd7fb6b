SPECIFICATION FairSpec
CONSTANTS
  Symbols = {1, 2}
  RatioNum = 1
  RatioDen = 2
  StartDate = 0
  ChunkLen = 3
  InsertBatch = 2
  CatchUpLag = 1
  HistoryRetries = 1
  EmptyLimit = 1
  Day = 2
  Ahead = 1
  Lookback = 4
  RepairSince <- NoTime
  BackfillOn = TRUE
  RepairOn = TRUE
  PruneCache = FALSE
  Bars <- Sparse
  Loaded0 <- None
  Stored0 <- FirstOnly
  Refusals = TRUE
  Now0 = 3
  MaxNow = 4
  MaxFaults = 1
PROPERTIES
  EventuallyComplete
  BackfillEnds
  NeverForgotten
