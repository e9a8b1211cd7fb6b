SPECIFICATION Spec
CONSTANTS
  Symbols = {1, 2}
  RatioNum = 1
  RatioDen = 2
  StartDate = 0
  ChunkLen = 2
  InsertBatch = 2
  CatchUpLag = 1
  HistoryRetries = 1
  EmptyLimit = 2
  Day = 2
  Ahead = 1
  Lookback = 1
  RepairSince <- NoTime
  BackfillOn = TRUE
  RepairOn = TRUE
  PruneCache = FALSE
  Bars <- Closed
  Loaded0 <- Closed
  Stored0 <- None
  Refusals = FALSE
  Now0 = 2
  MaxNow = 4
  MaxFaults = 0
INVARIANTS
  HistoryFromStartDate
