SPECIFICATION OperatorSpec
CONSTANTS
  Symbols = {1, 2}
  RatioNum = 1
  RatioDen = 2
  StartDate = 0
  ChunkLen = 2
  InsertBatch = 2
  CatchUpLag = 1
  HistoryRetries = 2
  EmptyLimit = 2
  Day = 2
  Ahead = 1
  Lookback = 1
  RepairSince <- NoTime
  BackfillOn = TRUE
  RepairOn = TRUE
  PruneCache = FALSE
  Bars <- Traded
  Loaded0 <- Traded
  Stored0 <- None
  Refusals = FALSE
  Now0 = 2
  MaxNow = 4
  MaxFaults = 2
  RewindWhileRunning = FALSE
INVARIANT HolesAreRewound
INVARIANT FinishedIsComplete
INVARIANT RewoundIsAhead
