SPECIFICATION Spec
CONSTANTS
  Symbols = {1, 2}
  RatioNum = 1
  RatioDen = 2
  StartDate = 1
  ChunkLen = 1
  InsertBatch = 2
  CatchUpLag = 1
  HistoryRetries = 2
  EmptyLimit = 2
  Day = 2
  Ahead = 1
  Lookback = 1
  RepairSince = 0
  BackfillOn = FALSE
  RepairOn = TRUE
  PruneCache = TRUE
  Bars <- Sparse
  Loaded0 <- None
  Stored0 <- FirstOnly
  Refusals = TRUE
  Now0 = 3
  MaxNow = 4
  MaxFaults = 1
INVARIANTS
  TypeOK
  ReceivedIsStored
  CatalogTracked
  PassStartsFromCandle
PROPERTIES
  ImplementsLog
