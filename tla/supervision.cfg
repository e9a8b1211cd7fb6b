SPECIFICATION FairSpec
CONSTANTS
  Registered <- TwoWorkers
  MaxQueue = 1
  MaxFaults = 3
INVARIANT TypeOK
INVARIANT StatusIsCurrent
INVARIANT StoppedMeansGone
PROPERTY ImplementsOneTerminal
PROPERTY DeadIsReplaced
PROPERTY SilentIsReplaced
PROPERTY StopEnds
