SPECIFICATION FairSpec
CONSTANTS
  Symbols = {"EURUSD"}
  Clients = {c1}
  c1 = c1
  MaxTick = 2
  MaxErrors = 1
  MaxCrashes = 3
  MaxLeaves = 1
INVARIANT TypeOK
INVARIANT ServedIsCurrent
PROPERTY QuoteIsWritten
PROPERTY ChangeIsPushed
PROPERTY LostIsRestarted
