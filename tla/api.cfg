\* A list of one connection for two threads.
SPECIFICATION Spec
CONSTANTS
  t1 = t1
  t2 = t2
  c1 = c1
  c2 = c2
  c3 = c3
  Threads = {t1, t2}
  Clients <- Connections
  NoClient = NoClient
  Size = 1
  Kinds <- TwoThreads
  Frames = {1, 2}
  MaxRows = 2
  Lag = 0
  Stored0 = {0}
  Now0 = 2
  MaxNow = 3
  MaxFaults = 1
SYMMETRY Alike
INVARIANT TypeOK
INVARIANT NeverShared
INVARIANT NothingLeaks
INVARIANT NobodyWaits
INVARIANT ShownDoneIsDone
PROPERTY QuietAnswerIsWhole
PROPERTY AnnouncedIsServed
