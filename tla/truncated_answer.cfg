\* The instance of api.cfg, without calls that fail.
SPECIFICATION Spec
CONSTANTS
  t1 = t1
  t2 = t2
  c1 = c1
  c2 = c2
  c3 = c3
  Threads = {t1, t2}
  Clients <- Connections
  NoClient = NoClient
  Size = 1
  Kinds <- TwoThreads
  Frames = {1, 2}
  MaxRows = 2
  Lag = 0
  Stored0 = {0}
  Now0 = 2
  MaxNow = 3
  MaxFaults = 0
SYMMETRY Alike
PROPERTY AnswerIsWhole
