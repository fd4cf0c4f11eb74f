SPECIFICATION FairSpec
CONSTANTS
  Proc = {p1, p2}
  NoProc = NoProc
  MinQueue = 2
  StdQueue = 2
  MaxLen = 2
  Wanted = {2}
  Totals = {9}
  Batch = 1
  ReloadDelay = 8
  CrashInWrap = FALSE
  MaxUpdates = 3
  MaxGeneration = 2
PROPERTY CatchesUp
