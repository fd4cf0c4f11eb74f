SPECIFICATION Spec
CONSTANTS
  Proc = {p1, p2}
  NoProc = NoProc
  MinQueue = 2
  StdQueue = 2
  MaxLen = 3
  Wanted = {3}
  Totals = {2, 9}
  Batch = 2
  ReloadDelay = 1
  CrashInWrap = FALSE
  MaxUpdates = 4
  MaxGeneration = 5
SYMMETRY Symmetry
INVARIANT IInv
PROPERTIES ImplementsLog VoidReachesAll
