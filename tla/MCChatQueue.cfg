SPECIFICATION MCSpec
CONSTANTS
  Proc = {p1, p2}
  NoProc = NoProc
  QueueLen = 3
  MaxParts = 4
  CrashInWrap = FALSE
  MaxCount = 5
  MaxStarts = 2
  Session = {s1, s2}
  Admin = Admin
  Reaper = Reaper
  MaxEvents = 4
SYMMETRY Symmetry

INVARIANTS TypeOK WholeMessages AsTold Counted
PROPERTY ImplementsLog
