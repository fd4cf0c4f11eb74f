SPECIFICATION Spec
CONSTANTS
  Parts = {"lock", "handshake", "stream", "map", "ini", "settings", "cmdset", "text", "admin", "spam"}
  Proc = {p1, p2}
  MaxTries = 2
  MaxFiles = 3
  Nobody = Nobody
  ClientExt = {"customblocks", "extendblockno", "extentityposn", "extendtexno", "fastmap",
               "heldblock", "envmapappearance2", "evilbastard", "bulk", "unknown"}
  Disabled = {"bulk"}
  MaxCount = 4
  MaxLate = 2
  MaxFrames = 2
  MaxPayload = 4
  Longest = 3
  Low = 4
  Cell = {1, 2}
  MaxChanges = 2
  Saves = 1
  Session = {s1, s2}
  Listener = Listener
  MaxSets = 2
  MB_STRLEN = 9
  MaxUnits = 4
  Level = {"a", "b"}
  Kept = "a"
  Client = {c1, c2}
  MaxActs = 3
  MAX_LEVEL = 2
  Count = 3
  Time = 7
  Bans = {0, 1}
  Second = 5
  MaxDebt = 9
INVARIANTS
  TypeOK OneMutex NeverStuck SendsWhatIsListed ReadsWhatIsCut CompletedInTheEnd
  PacketsAsSent SameAgain SavedComesBack SetStays RunsAsTold SaidIsShown AsOrdered AsAllowed
CHECK_DEADLOCK FALSE
