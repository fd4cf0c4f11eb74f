SPECIFICATION FairSpec
CONSTANTS
  User = {u1}
  NoUser = nobody
  MaxEdits = 1
  QueueLen = 2
  MayDie = TRUE
  MaxFails = 1
PROPERTY UnloadEnds
