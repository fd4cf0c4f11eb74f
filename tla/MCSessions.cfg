SPECIFICATION MCSpec
CONSTANTS
  Pid = {p1, p2, p3}
  User = {u1, u2}
  Slots = 2
  MaxPlayers = 2
  MaxForks = 3
  NoPid = NoPid
  NoUser = NoUser
  Users = 5
  Ids = 4
  ClassicMax = 2
  Few = 2
  Me = 1
  Movers = {0, 4}
  MaxSteps = 2
  Client = {c1, c2}
  Depth = 2
  MaxWidth = 2
  MaxEdits = 1
SYMMETRY Symmetry
CONSTRAINT Followed
INVARIANTS TypeOK OneActivePerName RunningOwnsSlot  NobodyMisled AsSeen AsResized
