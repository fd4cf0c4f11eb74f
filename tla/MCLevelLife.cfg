SPECIFICATION Spec
CONSTANTS
  User = {u1, u2}
  NoUser = nobody
  MaxEdits = 2
  QueueLen = 2
  MayDie = FALSE
  MaxFails = 1
SYMMETRY Symmetry
CONSTRAINT Followed
INVARIANTS TypeOK EditsKept FilesStay
