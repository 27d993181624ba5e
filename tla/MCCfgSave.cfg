SPECIFICATION Spec
CONSTANTS
  User = {"u1"}
  Admin = {"admin"}
  Parts = 3
  MaxSeq = 2
  MaxLoads = 2
CONSTRAINT Claimed
CHECK_DEADLOCK FALSE
INVARIANTS
  SavedIsSent
  FileIsCurrent
PROPERTIES
  NewestWins
