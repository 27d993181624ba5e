SPECIFICATION Spec
CONSTANTS
  User = {"u1"}
  Admin = {"admin"}
  Parts = 3
  MaxSeq = 2
  MaxLoads = 2
CHECK_DEADLOCK FALSE
INVARIANTS
  PartsReassembled
