SPECIFICATION HFairSpec
CONSTANTS
  NSlots = 3
  Which = {0, 2}
  NoWait = {2}
  MaxSignals = 2
  LateClear = FALSE
INVARIANTS TypeOK CallIsNoticed
PROPERTIES CallReturns AloneImplementsRpc
