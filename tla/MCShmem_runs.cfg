SPECIFICATION HSpec
CONSTANTS
  NSlots = 2
  Which = {0, 1}
  NoWait = {}
  MaxSignals = 2
  LateClear = FALSE
INVARIANT CallRunsFunction
