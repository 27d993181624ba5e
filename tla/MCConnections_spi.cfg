SPECIFICATION Spec
CONSTANTS
  N_CONNS = 4
  rx_chans = 1
  wf_chans = 1
  monitors_max = 1
  Session = {"s1", "s2"}
  NoSession = "none"
  Mc <- McPairs
  NoMc = NoMc
  Kiwi = {"s1", "s2"}
  Internal = {}
  Autorun = {}
  Preempts = {"s1", "s2"}
  TasksRunOut = FALSE
  Yields = {"spi"}
INVARIANT RemovesSafely
CHECK_DEADLOCK FALSE
