SPECIFICATION Spec
CONSTANTS
  N_CONNS = 2
  rx_chans = 1
  wf_chans = 1
  monitors_max = 1
  Session = {"s1", "a"}
  NoSession = "none"
  Mc <- McFails
  NoMc = NoMc
  Kiwi = {"s1"}
  Internal = {"a"}
  Autorun = {"a"}
  Preempts = {"s1"}
  TasksRunOut = TRUE
  Yields = {"spi", "scan"}
INVARIANTS TypeOK BusyHasConn
CHECK_DEADLOCK FALSE
