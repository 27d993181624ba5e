SPECIFICATION Spec
CONSTANTS
  N_CONNS = 4
  rx_chans = 2
  wf_chans = 1
  monitors_max = 1
  Session = {"s1", "s2", "a"}
  NoSession = "none"
  Mc <- McVictim
  NoMc = NoMc
  Kiwi = {"s1", "s2"}
  Internal = {"a"}
  Autorun = {"a"}
  Preempts = {"s1", "s2"}
  TasksRunOut = FALSE
  Yields = {}
INVARIANT VictimsUseAutorun
CHECK_DEADLOCK FALSE
