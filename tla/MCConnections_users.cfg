SPECIFICATION FairSpec
CONSTANTS
  N_CONNS = 3
  rx_chans = 1
  wf_chans = 1
  monitors_max = 0
  Session = {"s1", "s2", "a"}
  NoSession = "none"
  Mc <- McUsers
  NoMc = NoMc
  Kiwi = {"s1"}
  Internal = {"a"}
  Autorun = {"a"}
  Preempts = {"s1"}
  TasksRunOut = FALSE
  Yields = {}
INVARIANTS     ExtUserIsExt
PROPERTIES KeepsWebsocket 
