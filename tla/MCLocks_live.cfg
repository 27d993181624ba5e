SPECIFICATION FairSpec
CONSTANTS
  NTasks = 3
  MaxPriority = 2
  Prio <- Prio3
  InitQ <- Q3
  ITask <- NoTask
  BusyHelper <- NoTask
  MinRun = {}
  SleepKinds <- Sleeps3
  SleepIDTargets = {2}
  WakeTargets = {2}
  Removable = {}
  Creators = {}
  Params <- Params3
  Lock = {"l"}
  NoLock = "none"
  LockUsers <- Lock3
  NoPrioInv = {}
  MaxToken = 3
PROPERTIES
  PendingSleepHappens
  WaiterIsServed
