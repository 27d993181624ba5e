SPECIFICATION Spec
CONSTANTS
  NTasks = 5
  MaxPriority = 2
  Prio <- PrioAll
  InitQ <- QAll
  ITask = 2
  BusyHelper = 3
  MinRun = {4}
  SleepKinds <- SleepsAll
  SleepIDTargets = {1}
  WakeTargets = {1}
  Removable = {4}
  Creators = {0, 1}
  Params <- ParamsAll
  Lock = {"l"}
  NoLock = "none"
  LockUsers <- LockAll
  NoPrioInv = {2}
  MaxToken = 3
INVARIANTS
  TypeOK
  MutualExclusion
  TokensServed
  FreeLockIsWanted
  WaiterNeverSleeps
  StoppedHasReason
  BoostEnds
  OwnerInherits
  UsersKnown
  QueuesConsistent
PROPERTIES
  ImplementsPriorityLock
