SPECIFICATION Spec
CONSTANTS
  a = a
  Jobs = {a, b}
  Coordinators = {mc1, mc2}
  Self = mc1
  NoOne = NoOne
  RowPriority <- MCRowPriority
  RowStatus <- MCRowStatus
  FetchLimit = 2
  NumPriorityLevels = 2
  MaxJobsPerLevel = 2
  MaxJobsTotal = 2
  NoLevel = 99
  DispatchQuota = 1
  Fetches = {f1, f2}
  SyncCycles = {s1, s2}
  Sweeps = {g}
  Snapshots = {m}
  NoWrite = NoWrite
  StorageMode = "both"
  Budgets <- MCBudgets
INVARIANTS TypeOK RegistryAgrees WriteBackIsCurrent DispatchedOncePerRow UnhandedIsLogged
PROPERTIES MovesForward AckedByHolder
CHECK_DEADLOCK FALSE
