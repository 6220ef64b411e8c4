SPECIFICATION Spec
CONSTANTS
  a = a
  Jobs = {a}
  Coordinators = {mc1, mc2}
  Self = mc1
  NoOne = NoOne
  RowPriority <- MCRowPriority
  RowStatus <- MCRowStatus
  FetchLimit = 1
  NumPriorityLevels = 2
  MaxJobsPerLevel = 1
  MaxJobsTotal = 1
  NoLevel = 99
  DispatchQuota = 1
  Fetches = {f1, f2}
  SyncCycles = {s1, s2}
  Sweeps = {g}
  Snapshots = {m}
  NoWrite = NoWrite
  StorageMode = "both"
  Budgets <- MCFlushBudgets
PROPERTY WriteBacksAreFlushed
CHECK_DEADLOCK FALSE
