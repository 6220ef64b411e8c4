SPECIFICATION Spec
CONSTANTS
  Workers = {w1, w2}
  NoWorker = NoWorker
  NTasks = 2
  MaxAttempts = 2
INVARIANTS
  ReverseLookup
CHECK_DEADLOCK FALSE
