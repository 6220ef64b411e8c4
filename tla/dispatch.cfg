SPECIFICATION FairSpec
CONSTANTS
  Workers = {w1, w2}
  NoWorker = NoWorker
  NTasks = 2
  MaxAttempts = 2
INVARIANTS
  LedgerIsUnanswered
  OwnersDistinct
PROPERTIES
  MappedTaskAnswered
CHECK_DEADLOCK FALSE
