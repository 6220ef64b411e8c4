\* One worker slot and two warm slots: warm id 0 has a worker slot of the
\* same id, warm id 1 has not, so both ways of binding and a failed bind
\* happen.  Two plugins are no different from one for the pool.
SPECIFICATION FairSpec
CONSTANTS
  Workers = {w1, w2}
  TempKeys = {t1, t2}
  Plugins = {p1}
  NoKey = NoKey
  NoPlugin = NoPlugin
  WorkerSlots = 1
  WarmSlots = 2
  SpawnOutcomes = {"ok", "fails"}
INVARIANTS
  TypeOK
  SlotAccounting
  RegisterSlotAgrees
  ClaimHoldsWarmSlot
  NoSlotCollision
  WorkersHaveProcesses
  NoOrphanProcess
  AssignedAreBusy
PROPERTIES
  WorkerLifeCycle
  KilledWorkerReleasesSlot
  SpawnResolves
