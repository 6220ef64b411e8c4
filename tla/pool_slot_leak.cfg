SPECIFICATION Spec
CONSTANTS
  Workers = {w1, w2}
  TempKeys = {t1, t2}
  Plugins = {p1}
  NoKey = NoKey
  NoPlugin = NoPlugin
  WorkerSlots = 1
  WarmSlots = 2
  SpawnOutcomes = {"ok", "fails"}
SYMMETRY Symmetry
INVARIANTS
  NoSlotLeak
