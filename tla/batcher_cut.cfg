CONSTANTS
  Keys = {"a", "b"}
  MaxEvents = 1
  Coalesce = TRUE
  RotateAt = 20
  CriticalWaterMark = 2
  Retries = 1
  MaxLog = 3
  MaxFails = 2
  MaxCrashes = 1
  MaxStops = 1
SPECIFICATION Spec
INVARIANTS AckedDelivered
