CONSTANTS
  Keys = {"a", "b"}
  MaxEvents = 2
  Coalesce = TRUE
  RotateAt = 2
  CriticalWaterMark = 2
  Retries = 1
  MaxLog = 2
  MaxFails = 2
  MaxCrashes = 1
  MaxStops = 1
SPECIFICATION Spec
PROPERTIES CompactionKeepsUnacked
