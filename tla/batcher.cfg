CONSTANTS
  Keys = {"a"}
  MaxEvents = 2
  Coalesce = TRUE
  RotateAt = 20
  CriticalWaterMark = 2
  Retries = 1
  MaxLog = 2
  MaxFails = 2
  MaxCrashes = 1
  MaxStops = 1
SPECIFICATION Spec
INVARIANTS TypeOK AckedDelivered SentIsLogged
PROPERTIES WalDelivered StopReturns
