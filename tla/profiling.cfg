\* Two requests with a report beside a session without one, four files in
\* all and room for two: the throttle bites, flushes overlap and fail.
SPECIFICATION FairSpec
CONSTANTS
  s1 = s1
  g1 = g1
  g2 = g2
  Execs <- MCExecs
  Session = {s1}
  Output = {g1, g2}
  Forced = {g2}
  Target <- MCTarget
  Files <- MCFiles
  MaxPending = 2
  SaveOutcomes = {"ok", "fails"}
INVARIANTS
  TypeOK
  PendingWithinLimit
  OneRowPerTask
  CompletedIsAnswered
PROPERTIES
  CallsReturn
CHECK_DEADLOCK FALSE
