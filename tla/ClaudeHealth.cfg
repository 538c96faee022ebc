SPECIFICATION Spec
CONSTANTS
  Turns = {s1, s2, s3}
  Throttle = 4
  ProbeTimeout = 1
  PostTimeout = 2
  MaxClock = 9
INVARIANTS
  ChecksApart
  AlertsAreJust
PROPERTY SkipsAreCovered
\* The clock stops at its bound.
CHECK_DEADLOCK FALSE
