SPECIFICATION FairSpec
CONSTANTS
  Sessions = {s1}
  NoSession = NoSession
  Bodies <- BodiesUpTo2
INVARIANTS
  PassEarned
  JustFailure
PROPERTIES
  ImplementsAttempt
  EndsUnlessCursors
\* A finished attempt stops.
CHECK_DEADLOCK FALSE
