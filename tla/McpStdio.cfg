SPECIFICATION FairSpec
CONSTANTS
  Leader = leader
  Procs = {leader, helper}
  ChanCap = 1
  ProbeId = 9
  MaxLines = 3
  MaxReqs = 3
INVARIANTS
  TypeOK
  AnswersInOrder
  BufferedReplyCounts
  VerdictEarned
  ClosedMeansKilled
PROPERTIES
  ImplementsAttempt
  DeadlineEndsIt
  ExitIsNoticed
  ClosedIsReaped
\* A finished attempt stops: no step is left once the client is done, the
\* group is dead and the leader reaped.
CHECK_DEADLOCK FALSE
