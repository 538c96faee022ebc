SPECIFICATION Spec
CONSTANTS
  Leader = leader
  Procs = {leader, helper}
  ChanCap = 1
  ProbeId = 9
  MaxLines = 3
  MaxReqs = 3
INVARIANT NothingOutlives
CHECK_DEADLOCK FALSE
