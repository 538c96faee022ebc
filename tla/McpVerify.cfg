SPECIFICATION FairSpec
CONSTANTS
  Names <- MCNames
  Baseline = {"PATH"}
  Defaulted = {"PATH"}
  N = 2
  Tools = {"list", "read"}
  Entries <- MCEntries
  Attempts = 2
INVARIANTS
  ExitEarned
  SingleFaultAbsorbed
  LiteralNeedsChain
PROPERTIES
  OneAtATime
  RunEnds
\* The program exits.
CHECK_DEADLOCK FALSE
