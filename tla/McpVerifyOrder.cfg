SPECIFICATION Spec
CONSTANTS
  Names <- MCNames
  Baseline = {"PATH"}
  Defaulted = {"PATH"}
  N = 2
  Tools = {"list", "read"}
  Entries <- MCEntries
  Attempts = 2
INVARIANT DeclaredFallback
CHECK_DEADLOCK FALSE
