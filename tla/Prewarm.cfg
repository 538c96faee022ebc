SPECIFICATION FairSpec
CONSTANTS
  grafana = grafana
  github = github
  Npm <- MCNpm
  Uv = {aws}
  Deno = {diagrams}
  Caches <- MCNpm
  CacheOf <- MCCacheOf
  Specs = {v1, v2}
  NoSpec = none
  Parallel = 1
  MaxBoots = 3
INVARIANTS
  MarkerSound
  ReportTrue
  SweepSparesOwn
  ExitCountsAll
PROPERTY PrewarmEnds
\* Nothing is left to do after the last boot.
CHECK_DEADLOCK FALSE
