SPECIFICATION Spec
CONSTANTS
  grafana = grafana
  github = github
  Npm <- MCNpm
  Uv = {aws}
  Deno = {diagrams}
  Caches <- MCNpm
  CacheOf <- MCCacheOf
  Specs = {v1, v2}
  NoSpec = none
  Parallel = 1
  MaxBoots = 3
INVARIANT ZeroMeansWarm
CHECK_DEADLOCK FALSE
