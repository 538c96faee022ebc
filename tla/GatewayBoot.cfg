SPECIFICATION FairSpec
CONSTANTS
  Tarballs = {doppler}
  Pinned = {}
  Deno = deno
  Reach = reach
  Shimmed = {doppler}
  Repos = {alpha}
  Trees = {npm}
  Cache = npm
  Releases <- MCReleases
  Slots = 2
  MaxBoots = 2
INVARIANTS
  BootProvides
  PathRepaired
  OwnedButForStrays
  IndexReportTrue
PROPERTY HandsOver
\* Nothing is left to do after the last boot.
CHECK_DEADLOCK FALSE
