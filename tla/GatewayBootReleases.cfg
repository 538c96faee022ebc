SPECIFICATION Spec
CONSTANTS
  Tarballs = {obscura}
  Pinned = {obscura}
  Deno = deno
  Reach = reach
  Shimmed = {}
  Repos = {alpha, beta}
  Trees = {npm}
  Cache = npm
  Releases <- MCReleases
  Slots = 2
  MaxBoots = 2
INVARIANT ExactReleases
CHECK_DEADLOCK FALSE
