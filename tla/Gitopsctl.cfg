SPECIFICATION Spec
CONSTANTS
  NoCache = NoCache
  NoEntry = NoEntry
  NoTool = NoTool
  NoProbe = NoProbe
  GatewayCache = GatewayCache
  Names <- Servers
  PrivateCache <- Cache
  Options <- Dashed
  Packages <- Versions
  Lines <- SmallLines
  Charts <- SmallCharts
  ValuesFiles <- SmallValues
  Manifests <- SmallManifests
INVARIANTS
  TemplatesExact
  CacheKeysFound
  CleanMeansSafe
  AnyFlagOrder
  InstalledWhole
CHECK_DEADLOCK FALSE
