SPECIFICATION Spec
CONSTANTS
  n1 = n1
  n2 = n2
  Node = {n1, n2}
  None = None
  Configs <- MCConfigs
  Scenarios <- MCScenarios
  MaxSuffix = 1
CHECK_DEADLOCK FALSE
INVARIANTS StoresKept RoutesFollow
PROPERTIES BucketTuned  NoUnprovenPrimaryStart ColdStart
