\* The start-up repair beside a refresh: violated by the code.
SPECIFICATION FairSpec
CONSTANTS
  v1 = v1
  v2 = v2
  v3 = v3
  Versions = {v1, v2}
  NoVersion = NoVersion
  FetchedAt <- FetchOrder
  Ahead = {}
  Writers = {w1, w2}
  Nobody = Nobody
  Roles = {"refresh", "bootstrap"}
  Retention = 2
  MaxGeneration = 3
  MaxCrashes = 0
  MaxFaults = 0
CHECK_DEADLOCK FALSE
PROPERTY BootstrapKeepsHealthy
