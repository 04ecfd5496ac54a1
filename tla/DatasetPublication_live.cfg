\* Liveness under Fairness.  No symmetry: it is not sound for liveness.
SPECIFICATION FairSpec
CONSTANTS
  v1 = v1
  v2 = v2
  v3 = v3
  Versions = {v1, v2, v3}
  NoVersion = NoVersion
  FetchedAt <- FetchOrder
  Ahead = {}
  Writers = {w1, w2}
  Nobody = Nobody
  Roles = {"refresh", "rollback"}
  Retention = 2
  MaxGeneration = 3
  MaxCrashes = 1
  MaxFaults = 0
CHECK_DEADLOCK FALSE
INVARIANT Settled
PROPERTY NewestAttemptPublishes
PROPERTY AttemptEnds
PROPERTY PublicationReachesCache
