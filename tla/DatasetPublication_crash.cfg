\* Two writers of every role; one process dies, one file is damaged or one
\* write fails.
SPECIFICATION Spec
CONSTANTS
  v1 = v1
  v2 = v2
  v3 = v3
  Versions = {v1, v2, v3}
  NoVersion = NoVersion
  FetchedAt <- FetchOrder
  Ahead = {v3}
  Writers = {w1, w2}
  Nobody = Nobody
  Roles = {"refresh", "rollback", "bootstrap"}
  Retention = 2
  MaxGeneration = 3
  MaxCrashes = 1
  MaxFaults = 1
SYMMETRY WriterSymmetry
VIEW LiveView
CHECK_DEADLOCK FALSE
INVARIANT ManifestBacked
PROPERTY StatusGenerationMonotone
PROPERTY PublishesForward
PROPERTY RollbackStaysPossible
PROPERTY ImplementsPublished
