\* Two sources, a request and an administrator.  The file keeps four runs and
\* five are created, so the list is cut; a crash or a storage error.
SPECIFICATION FairSpec
CONSTANTS
  NoRequest = NoRequest
  Sources = {a, b}
  Requests = {q1}
  MaxRecent = 4
  MaxPending = 2
  Observed = {"fresh"}
  MaxRuns = 5
  MaxFailures = 1
INVARIANTS
  NoDuplicateExecution
  NoWorkIsLost
PROPERTIES
  OneRunPerRequest
  CheckpointsAreFinal
  RunsEnd
CHECK_DEADLOCK FALSE
