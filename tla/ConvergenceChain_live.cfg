\* Liveness under Fairness.  No symmetry: it is not sound for liveness.
SPECIFICATION FairSpec
CONSTANTS
  s1 = s1
  s2 = s2
  shared = shared
  Sources = {s1, s2}
  Retries = {"retry_transport", "probe_upstream", "retry_local"}
  Stops = {}
  Delays <- ShortDelays
  Horizon <- ShortHorizons
  Eligible <- Probes
  Lease <- ShortLeases
  Workers = {w1}
  Owner <- SameOwner
  NoOwner = NoOwner
  MaxTime = 5
  MaxReports = 1
  MaxCrashes = 1
CHECK_DEADLOCK FALSE
PROPERTY ChainSettles
PROPERTY FailureReachesChain
