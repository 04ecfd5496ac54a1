\* A source is added to a chain whose worker is on its way to a success.
SPECIFICATION Spec
CONSTANTS
  s1 = s1
  s2 = s2
  shared = shared
  Sources = {s1, s2}
  Retries = {"retry_transport", "probe_upstream"}
  Stops = {}
  Delays <- ShortDelays
  Horizon <- ShortHorizons
  Eligible <- Probes
  Lease <- ShortLeases
  Workers = {w1}
  Owner <- SameOwner
  NoOwner = NoOwner
  MaxTime = 5
  MaxReports = 2
  MaxCrashes = 1
CHECK_DEADLOCK FALSE
INVARIANT FreshMeansEverySource
