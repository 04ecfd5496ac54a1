\* Two sources, two workers with the same owner name.  Leases end before,
\* with and after the deadline; a crash of a worker or of the planner.
SPECIFICATION Spec
CONSTANTS
  s1 = s1
  s2 = s2
  shared = shared
  Sources = {s1, s2}
  Retries = {"retry_transport", "probe_upstream", "retry_local"}
  Stops = {"diagnose"}
  Delays <- ShortDelays
  Horizon <- ShortHorizons
  Eligible <- Probes
  Lease <- ShortLeases
  Workers = {w1, w2}
  Owner <- SameOwner
  NoOwner = NoOwner
  MaxTime = 5
  MaxReports = 2
  MaxCrashes = 1
SYMMETRY WorkerSymmetry
VIEW LiveView
CHECK_DEADLOCK FALSE
INVARIANT OneRunningAttempt
INVARIANT BoundedAttempts
INVARIANT HasDueAgrees
INVARIANT OnlyEligibleClaimed
INVARIANT NoFailureSkipped
PROPERTY OnlyNewestAttemptDecides
PROPERTY ClosedStaysClosed
