\* Two calls of one process, two fetches at a time in the first of two phases;
\* a fallback cap of one for a refresh and for a source.
SPECIFICATION MCSpec
CONSTANTS
  r1 = r1
  r2 = r2
  Runs = {r1, r2}
  NoRun = NoRun
  Admin = Admin
  Sources <- MCSources
  Process <- MCProcess
  PhaseOf <- MCPhaseOf
  Parallel = {1}
  Phases = 2
  Concurrency = 2
  Proxyless = {3}
  Billed = {}
  Enabled <- MCSources
  Authorized <- MCAuthorized
  MaxPerRefresh = 1
  MaxPerSource = 1
  Requests <- MCRequests
  MaxUploads = 0
INVARIANTS
  OneFetchPerSource
  AccountsAreTrue
  SpendingIsBounded
  FetchesAreReported
  EveryProviderIsAsked
PROPERTY RefusalsHold
CHECK_DEADLOCK FALSE
