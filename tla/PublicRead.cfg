\* A stable minimum of 2 rows, an early one of 1; an early window of the
\* environment, one upload or crash; the gate, the answer cache, the
\* database and the telemetry have their values in MCPublicRead.
SPECIFICATION MCSpec
CONSTANTS
  NoData = NoData
  Rows <- MCRows
  MinEarly = 1
  MinStable = 2
  SmallCount = 2
  DropPercent = 40
  ConfirmPercent = 90
  ConfirmAge = 1
  PatchScoped = FALSE
  EnvironmentUntil = 1
  MaxClock = 1
  MaxRevision = 1
  MaxVersion = 2
  MaxMishaps = 1
INVARIANTS
  ReadersSeePublished
PROPERTIES
  PublicationIsKept
  ContractionSeenTwice
CHECK_DEADLOCK FALSE
