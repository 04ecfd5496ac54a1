\* A stable minimum of 2 rows, an early one of 1; an early window of the
\* environment.
SPECIFICATION MCSpec
CONSTANTS
  NoData = NoData
  Rows <- MCRows
  MinEarly = 1
  MinStable = 2
  SmallCount = 2
  DropPercent = 40
  ConfirmPercent = 90
  ConfirmAge = 1
  PatchScoped = FALSE
  EnvironmentUntil = 1
  MaxClock = 1
  MaxRevision = 1
  MaxVersion = 3
  MaxMishaps = 0
PROPERTY SwitchLeavesStable
CHECK_DEADLOCK FALSE
