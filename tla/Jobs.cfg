\* Three jobs over three resources, two faults; the other parts' bounds are in
\* their instances.
SPECIFICATION MCSpec
CONSTANTS
  refresh = refresh
  details = details
  analysis = analysis
  Nobody = Nobody
  Jobs <- MCJobs
  Resources = {1, 2, 3}
  Stages <- MCStages
  Mode <- MCMode
  MaxFaults = 2
INVARIANTS
  NoSharedWork
  RecordsAreTrue
PROPERTY NothingIsTakenBack
CHECK_DEADLOCK FALSE
