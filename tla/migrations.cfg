\* Three runs, two of which may be at work at once and one be stopped.
SPECIFICATION FairSpec
CONSTANTS
  j1 = j1  j2 = j2
  Job = {j1, j2}
  Options <- AllOptions
  SchemaSteps = 2
  RetryCount = 1
  MaxRuns = 3
  MaxStops = 1
INVARIANTS TypeOK CleanMeansBuilt
PROPERTIES SuccessReachesTarget DataKept ForceOneRebuilds RunsEnd
CHECK_DEADLOCK FALSE
