\* A run is stopped and another follows.
SPECIFICATION FairSpec
CONSTANTS
  j1 = j1  j2 = j2
  Job = {j1, j2}
  Options <- InstallOptions
  SchemaSteps = 2
  RetryCount = 1
  MaxRuns = 3
  MaxStops = 1
PROPERTIES SuccessMeansBuilt
CHECK_DEADLOCK FALSE
