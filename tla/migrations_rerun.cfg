\* bss-init is run twice with its default options.
SPECIFICATION FairSpec
CONSTANTS
  j1 = j1  j2 = j2
  Job = {j1, j2}
  Options <- DefaultOptions
  SchemaSteps = 2
  RetryCount = 1
  MaxRuns = 3
  MaxStops = 0
PROPERTIES DefaultKeepsData
CHECK_DEADLOCK FALSE
