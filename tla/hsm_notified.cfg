\* A notification in the second of the last fetch.
SPECIFICATION FairSpec
CONSTANTS
  n1 = n1  n2 = n2  c1 = c1  w1 = w1
  Node = {n1}
  Caller = {}
  Worker = {w1}
  Evict = 1
  MaxClock = 4
  MaxVersion = 2
  MaxFaults = 0
  Known <- KnownDef
  IpKnown <- IpKnownDef
PROPERTIES NotificationIsFetched
