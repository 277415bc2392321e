\* A node listed late and lost again, two notifications, one failure.
SPECIFICATION FairSpec
CONSTANTS
  n1 = n1  n2 = n2  c1 = c1  w1 = w1
  Node = {n2}
  Caller = {}
  Worker = {w1}
  Evict = 0
  MaxClock = 2
  MaxVersion = 3
  MaxFaults = 1
  Known <- KnownDef
  IpKnown <- IpKnownDef
PROPERTIES AskedIsAnswered SeenNotificationIsFetched
