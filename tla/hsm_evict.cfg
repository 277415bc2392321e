\* A client of the cloud-init endpoints only.
SPECIFICATION Spec
CONSTANTS
  n1 = n1  n2 = n2  c1 = c1  w1 = w1
  Node = {}
  Caller = {c1}
  Worker = {w1}
  Evict = 2
  MaxClock = 6
  MaxVersion = 2
  MaxFaults = 0
  Known <- KnownDef
  IpKnown <- IpKnownDef
PROPERTIES EvictionInterval
