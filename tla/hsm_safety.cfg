\* A node, a client of POST /hosts or cloud-init, a refresh, one failure.
SPECIFICATION Spec
CONSTANTS
  n1 = n1  n2 = n2  c1 = c1  w1 = w1
  Node = {n2}
  Caller = {c1}
  Worker = {w1}
  Evict = 1
  MaxClock = 4
  MaxVersion = 2
  MaxFaults = 1
  Known <- KnownDef
  IpKnown <- IpKnownDef
INVARIANTS TypeOK StampCovered BoundedStaleness
PROPERTIES DataNeverRegresses
