\* One client, two failed accesses.
SPECIFICATION Spec
CONSTANTS
  c1 = c1  c2 = c2  x1 = x1  role = role  dflt = dflt  m1 = m1  d1 = d1
  k1 = k1  k2 = k2  i1 = i1  p1 = p1  p2 = p2
  None = None  Absent = Absent
  Client = {c1}
  Host = {x1, role, dflt}
  Mac = {m1}
  Nid = {}
  Kernel = {k1}
  Initrd = {i1}
  Params = {p1}
  Default = dflt
  Role <- RoleDef
  Requests <- FaultyRequests
  MaxFaults = 2
INVARIANTS SuccessIsComplete
