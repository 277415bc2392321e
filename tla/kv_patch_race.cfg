\* A PATCH of the params races with a PUT.
SPECIFICATION Spec
CONSTANTS
  c1 = c1  c2 = c2  x1 = x1  role = role  dflt = dflt  m1 = m1  d1 = d1
  k1 = k1  k2 = k2  i1 = i1  p1 = p1  p2 = p2
  None = None  Absent = Absent
  Client = {c1, c2}
  Host = {x1, dflt}
  Mac = {}
  Nid = {}
  Kernel = {k1, k2}
  Initrd = {}
  Params = {p1}
  Default = dflt
  Role <- RoleDef
  Requests <- EditRequests
  MaxFaults = 0
PROPERTIES PatchRetains
