\* A PATCH whose image cannot be stored.
SPECIFICATION Spec
CONSTANTS
  c1 = c1  c2 = c2  x1 = x1  role = role  dflt = dflt  m1 = m1  d1 = d1
  k1 = k1  k2 = k2  i1 = i1  p1 = p1  p2 = p2
  None = None  Absent = Absent
  Client = {c1}
  Host = {x1, dflt}
  Mac = {m1}
  Nid = {}
  Kernel = {k1, k2}
  Initrd = {i1}
  Params = {p1}
  Default = dflt
  Role <- RoleDef
  Requests <- EditRequests
  MaxFaults = 1
PROPERTIES NotNulledOut
