\* A client that adds nodes beside one that adds and updates them.
SPECIFICATION Spec
CONSTANTS
  c1 = c1  c2 = c2  x1 = x1  x2 = x2  tag = tag  m1 = m1  zero = zero  k1 = k1  k2 = k2  p1 = p1
  b1 = b1  b2 = b2  b3 = b3  b4 = b4  g1 = g1  g2 = g2  g3 = g3  g4 = g4  g5 = g5
  None = None  Absent = Absent
  Client = {c1, c2}
  Host = {x1, x2, tag}
  Xname = {x1, x2}
  Mac = {}
  Nid = {}
  ZeroNid = zero
  Kernel = {k1, k2}
  Initrd = {}
  Params = {p1}
  Default = tag
  Role <- RoleDef
  NodeId = {b1, b2, b3, b4}
  GroupId = {g1, g2, g3, g4}
  NodesEach = 2
  GroupsEach = 2
  Requests <- MixedRequests
  May <- MixedMay
  MaxFaults = 0
PROPERTIES OthersUntouched
