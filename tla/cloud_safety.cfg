\* Two handlers, administrators' or a node's, one failed access.
SPECIFICATION Spec
CONSTANTS
  c1 = c1  c2 = c2  x1 = x1  tag = tag  dflt = dflt  glob = glob
  a = a  hk = hk  rk = rk  v = v  p1 = p1  p2 = p2
  None = None  Null = Null  Absent = Absent  NoName = NoName
  Client = {c1, c2}
  Node = {x1}
  Host = {x1, tag, dflt, glob}
  Default = dflt
  Global = glob
  Role <- RoleDef
  SubRole <- SubRoleDef
  Key = {a, hk, rk}
  Value = {x1, tag, v}
  HostKey = hk
  RoleKey = rk
  Phone = {p1, p2}
  Requests <- CloudRequests
  StoredBefore <- BeforeDef
  KnownBefore = {x1}
  May <- SplitMay
  MaxClock = 2
  MaxFaults = 1
INVARIANTS TypeOK ServedIsMerged PhoneIsOwn AccessIsFound
PROPERTIES PhoneHomeOnlyPhone
