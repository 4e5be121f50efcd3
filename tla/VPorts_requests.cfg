CONSTANTS
  t1 = t1
  t2 = t2
  p1 = p1
  p2 = p2
  d1 = d1
  i1 = i1
  i2 = i2
  d2 = d2
  k1 = k1
  k2 = k2
  Threads = {t1, t2}
  Ports = {p1, p2}
  Devices = {d1, d2}
  Indices = {k1, k2}
  Ips = {i1, i2}
  NoThread = NoThread
  NoIp = NoIp
  NoPort = NoPort
  NoDevice = NoDevice
  NoVnic = NoVnic
SPECIFICATION Spec
SYMMETRY Symmetry
INVARIANTS
  ExcludeAgrees
  GroupsAgree
  Served
