CONSTANTS
  t1 = t1
  t2 = t2
  s1 = s1
  s2 = s2
  p1 = p1
  p2 = p2
  d1 = d1
  d2 = d2
  Threads = {t1, t2}
  Subnets = {s1, s2}
  Ports = {p1}
  Servers = {d1, d2}
  NoThread = NoThread
  NoSubnet = NoSubnet
  NoPort = NoPort
  NoServer = NoServer
SPECIFICATION Spec
SYMMETRY Symmetry
VIEW View
INVARIANTS
  TypeOK
  NoLeakedServer
  RowsCurrent
  NoLeakedPort
CHECK_DEADLOCK FALSE
