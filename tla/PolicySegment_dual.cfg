CONSTANTS
  s1 = s1
  s2 = s2
  s3 = s3
  r1 = r1
  r2 = r2
  t1 = t1
  Threads = {t1}
  Subnets = {s1, s2, s3}
  Routers = {r1, r2}
  Ver <- MCVer
  NoThread = NoThread
  NoSubnet = NoSubnet
  NoRouter = NoRouter
SPECIFICATION Spec
SYMMETRY Symmetry
INVARIANTS
  DhcpServed
