CONSTANTS
  t1 = t1
  t2 = t2
  r1 = r1
  r2 = r2
  r3 = r3
  e1 = e1
  e2 = e2
  n1 = n1
  n2 = n2
  x1 = x1
  x2 = x2
  Threads = {t1, t2}
  Routers = {r1, r2, r3}
  Edges = {e1, e2}
  Nets = {n1, n2}
  ExtNets = {x1, x2}
  Overlap = {{n2, x1}}
  Wanted = {{r1, n1}, {r1, n2}, {r2, n1}, {r2, x1}, {r3, x2}}
  MaxNets = 2
  NoThread = NoThread
  NoRouter = NoRouter
  NoEdge = NoEdge
  NoNet = NoNet
  MayDeleteBound = FALSE
SPECIFICATION Spec
VIEW View
SYMMETRY Symmetry
INVARIANTS
  NoLeakedEdge
  NetworksApart
  InterfacesInPlace
  DeadlockIsInversion
PROPERTIES
  ImplementsOwner
CHECK_DEADLOCK FALSE
