CONSTANTS
  k2 = k2
  k1 = k1
  e2 = e2
  e1 = e1
  t2 = t2
  t1 = t1
  n1 = n1
  n2 = n2
  s1 = s1
  s2 = s2
  s3 = s3
  Threads = {t1, t2}
  Nets = {n1, n2}
  Subnets = {s1, s2, s3}
  Edges = {e1, e2}
  Slots = {k1, k2}
  NetOf <- MCNetOf
  Overlap = {{s2, s3}}
  Reserve = 0
  MaxFaults = 2
  Races = FALSE
  NoThread = NoThread
  NoNet = NoNet
  NoSubnet = NoSubnet
  NoEdge = NoEdge
  NoSlot = NoSlot
SPECIFICATION Spec
SYMMETRY Symmetry
INVARIANTS
  TypeOK
  SlotOfRow
  NoLeakedEdge
  NoOverlap
  BackendAgrees
  Served
