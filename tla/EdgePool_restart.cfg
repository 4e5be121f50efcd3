CONSTANTS
  t1 = t1
  t2 = t2
  r1 = r1
  b1 = b1
  b2 = b2
  e1 = e1
  e2 = e2
  Threads = {t1, t2}
  Main = t1
  Routers = {r1}
  Backups = {b1, b2}
  Edges = {e1, e2}
  NoRid = NoRid
  NoEdge = NoEdge
  NoThread = NoThread
  Hk = Hk
  MinPooled = 1
  MaxPooled = 1
  Workers = 1
  MaxFaults = 1
  HkReadonly = FALSE
  MayExpire = TRUE
  MayCrash = TRUE
  HostGroups = FALSE
  EagerDelete = TRUE
SPECIFICATION Spec
SYMMETRY PoolSymmetry
INVARIANTS
  IInv
CHECK_DEADLOCK FALSE
