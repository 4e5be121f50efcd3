CONSTANTS
  t1 = t1
  t2 = t2
  r1 = r1
  b1 = b1
  b2 = b2
  b3 = b3
  e1 = e1
  e2 = e2
  e3 = e3
  Threads = {t1, t2}
  Main = t1
  Routers = {r1}
  Backups = {b1, b2, b3}
  Edges = {e1, e2, e3}
  NoRid = NoRid
  NoEdge = NoEdge
  NoThread = NoThread
  Hk = Hk
  MinPooled = 1
  MaxPooled = 2
  Workers = 1
  MaxFaults = 1
  HkReadonly = TRUE
  MayExpire = FALSE
  MayCrash = FALSE
  HostGroups = TRUE
  EagerDelete = FALSE
SPECIFICATION FairSpec
PROPERTIES
  LockReleased
  DeletionEnds
