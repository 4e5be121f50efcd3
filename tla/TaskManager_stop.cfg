SPECIFICATION Spec
CONSTANTS
  Tasks = {t1, t2, t3, t4}
  Resources = {r1, r2}
  Waiters = {}
  NoTask = NoTask
  NoResource = NoResource
  NoWaiter = NoWaiter
  Retries = 2
  MayStop = TRUE
  SharedWait = FALSE
SYMMETRY Symmetry
INVARIANTS TypeOK InOrder ResultOnce NoTaskLost StopIsFinal
