SPECIFICATION FairSpec
CONSTANTS
  Tasks = {t1, t2, t3}
  Resources = {r1, r2}
  Waiters = {w1}
  NoTask = NoTask
  NoResource = NoResource
  NoWaiter = NoWaiter
  Retries = 2
  MayStop = FALSE
  SharedWait = FALSE
INVARIANTS PendingReported
CHECK_DEADLOCK FALSE
PROPERTIES EveryTaskEnds WaitReturns
