SPECIFICATION FairSpec
CONSTANTS
  Tasks = {t1, t2}
  t1 = t1
  t2 = t2
  k1 = k1
  k2 = k2
  Keys = {k1, k2}
  Plane = plane
  NoKey = noKey
  NoFlow = noFlow
  MaxPending = 2
  Scenarios <- MCScenarios
INVARIANTS  FailsClosed
PROPERTIES KeepsPromise LossIsNoticed
CHECK_DEADLOCK FALSE
