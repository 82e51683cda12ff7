CONSTANTS
  t1 = t1
  t2 = t2
  t3 = t3
  w1 = w1
  w2 = w2
  NoWorker = NoWorker
  NoLease = NoLease
  Keep = Keep
  Task <- ThreeTasks
  Worker <- OneWorker
  ManagerStatus <- GraphStatus
  Guarded = {}
  LeaseTicks = 1
  LockWait = 0
  AttemptBound = 0
SYMMETRY TaskSymmetry
SPECIFICATION Spec
INVARIANT DependenciesSound
