CONSTANTS
  t1 = t1
  t2 = t2
  t3 = t3
  w1 = w1
  w2 = w2
  NoWorker = NoWorker
  NoLease = NoLease
  Keep = Keep
  Task <- OneTask
  Worker <- TwoWorkers
  ManagerStatus <- AllStatus
  Guarded <- GuardedTargets
  LeaseTicks = 2
  LockWait = 1
  AttemptBound = 2
SYMMETRY Symmetry
SPECIFICATION Spec
INVARIANT LedgerTypeOK
INVARIANT AuditReplays
PROPERTY LeaseHonoured
