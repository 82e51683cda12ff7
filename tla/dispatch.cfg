CONSTANTS
  t1 = t1
  t2 = t2
  r1 = r1
  r2 = r2
  NoWorker = NoWorker
  NoLease = NoLease
  NoTask = NoTask
  Keep = Keep
  Task <- OneTask
  Worker <- TwoRuns
  Governed <- SecondRun
  Limit = 1
  ManagerStatus <- ManagerMoves
  Guarded = {"ready"}
  LeaseTicks = 2
  LockWait = 1
  AttemptBound = 1
SPECIFICATION FairDispatchSpec
INVARIANT DispatchTypeOK
INVARIANT OneAttemptPerLaunch
PROPERTY Spec
PROPERTY NoClobber
PROPERTY DispatchEnds
