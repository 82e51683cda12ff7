CONSTANTS
  h1 = h1
  h2 = h2
  c1 = c1
  c2 = c2
  s1 = s1
  s2 = s2
  k1 = k1
  a = a
  b = b
  p = p
  i1 = i1
  NoLock = NoLock
  Stale = Stale
  NoItem = NoItem
  NoSession = NoSession
  NoRevision = NoRevision
  Void = Void
  Host <- TwoHosts
  Change <- TwoChanges
  Session <- TwoSessions
  Worker <- OneWorker
  Revision <- TwoRevisions
  Content <- OneContent
  WorkItem <- OneItem
  Risk = {2}
  PlanBound = 2
  RoundBound = 2
  StartFile <- StartFiles
  OpBound = 3
  FaultBound = 1
SYMMETRY HostSymmetry
SPECIFICATION StoreSpec
INVARIANTS
  StoreTypeOK
  LockExcludes
PROPERTIES
  WritesAreOperations
  StaleWritersKeep
