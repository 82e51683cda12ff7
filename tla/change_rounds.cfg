CONSTANTS
  c1 = c1
  s1 = s1
  s2 = s2
  k1 = k1
  a = a
  b = b
  p = p
  q = q
  i1 = i1
  NoItem = NoItem
  NoSession = NoSession
  NoRevision = NoRevision
  Void = Void
  Session <- TwoSessions
  Worker <- OneWorker
  WorkItem <- OneItem
  Change <- OneChange
  Revision <- TwoRevisions
  Content <- TwoContents
  Risk = {2}
  PlanBound = 2
  RoundBound = 2
SYMMETRY SessionSymmetry
SPECIFICATION LifecycleSpec
INVARIANT LifecycleTypeOK
INVARIANT ApprovedIsReviewed
INVARIANT BlockingIsClaimed
