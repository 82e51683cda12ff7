CONSTANTS
  Fiber = {f1, f2}
  None = None
  MaxRuns = 2
  MaxRepairRounds = 1
  MaxCrashes = 1
  MaxMoves = 0
  HostPolicy = FALSE
  Windows = {}
SPECIFICATION Spec
SYMMETRY Symmetric
INVARIANT TypeOK
INVARIANT ReviewIsPreflighted
INVARIANT ResultIsProof
INVARIANT PairIsKnown
INVARIANT EscalationIsRecorded
CHECK_DEADLOCK FALSE
