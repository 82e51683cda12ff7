CONSTANTS
  c1 = c1
  c2 = c2
  CallId <- TwoCalls
  None = None
  MaxWork = 3
  MaxOthers = 2
SYMMETRY CallSymmetry
SPECIFICATION Spec
INVARIANT TypeOK
INVARIANT SuccessIsOwn
INVARIANT ProofIsOwn
INVARIANT NoOrphan
CHECK_DEADLOCK FALSE
