CONSTANTS
  Host = {h1, h2}
  Session = {s1, s2}
  None = None
  MaxRequests = 2
  Windows = {"lock_left"}
SPECIFICATION Spec
SYMMETRY Symmetric
INVARIANT TypeOK
INVARIANT ReviewerIsRecorded
PROPERTY ImplementsSlot
CHECK_DEADLOCK FALSE
