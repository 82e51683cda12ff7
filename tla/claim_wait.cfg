CONSTANTS
  Host = {h1, h2}
  Session = {s1}
  None = None
  MaxRequests = 2
  Windows = {"lock_grabbed"}
SPECIFICATION FairSpec
PROPERTY WaitEnds
CHECK_DEADLOCK FALSE
