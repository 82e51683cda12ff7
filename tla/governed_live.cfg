CONSTANTS
  Fiber = {f1}
  None = None
  MaxRuns = 2
  MaxRepairRounds = 1
  MaxCrashes = 1
  MaxMoves = 2
  HostPolicy = TRUE
  Windows = {"second_change", "late_bootstrap", "ungoverned_dispatch",
             "late_review", "unguarded_done", "stale_result", "unrecorded",
             "late_settlement", "late_repair", "repair_dropped", "repair_stranded"}
SPECIFICATION FairSpec
INVARIANT DoneIsApproved
PROPERTY ApprovedConverges
PROPERTY RepairIsResumed
CHECK_DEADLOCK FALSE
