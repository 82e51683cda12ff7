CONSTANTS
  t1 = t1
  t2 = t2
  Task <- TwoTasks
  Planned <- FirstTask
  Controller = {s1, s2}
  None = None
  Worker = Worker
  MaxEvents = 2
  Windows = {"planner_outlived", "claimed_back", "hint_lost", "unsubscribed",
             "unresolved", "other_task", "worker_refused"}
SPECIFICATION FairSpec
INVARIANT TypeOK
INVARIANT DispatchedOnce
PROPERTY PlannerOwnsTask
PROPERTY HandoffServed
CHECK_DEADLOCK FALSE
