CONSTANTS
  j1 = j1
  j2 = j2
  m1 = m1
  m2 = m2
  t1 = t1
  t2 = t2
  t3 = t3
  p1 = p1
  p2 = p2
  p3 = p3
  i1 = i1
  i2 = i2
  label = label
  Project = {j1, j2}
  Milestone = {m1, m2}
  Task <- ThreeTasks
  Absent = Absent
  None = None
  Plan = {p1, p2, p3}
  PlanProject <- ProjectOf
  PlanLabel <- LabelOf
  PlanMilestone <- MilestoneOf
  PlanTask <- TaskOf
  PlanEdge <- EdgeOf
  Importer <- TwoImporters
  MaxEdits = 3
  Windows = {"moved", "partial"}
SYMMETRY ImporterSymmetry
SPECIFICATION Spec
INVARIANT TypeOK
INVARIANT MilestoneInProject
INVARIANT ParentsAcyclic
INVARIANT ImportIsComplete
CHECK_DEADLOCK FALSE
