-------------------------- MODULE ProjectBoardProofs --------------------------
(***************************************************************************)
(* The board keeps its references for any projects, milestones, tasks,     *)
(* plans and importers.  The inductive invariant is the conjunction of the *)
(* three properties with the types of the two functions they leave open    *)
(* and the fact that an import under way is the import of a plan.  That    *)
(* imports are complete is proved on top of it, with Progress.             *)
(***************************************************************************)
EXTENDS ProjectBoard, DependencyGraphProofs

Row == [project : Project \union {None}, milestone : Milestone \union {None},
        parent : Task \union {None}]

Tables ==
  /\ project \in [Project -> Plan \union {None, Absent}]
  /\ milestone \in [Milestone -> Projects \union {Absent}]
  /\ task \in [Task -> Row \union {Absent}]
  /\ \A t \in Tasks : /\ task[t].project \in Projects \union {None}
                      /\ task[t].milestone \in Milestones \union {None}
                      /\ task[t].parent \in Tasks \union {None}
  /\ deps \union links \subseteq Tasks \X Tasks

Imports ==
  /\ import \in [Importer -> [plan : Plan \union {None}, stage : Stage, left : SUBSET Piece]]
  /\ \A i \in Importer :
       /\ import[i].stage # "rest" => import[i].plan \in Plan
       /\ import[i].stage = "milestones" => import[i].left \subseteq Milestone
       /\ import[i].stage = "tasks" => import[i].left \subseteq Has(import[i].plan)
       /\ import[i].stage = "edges" => import[i].left \subseteq Task \X Task

Counters == answer \in Plan \union {None} /\ edits \in 0 .. MaxEdits /\ slips \subseteq Windows

Inv == Tables /\ Imports /\ Counters /\ MilestoneInProject /\ ParentsAcyclic

LEMMA RowFacts ==
  /\ Absent \notin Row
  /\ \A r \in Row, j \in Project \union {None} : [r EXCEPT !.project = j] \in Row
  /\ \A r \in Row, m \in Milestone \union {None} : [r EXCEPT !.milestone = m] \in Row
  /\ \A r \in Row, u \in Task \union {None} : [r EXCEPT !.parent = u] \in Row
BY BoardAssumption DEF Row

LEMMA InvType == Inv => TypeOK
<1> SUFFICES ASSUME Inv PROVE TypeOK
  OBVIOUS
<1>1. \A t \in Task : task[t] = Absent
                      \/ task[t] \in [project : Projects \union {None},
                                      milestone : Milestones \union {None},
                                      parent : Tasks \union {None}]
  BY DEF Inv, Tables, Tasks, Row
<1> QED BY <1>1 DEF Inv, Tables, Imports, Counters, TypeOK

LEMMA InitInv == Init => Inv
<1> SUFFICES ASSUME Init PROVE Inv
  OBVIOUS
<1> USE BoardAssumption DEF Init
<1>1. Tables
  BY DEF Tables, Projects, Milestones, Tasks
<1>2. Imports /\ Counters
  BY DEF Imports, Counters, Rest, Stage
<1>3. MilestoneInProject
  BY DEF MilestoneInProject, Tasks
<1>4. ParentsAcyclic
  BY DEF ParentsAcyclic, Parents, Acyclic, Tasks
<1> QED BY <1>1, <1>2, <1>3, <1>4 DEF Inv

-----------------------------------------------------------------------------
(* When the rows of the tasks keep their parents, so does the graph.       *)
LEMMA SameParents ==
  ASSUME Inv, Tasks' \subseteq Tasks,
         \A t \in Tasks' : task'[t].parent \in {task[t].parent, None}
  PROVE  ParentsAcyclic'
<1>1. Parents' \subseteq Parents
  BY DEF Parents
<1>2. Acyclic(Parents', Task)
  BY <1>1, FewerEdges DEF Inv, ParentsAcyclic
<1> QED BY <1>2 DEF ParentsAcyclic

LEMMA SlipKeeps ==
  ASSUME slips \subseteq Windows, NEW c \in BOOLEAN, NEW k, SlipIf(c, k) \/ Slip(k)
  PROVE  slips' \subseteq Windows /\ slips \subseteq slips' /\ (SlipIf(c, k) /\ c => k \in slips')
BY DEF SlipIf, Slip

LEMMA EditKeeps ==
  ASSUME Inv, Edit, slips' \subseteq Windows
  PROVE  Imports' /\ Counters'
BY BoardAssumption DEF Inv, Edit, Imports, Counters

(* A write to the tables that leaves the tasks alone. *)
LEMMA OtherTables ==
  ASSUME Inv, UNCHANGED task, slips \subseteq slips',
         project' \in [Project -> Plan \union {None, Absent}], Projects \subseteq Projects',
         milestone' \in [Milestone -> Projects' \union {Absent}],
         "moved" \notin slips' => \A m \in Milestones : milestone'[m] = milestone[m],
         Milestones \subseteq Milestones',
         deps' \union links' \subseteq Tasks \X Tasks
  PROVE  Tables' /\ MilestoneInProject' /\ ParentsAcyclic'
<1>1. Tasks' = Tasks
  BY DEF Tasks
<1>2. Tables'
  BY <1>1 DEF Inv, Tables
<1>3. MilestoneInProject'
  BY <1>1 DEF Inv, Tables, MilestoneInProject
<1>4. ParentsAcyclic'
  BY <1>1, SameParents
<1> QED BY <1>2, <1>3, <1>4

LEMMA ProjectEdits ==
  ASSUME Inv, NEW j \in Project,
         CreateProject(j) \/ \E p \in Plan \union {None} : UpdateProject(j, p)
  PROVE  Inv'
<1> USE BoardAssumption
<1>1. /\ Edit /\ UNCHANGED <<milestone, task, deps, links>>
      /\ slips' \subseteq Windows /\ slips \subseteq slips'
      /\ \E p \in Plan \union {None} : project' = [project EXCEPT ![j] = p]
  BY DEF CreateProject, UpdateProject, Slip, Inv, Counters
<1>2. project' \in [Project -> Plan \union {None, Absent}] /\ Projects \subseteq Projects'
  BY <1>1 DEF Inv, Tables, Projects
<1>3. milestone' \in [Milestone -> Projects' \union {Absent}] /\ Milestones' = Milestones
  BY <1>1, <1>2 DEF Inv, Tables, Milestones
<1>4. Tables' /\ MilestoneInProject' /\ ParentsAcyclic'
  BY <1>1, <1>2, <1>3, OtherTables DEF Inv, Tables
<1> QED BY <1>1, <1>4, EditKeeps DEF Inv

LEMMA MilestoneEdits ==
  ASSUME Inv, NEW m \in Milestone, NEW j \in Project,
         CreateMilestone(m, j) \/ UpdateMilestone(m, j)
  PROVE  Inv'
<1> USE BoardAssumption
<1>1. /\ Edit /\ UNCHANGED <<project, task, deps, links>> /\ j \in Projects
      /\ milestone' = [milestone EXCEPT ![m] = j]
      /\ milestone[m] \in {Absent, j} \/ "moved" \in slips'
      /\ slips' \subseteq Windows /\ slips \subseteq slips'
  BY DEF CreateMilestone, UpdateMilestone, SlipIf, Slip, Inv, Counters
<1>2. /\ milestone' \in [Milestone -> Projects' \union {Absent}]
      /\ Projects' = Projects /\ Milestones \subseteq Milestones'
      /\ "moved" \notin slips' => \A n \in Milestones : milestone'[n] = milestone[n]
  BY <1>1 DEF Inv, Tables, Projects, Milestones
<1>3. Tables' /\ MilestoneInProject' /\ ParentsAcyclic'
  BY <1>1, <1>2, OtherTables DEF Inv, Tables
<1> QED BY <1>1, <1>3, EditKeeps DEF Inv

LEMMA GraphEdits ==
  ASSUME Inv, NEW t \in Task, NEW u \in Task,
         \/ AddTaskLink(t, u) \/ RemoveTaskLink(t, u)
         \/ AddDependency(t, u) \/ RemoveDependency(t, u)
  PROVE  Inv'
<1>1. /\ Edit /\ UNCHANGED <<project, milestone, task>>
      /\ deps' \union links' \subseteq Tasks \X Tasks
      /\ slips' \subseteq Windows /\ slips \subseteq slips'
  BY DEF AddTaskLink, RemoveTaskLink, AddDependency, RemoveDependency, EdgeAllowed,
     Touches, SlipIf, Slip, Inv, Tables, Counters
<1>2. Projects' = Projects /\ Milestones' = Milestones
  BY <1>1 DEF Projects, Milestones
<1>3. Tables' /\ MilestoneInProject' /\ ParentsAcyclic'
  BY <1>1, <1>2, OtherTables DEF Inv, Tables
<1> QED BY <1>1, <1>3, EditKeeps DEF Inv, Counters

LEMMA DeleteProjectKeeps ==
  ASSUME Inv, NEW j \in Project, DeleteProject(j)
  PROVE  Inv'
<1> USE BoardAssumption
<1> DEFINE Left(t) == [task[t] EXCEPT
                         !.project = IF @ = j THEN None ELSE @,
                         !.milestone = IF @ # None /\ milestone[@] = j THEN None ELSE @]
<1>1. /\ Edit /\ UNCHANGED <<deps, links>>
      /\ project' = [project EXCEPT ![j] = Absent]
      /\ milestone' = [m \in Milestone |-> IF milestone[m] = j THEN Absent ELSE milestone[m]]
      /\ task' = [t \in Task |-> IF t \notin Tasks THEN Absent ELSE Left(t)]
      /\ slips' \subseteq Windows /\ slips \subseteq slips'
  BY DEF DeleteProject, Touches, SlipIf, Slip, Inv, Counters
<1>2. /\ project' \in [Project -> Plan \union {None, Absent}]
      /\ Projects' = Projects \ {j}
      /\ Milestones' = {m \in Milestones : milestone[m] # j}
      /\ milestone' \in [Milestone -> Projects' \union {Absent}]
  BY <1>1 DEF Inv, Tables, Projects, Milestones
<1>3. ASSUME NEW t \in Tasks
      PROVE  /\ task[t] \in Row /\ Left(t) \in Row /\ Left(t) # Absent
             /\ Left(t).project = IF task[t].project = j THEN None ELSE task[t].project
             /\ Left(t).milestone = IF task[t].milestone # None /\ milestone[task[t].milestone] = j
                                    THEN None ELSE task[t].milestone
             /\ Left(t).parent = task[t].parent
  <2>1. task[t] \in Row
    BY DEF Inv, Tables, Tasks
  <2>2. Left(t) \in Row
    BY <2>1 DEF Row, Inv, Tables
  <2> QED BY <2>1, <2>2, RowFacts DEF Row
<1> HIDE DEF Left
<1>4. /\ Tasks' = Tasks /\ task' \in [Task -> Row \union {Absent}]
      /\ \A t \in Tasks : task'[t] = Left(t)
  BY <1>1, <1>3 DEF Tasks
<1>5. Tables'
  BY <1>1, <1>2, <1>3, <1>4 DEF Inv, Tables, Milestones
<1>6. MilestoneInProject'
  BY <1>1, <1>2, <1>3, <1>4 DEF Inv, Tables, MilestoneInProject, Milestones
<1>7. ParentsAcyclic'
  BY <1>3, <1>4, SameParents
<1> QED BY <1>1, <1>5, <1>6, <1>7, EditKeeps DEF Inv

LEMMA DeleteMilestoneKeeps ==
  ASSUME Inv, NEW m \in Milestone, DeleteMilestone(m)
  PROVE  Inv'
<1> USE BoardAssumption
<1> DEFINE Left(t) == [task[t] EXCEPT !.milestone = None]
<1>1. /\ Edit /\ UNCHANGED <<project, deps, links>>
      /\ milestone' = [milestone EXCEPT ![m] = Absent]
      /\ task' = [t \in Task |-> IF t \in Tasks /\ task[t].milestone = m THEN Left(t) ELSE task[t]]
      /\ slips' \subseteq Windows /\ slips \subseteq slips'
  BY DEF DeleteMilestone, Touches, SlipIf, Slip, Inv, Counters
<1>2. /\ Projects' = Projects /\ Milestones' = Milestones \ {m}
      /\ milestone' \in [Milestone -> Projects' \union {Absent}]
      /\ \A n \in Milestones' : milestone'[n] = milestone[n]
  BY <1>1 DEF Inv, Tables, Projects, Milestones
<1>3. ASSUME NEW t \in Tasks
      PROVE  /\ Left(t) \in Row /\ Left(t).milestone = None
             /\ Left(t).project = task[t].project /\ Left(t).parent = task[t].parent
  <2>1. task[t] \in Row
    BY DEF Inv, Tables, Tasks
  <2> QED BY <2>1 DEF Row
<1> HIDE DEF Left
<1>4. /\ Tasks' = Tasks /\ task' \in [Task -> Row \union {Absent}]
      /\ \A t \in Tasks : task'[t] = IF task[t].milestone = m THEN Left(t) ELSE task[t]
  BY <1>1, <1>3, RowFacts DEF Tasks, Inv, Tables
<1>5. Tables'
  BY <1>1, <1>2, <1>3, <1>4 DEF Inv, Tables
<1>6. MilestoneInProject'
  BY <1>1, <1>2, <1>3, <1>4 DEF Inv, Tables, MilestoneInProject, Milestones
<1>7. ParentsAcyclic'
  BY <1>3, <1>4, SameParents
<1> QED BY <1>1, <1>5, <1>6, <1>7, EditKeeps DEF Inv

LEMMA DeleteTaskKeeps ==
  ASSUME Inv, NEW t \in Task, DeleteTask(t)
  PROVE  Inv'
<1> USE BoardAssumption
<1> DEFINE Left(u) == [task[u] EXCEPT !.parent = None]
<1>1. /\ Edit /\ UNCHANGED <<project, milestone>> /\ t \in Tasks
      /\ task' = [u \in Task |-> IF u = t THEN Absent
                                 ELSE IF u \in Tasks /\ task[u].parent = t THEN Left(u) ELSE task[u]]
      /\ deps' = {e \in deps : t \notin {e[1], e[2]}}
      /\ links' = {e \in links : t \notin {e[1], e[2]}}
      /\ slips' \subseteq Windows /\ slips \subseteq slips'
  BY DEF DeleteTask, Touches, SlipIf, Slip, Inv, Counters
<1>2. Projects' = Projects /\ Milestones' = Milestones
  BY <1>1 DEF Projects, Milestones
<1>3. ASSUME NEW u \in Tasks
      PROVE  /\ Left(u) \in Row /\ Left(u).parent = None
             /\ Left(u).project = task[u].project /\ Left(u).milestone = task[u].milestone
  <2>1. task[u] \in Row
    BY DEF Inv, Tables, Tasks
  <2> QED BY <2>1 DEF Row
<1> HIDE DEF Left
<1>4. /\ Tasks' = Tasks \ {t} /\ task' \in [Task -> Row \union {Absent}]
      /\ \A u \in Tasks' : task'[u] = IF task[u].parent = t THEN Left(u) ELSE task[u]
  BY <1>1, <1>3, RowFacts DEF Tasks, Inv, Tables
<1>5. deps' \union links' \subseteq Tasks' \X Tasks'
  BY <1>1, <1>4 DEF Inv, Tables
<1>6. Tables'
  BY <1>1, <1>2, <1>3, <1>4, <1>5 DEF Inv, Tables
<1>7. MilestoneInProject'
  BY <1>1, <1>2, <1>3, <1>4 DEF Inv, Tables, MilestoneInProject
<1>8. ParentsAcyclic'
  BY <1>3, <1>4, SameParents
<1> QED BY <1>1, <1>6, <1>7, <1>8, EditKeeps DEF Inv

-----------------------------------------------------------------------------
(* A new task, by a call or by an import.                                  *)
LEMMA TaskCreated ==
  ASSUME Inv, NEW t \in Task, t \notin Tasks, UNCHANGED <<project, milestone, deps, links, slips>>,
         NEW j, NEW m, NEW up \in Tasks \union {None}, PairAllowed(j, m),
         m \in Milestone \union {None},
         task' = [task EXCEPT ![t] = [project |-> j, milestone |-> m, parent |-> up]]
  PROVE  Tables' /\ MilestoneInProject' /\ ParentsAcyclic'
<1> USE BoardAssumption
<1> DEFINE new == [project |-> j, milestone |-> m, parent |-> up]
<1>1. j \in Projects \union {None} /\ m \in Milestones \union {None}
      /\ (m # None => milestone[m] = j)
  BY DEF PairAllowed, Milestones, Projects
<1>2. new \in Row /\ new # Absent
  BY <1>1, RowFacts DEF Row, Projects, Tasks
<1>3. /\ task' \in [Task -> Row \union {Absent}] /\ Tasks' = Tasks \union {t}
      /\ task'[t] = new /\ \A u \in Tasks : task'[u] = task[u]
  BY <1>2 DEF Inv, Tables, Tasks
<1>4. Projects' = Projects /\ Milestones' = Milestones
  BY DEF Projects, Milestones
<1>5. Tables'
  BY <1>1, <1>3, <1>4 DEF Inv, Tables
<1>6. MilestoneInProject'
  BY <1>1, <1>3 DEF Inv, MilestoneInProject
<1>7. ParentsAcyclic'
  <2>1. /\ Parents \in SUBSET (Tasks \X Tasks) /\ Tasks \in SUBSET Task
        /\ Acyclic(Parents, Task)
    BY DEF Parents, Tasks, Inv, Tables, ParentsAcyclic
  <2>2. Parents' \in SUBSET (Parents \union ({t} \X Tasks))
    BY <1>3 DEF Parents
  <2>3. Acyclic(Parents', Task)
    BY <2>1, <2>2, NewNode
  <2> QED BY <2>3 DEF ParentsAcyclic
<1> QED BY <1>5, <1>6, <1>7

LEMMA CreateTaskKeeps ==
  ASSUME Inv, NEW t \in Task, NEW j, NEW m \in Milestone \union {None}, NEW up,
         CreateTask(t, j, m, up)
  PROVE  Inv'
<1>1. /\ t \notin Tasks /\ UNCHANGED <<project, milestone, deps, links, slips>>
      /\ up \in Tasks \union {None} /\ PairAllowed(j, m) /\ Edit
      /\ task' = [task EXCEPT ![t] = [project |-> j, milestone |-> m, parent |-> up]]
  BY DEF CreateTask, Tasks
<1>2. Tables' /\ MilestoneInProject' /\ ParentsAcyclic'
  BY <1>1, TaskCreated
<1> QED BY <1>1, <1>2, EditKeeps DEF Inv, Counters

LEMMA UpdateTaskKeeps ==
  ASSUME Inv, NEW t \in Task, NEW j, NEW m \in Milestone \union {None}, UpdateTask(t, j, m)
  PROVE  Inv'
<1> USE BoardAssumption
<1> DEFINE new == [[task[t] EXCEPT !.project = j] EXCEPT !.milestone = m]
<1>1. /\ Edit /\ t \in Tasks /\ PairAllowed(j, m)
      /\ task' = [task EXCEPT ![t].project = j, ![t].milestone = m]
      /\ UNCHANGED <<project, milestone, deps, links>>
      /\ slips' \subseteq Windows /\ slips \subseteq slips'
  BY DEF UpdateTask, Touches, SlipIf, Slip, Inv, Counters
<1>2. j \in Projects \union {None} /\ m \in Milestones \union {None}
      /\ (m # None => milestone[m] = j)
  BY <1>1 DEF PairAllowed, Milestones, Projects
<1>3. task[t] \in Row
  BY <1>1 DEF Inv, Tables, Tasks
<1>4. /\ new \in Row /\ new.project = j /\ new.milestone = m
      /\ new.parent = task[t].parent
  BY <1>2, <1>3 DEF Row, Projects
<1>5. task' = [u \in Task |-> IF u = t THEN new ELSE task[u]]
  <2>1. t \in Task /\ task = [u \in Task |-> task[u]]
    BY <1>1 DEF Inv, Tables, Tasks
  <2>2. /\ task' = [u \in Task |-> task'[u]] /\ task'[t] = new
        /\ \A u \in Task \ {t} : task'[u] = task[u]
    BY <1>1, <2>1
  <2> HIDE DEF new
  <2> QED BY <2>2
<1> HIDE DEF new
<1>6. /\ task' \in [Task -> Row \union {Absent}] /\ Tasks' = Tasks
      /\ task'[t] = new /\ \A u \in Tasks \ {t} : task'[u] = task[u]
  <2>1. t \in Task /\ task[t] # Absent /\ task \in [Task -> Row \union {Absent}]
    BY <1>1 DEF Inv, Tables, Tasks
  <2>2. new \in Row /\ new # Absent
    BY <1>4, RowFacts
  <2> QED BY <1>5, <2>1, <2>2 DEF Tasks
<1>7. Projects' = Projects /\ Milestones' = Milestones
  BY <1>1 DEF Projects, Milestones
<1>8. Tables'
  <2>1. ASSUME NEW u \in Tasks
        PROVE  /\ task'[u].project \in Projects \union {None}
               /\ task'[u].milestone \in Milestones \union {None}
               /\ task'[u].parent \in Tasks \union {None}
    <3>1. task[t].parent \in Tasks \union {None} /\ t \in Tasks
      BY <1>1 DEF Inv, Tables
    <3>2. CASE u = t
      BY <1>2, <1>4, <1>6, <3>1, <3>2
    <3>3. CASE u # t
      BY <1>6, <3>3 DEF Inv, Tables
    <3> QED BY <3>2, <3>3
  <2>2. UNCHANGED <<project, milestone, deps, links>>
    BY <1>1
  <2> QED BY <1>6, <1>7, <2>1, <2>2 DEF Inv, Tables
<1>9. MilestoneInProject'
  BY <1>1, <1>2, <1>4, <1>6 DEF Inv, MilestoneInProject
<1>10. ParentsAcyclic'
  BY <1>4, <1>6, SameParents
<1> QED BY <1>1, <1>8, <1>9, <1>10, EditKeeps DEF Inv

LEMMA UpdateParentKeeps ==
  ASSUME Inv, NEW t \in Task, NEW up, UpdateParent(t, up)
  PROVE  Inv'
<1> USE BoardAssumption
<1> DEFINE new == [task[t] EXCEPT !.parent = up]
<1>1. /\ Edit /\ t \in Tasks /\ up \in Tasks \union {None}
      /\ up # None => t # up /\ ~WouldCycle(Parents, t, up, Task)
      /\ task' = [task EXCEPT ![t].parent = up]
      /\ UNCHANGED <<project, milestone, deps, links, slips>>
  BY DEF UpdateParent
<1>2. task[t] \in Row
  BY <1>1 DEF Inv, Tables, Tasks
<1>3. /\ new \in Row /\ new.parent = up
      /\ new.project = task[t].project /\ new.milestone = task[t].milestone
  BY <1>1, <1>2 DEF Row, Tasks
<1>4. task' = [task EXCEPT ![t] = new]
  BY <1>1 DEF Inv, Tables
<1> HIDE DEF new
<1>5. /\ task' \in [Task -> Row \union {Absent}] /\ Tasks' = Tasks
      /\ task'[t] = new /\ \A u \in Tasks \ {t} : task'[u] = task[u]
  BY <1>1, <1>3, <1>4, RowFacts DEF Inv, Tables, Tasks
<1>6. Projects' = Projects /\ Milestones' = Milestones
  BY <1>1 DEF Projects, Milestones
<1>7. Tables'
  BY <1>1, <1>3, <1>5, <1>6 DEF Inv, Tables
<1>8. MilestoneInProject'
  BY <1>1, <1>3, <1>5 DEF Inv, MilestoneInProject
<1>9. ParentsAcyclic'
  <2>1. CASE up = None
    BY <2>1, <1>3, <1>5, SameParents
  <2>2. CASE up # None
    <3>1. Parents \subseteq Task \X Task /\ up \in Task /\ t # up
      BY <1>1, <2>2 DEF Parents, Tasks, Inv, Tables
    <3>2. Acyclic(Parents \union {<<t, up>>}, Task)
      BY <1>1, <2>2, <3>1, CycleQueryIsComplete DEF Inv, ParentsAcyclic
    <3>3. Parents' \subseteq Parents \union {<<t, up>>}
      BY <1>3, <1>5 DEF Parents
    <3>4. Acyclic(Parents', Task)
      BY <3>2, <3>3, FewerEdges
    <3> QED BY <3>4 DEF ParentsAcyclic
  <2> QED BY <2>1, <2>2
<1> QED BY <1>1, <1>7, <1>8, <1>9, EditKeeps DEF Inv, Counters

-----------------------------------------------------------------------------
(* Imports.                                                                *)
LEMMA BecomeKeeps ==
  ASSUME Inv, NEW i \in Importer, NEW p \in Plan, NEW s \in Stage, NEW left \in SUBSET Piece,
         s = "milestones" => left \subseteq Milestone,
         s = "tasks" => left \subseteq Has(p),
         s = "edges" => left \subseteq Task \X Task,
         Become(i, p, s, left)
  PROVE  Imports'
BY DEF Inv, Imports, Become

LEMMA SameTables ==
  ASSUME Inv, UNCHANGED board, slips \subseteq slips'
  PROVE  Tables' /\ MilestoneInProject' /\ ParentsAcyclic'
<1>1. Projects' = Projects /\ Milestones' = Milestones
  BY DEF board, Projects, Milestones
<1> QED BY <1>1, OtherTables DEF Inv, Tables, board

LEMMA PlanFacts ==
  ASSUME NEW p \in Plan
  PROVE  /\ PlanProject[p] \in Project /\ PlanMilestone[p] \subseteq Milestone
         /\ Has(p) \subseteq Task /\ PlanEdge[p] \subseteq Task \X Task
         /\ \A t \in Has(p) : PlanTask[p][t] \in Milestone \union {None}
BY BoardAssumption DEF Has

LEMMA ImportStep ==
  ASSUME Inv, NEW i \in Importer, Importing(i)
  PROVE  Inv'
<1> USE BoardAssumption
<1> DEFINE p == import[i].plan
<1>0. /\ slips \subseteq Windows /\ answer \in Plan \union {None} /\ edits \in 0 .. MaxEdits
      /\ import \in [Importer -> [plan : Plan \union {None}, stage : Stage, left : SUBSET Piece]]
  BY DEF Inv, Counters, Imports
<1>a. ASSUME import[i].stage # "rest" PROVE p \in Plan
  BY <1>a DEF Inv, Imports
<1>b. ASSUME import' = [import EXCEPT ![i] = Rest] PROVE Imports'
  BY <1>b DEF Inv, Imports, Rest, Stage
<1>1. ASSUME NEW q \in Plan, StartImport(i, q) PROVE Inv'
  <2>1. UNCHANGED board /\ edits' = edits /\ answer' \in Plan \union {None}
        /\ slips' \subseteq Windows /\ slips \subseteq slips'
    BY <1>0, <1>1 DEF StartImport, SlipIf, Slip
  <2>2. UNCHANGED import \/ Become(i, q, "project", {})
    BY <1>1 DEF StartImport
  <2>3. Imports'
    BY <2>2, BecomeKeeps DEF Inv, Imports, Stage
  <2> QED BY <1>0, <2>1, <2>3, SameTables DEF Inv, Counters
<1>2. CASE ImportProject(i)
  <2>1. /\ import[i].stage = "project" /\ Become(i, p, "milestones", PlanMilestone[p])
        /\ project[PlanProject[p]] = Absent
        /\ project' = [project EXCEPT ![PlanProject[p]] = p]
        /\ answer' = None /\ UNCHANGED <<milestone, task, deps, links, edits, slips>>
    BY <1>2 DEF ImportProject
  <2>2. p \in Plan
    BY <1>a, <2>1
  <2>3. Imports'
    BY <2>1, <2>2, PlanFacts, BecomeKeeps DEF Stage, Piece
  <2>4. project' \in [Project -> Plan \union {None, Absent}] /\ Projects \subseteq Projects'
    BY <2>1, <2>2, PlanFacts DEF Inv, Tables, Projects
  <2>5. milestone' \in [Milestone -> Projects' \union {Absent}] /\ Milestones' = Milestones
    BY <2>1, <2>4 DEF Inv, Tables, Milestones
  <2>6. Tables' /\ MilestoneInProject' /\ ParentsAcyclic'
    BY <2>1, <2>4, <2>5, OtherTables DEF Inv, Tables
  <2> QED BY <1>0, <2>1, <2>3, <2>6 DEF Inv, Counters
<1>3. CASE ImportMilestone(i)
  <2>1. PICK m \in import[i].left :
          /\ milestone[m] = Absent
          /\ milestone' = [milestone EXCEPT ![m] = PlanProject[p]]
          /\ Become(i, p, "milestones", import[i].left \ {m})
    BY <1>3 DEF ImportMilestone
  <2>2. /\ import[i].stage = "milestones" /\ PlanProject[p] \in Projects
        /\ answer' = None /\ UNCHANGED <<project, task, deps, links, edits, slips>>
    BY <1>3 DEF ImportMilestone
  <2>3. p \in Plan /\ import[i].left \subseteq Milestone /\ m \in Milestone
    BY <1>a, <2>1, <2>2 DEF Inv, Imports
  <2>4. Imports'
    BY <2>1, <2>3, BecomeKeeps DEF Stage, Piece
  <2>5. /\ milestone' \in [Milestone -> Projects' \union {Absent}]
        /\ Projects' = Projects /\ Milestones \subseteq Milestones'
        /\ \A n \in Milestones : milestone'[n] = milestone[n]
    BY <2>1, <2>2, <2>3 DEF Inv, Tables, Projects, Milestones
  <2>6. Tables' /\ MilestoneInProject' /\ ParentsAcyclic'
    BY <2>2, <2>5, OtherTables DEF Inv, Tables
  <2> QED BY <1>0, <2>2, <2>4, <2>6 DEF Inv, Counters
<1>4. CASE ImportTask(i)
  <2>1. PICK t \in import[i].left :
          /\ task[t] = Absent
          /\ PairAllowed(PlanProject[p], PlanTask[p][t])
          /\ task' = [task EXCEPT ![t] = [project |-> PlanProject[p],
                                          milestone |-> PlanTask[p][t], parent |-> None]]
          /\ Become(i, p, "tasks", import[i].left \ {t})
    BY <1>4 DEF ImportTask
  <2>2. /\ import[i].stage = "tasks"
        /\ answer' = None /\ UNCHANGED <<project, milestone, deps, links, edits, slips>>
    BY <1>4 DEF ImportTask
  <2>3. p \in Plan /\ import[i].left \subseteq Has(p) /\ t \in Task /\ t \notin Tasks
    BY <1>a, <2>1, <2>2, PlanFacts DEF Inv, Imports, Tasks
  <2>4. Imports'
    BY <2>1, <2>3, PlanFacts, BecomeKeeps DEF Stage, Piece
  <2>5. PlanTask[p][t] \in Milestone \union {None}
    BY <2>1, <2>3, PlanFacts
  <2>6. Tables' /\ MilestoneInProject' /\ ParentsAcyclic'
    BY <2>1, <2>2, <2>3, <2>5, TaskCreated
  <2> QED BY <1>0, <2>2, <2>4, <2>6 DEF Inv, Counters
<1>5. CASE ImportEdge(i)
  <2>1. PICK e \in import[i].left :
          /\ EdgeAllowed(e[1], e[2]) /\ deps' = deps \union {e}
          /\ Become(i, p, "edges", import[i].left \ {e})
    BY <1>5 DEF ImportEdge
  <2>2. /\ import[i].stage = "edges"
        /\ answer' = None /\ UNCHANGED <<project, milestone, task, links, edits, slips>>
    BY <1>5 DEF ImportEdge
  <2>3. p \in Plan /\ import[i].left \subseteq Task \X Task /\ e \in Tasks \X Tasks
    BY <1>a, <2>1, <2>2 DEF Inv, Imports, EdgeAllowed
  <2>4. Imports'
    BY <2>1, <2>3, BecomeKeeps DEF Stage, Piece
  <2>5. Projects' = Projects /\ Milestones' = Milestones
    BY <2>2 DEF Projects, Milestones
  <2>6. Tables' /\ MilestoneInProject' /\ ParentsAcyclic'
    BY <2>1, <2>2, <2>3, <2>5, OtherTables DEF Inv, Tables
  <2> QED BY <1>0, <2>2, <2>4, <2>6 DEF Inv, Counters
<1>6. CASE NextStage(i)
  <2>1. /\ UNCHANGED board /\ UNCHANGED <<edits, slips>>
        /\ \/ import[i].stage = "milestones" /\ Become(i, p, "tasks", Has(p)) /\ answer' = None
           \/ import[i].stage = "tasks" /\ Become(i, p, "edges", PlanEdge[p]) /\ answer' = None
           \/ /\ import[i].stage = "edges" /\ answer' = p
              /\ import' = [import EXCEPT ![i] = Rest]
    BY <1>6 DEF NextStage
  <2>2. p \in Plan
    BY <1>a, <2>1
  <2>3. Imports'
    BY <1>b, <2>1, <2>2, PlanFacts, BecomeKeeps DEF Stage, Piece
  <2> QED BY <1>0, <2>1, <2>2, <2>3, SameTables DEF Inv, Counters
<1>7. CASE EndImport(i)
  <2>1. /\ UNCHANGED board /\ edits' = edits /\ answer' = None
        /\ import' = [import EXCEPT ![i] = Rest]
        /\ slips' \subseteq Windows /\ slips \subseteq slips'
    BY <1>0, <1>7 DEF EndImport, SlipIf, Slip
  <2> QED BY <1>0, <1>b, <2>1, SameTables DEF Inv, Counters
<1> QED BY <1>1, <1>2, <1>3, <1>4, <1>5, <1>6, <1>7 DEF Importing

LEMMA NextInv == Inv /\ [Next]_vars => Inv'
<1> SUFFICES ASSUME Inv, [Next]_vars PROVE Inv'
  OBVIOUS
<1>1. CASE Editing
  BY <1>1, ProjectEdits, MilestoneEdits, GraphEdits, DeleteProjectKeeps, DeleteMilestoneKeeps,
     DeleteTaskKeeps, CreateTaskKeeps, UpdateTaskKeeps, UpdateParentKeeps DEF Editing
<1>2. CASE \E i \in Importer : Importing(i)
  BY <1>2, ImportStep
<1>3. CASE UNCHANGED vars
  <2>1. Imports' /\ Counters'
    BY <1>3 DEF Inv, Imports, Counters, vars
  <2> QED BY <1>3, <2>1, SameTables DEF Inv, vars
<1> QED BY <1>1, <1>2, <1>3 DEF Next

LEMMA InvAlways == Spec => []Inv
<1>1. Init => Inv
  BY InitInv
<1>2. Inv /\ [Next]_vars => Inv'
  BY NextInv
<1> QED BY <1>1, <1>2, PTL DEF Spec

-----------------------------------------------------------------------------
(* Whatever is created, moved or deleted, by calls and imports in any      *)
(* order, every reference of the board leads to a row that is there.       *)
THEOREM ReferencesAreKept == Spec => []TypeOK
<1> QED BY InvAlways, InvType, PTL

(* A task's milestone is one of its own project, until a milestone with    *)
(* tasks is moved to another project.                                      *)
THEOREM MilestonesStayInProject == Spec => []MilestoneInProject
<1>1. Inv => MilestoneInProject
  BY DEF Inv
<1> QED BY <1>1, InvAlways, PTL

(* The parents of the tasks form no cycle, however long.                   *)
THEOREM ParentsStayAcyclic == Spec => []ParentsAcyclic
<1>1. Inv => ParentsAcyclic
  BY DEF Inv
<1> QED BY <1>1, InvAlways, PTL
-----------------------------------------------------------------------------
(* ImportIsComplete as it is kept.  While nothing was moved, edited or     *)
(* broken off, an import that has written its project has written all but  *)
(* what its stage has left, and an imported project is complete unless its *)
(* import is still under way.                                              *)
Late(i) == import[i].stage \in {"milestones", "tasks", "edges"}

MilestonesLeft(i) == IF import[i].stage = "milestones" THEN import[i].left ELSE {}
TasksLeft(i) == CASE import[i].stage = "milestones" -> Has(import[i].plan)
                  [] import[i].stage = "tasks" -> import[i].left
                  [] OTHER -> {}
EdgesLeft(i) == IF import[i].stage = "edges" THEN import[i].left
                ELSE PlanEdge[import[i].plan]

Written(p, M, T, E) ==
  /\ project[PlanProject[p]] = p
  /\ \A m \in PlanMilestone[p] \ M : milestone[m] = PlanProject[p]
  /\ \A t \in Has(p) \ T : /\ t \in Tasks /\ task[t].project = PlanProject[p]
                           /\ task[t].milestone = PlanTask[p][t]
  /\ PlanEdge[p] \ E \subseteq deps

Progress ==
  /\ \A i \in Importer :
       Late(i) => Written(import[i].plan, MilestonesLeft(i), TasksLeft(i), EdgesLeft(i))
  /\ \A j \in Project : project[j] \in Plan =>
       /\ j = PlanProject[project[j]]
       /\ \/ Complete(project[j])
          \/ \E i \in Importer : Late(i) /\ import[i].plan = project[j]
  /\ ImportIsComplete

(* What a step leaves of a project: its row, its milestones, its tasks and *)
(* the dependencies among them.                                            *)
Keeps(j) ==
  /\ project'[j] = project[j]
  /\ \A m \in Milestone : milestone[m] = j => milestone'[m] = j
  /\ \A t \in Tasks : task[t].project = j =>
       /\ t \in Tasks' /\ task'[t].project = j
       /\ task'[t].milestone = task[t].milestone
  /\ \A e \in deps : task[e[1]].project = j /\ task[e[2]].project = j => e \in deps'

LEMMA NoSlip ==
  ASSUME slips' = {}
  PROVE  /\ \A j : Touches(j) => slips = {} /\ ~(j \in Project /\ project[j] \in Plan)
         /\ \A k : ~Slip(k)
         /\ \A c, k : SlipIf(c, k) => slips = {} /\ ~c
BY DEF Touches, SlipIf, Slip

(* An edit that is no slip takes nothing from an imported project.         *)
LEMMA ProjectEditsKeepImported ==
  ASSUME Inv, slips' = {}, NEW j \in Project, project[j] \in Plan, NEW k \in Project,
         \/ CreateProject(k) \/ DeleteProject(k)
         \/ \E p \in Plan \union {None} : UpdateProject(k, p)
  PROVE  Keeps(j)
<1> USE BoardAssumption
<1>1. CASE CreateProject(k)
  BY <1>1 DEF CreateProject, Keeps, Inv, Tables, Tasks
<1>2. CASE DeleteProject(k)
  <2>1. k # j
    BY <1>2, NoSlip DEF DeleteProject
  <2>2. project'[j] = project[j] /\ deps' = deps
    BY <1>2, <2>1 DEF DeleteProject, Inv, Tables
  <2>3. \A m \in Milestone : milestone[m] = j => milestone'[m] = j
    BY <1>2, <2>1 DEF DeleteProject
  <2>4. ASSUME NEW t \in Tasks, task[t].project = j
        PROVE  /\ t \in Tasks' /\ task'[t].project = j
               /\ task'[t].milestone = task[t].milestone
    <3> DEFINE new == [task[t] EXCEPT
                         !.project = IF @ = k THEN None ELSE @,
                         !.milestone = IF @ # None /\ milestone[@] = k THEN None ELSE @]
    <3>1. task[t] \in Row /\ t \in Task
      BY DEF Inv, Tables, Tasks
    <3>2. task'[t] = new
      BY <1>2, <3>1 DEF DeleteProject
    <3>3. "moved" \notin slips
      BY <1>2, NoSlip DEF DeleteProject
    <3>4. task[t].milestone # None => milestone[task[t].milestone] = j
      BY <2>4, <3>3 DEF Inv, MilestoneInProject
    <3>5. new.project = j /\ new.milestone = task[t].milestone /\ new \in Row
      BY <2>1, <2>4, <3>1, <3>4 DEF Row
    <3> HIDE DEF new
    <3> QED BY <3>1, <3>2, <3>5, RowFacts DEF Tasks
  <2> QED BY <2>2, <2>3, <2>4 DEF Keeps
<1>3. ASSUME NEW p, UpdateProject(k, p) PROVE FALSE
  BY <1>3, NoSlip DEF UpdateProject
<1> QED BY <1>1, <1>2, <1>3

LEMMA MilestoneEditsKeepImported ==
  ASSUME Inv, slips' = {}, NEW j \in Project, project[j] \in Plan, NEW m \in Milestone,
         \/ \E k \in Project : CreateMilestone(m, k) \/ UpdateMilestone(m, k)
         \/ DeleteMilestone(m)
  PROVE  Keeps(j)
<1> USE BoardAssumption
<1>1. ASSUME NEW k \in Project, CreateMilestone(m, k) \/ UpdateMilestone(m, k)
      PROVE  Keeps(j)
  <2>1. milestone' = [milestone EXCEPT ![m] = k] /\ milestone[m] \in {k, Absent}
    BY <1>1, NoSlip DEF CreateMilestone, UpdateMilestone
  <2>2. UNCHANGED <<project, task, deps>>
    BY <1>1 DEF CreateMilestone, UpdateMilestone
  <2>3. \A n \in Milestone : milestone[n] = j => milestone'[n] = j
    BY <2>1 DEF Inv, Tables
  <2> QED BY <2>2, <2>3 DEF Keeps, Tasks
<1>2. CASE DeleteMilestone(m)
  <2>1. /\ milestone[m] # j /\ UNCHANGED <<project, deps>>
        /\ milestone' = [milestone EXCEPT ![m] = Absent]
        /\ task' = [t \in Task |-> IF t \in Tasks /\ task[t].milestone = m
                                   THEN [task[t] EXCEPT !.milestone = None] ELSE task[t]]
    BY <1>2, NoSlip DEF DeleteMilestone
  <2>2. \A n \in Milestone : milestone[n] = j => milestone'[n] = j
    BY <2>1 DEF Inv, Tables
  <2>3. ASSUME NEW t \in Tasks, task[t].project = j
        PROVE  t \in Tasks' /\ task'[t] = task[t]
    <3>1. task[t] \in Row /\ t \in Task
      BY DEF Inv, Tables, Tasks
    <3>2. "moved" \notin slips
      BY <1>2, NoSlip DEF DeleteMilestone
    <3>3. task[t].milestone # m
      BY <2>1, <2>3, <3>2 DEF Inv, MilestoneInProject
    <3> QED BY <2>1, <3>1, <3>3 DEF Tasks
  <2> QED BY <2>1, <2>2, <2>3 DEF Keeps
<1> QED BY <1>1, <1>2

LEMMA TaskEditsKeepImported ==
  ASSUME Inv, slips' = {}, NEW j \in Project, project[j] \in Plan, NEW t \in Task,
         \/ \E k, m, up : CreateTask(t, k, m, up)
         \/ \E k, m : UpdateTask(t, k, m)
         \/ \E up : UpdateParent(t, up)
         \/ DeleteTask(t)
         \/ \E u : \/ AddTaskLink(t, u) \/ RemoveTaskLink(t, u)
                \/ AddDependency(t, u) \/ RemoveDependency(t, u)
  PROVE  Keeps(j)
<1> USE BoardAssumption
<1>0. /\ task \in [Task -> Row \union {Absent}] /\ Tasks \subseteq Task
      /\ \A u \in Tasks : task[u] \in Row
      /\ Absent \notin Row /\ deps \subseteq Tasks \X Tasks
  BY RowFacts DEF Inv, Tables, Tasks
<1>a. ASSUME UNCHANGED <<project, milestone>>, deps \subseteq deps',
             \A u \in Tasks : task[u].project = j =>
                /\ task'[u] \in Row /\ task'[u].project = j
                /\ task'[u].milestone = task[u].milestone
      PROVE  Keeps(j)
  BY <1>0, <1>a DEF Keeps, Tasks
<1>1. ASSUME NEW k, NEW m, NEW up, CreateTask(t, k, m, up) PROVE Keeps(j)
  <2>1. \A u \in Tasks : task'[u] = task[u]
    BY <1>0, <1>1 DEF CreateTask, Tasks
  <2> QED BY <1>0, <1>a, <1>1, <2>1 DEF CreateTask
<1>2. ASSUME NEW k, NEW m, UpdateTask(t, k, m) PROVE Keeps(j)
  <2>1. task[t].project # j /\ UNCHANGED <<project, milestone, deps>>
    BY <1>2, NoSlip DEF UpdateTask
  <2>2. \A u \in Tasks : u # t => task'[u] = task[u]
    BY <1>0, <1>2 DEF UpdateTask
  <2> QED BY <1>0, <1>a, <2>1, <2>2
<1>3. ASSUME NEW up, UpdateParent(t, up) PROVE Keeps(j)
  <2>1. /\ t \in Tasks /\ up \in Tasks \union {None}
        /\ task' = [task EXCEPT ![t].parent = up] /\ UNCHANGED <<project, milestone, deps>>
    BY <1>3 DEF UpdateParent
  <2>2. ASSUME NEW u \in Tasks
        PROVE  /\ task'[u] \in Row /\ task'[u].project = task[u].project
               /\ task'[u].milestone = task[u].milestone
    <3>1. CASE u # t
      BY <1>0, <2>1, <3>1
    <3>2. CASE u = t
      <4>1. task'[t] = [task[t] EXCEPT !.parent = up]
        BY <1>0, <2>1
      <4> QED BY <1>0, <2>1, <3>2, <4>1 DEF Row
    <3> QED BY <3>1, <3>2
  <2> QED BY <1>a, <2>1, <2>2
<1>4. CASE DeleteTask(t)
  <2>1. /\ t \in Tasks /\ task[t].project # j /\ UNCHANGED <<project, milestone>>
        /\ deps' = {e \in deps : t \notin {e[1], e[2]}}
        /\ task' = [u \in Task |-> IF u = t THEN Absent
                                   ELSE IF u \in Tasks /\ task[u].parent = t
                                   THEN [task[u] EXCEPT !.parent = None] ELSE task[u]]
    BY <1>4, NoSlip DEF DeleteTask
  <2>2. ASSUME NEW u \in Tasks, task[u].project = j
        PROVE  /\ u \in Tasks' /\ task'[u].project = j
               /\ task'[u].milestone = task[u].milestone
    <3> DEFINE new == [task[u] EXCEPT !.parent = None]
    <3>1. new \in Row /\ new.project = j /\ new.milestone = task[u].milestone
      BY <1>0, <2>2 DEF Row
    <3>2. task'[u] \in {task[u], new}
      BY <1>0, <2>1, <2>2
    <3> HIDE DEF new
    <3> QED BY <1>0, <2>2, <3>1, <3>2 DEF Tasks
  <2>3. \A e \in deps : task[e[1]].project = j /\ task[e[2]].project = j => e \in deps'
    BY <2>1
  <2> QED BY <2>1, <2>2, <2>3 DEF Keeps
<1>5. ASSUME NEW u, AddTaskLink(t, u) \/ RemoveTaskLink(t, u) \/ AddDependency(t, u)
      PROVE  Keeps(j)
  BY <1>0, <1>a, <1>5 DEF AddTaskLink, RemoveTaskLink, AddDependency
<1>6. ASSUME NEW u, RemoveDependency(t, u) PROVE Keeps(j)
  <2>1. task[t].project # j /\ UNCHANGED <<project, milestone, task>>
        /\ deps' = deps \ {<<t, u>>}
    BY <1>6, NoSlip DEF RemoveDependency
  <2>2. \A e \in deps : task[e[1]].project = j /\ task[e[2]].project = j => e \in deps'
    BY <2>1
  <2> QED BY <2>1, <2>2 DEF Keeps, Tasks
<1> QED BY <1>1, <1>2, <1>3, <1>4, <1>5, <1>6

LEMMA EditKeepsImported ==
  ASSUME Inv, slips' = {}, Editing, NEW j \in Project, project[j] \in Plan
  PROVE  Keeps(j)
BY ProjectEditsKeepImported, MilestoneEditsKeepImported, TaskEditsKeepImported DEF Editing

(* An edit that is no slip turns no project into an imported one.          *)
LEMMA EditImportsNothing ==
  ASSUME Inv, slips' = {}, Editing
  PROVE  /\ slips = {} /\ answer' = None /\ UNCHANGED import
         /\ \A j \in Project : project'[j] \in Plan => project[j] = project'[j]
<1> USE BoardAssumption
<1>1. ASSUME NEW k \in Project,
             \/ CreateProject(k) \/ DeleteProject(k)
             \/ \E p \in Plan \union {None} : UpdateProject(k, p)
      PROVE  /\ slips = {} /\ answer' = None /\ UNCHANGED import
             /\ \A j \in Project : project'[j] \in Plan => project[j] = project'[j]
  BY <1>1, NoSlip DEF CreateProject, DeleteProject, UpdateProject, Edit, Inv, Tables
<1>2. ASSUME NEW m \in Milestone,
             \/ \E k \in Project : CreateMilestone(m, k) \/ UpdateMilestone(m, k)
             \/ DeleteMilestone(m)
      PROVE  slips = {} /\ answer' = None /\ UNCHANGED <<import, project>>
  BY <1>2, NoSlip DEF CreateMilestone, UpdateMilestone, DeleteMilestone, Edit
<1>3. ASSUME NEW t \in Task,
             \/ \E k, m, up : CreateTask(t, k, m, up)
             \/ \E k, m : UpdateTask(t, k, m)
             \/ \E up : UpdateParent(t, up)
             \/ DeleteTask(t)
             \/ \E u : \/ AddTaskLink(t, u) \/ RemoveTaskLink(t, u)
                \/ AddDependency(t, u) \/ RemoveDependency(t, u)
      PROVE  slips = {} /\ answer' = None /\ UNCHANGED <<import, project>>
  BY <1>3, NoSlip DEF CreateTask, UpdateTask, UpdateParent, DeleteTask, AddTaskLink,
     RemoveTaskLink, AddDependency, RemoveDependency, Edit
<1> QED BY <1>1, <1>2, <1>3 DEF Editing

(* An import writes only what was not there.                               *)
LEMMA ImportKeepsImported ==
  ASSUME Inv, NEW i \in Importer, Importing(i), NEW j \in Project, project[j] \in Plan
  PROVE  Keeps(j)
<1> USE BoardAssumption
<1>0. /\ task \in [Task -> Row \union {Absent}] /\ Tasks \subseteq Task
      /\ project \in [Project -> Plan \union {None, Absent}]
      /\ milestone \in [Milestone -> Projects \union {Absent}]
      /\ Absent \notin Row /\ project[j] # Absent /\ j # Absent
  BY RowFacts DEF Inv, Tables, Tasks
<1>a. ASSUME project'[j] = project[j], deps \subseteq deps',
             \A m \in Milestone : milestone[m] = j => milestone'[m] = j,
             \A u \in Tasks : task'[u] = task[u]
      PROVE  Keeps(j)
  BY <1>0, <1>a DEF Keeps, Tasks
<1>1. CASE UNCHANGED board
  BY <1>a, <1>1 DEF board
<1>2. CASE ImportProject(i)
  BY <1>0, <1>a, <1>2 DEF ImportProject
<1>3. CASE ImportMilestone(i)
  BY <1>0, <1>a, <1>3 DEF ImportMilestone
<1>4. CASE ImportTask(i)
  <2>1. PICK t \in import[i].left :
          /\ task[t] = Absent
          /\ task' = [task EXCEPT ![t] = [project |-> PlanProject[import[i].plan],
                                          milestone |-> PlanTask[import[i].plan][t],
                                          parent |-> None]]
    BY <1>4 DEF ImportTask
  <2>2. \A u \in Tasks : task'[u] = task[u]
    BY <1>0, <2>1 DEF Tasks
  <2> QED BY <1>a, <1>4, <2>2 DEF ImportTask
<1>5. CASE ImportEdge(i)
  BY <1>a, <1>5 DEF ImportEdge
<1> QED BY <1>1, <1>2, <1>3, <1>4, <1>5 DEF Importing, StartImport, NextStage, EndImport

(* What an import has written stays while its project is kept.             *)
LEMMA WrittenKept ==
  ASSUME NEW p \in Plan, NEW M, NEW T, NEW E, E = PlanEdge[p] \/ T = {},
         Written(p, M, T, E), Keeps(PlanProject[p])
  PROVE  /\ project'[PlanProject[p]] = p
         /\ \A m \in PlanMilestone[p] \ M : milestone'[m] = PlanProject[p]
         /\ \A t \in Has(p) \ T : /\ t \in Tasks' /\ task'[t].project = PlanProject[p]
                                  /\ task'[t].milestone = PlanTask[p][t]
         /\ PlanEdge[p] \ E \subseteq deps'
<1>1. /\ PlanMilestone[p] \subseteq Milestone
      /\ PlanEdge[p] \subseteq Has(p) \X Has(p)
  BY BoardAssumption DEF Has
<1>2. \A m \in PlanMilestone[p] \ M : milestone'[m] = PlanProject[p]
  BY <1>1 DEF Written, Keeps
<1>3. \A t \in Has(p) \ T : /\ t \in Tasks' /\ task'[t].project = PlanProject[p]
                            /\ task'[t].milestone = PlanTask[p][t]
  BY DEF Written, Keeps
<1>4. PlanEdge[p] \ E \subseteq deps'
  BY <1>1 DEF Written, Keeps
<1> QED BY <1>2, <1>3, <1>4 DEF Written, Keeps

LEMMA CompleteKept ==
  ASSUME NEW p \in Plan, Complete(p), Keeps(PlanProject[p])
  PROVE  Complete(p)'
<1>1. Written(p, {}, {}, {})
  BY DEF Complete, Written
<1> QED BY <1>1, WrittenKept DEF Complete

(* One step of an import: what it leaves to be done is what is not there.  *)
LEMMA ImportProgress ==
  ASSUME Inv, Progress, NEW i \in Importer, Importing(i), slips' = {}
  PROVE  /\ slips = {}
         /\ \A k \in Importer \ {i} : import'[k] = import[k]
         /\ Late(i)' => Written(import[i].plan, MilestonesLeft(i), TasksLeft(i), EdgesLeft(i))'
         /\ Late(i) => \/ Late(i)' /\ import'[i].plan = import[i].plan
                       \/ \A q \in Plan : q = import[i].plan => Complete(q)'
         /\ \A j \in Project : project'[j] # project[j] =>
              /\ j = PlanProject[project'[j]]
              /\ Late(i)' /\ import'[i].plan = project'[j]
         /\ ImportIsComplete'
<1> USE BoardAssumption
<1> DEFINE p == import[i].plan
           Goal ==
             /\ slips = {}
             /\ \A k \in Importer \ {i} : import'[k] = import[k]
             /\ Late(i)' => Written(import[i].plan, MilestonesLeft(i), TasksLeft(i), EdgesLeft(i))'
             /\ Late(i) => \/ Late(i)' /\ import'[i].plan = import[i].plan
                           \/ \A q \in Plan : q = import[i].plan => Complete(q)'
             /\ \A j \in Project : project'[j] # project[j] =>
                  /\ j = PlanProject[project'[j]]
                  /\ Late(i)' /\ import'[i].plan = project'[j]
             /\ ImportIsComplete'
<1>0. /\ import \in [Importer -> [plan : Plan \union {None}, stage : Stage, left : SUBSET Piece]]
      /\ project \in [Project -> Plan \union {None, Absent}]
      /\ milestone \in [Milestone -> Projects \union {Absent}]
      /\ task \in [Task -> Row \union {Absent}]
  BY DEF Inv, Tables, Imports
<1>a. import[i].stage # "rest" => p \in Plan
  BY DEF Inv, Imports
<1>b. ASSUME NEW q, NEW s, NEW left, Become(i, q, s, left)
      PROVE  /\ import'[i].plan = q /\ import'[i].stage = s /\ import'[i].left = left
             /\ \A k \in Importer \ {i} : import'[k] = import[k]
  BY <1>0, <1>b DEF Become
<1>c. ASSUME import' = [import EXCEPT ![i] = Rest]
      PROVE  ~Late(i)' /\ \A k \in Importer \ {i} : import'[k] = import[k]
  BY <1>0, <1>c DEF Late, Rest
<1>d. answer' = None => ImportIsComplete'
  BY DEF ImportIsComplete
<1>1. ASSUME NEW q \in Plan, StartImport(i, q) PROVE Goal
  <2>1. import[i] = Rest /\ UNCHANGED board /\ ~Late(i)
    BY <1>1 DEF StartImport, Late, Rest
  <2>2. CASE /\ \E j \in Labelled(q) : project[j] = q
             /\ answer' = q /\ UNCHANGED import
             /\ SlipIf(\E k \in Importer : import[k].plan = q, "partial")
    <3>1. slips = {} /\ \A k \in Importer : import[k].plan # q
      BY <2>2, NoSlip
    <3>2. Complete(q)
      BY <2>2, <3>1 DEF Labelled, Progress
    <3>3. ImportIsComplete'
      BY <2>1, <2>2, <3>2 DEF ImportIsComplete, Complete, board, Tasks
    <3>4. ~Late(i)'
      BY <2>1, <2>2 DEF Late
    <3> QED BY <2>1, <2>2, <3>1, <3>3, <3>4 DEF board
  <2>3. CASE Become(i, q, "project", {}) /\ answer' = None /\ UNCHANGED slips
    <3>1. ~Late(i)'
      BY <1>b, <2>3 DEF Late
    <3> QED BY <1>b, <1>d, <2>1, <2>3, <3>1 DEF board
  <2> QED BY <1>1, <2>2, <2>3 DEF StartImport
<1>2. CASE ImportProject(i)
  <2>1. /\ import[i].stage = "project" /\ project[PlanProject[p]] = Absent
        /\ project' = [project EXCEPT ![PlanProject[p]] = p]
        /\ Become(i, p, "milestones", PlanMilestone[p])
        /\ answer' = None /\ slips = {}
    BY <1>2 DEF ImportProject
  <2>2. /\ p \in Plan /\ ~Late(i) /\ Late(i)' /\ import'[i].plan = p
        /\ MilestonesLeft(i)' = PlanMilestone[p] /\ TasksLeft(i)' = Has(p)
        /\ EdgesLeft(i)' = PlanEdge[p]
    BY <1>a, <1>b, <2>1 DEF Late, MilestonesLeft, TasksLeft, EdgesLeft
  <2>3. project'[PlanProject[p]] = p
    BY <1>0, <2>1, <2>2
  <2>4. Written(import[i].plan, MilestonesLeft(i), TasksLeft(i), EdgesLeft(i))'
    BY <2>2, <2>3 DEF Written
  <2>5. \A j \in Project : project'[j] # project[j] => j = PlanProject[p]
    BY <1>0, <2>1
  <2> QED BY <1>b, <1>d, <2>1, <2>2, <2>3, <2>4, <2>5
<1>3. CASE ImportMilestone(i)
  <2>1. PICK m \in import[i].left :
          /\ milestone' = [milestone EXCEPT ![m] = PlanProject[p]]
          /\ Become(i, p, "milestones", import[i].left \ {m})
    BY <1>3 DEF ImportMilestone
  <2>2. /\ import[i].stage = "milestones" /\ answer' = None /\ slips = {}
        /\ UNCHANGED <<project, task, deps>>
    BY <1>3 DEF ImportMilestone
  <2>3. /\ p \in Plan /\ Late(i) /\ Late(i)' /\ import'[i].plan = p
        /\ MilestonesLeft(i) = import[i].left
        /\ MilestonesLeft(i)' = import[i].left \ {m}
        /\ TasksLeft(i)' = Has(p) /\ TasksLeft(i) = Has(p)
        /\ EdgesLeft(i)' = PlanEdge[p] /\ EdgesLeft(i) = PlanEdge[p]
    BY <1>a, <1>b, <2>1, <2>2 DEF Late, MilestonesLeft, TasksLeft, EdgesLeft
  <2>4. Written(p, import[i].left, Has(p), PlanEdge[p])
    BY <2>3 DEF Progress
  <2>5. m \in Milestone /\ milestone'[m] = PlanProject[p]
        /\ \A n \in Milestone \ {m} : milestone'[n] = milestone[n]
    BY <1>0, <2>1, <2>2 DEF Inv, Imports
  <2>6. Written(import[i].plan, MilestonesLeft(i), TasksLeft(i), EdgesLeft(i))'
    BY <2>2, <2>3, <2>4, <2>5 DEF Written
  <2> QED BY <1>b, <1>d, <2>1, <2>2, <2>3, <2>6
<1>4. CASE ImportTask(i)
  <2>1. PICK t \in import[i].left :
          /\ task' = [task EXCEPT ![t] = [project |-> PlanProject[p],
                                          milestone |-> PlanTask[p][t], parent |-> None]]
          /\ Become(i, p, "tasks", import[i].left \ {t})
    BY <1>4 DEF ImportTask
  <2>2. /\ import[i].stage = "tasks" /\ answer' = None /\ slips = {}
        /\ UNCHANGED <<project, milestone, deps>>
    BY <1>4 DEF ImportTask
  <2>3. /\ p \in Plan /\ Late(i) /\ Late(i)' /\ import'[i].plan = p
        /\ MilestonesLeft(i) = {} /\ MilestonesLeft(i)' = {}
        /\ TasksLeft(i) = import[i].left
        /\ TasksLeft(i)' = import[i].left \ {t}
        /\ EdgesLeft(i)' = PlanEdge[p] /\ EdgesLeft(i) = PlanEdge[p]
    BY <1>a, <1>b, <2>1, <2>2 DEF Late, MilestonesLeft, TasksLeft, EdgesLeft
  <2>4. Written(p, {}, import[i].left, PlanEdge[p])
    BY <2>3 DEF Progress
  <2>5. t \in Task
    BY <2>1, <2>2, <2>3, PlanFacts DEF Inv, Imports
  <2>6. /\ t \in Tasks' /\ task'[t].project = PlanProject[p]
        /\ task'[t].milestone = PlanTask[p][t]
        /\ \A u \in Tasks \ {t} : u \in Tasks' /\ task'[u] = task[u]
    <3> DEFINE new == [project |-> PlanProject[p], milestone |-> PlanTask[p][t], parent |-> None]
    <3>1. new \in Row /\ new.project = PlanProject[p] /\ new.milestone = PlanTask[p][t]
      BY <2>1, <2>2, <2>3, PlanFacts DEF Row, Inv, Imports
    <3>2. task' = [task EXCEPT ![t] = new]
      BY <2>1
    <3> HIDE DEF new
    <3> QED BY <1>0, <2>5, <3>1, <3>2, RowFacts DEF Tasks
  <2>7. Written(import[i].plan, MilestonesLeft(i), TasksLeft(i), EdgesLeft(i))'
    BY <2>2, <2>3, <2>4, <2>6 DEF Written
  <2> QED BY <1>b, <1>d, <2>1, <2>2, <2>3, <2>7
<1>5. CASE ImportEdge(i)
  <2>1. PICK e \in import[i].left :
          deps' = deps \union {e} /\ Become(i, p, "edges", import[i].left \ {e})
    BY <1>5 DEF ImportEdge
  <2>2. /\ import[i].stage = "edges" /\ answer' = None /\ slips = {}
        /\ UNCHANGED <<project, milestone, task>>
    BY <1>5 DEF ImportEdge
  <2>3. /\ p \in Plan /\ Late(i) /\ Late(i)' /\ import'[i].plan = p
        /\ MilestonesLeft(i) = {} /\ MilestonesLeft(i)' = {}
        /\ TasksLeft(i) = {} /\ TasksLeft(i)' = {}
        /\ EdgesLeft(i) = import[i].left
        /\ EdgesLeft(i)' = import[i].left \ {e}
    BY <1>a, <1>b, <2>1, <2>2 DEF Late, MilestonesLeft, TasksLeft, EdgesLeft
  <2>4. Written(p, {}, {}, import[i].left)
    BY <2>3 DEF Progress
  <2>5. Written(import[i].plan, MilestonesLeft(i), TasksLeft(i), EdgesLeft(i))'
    BY <2>1, <2>2, <2>3, <2>4 DEF Written, Tasks
  <2> QED BY <1>b, <1>d, <2>1, <2>2, <2>3, <2>5
<1>6. CASE NextStage(i)
  <2>1. /\ UNCHANGED board /\ slips = {} /\ import[i].left = {}
        /\ \/ import[i].stage = "milestones" /\ Become(i, p, "tasks", Has(p)) /\ answer' = None
           \/ import[i].stage = "tasks" /\ Become(i, p, "edges", PlanEdge[p]) /\ answer' = None
           \/ /\ import[i].stage = "edges" /\ answer' = p
              /\ import' = [import EXCEPT ![i] = Rest]
    BY <1>6 DEF NextStage
  <2>2. p \in Plan /\ Late(i)
    BY <1>a, <2>1 DEF Late
  <2>3. Written(p, MilestonesLeft(i), TasksLeft(i), EdgesLeft(i))
    BY <2>2 DEF Progress
  <2>4. CASE /\ import[i].stage = "milestones" /\ Become(i, p, "tasks", Has(p))
             /\ answer' = None
    <3>1. /\ Late(i)' /\ import'[i].plan = p
          /\ MilestonesLeft(i) = {} /\ MilestonesLeft(i)' = {}
          /\ TasksLeft(i) = Has(p) /\ TasksLeft(i)' = Has(p)
          /\ EdgesLeft(i) = PlanEdge[p] /\ EdgesLeft(i)' = PlanEdge[p]
      BY <1>b, <2>1, <2>4 DEF Late, MilestonesLeft, TasksLeft, EdgesLeft
    <3>2. Written(import[i].plan, MilestonesLeft(i), TasksLeft(i), EdgesLeft(i))'
      BY <2>1, <2>3, <3>1 DEF Written, Tasks, board
    <3> QED BY <1>b, <1>d, <2>1, <2>4, <3>1, <3>2 DEF board
  <2>5. CASE /\ import[i].stage = "tasks" /\ Become(i, p, "edges", PlanEdge[p])
             /\ answer' = None
    <3>1. /\ Late(i)' /\ import'[i].plan = p
          /\ MilestonesLeft(i) = {} /\ MilestonesLeft(i)' = {}
          /\ TasksLeft(i) = {} /\ TasksLeft(i)' = {}
          /\ EdgesLeft(i) = PlanEdge[p] /\ EdgesLeft(i)' = PlanEdge[p]
      BY <1>b, <2>1, <2>5 DEF Late, MilestonesLeft, TasksLeft, EdgesLeft
    <3>2. Written(import[i].plan, MilestonesLeft(i), TasksLeft(i), EdgesLeft(i))'
      BY <2>1, <2>3, <3>1 DEF Written, Tasks, board
    <3> QED BY <1>b, <1>d, <2>1, <2>5, <3>1, <3>2 DEF board
  <2>6. CASE /\ import[i].stage = "edges" /\ answer' = p
             /\ import' = [import EXCEPT ![i] = Rest]
    <3>1. MilestonesLeft(i) = {} /\ TasksLeft(i) = {} /\ EdgesLeft(i) = {}
      BY <2>1, <2>6 DEF MilestonesLeft, TasksLeft, EdgesLeft
    <3>2. Complete(p)
      BY <2>3, <3>1 DEF Complete, Written
    <3>3. project' = project /\ milestone' = milestone /\ deps' = deps
          /\ task' = task /\ Tasks' = Tasks
      BY <2>1 DEF board, Tasks
    <3>4. \A q \in Plan : q = p => Complete(q)'
      BY <3>2, <3>3 DEF Complete
    <3>5. ImportIsComplete'
      BY <2>2, <2>6, <3>4 DEF ImportIsComplete
    <3> QED BY <1>c, <2>1, <2>2, <2>6, <3>3, <3>4, <3>5
  <2> QED BY <2>1, <2>4, <2>5, <2>6
<1>7. CASE EndImport(i)
  <2>1. /\ UNCHANGED board /\ answer' = None /\ import[i].stage = "project" /\ slips = {}
        /\ import' = [import EXCEPT ![i] = Rest]
    BY <1>7, NoSlip DEF EndImport
  <2> QED BY <1>c, <1>d, <2>1 DEF board, Late
<1> QED BY <1>1, <1>2, <1>3, <1>4, <1>5, <1>6, <1>7 DEF Importing

LEMMA ProgressKept ==
  ASSUME Inv, slips = {} => Progress, [Next]_vars, slips' = {}
  PROVE  Progress'
<1> USE BoardAssumption
<1>a. ASSUME NEW k \in Importer, Late(k), Progress,
             \A j \in Project : project[j] \in Plan => Keeps(j), import'[k] = import[k]
      PROVE  Written(import[k].plan, MilestonesLeft(k), TasksLeft(k), EdgesLeft(k))'
  <2> DEFINE q == import[k].plan
             M == MilestonesLeft(k)
             T == TasksLeft(k)
             E == EdgesLeft(k)
  <2>1. q \in Plan /\ Written(q, M, T, E)
    BY <1>a DEF Inv, Imports, Late, Progress
  <2>2. project[PlanProject[q]] = q /\ PlanProject[q] \in Project
    BY <2>1, PlanFacts DEF Written
  <2>3. E = PlanEdge[q] \/ T = {}
    BY <1>a DEF TasksLeft, EdgesLeft
  <2>4. Keeps(PlanProject[q])
    BY <1>a, <2>1, <2>2
  <2>5. import'[k].plan = q /\ MilestonesLeft(k)' = M /\ TasksLeft(k)' = T /\ EdgesLeft(k)' = E
    BY <1>a DEF MilestonesLeft, TasksLeft, EdgesLeft
  <2> HIDE DEF q, M, T, E
  <2>6. /\ project'[PlanProject[q]] = q
        /\ \A m \in PlanMilestone[q] \ M : milestone'[m] = PlanProject[q]
        /\ \A t \in Has(q) \ T : /\ t \in Tasks' /\ task'[t].project = PlanProject[q]
                                 /\ task'[t].milestone = PlanTask[q][t]
        /\ PlanEdge[q] \ E \subseteq deps'
    BY <2>1, <2>3, <2>4, WrittenKept
  <2> QED BY <2>5, <2>6 DEF Written
<1>b. ASSUME NEW j \in Project, project[j] \in Plan, Progress, Complete(project[j]), Keeps(j)
      PROVE  \A q \in Plan : q = project[j] => Complete(q)'
  BY <1>b, CompleteKept DEF Progress
<1>1. CASE Editing
  <2>1. /\ Progress /\ UNCHANGED import /\ answer' = None
        /\ \A j \in Project : project'[j] \in Plan => project[j] = project'[j]
    BY <1>1, EditImportsNothing
  <2>2. \A j \in Project : project[j] \in Plan => Keeps(j)
    BY <1>1, EditKeepsImported
  <2>3. \A k \in Importer : Late(k)' => Late(k)
    BY <2>1 DEF Late
  <2>4. \A k \in Importer : Late(k)' =>
          Written(import[k].plan, MilestonesLeft(k), TasksLeft(k), EdgesLeft(k))'
    BY <1>a, <2>1, <2>2, <2>3
  <2>5. ASSUME NEW j \in Project, project'[j] \in Plan
        PROVE  /\ j = PlanProject[project'[j]]
               /\ \/ \A q \in Plan : q = project'[j] => Complete(q)'
                  \/ \E k \in Importer : Late(k)' /\ import'[k].plan = project'[j]
    BY <1>b, <2>1, <2>2, <2>5 DEF Progress, Late
  <2> QED BY <2>1, <2>4, <2>5 DEF Progress, ImportIsComplete, Complete
<1>2. ASSUME NEW i \in Importer, Importing(i) PROVE Progress'
  <2>1. Progress
    BY <1>2, NoSlip DEF Importing, StartImport, ImportProject, ImportMilestone, ImportTask,
       ImportEdge, NextStage, EndImport
  <2>2. /\ \A k \in Importer \ {i} : import'[k] = import[k]
        /\ Late(i)' => Written(import[i].plan, MilestonesLeft(i), TasksLeft(i), EdgesLeft(i))'
        /\ Late(i) => \/ Late(i)' /\ import'[i].plan = import[i].plan
                      \/ \A q \in Plan : q = import[i].plan => Complete(q)'
        /\ \A j \in Project : project'[j] # project[j] =>
             /\ j = PlanProject[project'[j]]
             /\ Late(i)' /\ import'[i].plan = project'[j]
        /\ ImportIsComplete'
    BY <1>2, <2>1, ImportProgress
  <2>3. \A j \in Project : project[j] \in Plan => Keeps(j)
    BY <1>2, ImportKeepsImported
  <2>4. ASSUME NEW k \in Importer, Late(k)'
        PROVE  Written(import[k].plan, MilestonesLeft(k), TasksLeft(k), EdgesLeft(k))'
    <3>1. CASE k = i
      BY <2>2, <2>4, <3>1
    <3>2. CASE k # i
      <4>1. import'[k] = import[k] /\ Late(k)
        BY <2>2, <2>4, <3>2 DEF Late
      <4> QED BY <1>a, <2>1, <2>3, <4>1
    <3> QED BY <3>1, <3>2
  <2>5. ASSUME NEW j \in Project, project'[j] \in Plan
        PROVE  /\ j = PlanProject[project'[j]]
               /\ \/ \A q \in Plan : q = project'[j] => Complete(q)'
                  \/ \E k \in Importer : Late(k)' /\ import'[k].plan = project'[j]
    <3>1. CASE project'[j] # project[j]
      BY <2>2, <3>1
    <3>2. CASE project'[j] = project[j] /\ Complete(project[j])
      BY <1>b, <2>1, <2>3, <2>5, <3>2 DEF Progress
    <3>3. ASSUME project'[j] = project[j],
                 NEW k \in Importer, Late(k), import[k].plan = project[j]
          PROVE  \/ \A q \in Plan : q = project'[j] => Complete(q)'
                 \/ \E n \in Importer : Late(n)' /\ import'[n].plan = project'[j]
      <4>1. CASE k = i
        BY <2>2, <3>3, <4>1
      <4>2. CASE k # i
        BY <2>2, <3>3, <4>2 DEF Late
      <4> QED BY <4>1, <4>2
    <3> QED BY <2>1, <2>5, <3>1, <3>2, <3>3 DEF Progress
  <2> QED BY <2>2, <2>4, <2>5 DEF Progress, Complete
<1>3. CASE UNCHANGED vars
  BY <1>3 DEF vars, board, Progress, Late, MilestonesLeft, TasksLeft, EdgesLeft, Written,
     Complete, ImportIsComplete, Tasks
<1> QED BY <1>1, <1>2, <1>3 DEF Next

(* What an import reports is there, for any plans and any number of        *)
(* importers: also a replay, which looks at nothing but the project row.   *)
THEOREM ImportsAreComplete == Spec => []ImportIsComplete
<1> DEFINE ProgressInv == slips = {} => Progress
<1>1. Init => ProgressInv
  BY BoardAssumption DEF Init, Progress, Late, Rest, ImportIsComplete
<1>2. Inv /\ ProgressInv /\ [Next]_vars => ProgressInv'
  <2> SUFFICES ASSUME Inv, ProgressInv, [Next]_vars, slips' = {} PROVE Progress'
    OBVIOUS
  <2> QED BY ProgressKept
<1>3. ProgressInv => ImportIsComplete
  BY DEF Progress, ImportIsComplete
<1> HIDE DEF ProgressInv
<1> QED BY <1>1, <1>2, <1>3, InvAlways, PTL DEF Spec
=============================================================================
