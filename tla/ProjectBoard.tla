---------------------------- MODULE ProjectBoard ----------------------------
(***************************************************************************)
(* The project board of task-orchestrator/src/store.js: projects, their    *)
(* milestones, and the project, milestone and parent columns of the tasks, *)
(* with the import of a plan (plan-import.js) that fills them.             *)
(*                                                                         *)
(* Every call of the store is one transaction, as in TaskStore; an import  *)
(* is a sequence of such calls with no transaction around them, in a       *)
(* process that may die and beside other processes on the same database.   *)
(* A foreign key is part of the action that fires it.  A call the code     *)
(* refuses changes nothing and has no action, except inside an import,     *)
(* where it ends the import.  Titles, positions, criteria and progress     *)
(* columns are left out.                                                   *)
(***************************************************************************)
EXTENDS Naturals, DependencyGraph

CONSTANTS Project, Milestone, Task,
          Absent,        \* there is no such row
          None,          \* a null column, an import at rest
          Plan,          \* the markdown sources, told apart by their checksum
          PlanProject,   \* the slug of a plan's project
          PlanLabel,     \* source_label, None when the caller gives none
          PlanMilestone, \* a plan's tranches,
          PlanTask,      \* its stories, each with its milestone
          PlanEdge,      \* and the dependencies that resolve
          Importer,      \* processes that import
          MaxEdits,      \* bound: calls by anyone but an import
          Windows        \* the slips an instance lets happen

(* A milestone changed its project; the rows of an imported project are    *)
(* not all there (any more).                                               *)
Slips == {"moved", "partial"}

ASSUME BoardAssumption ==
  /\ Absent \notin Project \union Milestone \union Task \union Plan /\ None # Absent
  /\ Absent \notin [project : Project \union {None}, milestone : Milestone \union {None},
                    parent : Task \union {None}]
  /\ None \notin Project \union Milestone \union Task \union Plan
  /\ PlanProject \in [Plan -> Project]
  /\ PlanMilestone \in [Plan -> SUBSET Milestone]
  /\ \A p \in Plan : /\ DOMAIN PlanTask[p] \subseteq Task
                     /\ \A t \in DOMAIN PlanTask[p] :
                          PlanTask[p][t] \in PlanMilestone[p] \union {None}
                     /\ PlanEdge[p] \subseteq (DOMAIN PlanTask[p]) \X (DOMAIN PlanTask[p])
  /\ MaxEdits \in Nat /\ Windows \subseteq Slips

VARIABLES project,    \* source_checksum of each project, with its label
          milestone,  \* project_id of each milestone
          task,       \* each task's project_id, milestone_id and parent_id
          deps,       \* task_dependencies
          links,      \* task_links
          import,     \* the applyPlanImport under way in each process
          answer,     \* the plan the last step reported as imported
          edits,      \* calls by others so far
          slips       \* the slips that happened

board == <<project, milestone, task, deps, links>>
vars == <<board, import, answer, edits, slips>>

Projects == {j \in Project : project[j] # Absent}
Milestones == {m \in Milestone : milestone[m] # Absent}
Tasks == {t \in Task : task[t] # Absent}

Rest == [plan |-> None, stage |-> "rest", left |-> {}]
Has(p) == DOMAIN PlanTask[p]
Stage == {"rest", "project", "milestones", "tasks", "edges"}
Piece == Milestone \union Task \union (Task \X Task)

(* Every row has its type, and every reference leads to a row: what the    *)
(* foreign keys of the migrations promise whatever is deleted.             *)
TypeOK ==
  /\ project \in [Project -> Plan \union {None, Absent}]
  /\ milestone \in [Milestone -> Projects \union {Absent}]
  /\ \A t \in Task : \/ task[t] = Absent
                     \/ task[t] \in [project : Projects \union {None},
                                     milestone : Milestones \union {None},
                                     parent : Tasks \union {None}]
  /\ deps \union links \subseteq Tasks \X Tasks
  /\ \A i \in Importer : /\ import[i].plan \in Plan \union {None}
                         /\ import[i].stage \in Stage
                         /\ import[i].left \subseteq Piece
  /\ answer \in Plan \union {None} /\ edits \in 0 .. MaxEdits /\ slips \subseteq Windows

Init ==
  /\ project = [j \in Project |-> Absent]
  /\ milestone = [m \in Milestone |-> Absent]
  /\ task = [t \in Task |-> Absent]
  /\ deps = {} /\ links = {}
  /\ import = [i \in Importer |-> Rest]
  /\ answer = None /\ edits = 0 /\ slips = {}

Slip(kind) == kind \in Windows /\ slips' = slips \union {kind}
SlipIf(happens, kind) == IF happens THEN Slip(kind) ELSE UNCHANGED slips

Parents == {<<t, task[t].parent>> : t \in {u \in Tasks : task[u].parent # None}}

(* A milestone is given only together with the project it belongs to.      *)
PairAllowed(j, m) ==
  /\ j \in Projects \union {None}
  /\ m # None => j # None /\ milestone[m] = j

-----------------------------------------------------------------------------
(* Calls of tools, dashboard and web interface.                            *)

Edit == /\ edits < MaxEdits /\ edits' = edits + 1
        /\ answer' = None /\ UNCHANGED import

(* An edit that takes something away from a project that was imported.     *)
Touches(j) == SlipIf(j \in Project /\ project[j] \in Plan, "partial")

CreateProject(j) ==
  /\ Edit /\ project[j] = Absent /\ project' = [project EXCEPT ![j] = None]
  /\ UNCHANGED <<milestone, task, deps, links, slips>>

(* source_label and source_checksum can be patched like any other column.  *)
UpdateProject(j, source) ==
  /\ Edit /\ project[j] # Absent
  /\ project' = [project EXCEPT ![j] = source]
  /\ Slip("partial")
  /\ UNCHANGED <<milestone, task, deps, links>>

\* Slip: the milestones go with the project, their tasks keep them.
DropProjectOnly(j) ==
  /\ Edit /\ project[j] # Absent /\ Touches(j)
  /\ project' = [project EXCEPT ![j] = Absent]
  /\ milestone' = [m \in Milestone |-> IF milestone[m] = j THEN Absent ELSE milestone[m]]
  /\ task' = [t \in Task |->
                IF t \in Tasks /\ task[t].project = j
                THEN [task[t] EXCEPT !.project = None] ELSE task[t]]
  /\ UNCHANGED <<deps, links>>

(* Its milestones go with it; the tasks of either stay without.            *)
DeleteProject(j) ==
  /\ Edit /\ project[j] # Absent /\ Touches(j)
  /\ project' = [project EXCEPT ![j] = Absent]
  /\ milestone' = [m \in Milestone |-> IF milestone[m] = j THEN Absent ELSE milestone[m]]
  /\ task' = [t \in Task |->
                IF t \notin Tasks THEN Absent
                ELSE [task[t] EXCEPT
                        !.project = IF @ = j THEN None ELSE @,
                        !.milestone = IF @ # None /\ milestone[@] = j THEN None ELSE @]]
  /\ UNCHANGED <<deps, links>>

CreateMilestone(m, j) ==
  /\ Edit /\ milestone[m] = Absent /\ j \in Projects
  /\ milestone' = [milestone EXCEPT ![m] = j]
  /\ UNCHANGED <<project, task, deps, links, slips>>

(* updateMilestone with a project_id: the tasks stay where they were.      *)
UpdateMilestone(m, j) ==
  /\ Edit /\ milestone[m] # Absent /\ j \in Projects
  /\ milestone' = [milestone EXCEPT ![m] = j]
  /\ SlipIf(j # milestone[m], "moved")
  /\ UNCHANGED <<project, task, deps, links>>

DeleteMilestone(m) ==
  /\ Edit /\ milestone[m] # Absent /\ Touches(milestone[m])
  /\ milestone' = [milestone EXCEPT ![m] = Absent]
  /\ task' = [t \in Task |-> IF t \in Tasks /\ task[t].milestone = m
                             THEN [task[t] EXCEPT !.milestone = None] ELSE task[t]]
  /\ UNCHANGED <<project, deps, links>>

(* create and addChild.                                                    *)
CreateTask(t, j, m, up) ==
  /\ Edit /\ task[t] = Absent
  /\ up \in Tasks \union {None} /\ PairAllowed(j, m)
  /\ task' = [task EXCEPT ![t] = [project |-> j, milestone |-> m, parent |-> up]]
  /\ UNCHANGED <<project, milestone, deps, links, slips>>

\* Slip: the pair is checked only when the milestone is patched.
UpdateTaskPatched(t, j, m) ==
  /\ Edit /\ t \in Tasks /\ Touches(task[t].project)
  /\ m # task[t].milestone => PairAllowed(j, m)
  /\ j \in Projects \union {None}
  /\ task' = [task EXCEPT ![t].project = j, ![t].milestone = m]
  /\ UNCHANGED <<project, milestone, deps, links>>

(* update with a project_id or a milestone_id: the pair that results.      *)
UpdateTask(t, j, m) ==
  /\ Edit /\ t \in Tasks /\ Touches(task[t].project)
  /\ PairAllowed(j, m)
  /\ task' = [task EXCEPT ![t].project = j, ![t].milestone = m]
  /\ UNCHANGED <<project, milestone, deps, links>>

\* Slip: only the new parent's own parent is looked at.
AdoptNear(t, up) ==
  /\ Edit /\ t \in Tasks /\ up \in Tasks \ {t}
  /\ task[up].parent # t
  /\ task' = [task EXCEPT ![t].parent = up]
  /\ UNCHANGED <<project, milestone, deps, links, slips>>

(* update with a parent_id: the walk up from the new parent misses t.      *)
UpdateParent(t, up) ==
  /\ Edit /\ t \in Tasks /\ up \in Tasks \union {None}
  /\ up # None => t # up /\ ~WouldCycle(Parents, t, up, Task)
  /\ task' = [task EXCEPT ![t].parent = up]
  /\ UNCHANGED <<project, milestone, deps, links, slips>>

(* Children lose their parent, dependencies and links go.                  *)
DeleteTask(t) ==
  /\ Edit /\ t \in Tasks /\ Touches(task[t].project)
  /\ task' = [u \in Task |-> IF u = t THEN Absent
                             ELSE IF u \in Tasks /\ task[u].parent = t
                             THEN [task[u] EXCEPT !.parent = None] ELSE task[u]]
  /\ deps' = {e \in deps : t \notin {e[1], e[2]}}
  /\ links' = {e \in links : t \notin {e[1], e[2]}}
  /\ UNCHANGED <<project, milestone>>

AddTaskLink(t, u) ==
  /\ Edit /\ {t, u} \subseteq Tasks /\ t # u /\ <<t, u>> \notin links
  /\ links' = links \union {<<t, u>>}
  /\ UNCHANGED <<project, milestone, task, deps, slips>>

RemoveTaskLink(t, u) ==
  /\ Edit /\ <<t, u>> \in links /\ links' = links \ {<<t, u>>}
  /\ UNCHANGED <<project, milestone, task, deps, slips>>

EdgeAllowed(t, d) == {t, d} \subseteq Tasks /\ t # d /\ ~WouldCycle(deps, t, d, Task)

AddDependency(t, d) ==
  /\ Edit /\ <<t, d>> \notin deps /\ EdgeAllowed(t, d)
  /\ deps' = deps \union {<<t, d>>}
  /\ UNCHANGED <<project, milestone, task, links, slips>>

RemoveDependency(t, d) ==
  /\ Edit /\ <<t, d>> \in deps /\ Touches(task[t].project)
  /\ deps' = deps \ {<<t, d>>}
  /\ UNCHANGED <<project, milestone, task, links>>

-----------------------------------------------------------------------------
(* applyPlanImport.                                                        *)

Complete(p) ==
  /\ project[PlanProject[p]] = p
  /\ \A m \in PlanMilestone[p] : milestone[m] = PlanProject[p]
  /\ \A t \in Has(p) : /\ t \in Tasks /\ task[t].project = PlanProject[p]
                       /\ task[t].milestone = PlanTask[p][t]
  /\ PlanEdge[p] \subseteq deps

Labelled(p) == {j \in Project : /\ PlanLabel[p] # None /\ project[j] \in Plan
                                /\ PlanLabel[project[j]] = PlanLabel[p]}
Become(i, p, stage, left) == import' = [import EXCEPT ![i] = [plan |-> p, stage |-> stage, left |-> left]]

(* The same source again is answered from what is there; another version   *)
(* of it is a conflict.  Both look only at the project row.                *)
StartImport(i, p) ==
  /\ import[i] = Rest /\ UNCHANGED <<board, edits>>
  /\ \/ /\ \E j \in Labelled(p) : project[j] = p
        /\ answer' = p /\ UNCHANGED import
        /\ SlipIf(\E k \in Importer : import[k].plan = p, "partial")
     \/ /\ Labelled(p) = {}
        /\ Become(i, p, "project", {}) /\ answer' = None /\ UNCHANGED slips

ImportProject(i) ==
  LET p == import[i].plan IN
  /\ import[i].stage = "project" /\ project[PlanProject[p]] = Absent
  /\ project' = [project EXCEPT ![PlanProject[p]] = p]
  /\ Become(i, p, "milestones", PlanMilestone[p])
  /\ answer' = None /\ UNCHANGED <<milestone, task, deps, links, edits, slips>>

ImportMilestone(i) ==
  LET p == import[i].plan IN
  /\ import[i].stage = "milestones" /\ PlanProject[p] \in Projects
  /\ \E m \in import[i].left :
       /\ milestone[m] = Absent
       /\ milestone' = [milestone EXCEPT ![m] = PlanProject[p]]
       /\ Become(i, p, "milestones", import[i].left \ {m})
  /\ answer' = None /\ UNCHANGED <<project, task, deps, links, edits, slips>>

\* Slip: a story whose task exists is skipped.
ImportOrSkipTask(i) ==
  LET p == import[i].plan IN
  /\ import[i].stage = "tasks"
  /\ \E t \in import[i].left :
       /\ \/ /\ task[t] = Absent /\ PairAllowed(PlanProject[p], PlanTask[p][t])
             /\ task' = [task EXCEPT ![t] = [project |-> PlanProject[p],
                                             milestone |-> PlanTask[p][t], parent |-> None]]
          \/ task[t] # Absent /\ UNCHANGED task
       /\ Become(i, p, "tasks", import[i].left \ {t})
  /\ answer' = None /\ UNCHANGED <<project, milestone, deps, links, edits, slips>>

ImportTask(i) ==
  LET p == import[i].plan IN
  /\ import[i].stage = "tasks"
  /\ \E t \in import[i].left :
       /\ task[t] = Absent /\ PlanProject[p] \in Projects
       /\ PairAllowed(PlanProject[p], PlanTask[p][t])
       /\ task' = [task EXCEPT ![t] = [project |-> PlanProject[p],
                                       milestone |-> PlanTask[p][t], parent |-> None]]
       /\ Become(i, p, "tasks", import[i].left \ {t})
  /\ answer' = None /\ UNCHANGED <<project, milestone, deps, links, edits, slips>>

ImportEdge(i) ==
  LET p == import[i].plan IN
  /\ import[i].stage = "edges"
  /\ \E e \in import[i].left :
       /\ EdgeAllowed(e[1], e[2]) /\ deps' = deps \union {e}
       /\ Become(i, p, "edges", import[i].left \ {e})
  /\ answer' = None /\ UNCHANGED <<project, milestone, task, links, edits, slips>>

NextStage(i) ==
  LET p == import[i].plan IN
  /\ import[i].left = {} /\ UNCHANGED <<board, edits, slips>>
  /\ \/ /\ import[i].stage = "milestones" /\ Become(i, p, "tasks", Has(p)) /\ answer' = None
     \/ /\ import[i].stage = "tasks" /\ Become(i, p, "edges", PlanEdge[p]) /\ answer' = None
     \/ /\ import[i].stage = "edges" /\ import' = [import EXCEPT ![i] = Rest] /\ answer' = p

(* A call of the import is refused, or its process dies.  What was written *)
(* stays.                                                                  *)
EndImport(i) ==
  /\ import[i] # Rest /\ import' = [import EXCEPT ![i] = Rest]
  /\ SlipIf(import[i].stage # "project", "partial")
  /\ answer' = None /\ UNCHANGED <<board, edits>>

Importing(i) == \/ \E p \in Plan : StartImport(i, p)
                \/ ImportProject(i) \/ ImportMilestone(i) \/ ImportTask(i)
                \/ ImportEdge(i) \/ NextStage(i) \/ EndImport(i)

Editing ==
  \/ \E j \in Project : \/ CreateProject(j) \/ DeleteProject(j)
                        \/ \E p \in Plan \union {None} : UpdateProject(j, p)
                        \/ \E m \in Milestone : CreateMilestone(m, j) \/ UpdateMilestone(m, j)
  \/ \E m \in Milestone : DeleteMilestone(m)
  \/ \E t \in Task :
       \/ \E j \in Project \union {None}, m \in Milestone \union {None} :
            \/ \E up \in Task \union {None} : CreateTask(t, j, m, up)
            \/ UpdateTask(t, j, m)
       \/ \E up \in Task \union {None} : UpdateParent(t, up)
       \/ DeleteTask(t)
       \/ \E u \in Task : \/ AddTaskLink(t, u) \/ RemoveTaskLink(t, u)
                          \/ AddDependency(t, u) \/ RemoveDependency(t, u)

Next == Editing \/ \E i \in Importer : Importing(i)

Spec == Init /\ [][Next]_vars

-----------------------------------------------------------------------------
(* A task's milestone belongs to the task's project, whichever of the      *)
(* three rows was changed or deleted last, unless a milestone was moved to *)
(* another project (updateMilestone does not look at its tasks).           *)
MilestoneInProject ==
  "moved" \notin slips =>
    \A t \in Tasks : task[t].milestone # None =>
                       milestone[task[t].milestone] = task[t].project

(* No chain of parents leads back to its start, so the walks that update   *)
(* and the recursive descendants query make come to an end.                *)
ParentsAcyclic == Acyclic(Parents, Task)

(* What an import reports as imported is there: a replay answers from the  *)
(* project row alone, which is right unless an earlier import stopped      *)
(* half-way or still runs, or rows of the project were edited.             *)
ImportIsComplete == answer # None /\ slips = {} => Complete(answer)

=============================================================================
