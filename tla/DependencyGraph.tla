--------------------------- MODULE DependencyGraph ---------------------------
(***************************************************************************)
(* The prerequisite graph kept in the table task_dependencies and the      *)
(* cycle query that _insertDependency (task-orchestrator/src/store.js)     *)
(* runs before it adds an edge.  An edge <<t, d>> says that t depends on   *)
(* d.  The recursive query `prerequisites` computes a least fixed point;   *)
(* here that fixed point is the intersection of the closed sets, so that   *)
(* the definition needs no recursion and can be proved about.              *)
(***************************************************************************)

\* No prerequisite of a member of S lies outside S.
ClosedUnder(E, S) == \A e \in E : e[1] \in S => e[2] \in S

\* The direct prerequisites of t.
DirectPrerequisites(E, t) == {e[2] : e \in {f \in E : f[1] = t}}

\* Everything t depends on, directly or through others: the rows of the
\* query `prerequisites` started at t.
Prerequisites(E, t, Node) ==
    {x \in Node : \A S \in SUBSET Node :
                      /\ DirectPrerequisites(E, t) \subseteq S
                      /\ ClosedUnder(E, S)
                      => x \in S}

\* Slip: only a direct prerequisite is looked for.
WouldCycleDirectly(E, t, d, Node) == t \in DirectPrerequisites(E, d)

\* The edge <<t, d>> would close a cycle: t is already a prerequisite of d.
WouldCycle(E, t, d, Node) == t \in Prerequisites(E, d, Node)

\* There is no cycle: every non-empty set of nodes has a member none of
\* whose prerequisites is in the set.
Acyclic(E, Node) ==
    \A S \in SUBSET Node :
        S # {} => \E x \in S : \A y \in S : <<x, y>> \notin E
=============================================================================
