---------------------------- MODULE MCProjectBoard ----------------------------
(* Two versions of one document and one without a label: their stories      *)
(* share an id, the last two their project.                                 *)
EXTENDS ProjectBoard, TLC

CONSTANTS j1, j2, m1, m2, t1, t2, t3, p1, p2, p3, i1, i2, label
ProjectOf == [p \in Plan |-> IF p = p1 THEN j1 ELSE j2]
LabelOf == [p \in Plan |-> IF p = p3 THEN None ELSE label]
MilestoneOf == [p \in Plan |-> IF p = p1 THEN {m1} ELSE {}]
TaskOf == [p \in Plan |-> IF p = p1 THEN [t \in {t1, t2} |-> IF t = t1 THEN m1 ELSE None]
                          ELSE [t \in {t1} |-> None]]
EdgeOf == [p \in Plan |-> IF p = p1 THEN {<<t2, t1>>} ELSE {}]
TwoImporters == {i1, i2}
ImporterSymmetry == Permutations(TwoImporters)
ThreeTasks == {t1, t2, t3}
=============================================================================
