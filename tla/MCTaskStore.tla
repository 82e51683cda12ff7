---------------------------- MODULE MCTaskStore -----------------------------
(* Small instances of TaskStore for TLC. *)
EXTENDS TaskStore, TLC

CONSTANTS t1, t2, t3, w1, w2

OneTask    == {t1}
ThreeTasks == {t1, t2, t3}
OneWorker  == {w1}
TwoWorkers == {w1, w2}

AllStatus  == Status
\* Enough for prerequisites to become done and not done again.
GraphStatus == {"ready", "done", "extension"}
GuardedTargets == {"ready", "in_review", "blocked"}

Symmetry == Permutations(TwoWorkers)
TaskSymmetry == Permutations(ThreeTasks)
=============================================================================
