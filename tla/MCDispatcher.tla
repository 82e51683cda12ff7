----------------------------- MODULE MCDispatcher -----------------------------
(* Small instances of Dispatcher for TLC. *)
EXTENDS Dispatcher, TLC

CONSTANTS t1, t2, r1, r2

OneTask  == {t1}
TwoRuns  == {r1, r2}
SecondRun == {r2}

ManagerMoves == {"ready", "cancelled"}
=============================================================================
