--------------------------- MODULE MCWorkerSession ---------------------------
(* Two call ids that may stand for each other.                              *)
EXTENDS WorkerSession, TLC

CONSTANTS c1, c2
TwoCalls == {c1, c2}
CallSymmetry == Permutations(TwoCalls)
=============================================================================
