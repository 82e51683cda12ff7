------------------------- MODULE MCControllerHandoff -------------------------
(* Instances of ControllerHandoff.                                          *)
EXTENDS ControllerHandoff

CONSTANTS t1, t2
TwoTasks == {t1, t2}
FirstTask == {t1}
=============================================================================
