--------------------------- MODULE MCGovernedTask ---------------------------
(* Instances of GovernedTask: the fibers of the host are interchangeable.   *)
EXTENDS GovernedTask, TLC

Symmetric == Permutations(Fiber)
=============================================================================
