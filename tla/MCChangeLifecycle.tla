--------------------------- MODULE MCChangeLifecycle ---------------------------
(* Small instances of ChangeLifecycle for TLC. *)
EXTENDS ChangeLifecycle, TLC

CONSTANTS c1, s1, s2, k1, a, b, p, q, i1

OneChange   == {c1}
TwoSessions == {s1, s2}
OneWorker   == {k1}
TwoRevisions == {a, b}
OneContent  == {p}
TwoContents == {p, q}
OneItem     == {i1}

SessionSymmetry == Permutations(TwoSessions)
=============================================================================
