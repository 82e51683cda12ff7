----------------------------- MODULE MCChangeStore -----------------------------
(* Small instances of ChangeStore for TLC. *)
EXTENDS ChangeStore, TLC

CONSTANTS h1, h2, c1, c2, s1, s2, k1, a, b, p, i1

TwoHosts     == {h1, h2}
TwoChanges   == {c1, c2}
TwoSessions  == {s1, s2}
OneWorker    == {k1}
TwoRevisions == {a, b}
OneContent   == {p}
OneItem      == {i1}

HostSymmetry == Permutations(TwoHosts)

\* A Change at the stages of its life.
Planned    == WithPlan(WithNew(Absent, i1), p)
Started    == WithState(WithAcceptedPlan(Planned), "IMPLEMENTING")
Working    == WithBinding(Started, s1, k1)
Proved     == WithProof(Working, a, s1, s1)
InReview   == WithBinding(WithState(Proved, "REVIEW"), s2, "reviewer")
InRepair   == WithReview(InReview, s2, <<"fail", TRUE>>)

FileWith(c) == [x \in TwoChanges |-> IF x = c1 THEN c ELSE Absent]
StageFiles  == {FileWith(c) : c \in {Absent, Planned, Working, Proved, InReview, InRepair}}

\* A Change whose gate a higher risk will delete in memory, and two Changes of
\* which one is in preflight while the other gets new plans.
GatedFile   == FileWith(WithGate(WithRisk(Planned, 1)))
TwoFile     == [x \in TwoChanges |-> IF x = c1 THEN [Proved EXCEPT !.item = NoItem]
                                             ELSE Planned]
StartFiles  == StageFiles \cup {GatedFile, TwoFile}
=============================================================================
