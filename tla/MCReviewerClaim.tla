--------------------------- MODULE MCReviewerClaim ---------------------------
(* Instances of ReviewerClaim: hosts and sessions are interchangeable.      *)
EXTENDS ReviewerClaim, TLC

Symmetric == Permutations(Host) \union Permutations(Session)
=============================================================================
