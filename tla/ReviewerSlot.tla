---------------------------- MODULE ReviewerSlot ----------------------------
(***************************************************************************)
(* What the durable reviewer claim promises about one review round (one    *)
(* Change at one revision): a review request is sent only while no earlier *)
(* request of the round is still being worked on, and none is sent after   *)
(* the verdict, until one of the windows the claim leaves open is used.    *)
(***************************************************************************)
CONSTANT Session        \* the reviewer sessions a round may use
VARIABLES reviewers,    \* the sessions at work on a request of the round
          settled,      \* the round has its verdict
          exposed       \* a window of the protocol has been used

slotVars == <<reviewers, settled, exposed>>

SlotInit == reviewers = {} /\ ~settled /\ ~exposed

(* A request reaches a session.                                            *)
Request(s) == /\ exposed \/ (reviewers = {} /\ ~settled)
              /\ s \notin reviewers
              /\ reviewers' = reviewers \union {s}
              /\ UNCHANGED <<settled, exposed>>

(* A turn ends, with or without the verdict.                               *)
Finish(s) == /\ s \in reviewers
             /\ reviewers' = reviewers \ {s}
             /\ UNCHANGED <<settled, exposed>>

(* A reviewer at work gives the verdict of the round.                      *)
Settle == /\ reviewers # {} /\ ~settled
          /\ settled' = TRUE
          /\ UNCHANGED <<reviewers, exposed>>

Expose == /\ exposed' = TRUE
          /\ UNCHANGED <<reviewers, settled>>

SlotNext == \/ \E s \in Session : Request(s) \/ Finish(s)
            \/ Settle
            \/ Expose

SlotSpec == SlotInit /\ [][SlotNext]_slotVars
=============================================================================
