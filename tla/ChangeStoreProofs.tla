--------------------------- MODULE ChangeStoreProofs ---------------------------
(***************************************************************************)
(* What the life of a Change guarantees for any changes, sessions,         *)
(* revisions, plans and numbers of rounds, and the lock around the file    *)
(* and the merges into it for any number of processes, operations and      *)
(* faults.                                                                 *)
(*                                                                         *)
(* Sound is what one record keeps under every operation; the operations    *)
(* are lifted to the map of Changes by RecordPut, and creation is treated  *)
(* apart because it looks at all.  LockInv is inductive for the lock.      *)
(* Effect is what a merge relies on in an operation; HostInv relates the   *)
(* memory, the flags and the pending write of a process to the file.       *)
(***************************************************************************)
EXTENDS ChangeStore, SequenceTheorems, FiniteSetTheorems, WellFoundedInduction, TLAPS

\* The inductive part that concerns one record.
Sound(c) ==
    c \in Record /\ ReviewedIfApproved(c) /\ AcceptedPlanNamed(c) /\ BlockingClaimed(c)

LifeInv == /\ LifecycleTypeOK /\ ApprovedIsReviewed /\ OneAcceptedPlan
           /\ BlockingIsClaimed /\ OneChangePerItem

\* What an operation on a record d, given c, may do to it.
Follows(c, d) ==
    /\ Sound(d)
    /\ d.item = c.item
    /\ IsNonterminal(d) => IsNonterminal(c)
    /\ PlansKept(c, d)

LEMMA StateType == State = {"ABSENT", "DRAFT", "PLANNED", "READY", "IMPLEMENTING",
                            "PREFLIGHT", "REVIEW", "REPAIR", "APPROVED"}
  BY DEF State, TRANSITIONS

LEMMA AbsentSound == Sound(Absent)
  BY LifecycleAssumption, StateType
  DEF Sound, Absent, Record, Binding, ReviewedIfApproved, AcceptedPlanNamed,
      BlockingClaimed, Blocking

LEMMA NewSound ==
    ASSUME NEW c, Sound(c), c.state = "ABSENT", NEW item \in WorkItem \cup {NoItem}
    PROVE  Sound(WithNew(c, item)) /\ PlansKept(c, WithNew(c, item))
  BY StateType
  DEF Sound, WithNew, Record, ReviewedIfApproved, AcceptedPlanNamed,
      BlockingClaimed, Blocking, PlansKept

-----------------------------------------------------------------------------
\* The plan operations.

LEMMA SubmitPlanFollows ==
    ASSUME NEW c, Sound(c), CanSubmitPlan(c), NEW k \in Content
    PROVE  Follows(c, WithPlan(c, k))
  <1> DEFINE kept == [i \in DOMAIN c.plans |->
                        IF c.state = "READY" /\ c.plans[i].status = "ACCEPTED"
                          THEN [c.plans[i] EXCEPT !.status = "SUPERSEDED"]
                          ELSE c.plans[i]]
             new  == [status |-> "PLANNED", content |-> k]
             ps   == Append(kept, new)
             d    == WithPlan(c, k)
  <1>1. c \in Record /\ c.plans \in Seq(Plan) /\ Len(c.plans) \in Nat
    BY DEF Sound, Record
  <1>2. kept \in Seq(Plan) /\ Len(kept) = Len(c.plans)
    <2>1. c.plans \in [1 .. Len(c.plans) -> Plan] /\ DOMAIN c.plans = 1 .. Len(c.plans)
      BY <1>1, LenProperties
    <2>2. \A i \in 1 .. Len(c.plans) : kept[i] \in Plan
      BY <2>1 DEF Plan
    <2>3. kept \in [1 .. Len(c.plans) -> Plan]
      BY <2>1, <2>2
    <2> HIDE DEF kept
    <2> QED
      BY <1>1, <2>3, SeqDef
  <1>3. /\ ps \in Seq(Plan)
        /\ DOMAIN ps = 1 .. Len(c.plans) + 1
        /\ \A i \in DOMAIN c.plans : i \in DOMAIN ps /\ ps[i] = kept[i]
        /\ ps[Len(c.plans) + 1] = new
    <2>1. new \in Plan
      BY DEF Plan
    <2> HIDE DEF kept, new
    <2> QED
      BY <1>1, <1>2, <2>1, LenProperties
  <1>4. d = [c EXCEPT !.state = "PLANNED", !.accepted = 0, !.plans = ps]
    BY DEF WithPlan
  <1>5. /\ d \in Record /\ d.state = "PLANNED" /\ d.accepted = 0 /\ d.plans = ps
        /\ d.item = c.item /\ d.reviews = c.reviews /\ d.claims = c.claims
    <2> HIDE DEF ps, d
    <2> QED
      BY <1>1, <1>3, <1>4, StateType DEF Record
  <1>6. \A i \in DOMAIN c.plans : /\ kept[i].status # "ACCEPTED"
                                  /\ kept[i].content = c.plans[i].content
    <2> TAKE i \in DOMAIN c.plans
    <2>1. i \in 1 .. Len(c.plans) /\ c.plans[i] \in Plan
      BY <1>1, LenProperties, ElementOfSeq
    <2>2. CASE c.plans[i].status = "ACCEPTED"
      <3>1. c.state = "READY"
        BY <2>1, <2>2 DEF Sound, AcceptedPlanNamed, CanSubmitPlan
      <3> QED
        BY <2>1, <2>2, <3>1 DEF Plan
    <2>3. CASE c.plans[i].status # "ACCEPTED"
      BY <2>3
    <2> QED
      BY <2>2, <2>3
  <1>7. \A i \in DOMAIN ps : ps[i].status # "ACCEPTED"
    <2> TAKE i \in DOMAIN ps
    <2>1. i \in DOMAIN c.plans \/ i = Len(c.plans) + 1
      BY <1>1, <1>3, LenProperties
    <2>2. CASE i = Len(c.plans) + 1
      BY <1>3, <2>2
    <2>3. CASE i \in DOMAIN c.plans
      BY <1>3, <1>6, <2>3
    <2> QED
      BY <2>1, <2>2, <2>3
  <1> HIDE DEF d, ps, kept, new
  <1>8. AcceptedPlanNamed(d)
    BY <1>3, <1>5, <1>7 DEF AcceptedPlanNamed
  <1>9. BlockingClaimed(d)
    BY <1>5 DEF Sound, BlockingClaimed, Blocking, CanSubmitPlan
  <1>10. PlansKept(c, d)
    BY <1>3, <1>5, <1>6 DEF PlansKept
  <1>11. ReviewedIfApproved(d)
    BY <1>5 DEF ReviewedIfApproved
  <1>12. IsNonterminal(c)
    BY DEF IsNonterminal, CanSubmitPlan
  <1>13. Follows(c, d)
    BY <1>5, <1>8, <1>9, <1>10, <1>11, <1>12 DEF Follows, Sound
  <1> QED
    BY <1>13 DEF d

LEMMA AcceptPlanFollows ==
    ASSUME NEW c, Sound(c), CanAcceptPlan(c)
    PROVE  Follows(c, WithAcceptedPlan(c))
  <1> DEFINE n  == Len(c.plans)
             ps == [c.plans EXCEPT ![n].status = "ACCEPTED"]
             d  == WithAcceptedPlan(c)
  <1>1. c \in Record /\ c.plans \in Seq(Plan) /\ n \in Nat /\ n # 0
    BY DEF Sound, Record, CanAcceptPlan
  <1>2. /\ ps \in Seq(Plan) /\ Len(ps) = n /\ DOMAIN ps = DOMAIN c.plans
        /\ \A i \in DOMAIN c.plans : /\ i # n => ps[i] = c.plans[i]
                                     /\ ps[i].content = c.plans[i].content
        /\ ps[n].status = "ACCEPTED"
    <2> DEFINE e == [c.plans[n] EXCEPT !.status = "ACCEPTED"]
    <2>1. DOMAIN c.plans = 1 .. n /\ n \in 1 .. n /\ c.plans[n] \in Plan
      BY <1>1, LenProperties, ElementOfSeq
    <2>2. e \in Plan /\ e.status = "ACCEPTED" /\ e.content = c.plans[n].content
      BY <2>1 DEF Plan
    <2>3. ps = [c.plans EXCEPT ![n] = e]
      BY <2>1
    <2> HIDE DEF e, ps
    <2> QED
      BY <1>1, <2>1, <2>2, <2>3, ExceptSeq, LenProperties
  <1>3. d = [c EXCEPT !.state = "READY", !.accepted = n, !.plans = ps]
    BY DEF WithAcceptedPlan
  <1>4. /\ d \in Record /\ d.state = "READY" /\ d.accepted = n /\ d.plans = ps
        /\ d.item = c.item /\ d.reviews = c.reviews /\ d.claims = c.claims
    BY <1>1, <1>2, <1>3, StateType DEF Record
  <1>5. c.accepted = 0 /\ \A i \in DOMAIN c.plans : c.plans[i].status = "ACCEPTED" <=> i = 0
    BY DEF Sound, AcceptedPlanNamed, CanAcceptPlan
  <1>6. \A i \in DOMAIN ps : ps[i].status = "ACCEPTED" <=> i = n
    BY <1>1, <1>2, <1>5
  <1> HIDE DEF d, ps
  <1>7. AcceptedPlanNamed(d)
    BY <1>1, <1>2, <1>4, <1>6 DEF AcceptedPlanNamed
  <1>8. BlockingClaimed(d)
    BY <1>4 DEF Sound, BlockingClaimed, Blocking, CanAcceptPlan
  <1>9. PlansKept(c, d)
    BY <1>2, <1>4 DEF PlansKept
  <1>10. ReviewedIfApproved(d) /\ IsNonterminal(c)
    BY <1>4 DEF ReviewedIfApproved, IsNonterminal, CanAcceptPlan
  <1>11. Follows(c, d)
    BY <1>4, <1>7, <1>8, <1>9, <1>10 DEF Follows, Sound
  <1> QED
    BY <1>11 DEF d

LEMMA UpdatePlanFollows ==
    ASSUME NEW c, Sound(c), NEW i \in 1 .. PlanBound, CanUpdatePlan(c, i),
           NEW k \in Content
    PROVE  Follows(c, WithUpdatedPlan(c, i, k))
  <1> DEFINE ps == [c.plans EXCEPT ![i].content = k]
             d  == WithUpdatedPlan(c, i, k)
  <1>1. c \in Record /\ c.plans \in Seq(Plan) /\ i \in DOMAIN c.plans
    BY DEF Sound, Record, CanUpdatePlan
  <1>2. /\ ps \in Seq(Plan) /\ Len(ps) = Len(c.plans) /\ DOMAIN ps = DOMAIN c.plans
        /\ \A j \in DOMAIN c.plans : /\ ps[j].status = c.plans[j].status
                                     /\ j # i => ps[j] = c.plans[j]
    <2> DEFINE e == [c.plans[i] EXCEPT !.content = k]
    <2>1. DOMAIN c.plans = 1 .. Len(c.plans) /\ c.plans[i] \in Plan
      BY <1>1, LenProperties, ElementOfSeq
    <2>2. e \in Plan /\ e.status = c.plans[i].status
      BY <2>1 DEF Plan
    <2>3. ps = [c.plans EXCEPT ![i] = e]
      BY <2>1
    <2> HIDE DEF e, ps
    <2> QED
      BY <1>1, <2>1, <2>2, <2>3, ExceptSeq, LenProperties
  <1>3. d = [c EXCEPT !.plans = ps]
    BY DEF WithUpdatedPlan
  <1>4. /\ d \in Record /\ d.plans = ps /\ d.state = c.state
        /\ d.accepted = c.accepted /\ d.item = c.item /\ d.reviews = c.reviews
        /\ d.claims = c.claims /\ d.attempts = c.attempts
    BY <1>1, <1>2, <1>3 DEF Record
  <1> HIDE DEF d, ps
  <1>5. AcceptedPlanNamed(d)
    BY <1>2, <1>4 DEF Sound, AcceptedPlanNamed
  <1>6. BlockingClaimed(d) /\ ReviewedIfApproved(d)
    BY <1>4 DEF Sound, BlockingClaimed, Blocking, ReviewedIfApproved,
                CurrentRevision, Implementers
  <1>7. PlansKept(c, d)
    BY <1>2, <1>4 DEF PlansKept, CanUpdatePlan
  <1>8. Follows(c, d)
    BY <1>4, <1>5, <1>6, <1>7 DEF Follows, Sound, IsNonterminal
  <1> QED
    BY <1>8 DEF d

-----------------------------------------------------------------------------
\* Operations that leave the plans alone.

LEMMA SamePlans ==
    ASSUME NEW c, Sound(c), NEW d, d \in Record, d.plans = c.plans,
           d.accepted = c.accepted,
           d.accepted # 0 <=> d.state \notin {"ABSENT", "DRAFT", "PLANNED"}
    PROVE  AcceptedPlanNamed(d) /\ PlansKept(c, d)
  BY DEF Sound, AcceptedPlanNamed, PlansKept

\* ... and that also leave the rounds alone: bindings, proof, risk and gates
\* are not in Sound.
LEMMA SameRounds ==
    ASSUME NEW c, Sound(c), NEW d, d \in Record, d.plans = c.plans,
           d.accepted = c.accepted, d.state = c.state, d.item = c.item,
           d.reviews = c.reviews, d.claims = c.claims, d.attempts = c.attempts
    PROVE  Follows(c, d)
  <1>1. AcceptedPlanNamed(d) /\ PlansKept(c, d)
    BY SamePlans DEF Sound, AcceptedPlanNamed
  <1>2. ReviewedIfApproved(d) /\ BlockingClaimed(d)
    BY DEF Sound, ReviewedIfApproved, BlockingClaimed, Blocking, CurrentRevision,
           Implementers
  <1> QED
    BY <1>1, <1>2 DEF Follows, Sound, IsNonterminal

LEMMA SideFollows ==
    ASSUME NEW c, Sound(c)
    PROVE  /\ \A s \in Session, b \in Binding : Follows(c, WithBinding(c, s, b))
           /\ Follows(c, WithoutProof(c))
           /\ \A level \in Risk : Follows(c, WithRisk(c, level))
           /\ CanRecordGate(c) => Follows(c, WithGate(c))
  <1>1. c \in Record
    BY DEF Sound
  <1>2. ASSUME NEW s \in Session, NEW b \in Binding
        PROVE  Follows(c, WithBinding(c, s, b))
    <2> DEFINE d == WithBinding(c, s, b)
    <2>1. /\ d \in Record /\ d.plans = c.plans /\ d.accepted = c.accepted
          /\ d.state = c.state /\ d.item = c.item /\ d.reviews = c.reviews
          /\ d.claims = c.claims /\ d.attempts = c.attempts
      BY <1>1 DEF Record, WithBinding
    <2> QED
      BY <2>1, SameRounds
  <1>3. Follows(c, WithoutProof(c))
    <2> DEFINE d == WithoutProof(c)
    <2>1. /\ d \in Record /\ d.plans = c.plans /\ d.accepted = c.accepted
          /\ d.state = c.state /\ d.item = c.item /\ d.reviews = c.reviews
          /\ d.claims = c.claims /\ d.attempts = c.attempts
      BY <1>1 DEF Record, WithoutProof
    <2> QED
      BY <2>1, SameRounds
  <1>4. ASSUME NEW level \in Risk
        PROVE  Follows(c, WithRisk(c, level))
    <2> DEFINE d == WithRisk(c, level)
    <2>1. level \in 0 .. 3
      BY LifecycleAssumption
    <2>2. /\ d \in Record /\ d.plans = c.plans /\ d.accepted = c.accepted
          /\ d.state = c.state /\ d.item = c.item /\ d.reviews = c.reviews
          /\ d.claims = c.claims /\ d.attempts = c.attempts
      BY <1>1, <2>1 DEF Record, WithRisk
    <2> QED
      BY <2>2, SameRounds
  <1>5. ASSUME CanRecordGate(c)
        PROVE  Follows(c, WithGate(c))
    <2> DEFINE d == WithGate(c)
    <2>1. c.gates \cup {c.risk} \in SUBSET (1 .. 3)
      BY <1>1, <1>5 DEF Record, CanRecordGate
    <2>2. /\ d \in Record /\ d.plans = c.plans /\ d.accepted = c.accepted
          /\ d.state = c.state /\ d.item = c.item /\ d.reviews = c.reviews
          /\ d.claims = c.claims /\ d.attempts = c.attempts
      BY <1>1, <2>1 DEF Record, WithGate
    <2> QED
      BY <2>2, SameRounds
  <1> QED
    BY <1>2, <1>3, <1>4, <1>5

LEMMA TransitionFollows ==
    ASSUME NEW c, Sound(c), NEW to \in State, CanTransition(c, to)
    PROVE  Follows(c, WithState(c, to))
  <1> DEFINE d == WithState(c, to)
  <1>1. /\ c.state \in {"READY", "IMPLEMENTING", "PREFLIGHT"}
        /\ to \in {"IMPLEMENTING", "PREFLIGHT", "REVIEW"}
    BY DEF CanTransition, AskedTransition
  <1>2. /\ d \in Record /\ d.plans = c.plans /\ d.accepted = c.accepted
        /\ d.state = to /\ d.item = c.item /\ d.reviews = c.reviews
        /\ d.claims = c.claims
    BY DEF Sound, Record, WithState
  <1> HIDE DEF d
  <1>3. AcceptedPlanNamed(d) /\ PlansKept(c, d)
    BY <1>1, <1>2, SamePlans DEF Sound, AcceptedPlanNamed
  <1>4. ReviewedIfApproved(d) /\ BlockingClaimed(d)
    BY <1>1, <1>2 DEF Sound, ReviewedIfApproved, BlockingClaimed, Blocking
  <1>5. Follows(c, d)
    BY <1>1, <1>2, <1>3, <1>4 DEF Follows, Sound, IsNonterminal
  <1> QED
    BY <1>5 DEF d

-----------------------------------------------------------------------------
\* The rounds of proof, review and repair.

LEMMA AttemptsType ==
    ASSUME NEW c \in Record, NEW a \in Attempt
    PROVE  AddAttempt(c, a) \in Seq(Attempt)
  BY DEF Record, AddAttempt

LEMMA SubmitProofFollows ==
    ASSUME NEW c, Sound(c), NEW rev \in Revision, NEW s \in Session,
           NEW by \in Session, CanSubmitProof(c, s, by)
    PROVE  Follows(c, WithProof(c, rev, s, by))
  <1> DEFINE a  == [kind |-> "proof", rev |-> rev, session |-> s, by |-> by]
             as == AddAttempt(c, a)
             d  == WithProof(c, rev, s, by)
  <1>1. c \in Record /\ c.state = "IMPLEMENTING"
    BY DEF Sound, CanSubmitProof
  <1>2. as \in Seq(Attempt)
    <2>1. a \in Attempt
      BY DEF Attempt
    <2> QED
      BY <1>1, <2>1, AttemptsType
  <1>3. d = [c EXCEPT !.state = "PREFLIGHT", !.proof = rev, !.attempts = as]
    BY DEF WithProof
  <1> HIDE DEF as
  <1>4. /\ d \in Record /\ d.plans = c.plans /\ d.accepted = c.accepted
        /\ d.state = "PREFLIGHT" /\ d.item = c.item /\ d.reviews = c.reviews
        /\ d.claims = c.claims
    BY <1>1, <1>2, <1>3, StateType DEF Record
  <1> HIDE DEF d
  <1>5. AcceptedPlanNamed(d) /\ PlansKept(c, d)
    BY <1>1, <1>4, SamePlans DEF Sound, AcceptedPlanNamed
  <1>6. ReviewedIfApproved(d) /\ BlockingClaimed(d)
    BY <1>1, <1>4 DEF Sound, ReviewedIfApproved, BlockingClaimed, Blocking
  <1>7. Follows(c, d)
    BY <1>1, <1>4, <1>5, <1>6 DEF Follows, Sound, IsNonterminal
  <1> QED
    BY <1>7 DEF d

LEMMA SubmitReviewFollows ==
    ASSUME NEW c, Sound(c), NEW s \in Session, NEW o \in Outcome,
           CanSubmitReview(c, s)
    PROVE  Follows(c, WithReview(c, s, o))
  <1> DEFINE r  == [session |-> s, verdict |-> o[1], rev |-> CurrentRevision(c),
                    blocking |-> o[2]]
             rs == Append(c.reviews, r)
             d  == WithReview(c, s, o)
  <1>1. c \in Record /\ c.state = "REVIEW" /\ c.reviews \in Seq(Review)
    BY DEF Sound, CanSubmitReview, Record
  <1>2. /\ o[1] \in {"pass", "fail"} /\ o[2] \in BOOLEAN
        /\ o[1] = "pass" => ~o[2]
    <2>1. CASE o = <<"pass", FALSE>>
      BY <2>1, Zenon
    <2>2. CASE o = <<"fail", FALSE>>
      BY <2>2, Zenon
    <2>3. CASE o = <<"fail", TRUE>>
      BY <2>3, Zenon
    <2> QED
      BY <2>1, <2>2, <2>3, Zenon DEF Outcome
  <1>3. CurrentRevision(c) \in Revision
    <2> DEFINE n == Len(c.attempts)
    <2>1. c.attempts \in Seq(Attempt) /\ c.attempts # <<>>
      BY <1>1 DEF Record, CanSubmitReview, CurrentRevision
    <2>2. n \in 1 .. n
      BY <2>1, EmptySeq
    <2>3. c.attempts[n] \in Attempt
      BY <2>1, <2>2, ElementOfSeq
    <2> QED
      BY <2>1, <2>3 DEF CurrentRevision, Attempt
  <1>4. r \in Review
    BY <1>2, <1>3 DEF Review
  <1>5. /\ rs \in Seq(Review) /\ Len(rs) = Len(c.reviews) + 1 /\ rs # <<>>
        /\ rs[Len(rs)] = r
        /\ \A i \in DOMAIN rs : i # Len(rs) => i \in DOMAIN c.reviews /\ rs[i] = c.reviews[i]
    BY <1>1, <1>4
  <1>6. /\ r.session = s /\ r.verdict = o[1] /\ r.rev = CurrentRevision(c)
        /\ r.blocking = o[2]
    OBVIOUS
  <1>7. /\ d.state = IF o[1] = "pass" THEN "APPROVED" ELSE "REPAIR"
        /\ d \in Record /\ d.plans = c.plans /\ d.accepted = c.accepted
        /\ d.item = c.item /\ d.reviews = rs
        /\ d.claims = c.claims /\ d.attempts = c.attempts
    <2>1. d = [c EXCEPT !.state = IF o[1] = "pass" THEN "APPROVED" ELSE "REPAIR",
                        !.reviews = rs]
      BY DEF WithReview
    <2> HIDE DEF rs
    <2> QED
      BY <1>1, <1>5, <2>1, StateType DEF Record
  <1> HIDE DEF d, rs, r
  <1>8. AcceptedPlanNamed(d) /\ PlansKept(c, d)
    <2>1. d.accepted # 0 <=> d.state \notin {"ABSENT", "DRAFT", "PLANNED"}
      BY <1>1, <1>7 DEF Sound, AcceptedPlanNamed
    <2> QED
      BY <1>7, <2>1, SamePlans
  <1>9. ReviewedIfApproved(d)
    <2>1. CurrentRevision(d) = CurrentRevision(c) /\ Implementers(d) = Implementers(c)
      BY <1>7 DEF CurrentRevision, Implementers
    <2>2. s \notin Implementers(c)
      BY DEF CanSubmitReview
    <2> QED
      BY <1>2, <1>5, <1>6, <1>7, <2>1, <2>2 DEF ReviewedIfApproved
  <1>10. BlockingClaimed(d)
    <2> SUFFICES ASSUME d.state # "REPAIR", NEW i \in DOMAIN d.reviews,
                        d.reviews[i].blocking
                 PROVE  i \in d.claims
      BY DEF BlockingClaimed, Blocking
    <2>1. ~r.blocking
      BY <1>2, <1>6, <1>7
    <2>2. i \in DOMAIN c.reviews /\ c.reviews[i].blocking
      BY <1>5, <1>7, <2>1
    <2> QED
      BY <1>1, <1>7, <2>2 DEF Sound, BlockingClaimed, Blocking
  <1>11. Follows(c, d)
    BY <1>1, <1>7, <1>8, <1>9, <1>10 DEF Follows, Sound, IsNonterminal
  <1> QED
    BY <1>11 DEF d

LEMMA SubmitRepairFollows ==
    ASSUME NEW c, Sound(c), NEW rev \in Revision, NEW s \in Session \cup {NoSession},
           NEW by \in Session, CanSubmitRepair(c, rev, s, by)
    PROVE  Follows(c, WithRepair(c, rev, s, by))
  <1> DEFINE a  == [kind |-> "repair", rev |-> rev, session |-> s, by |-> by]
             as == AddAttempt(c, a)
             cl == c.claims \cup Blocking(c)
             d  == WithRepair(c, rev, s, by)
  <1>1. c \in Record /\ c.state = "REPAIR"
    BY DEF Sound, CanSubmitRepair
  <1>2. as \in Seq(Attempt)
    <2>1. a \in Attempt
      BY DEF Attempt
    <2> QED
      BY <1>1, <2>1, AttemptsType
  <1>3. cl \in SUBSET Nat
    BY <1>1 DEF Record, Blocking
  <1>4. d = [c EXCEPT !.state = "PREFLIGHT", !.proof = rev, !.claims = cl,
                      !.attempts = as]
    BY DEF WithRepair
  <1> HIDE DEF as
  <1>5. /\ d \in Record /\ d.plans = c.plans /\ d.accepted = c.accepted
        /\ d.state = "PREFLIGHT" /\ d.item = c.item /\ d.reviews = c.reviews
        /\ d.claims = cl
    BY <1>1, <1>2, <1>3, <1>4, StateType DEF Record
  <1> HIDE DEF d
  <1>6. AcceptedPlanNamed(d) /\ PlansKept(c, d)
    BY <1>1, <1>5, SamePlans DEF Sound, AcceptedPlanNamed
  <1>7. ReviewedIfApproved(d) /\ BlockingClaimed(d)
    BY <1>5 DEF ReviewedIfApproved, BlockingClaimed, Blocking
  <1>8. Follows(c, d)
    BY <1>1, <1>5, <1>6, <1>7 DEF Follows, Sound, IsNonterminal
  <1> QED
    BY <1>8 DEF d

-----------------------------------------------------------------------------
\* From one record to all of them.

LEMMA LifeIsSound ==
    LifeInv <=> /\ change = [x \in Change |-> change[x]]
                /\ \A x \in Change : Sound(change[x])
                /\ OneChangePerItem
  BY DEF LifeInv, Sound, LifecycleTypeOK, ApprovedIsReviewed, OneAcceptedPlan,
         BlockingIsClaimed

LEMMA RecordPut ==
    ASSUME LifeInv, NEW x \in Change, NEW d, Follows(change[x], d), Put(x, d)
    PROVE  LifeInv' /\ \A y \in Change : PlansKept(change[y], change'[y])
  <1>1. change' = [change EXCEPT ![x] = d] /\ change = [y \in Change |-> change[y]]
    BY LifeIsSound DEF Put
  <1>2. change'[x] = d /\ \A y \in Change : y # x => change'[y] = change[y]
    BY <1>1
  <1>3. \A y \in Change : Sound(change'[y])
    BY <1>2, LifeIsSound DEF Follows
  <1>4. OneChangePerItem'
    BY <1>2 DEF LifeInv, OneChangePerItem, Follows, IsNonterminal
  <1>5. \A y \in Change : PlansKept(change[y], change'[y])
    BY <1>2 DEF PlansKept, Follows
  <1>6. change' = [y \in Change |-> change'[y]]
    BY <1>1
  <1>7. LifeInv'
    BY <1>3, <1>4, <1>6
    DEF LifeInv, Sound, LifecycleTypeOK, ApprovedIsReviewed, OneAcceptedPlan,
        BlockingIsClaimed
  <1> QED
    BY <1>5, <1>7

LEMMA CreateInv ==
    ASSUME LifeInv, NEW x \in Change, NEW item \in WorkItem \cup {NoItem},
           Create(x, item)
    PROVE  LifeInv' /\ \A y \in Change : PlansKept(change[y], change'[y])
  <1> DEFINE d == WithNew(change[x], item)
  <1>1. CanCreate(change, x, item) /\ change' = [change EXCEPT ![x] = d]
    BY DEF Create, Put
  <1>2. change = [y \in Change |-> change[y]] /\ Sound(change[x])
    BY LifeIsSound
  <1>3. Sound(d) /\ PlansKept(change[x], d)
    BY <1>1, <1>2, NewSound DEF CanCreate
  <1>4. d.item = item
    BY <1>2 DEF Sound, Record, WithNew
  <1> HIDE DEF d
  <1>5. change'[x] = d /\ \A y \in Change : y # x => change'[y] = change[y]
    BY <1>1, <1>2
  <1>6. \A y \in Change : Sound(change'[y])
    BY <1>3, <1>5, LifeIsSound
  <1>7. \A y \in Change : PlansKept(change[y], change'[y])
    BY <1>3, <1>5 DEF PlansKept
  <1>8. OneChangePerItem'
    <2>1. \A y \in Change : IsNonterminal(change[y]) /\ item # NoItem
                            => change[y].item # item
      BY <1>1, <1>2 DEF CanCreate
    <2> QED
      BY <1>4, <1>5, <2>1 DEF LifeInv, OneChangePerItem, IsNonterminal
  <1>9. change' = [y \in Change |-> change'[y]]
    BY <1>1, <1>2
  <1>10. LifeInv'
    BY <1>6, <1>8, <1>9
    DEF LifeInv, Sound, LifecycleTypeOK, ApprovedIsReviewed, OneAcceptedPlan,
        BlockingIsClaimed
  <1> QED
    BY <1>7, <1>10

\* One step per operation.
LEMMA OperationInv ==
    ASSUME LifeInv, NEW x \in Change, Operation(x)
    PROVE  LifeInv' /\ \A y \in Change : PlansKept(change[y], change'[y])
  <1>0. Sound(change[x])
    BY LifeIsSound
  <1>1. ASSUME NEW d, Follows(change[x], d), Put(x, d)
        PROVE  LifeInv' /\ \A y \in Change : PlansKept(change[y], change'[y])
    BY <1>1, RecordPut
  <1>2. CASE \E item \in WorkItem \cup {NoItem} : Create(x, item)
    BY <1>2, CreateInv
  <1>3. CASE SubmitPlan(x)
    BY <1>0, <1>1, <1>3, SubmitPlanFollows DEF SubmitPlan
  <1>4. CASE AcceptPlan(x)
    BY <1>0, <1>1, <1>4, AcceptPlanFollows DEF AcceptPlan
  <1>5. CASE UpdatePlan(x)
    BY <1>0, <1>1, <1>5, UpdatePlanFollows DEF UpdatePlan
  <1>6. CASE Transition(x)
    BY <1>0, <1>1, <1>6, TransitionFollows DEF Transition
  <1>7. CASE BindRole(x) \/ UnbindRole(x)
    <2>1. "none" \in Binding
      BY DEF Binding
    <2> QED
      BY <1>0, <1>1, <1>7, <2>1, SideFollows DEF BindRole, UnbindRole
  <1>8. CASE SubmitProof(x)
    BY <1>0, <1>1, <1>8, SubmitProofFollows DEF SubmitProof
  <1>9. CASE SubmitReview(x)
    BY <1>0, <1>1, <1>9, SubmitReviewFollows DEF SubmitReview
  <1>10. CASE SubmitRepair(x)
    BY <1>0, <1>1, <1>10, SubmitRepairFollows DEF SubmitRepair
  <1>11. CASE InvalidateProof(x) \/ SetRisk(x) \/ RecordGateSatisfaction(x)
    BY <1>0, <1>1, <1>11, SideFollows
    DEF InvalidateProof, SetRisk, RecordGateSatisfaction
  <1> QED
    BY <1>2, <1>3, <1>4, <1>5, <1>6, <1>7, <1>8, <1>9, <1>10, <1>11 DEF Operation

LEMMA LifeStep ==
    LifeInv /\ [LifecycleNext]_change
    => LifeInv' /\ [\A x \in Change : PlansKept(change[x], change'[x])]_change
  <1> SUFFICES ASSUME LifeInv, [LifecycleNext]_change
               PROVE  LifeInv' /\ [\A x \in Change : PlansKept(change[x], change'[x])]_change
    OBVIOUS
  <1>1. CASE LifecycleNext
    BY <1>1, OperationInv DEF LifecycleNext
  <1>2. CASE UNCHANGED change
    BY <1>2
    DEF LifeInv, LifecycleTypeOK, ApprovedIsReviewed, OneAcceptedPlan,
        BlockingIsClaimed, OneChangePerItem, IsNonterminal
  <1> QED
    BY <1>1, <1>2

LEMMA LifeInit == LifecycleInit => LifeInv
  <1> SUFFICES ASSUME LifecycleInit PROVE LifeInv
    OBVIOUS
  <1>1. \A x \in Change : change[x] = Absent
    BY DEF LifecycleInit
  <1>2. OneChangePerItem
    BY <1>1 DEF OneChangePerItem, IsNonterminal, Absent
  <1> QED
    BY <1>1, <1>2, AbsentSound, LifeIsSound DEF LifecycleInit

-----------------------------------------------------------------------------
\* Whatever was bound, proved, reviewed and repaired in which order: records
\* keep their types, an approved Change has an independent passing review of
\* its current revision, the accepted plan is the latest one, nothing leaves
\* REPAIR with an unclaimed blocking finding, and a work item has at most one
\* Change in progress (an approved one may have a successor beside it).
THEOREM LifecycleIsSafe ==
    LifecycleSpec => [](/\ LifecycleTypeOK /\ ApprovedIsReviewed /\ OneAcceptedPlan
                        /\ BlockingIsClaimed /\ OneChangePerItem)
  <1>1. LifecycleSpec => []LifeInv
    BY LifeInit, LifeStep, PTL DEF LifecycleSpec
  <1> QED
    BY <1>1, PTL DEF LifeInv

\* Records keep their types: the operations of the store write nothing else.
THEOREM ChangesKeepTypes == LifecycleSpec => []LifecycleTypeOK
  BY LifecycleIsSafe, PTL

\* Nothing is past REPAIR with a blocking finding, of whichever round, that no
\* repair has claimed, for any number of rounds (submitRepair).
THEOREM BlockingStaysClaimed == LifecycleSpec => []BlockingIsClaimed
  BY LifecycleIsSafe, PTL

\* No operation, updatePlan included, changes the content of a plan that was
\* accepted, and no plan is lost.
THEOREM AcceptedPlansStay == LifecycleSpec => AcceptedPlanIsImmutable
  <1>1. LifecycleSpec => []LifeInv
    BY LifeInit, LifeStep, PTL DEF LifecycleSpec
  <1>2. LifeInv /\ [LifecycleNext]_change
        => [\A x \in Change : PlansKept(change[x], change'[x])]_change
    BY LifeStep
  <1> QED
    BY <1>1, <1>2, PTL DEF LifecycleSpec, AcceptedPlanIsImmutable

-----------------------------------------------------------------------------
(* The lock of the file.                                                   *)
\* The values of the variables that have to do with the lock.
LockShape ==
    /\ at \in [Host -> [Writer -> Stage]] /\ held \subseteq Host
    /\ lock \in {NoLock, Stale} \cup (Host \X Writer)
    /\ depth \in [Host -> Nat] /\ makers \subseteq Host \X Writer
    /\ breached \in BOOLEAN

\* Until the lock was breached it is its process's whoever is inside, or counts
\* an entry, and will be removed by nobody but the one that made it.
InsideOwns == \A h \in Host, w \in Writer : InSection(h, w) => lock \in {h} \X Writer
CountOwns  == \A h \in Host : depth[h] > 0 => lock \in {h} \X Writer
MakerOwns  == \A m \in makers : lock = m

LockInv == LockShape /\ (~breached => InsideOwns /\ CountOwns /\ MakerOwns)

\* Nobody is inside at the start.
LEMMA LockInit == StoreInit => LockInv
  <1> SUFFICES ASSUME StoreInit PROVE LockInv
    OBVIOUS
  <1>1. LockShape
    BY DEF StoreInit, LockShape, AllIdle, Stage
  <1>2. ASSUME NEW h \in Host, NEW w \in Writer PROVE ~InSection(h, w)
    BY DEF StoreInit, InSection, AllIdle
  <1>3. CountOwns /\ MakerOwns
    BY DEF StoreInit, CountOwns, MakerOwns
  <1> QED BY <1>1, <1>2, <1>3 DEF LockInv, InsideOwns

\* The number of entries of a writer is a number.
LEMMA EntriesNat == \A h, w : Entries(h, w) \in 0 .. 2
  BY DEF Entries

\* Leaving, when the writer was inside or not.
LEMMA LeaveKeeps ==
    ASSUME LockInv, NEW h \in Host, NEW w \in Writer, Leave(h, w)
    PROVE  LockInv'
  <1>1. LockShape'
    BY EntriesNat DEF LockInv, LockShape, Leave, Stage
  <1> SUFFICES ASSUME ~breached' PROVE InsideOwns' /\ CountOwns' /\ MakerOwns'
    BY <1>1 DEF LockInv
  <1>2. InsideOwns /\ CountOwns /\ MakerOwns
    BY DEF LockInv, LockShape, Leave
  <1>3. \A g \in Host, u \in Writer :
            InSection(g, u)' => InSection(g, u) /\ <<g, u>> # <<h, w>>
    BY DEF LockInv, LockShape, Leave, InSection, Writer
  <1>4. CASE <<h, w>> \in makers
    <2>1. lock = <<h, w>> /\ makers' = {}
      BY <1>2, <1>4 DEF MakerOwns, Leave
    <2>2. \A g \in Host, u \in Writer : ~InSection(g, u)'
      <3> SUFFICES ASSUME NEW g \in Host, NEW u \in Writer, InSection(g, u)' PROVE FALSE
        OBVIOUS
      <3>1. g = h /\ u \in Writer \ {w} /\ InSection(h, u)
        BY <1>2, <1>3, <2>1 DEF InsideOwns
      <3> QED BY <3>1, <1>4 DEF Leave
    <2>3. \A g \in Host : ~(depth'[g] > 0)
      BY <1>2, <1>4, <2>1 DEF CountOwns, Leave, LockInv, LockShape
    <2> QED BY <2>1, <2>2, <2>3 DEF InsideOwns, CountOwns, MakerOwns
  <1>5. CASE <<h, w>> \notin makers
    <2>1. lock' = lock /\ makers' = makers
      BY <1>5 DEF Leave
    <2>2. \A g \in Host : depth'[g] > 0 => depth[g] > 0
      BY <1>5, EntriesNat DEF Leave, LockInv, LockShape
    <2> QED BY <1>2, <1>3, <2>1, <2>2 DEF InsideOwns, CountOwns, MakerOwns
  <1> QED BY <1>4, <1>5

\* Entering leaves the lock one's own, and whoever was inside is of the same
\* process.
LEMMA EnterKeeps ==
    ASSUME LockInv, NEW h \in Host, NEW w \in Writer, Enter(h, w), UNCHANGED breached,
           at' \in [Host -> [Writer -> Stage]], held' \subseteq Host,
           \A g \in Host, u \in Writer : g # h => (InSection(g, u)' <=> InSection(g, u))
    PROVE  LockInv'
  <1>1. LockShape'
    <2>1. depth' \in [Host -> Nat]
      BY DEF LockInv, LockShape, Enter
    <2>2. makers' \subseteq Host \X Writer /\ lock' \in {NoLock, Stale} \cup (Host \X Writer)
      BY DEF LockInv, LockShape, Enter
    <2> QED BY <2>1, <2>2 DEF LockInv, LockShape
  <1> SUFFICES ASSUME ~breached PROVE InsideOwns' /\ CountOwns' /\ MakerOwns'
    BY <1>1 DEF LockInv
  <1>2. InsideOwns /\ CountOwns /\ MakerOwns
    BY DEF LockInv
  <1>3. lock' \in {h} \X Writer
    BY <1>2 DEF Enter, CanEnter, CountOwns, LockInv, LockShape
  <1>4. lock = lock' \/ lock = NoLock
    BY DEF Enter, CanEnter, LockInv, LockShape
  <1>5. \A g \in Host : NoLock \notin {g} \X Writer
    BY StoreFileAssumption DEF Writer
  <1>6. \A g \in Host : g # h => (depth'[g] > 0 => depth[g] > 0)
    BY DEF Enter, LockInv, LockShape
  <1>7. MakerOwns'
    <2>1. CASE depth[h] = 0
      <3>1. lock = NoLock
        BY <2>1 DEF Enter, CanEnter
      <3>2. makers = {}
        BY <3>1, <1>2, StoreFileAssumption DEF MakerOwns, LockInv, LockShape, Writer
      <3> QED BY <2>1, <3>2 DEF Enter, MakerOwns
    <2>2. CASE depth[h] # 0
      BY <2>2, <1>2 DEF Enter, MakerOwns
    <2> QED BY <2>1, <2>2
  <1>8. InsideOwns' /\ CountOwns'
    <2>1. ASSUME NEW g \in Host, lock \in {g} \X Writer PROVE lock' \in {g} \X Writer
      BY <2>1, <1>4, <1>5
    <2>2. InsideOwns'
      BY <2>1, <1>2, <1>3 DEF InsideOwns
    <2>3. CountOwns'
      BY <2>1, <1>2, <1>3, <1>6 DEF CountOwns
    <2> QED BY <2>2, <2>3
  <1> QED BY <1>7, <1>8

\* A step that enters nothing and does not touch the lock.
LEMMA OutsideKeeps ==
    ASSUME LockInv, UNCHANGED <<disk, breached>>,
           at' \in [Host -> [Writer -> Stage]], held' \subseteq Host,
           \A g \in Host, u \in Writer : InSection(g, u)' => InSection(g, u)
    PROVE  LockInv'
  BY DEF LockInv, LockShape, InsideOwns, CountOwns, MakerOwns, disk

\* An operation begins, locked or light.
LEMMA BeginKeeps ==
    ASSUME LockInv, NEW h \in Host, NEW v, NEW x, NEW d, NEW locked \in BOOLEAN,
           NEW event, Begin(h, v, x, d, locked, event)
    PROVE  LockInv'
  <1>1. /\ at' = [at EXCEPT ![h]["op"] = IF event = "later" THEN "mutated" ELSE "ready"]
        /\ at[h]["op"] = "idle" /\ UNCHANGED breached
        /\ IF locked THEN Enter(h, "op") ELSE UNCHANGED disk
        /\ held' = IF locked THEN held \cup {h} ELSE held
    BY DEF Begin
  <1>2. at' \in [Host -> [Writer -> Stage]] /\ held' \subseteq Host
    BY <1>1 DEF LockInv, LockShape, Stage, Writer
  <1>3. CASE locked
    <2>1. \A g \in Host, u \in Writer : g # h => (InSection(g, u)' <=> InSection(g, u))
      BY <1>1, <1>3 DEF InSection, LockInv, LockShape, Writer
    <2> QED BY <1>1, <1>2, <1>3, <2>1, EnterKeeps DEF Writer
  <1>4. CASE ~locked
    <2>1. \A g \in Host, u \in Writer : InSection(g, u)' => InSection(g, u)
      BY <1>1, <1>4 DEF InSection, LockInv, LockShape, Writer
    <2> QED BY <1>1, <1>2, <1>4, <2>1, OutsideKeeps
  <1> QED BY <1>3, <1>4

\* Every operation of a host begins.
LEMMA OperateKeeps ==
    ASSUME LockInv, NEW h \in Host, NEW x \in Change, Operate(h, x)
    PROVE  LockInv'
  <1>1. ASSUME NEW y, NEW d, Locked(h, y, d) PROVE LockInv'
    BY <1>1, BeginKeeps DEF Locked, Call
  <1>2. ASSUME NEW y, NEW d, Light(h, y, d) PROVE LockInv'
    BY <1>2, BeginKeeps DEF Light, Call
  <1>3. ASSUME NEW y, NEW d, NEW locked \in BOOLEAN, NEW event,
               Call(h, y, d, locked, event)
        PROVE  LockInv'
    BY <1>3, BeginKeeps DEF Call
  <1>4. CASE HostCreate(h, x)
    BY <1>4, <1>1 DEF HostCreate
  <1>5. CASE HostCreateUnlinked(h, x)
    BY <1>5, BeginKeeps DEF HostCreateUnlinked
  <1>6. CASE HostSubmitPlan(h, x)
    BY <1>6, <1>1 DEF HostSubmitPlan
  <1>7. CASE HostAcceptPlan(h, x)
    BY <1>7, <1>1 DEF HostAcceptPlan
  <1>8. CASE HostUpdatePlan(h, x)
    BY <1>8, <1>3 DEF HostUpdatePlan
  <1>9. CASE HostTransition(h, x)
    BY <1>9, <1>1 DEF HostTransition
  <1>10. CASE HostBindRole(h, x)
    BY <1>10, <1>3 DEF HostBindRole
  <1>11. CASE HostUnbindRole(h, x)
    BY <1>11, <1>1 DEF HostUnbindRole
  <1>12. CASE HostSubmitProof(h, x)
    BY <1>12, <1>2 DEF HostSubmitProof
  <1>13. CASE HostInvalidateProof(h, x)
    BY <1>13, <1>3 DEF HostInvalidateProof
  <1>14. CASE HostSubmitReview(h, x)
    BY <1>14, <1>2 DEF HostSubmitReview
  <1>15. CASE HostSubmitRepair(h, x)
    BY <1>15, <1>2 DEF HostSubmitRepair
  <1>16. CASE HostSetRisk(h, x)
    BY <1>16, <1>2 DEF HostSetRisk
  <1>17. CASE HostRecordGate(h, x)
    BY <1>17, <1>2 DEF HostRecordGate
  <1>18. CASE HostAppendAudit(h, x)
    BY <1>18, BeginKeeps DEF HostAppendAudit
  <1> QED
    BY <1>4, <1>5, <1>6, <1>7, <1>8, <1>9, <1>10, <1>11, <1>12, <1>13, <1>14,
       <1>15, <1>16, <1>17, <1>18 DEF Operate

\* The lock is kept by every step of every process.
LEMMA LockStep == LockInv /\ [StoreNext]_vars => LockInv'
  <1> SUFFICES ASSUME LockInv, [StoreNext]_vars PROVE LockInv'
    OBVIOUS
  <1>1. CASE UNCHANGED vars
    BY <1>1, OutsideKeeps DEF vars, ghosts, LockInv, LockShape, InSection
  <1>2. ASSUME NEW h \in Host, NEW x \in Change, Operate(h, x) PROVE LockInv'
    BY <1>2, OperateKeeps
  <1>3. ASSUME NEW h \in Host, HostRead(h) PROVE LockInv'
    BY <1>3, OutsideKeeps DEF HostRead, LockInv, LockShape, InSection
  <1>4. ASSUME NEW h \in Host, HostPreflight(h) PROVE LockInv'
    <2>1. at' \in [Host -> [Writer -> Stage]]
      BY <1>4 DEF HostPreflight, LockInv, LockShape, Stage
    <2>2. \A g \in Host, u \in Writer : InSection(g, u)' => InSection(g, u)
      BY <1>4 DEF HostPreflight, LockInv, LockShape, InSection, Writer
    <2>3. UNCHANGED <<disk, held, breached>>
      BY <1>4 DEF HostPreflight, ghosts
    <2> QED BY <2>1, <2>2, <2>3, OutsideKeeps DEF LockInv, LockShape
  <1>5. ASSUME NEW h \in Host, PushEvent(h) PROVE LockInv'
    <2>1. at' \in [Host -> [Writer -> Stage]]
      BY <1>5 DEF PushEvent, LockInv, LockShape, Stage, Writer
    <2>2. \A g \in Host, u \in Writer : InSection(g, u)' => InSection(g, u)
      BY <1>5 DEF PushEvent, LockInv, LockShape, InSection, Writer
    <2>3. UNCHANGED <<disk, held, breached>>
      BY <1>5 DEF PushEvent, ghosts
    <2> QED BY <2>1, <2>2, <2>3, OutsideKeeps DEF LockInv, LockShape
  <1>6. ASSUME NEW h \in Host, NEW w \in Writer, Merge(h, w) PROVE LockInv'
    <2>1. at' \in [Host -> [Writer -> Stage]]
      BY <1>6 DEF Merge, LockInv, LockShape, Stage
    <2>2. \A g \in Host, u \in Writer : g # h => (InSection(g, u)' <=> InSection(g, u))
      BY <1>6 DEF Merge, LockInv, LockShape, InSection
    <2>3. Enter(h, w) /\ UNCHANGED <<held, breached>>
      BY <1>6 DEF Merge
    <2> QED BY <2>1, <2>2, <2>3, EnterKeeps DEF LockInv, LockShape
  <1>7. ASSUME NEW h \in Host, NEW w \in Writer, Write(h, w) PROVE LockInv'
    BY <1>7, LeaveKeeps DEF Write
  <1>8. ASSUME NEW h \in Host, NEW w \in Writer, PersistFails(h, w) PROVE LockInv'
    BY <1>8, LeaveKeeps DEF PersistFails
  <1>9. ASSUME NEW h \in Host, Crash(h) PROVE LockInv'
    <2>1. LockShape'
      BY <1>9 DEF Crash, LockInv, LockShape, Stage, AllIdle
    <2>2. \A g \in Host, u \in Writer : InSection(g, u)' => g # h /\ InSection(g, u)
      BY <1>9 DEF Crash, LockInv, LockShape, InSection, AllIdle
    <2>3. \A g \in Host : depth'[g] > 0 => g # h /\ depth[g] > 0
      BY <1>9 DEF Crash, LockInv, LockShape
    <2>4. \A g \in Host : g # h /\ lock \in {g} \X Writer => lock' \in {g} \X Writer
      BY <1>9 DEF Crash
    <2>5. ASSUME MakerOwns PROVE MakerOwns'
      <3> SUFFICES ASSUME NEW m \in makers' PROVE lock' = m
        BY DEF MakerOwns
      <3>1. m \in makers /\ m \notin {h} \X Writer
        BY <1>9 DEF Crash
      <3> QED BY <3>1, <2>5, <1>9 DEF Crash, MakerOwns
    <2>6. UNCHANGED breached
      BY <1>9 DEF Crash
    <2> QED BY <2>1, <2>2, <2>3, <2>4, <2>5, <2>6 DEF LockInv, InsideOwns, CountOwns
  <1>10. ASSUME NEW h \in Host, Judge(h) PROVE LockInv'
    BY <1>10, OutsideKeeps DEF Judge, ghosts, LockInv, LockShape, InSection
  <1>11. ASSUME NEW h \in Host, Reap(h) PROVE LockInv'
    <2>1. LockShape'
      BY <1>11 DEF Reap, LockInv, LockShape
    <2> SUFFICES ASSUME ~breached' PROVE InsideOwns' /\ CountOwns' /\ MakerOwns'
      BY <2>1 DEF LockInv
    <2>2. lock \in {NoLock, Stale} /\ InsideOwns /\ CountOwns /\ MakerOwns
      BY <1>11 DEF Reap, LockInv, LockShape
    <2>3. \A g \in Host : lock \notin {g} \X Writer
      BY <2>2, StoreFileAssumption DEF Writer
    <2>4. makers = {}
      BY <2>2, StoreFileAssumption DEF MakerOwns, LockInv, LockShape, Writer
    <2>5. UNCHANGED <<at, held, depth, makers>>
      BY <1>11 DEF Reap
    <2> QED BY <2>2, <2>3, <2>4, <2>5 DEF InsideOwns, CountOwns, MakerOwns, InSection
  <1> QED
    BY <1>1, <1>2, <1>3, <1>4, <1>5, <1>6, <1>7, <1>8, <1>9, <1>10, <1>11 DEF StoreNext

\* While the lock was never breached two processes are not inside it together,
\* however many there are, whatever crashes and whichever persist fails.
THEOREM ProcessesExclude == StoreSpec => []LockExcludes
  <1>1. LockInv => LockExcludes
    <2> SUFFICES ASSUME LockInv, ~breached, NEW g \in Host, NEW h \in Host,
                        NEW u \in Writer, NEW w \in Writer,
                        InSection(g, u), InSection(h, w)
                 PROVE  g = h
      BY DEF LockExcludes
    <2>1. lock \in {g} \X Writer /\ lock \in {h} \X Writer
      BY DEF LockInv, InsideOwns
    <2> QED BY <2>1
  <1> QED BY LockInit, LockStep, <1>1, PTL DEF StoreSpec

-----------------------------------------------------------------------------
(* The merge of attempts.                                                  *)

\* A nonempty set of numbers has a least element: this is how induction enters,
\* by a least counterexample.
LEMMA LeastElement ==
    ASSUME NEW T, T \subseteq Nat, T # {}
    PROVE  \E x \in T : \A y \in T : x <= y
  <1>1. PICK x \in T : \A y \in T : ~(<<y, x>> \in OpToRel(<, Nat))
    BY WFMin, NatLessThanWellFounded, Zenon
  <1>2. \A y \in T : ~(y < x)
    BY <1>1 DEF OpToRel
  <1> QED BY <1>2

\* Each rank among the places is some place's.
LEMMA PlaceOfRank ==
    ASSUME NEW len \in Nat, NEW places \in SUBSET (1 .. len), NEW n \in 1 .. Cardinality(places)
    PROVE  \E k \in places : Cardinality({i \in places : i <= k}) = n
  <1> DEFINE upto == [k \in 0 .. len |-> {i \in places : i <= k}]
  <1>1. IsFiniteSet(places) /\ Cardinality(places) \in Nat
    <2>1. IsFiniteSet(1 .. len)
      BY FS_Interval
    <2>2. IsFiniteSet(places)
      BY <2>1, FS_Subset
    <2> QED BY <2>2, FS_CardinalityType
  <1>2. /\ upto[0] = {} /\ upto[len] = places
        /\ \A k \in 0 .. len : upto[k] \subseteq places
        /\ \A k \in 1 .. len : /\ k \in places => upto[k] = upto[k - 1] \cup {k}
                               /\ k \notin upto[k - 1]
                               /\ k \notin places => upto[k] = upto[k - 1]
    <2>1. \A k \in 0 .. len : upto[k] = {i \in places : i <= k}
      OBVIOUS
    <2> HIDE DEF upto
    <2>2. \A i \in places : i \in Int /\ i >= 1 /\ i <= len
      OBVIOUS
    <2>3. upto[0] = {}
      <3>1. upto[0] = {i \in places : i <= 0}
        BY <2>1
      <3>2. \A i \in places : ~(i <= 0)
        BY <2>2
      <3> QED BY <3>1, <3>2
    <2>4. upto[len] = places
      <3>1. upto[len] = {i \in places : i <= len}
        BY <2>1
      <3> QED BY <2>2, <3>1
    <2>5. ASSUME NEW k \in 1 .. len
          PROVE  /\ k \in places => upto[k] = upto[k - 1] \cup {k}
                 /\ k \notin upto[k - 1]
                 /\ k \notin places => upto[k] = upto[k - 1]
      <3> k \in 0 .. len /\ k - 1 \in 0 .. len
        OBVIOUS
      <3>4. upto[k] = {i \in places : i <= k}
        BY <2>1
      <3>5. upto[k - 1] = {i \in places : i <= k - 1}
        BY <2>1
      <3>1. upto[k] = {i \in places : i <= k} /\ upto[k - 1] = {i \in places : i <= k - 1}
        BY <3>4, <3>5
      <3>2. ASSUME NEW i \in places PROVE i <= k <=> i <= k - 1 \/ i = k
        BY <2>2
      <3>3. ~(k <= k - 1)
        OBVIOUS
      <3> QED BY <3>1, <3>2, <3>3
    <2> QED BY <2>1, <2>3, <2>4, <2>5
  <1> DEFINE rank == [k \in 0 .. len |-> Cardinality(upto[k])]
  <1>3. \A k \in places : k \in 0 .. len /\ rank[k] = Cardinality({i \in places : i <= k})
    OBVIOUS
  <1> HIDE DEF upto
  <1>4. \A k \in 0 .. len : IsFiniteSet(upto[k]) /\ rank[k] = Cardinality(upto[k]) /\ rank[k] \in Nat
    <2> TAKE k \in 0 .. len
    <2>1. IsFiniteSet(upto[k])
      BY <1>1, <1>2, FS_Subset
    <2>2. rank[k] = Cardinality(upto[k])
      OBVIOUS
    <2> QED BY <2>1, <2>2, FS_CardinalityType
  <1>5. rank[0] = 0 /\ rank[len] = Cardinality(places)
    <2>1. rank[0] = Cardinality({})
      BY <1>2, <1>4
    <2>2. rank[len] = Cardinality(places)
      BY <1>2, <1>4
    <2> QED BY <2>1, <2>2, FS_EmptySet
  <1>6. ASSUME NEW k \in 1 .. len
        PROVE  /\ k \in places => rank[k] = rank[k - 1] + 1
               /\ k \notin places => rank[k] = rank[k - 1]
    <2>1. /\ rank[k] = Cardinality(upto[k]) /\ rank[k - 1] = Cardinality(upto[k - 1])
          /\ IsFiniteSet(upto[k - 1])
      BY <1>4
    <2>2. CASE k \in places
      <3>1. upto[k] = upto[k - 1] \cup {k} /\ k \notin upto[k - 1]
        BY <1>2, <2>2
      <3>2. Cardinality(upto[k - 1] \cup {k}) = Cardinality(upto[k - 1]) + 1
        BY <2>1, <3>1, FS_AddElement
      <3> QED BY <2>1, <2>2, <3>1, <3>2
    <2>3. CASE k \notin places
      BY <1>2, <2>1, <2>3
    <2> QED BY <2>2, <2>3
  <1> HIDE DEF rank
  <1> DEFINE high == {k \in 0 .. len : rank[k] >= n}
  <1>7. high \subseteq Nat /\ high # {}
    <2>1. len \in high
      BY <1>1, <1>5
    <2> QED BY <2>1
  <1>8. PICK k \in high : \A j \in high : k <= j
    BY <1>7, LeastElement
  <1>9. k \in 1 .. len
    BY <1>5, <1>8
  <1>10. k - 1 \notin high /\ rank[k - 1] < n /\ rank[k] >= n
    BY <1>4, <1>8, <1>9
  <1>11. k \in places /\ rank[k] = n
    BY <1>1, <1>4, <1>6, <1>9, <1>10
  <1> QED BY <1>3, <1>11

\* The picked elements of a sequence are a sequence of as many.
LEMMA InOrderType ==
    ASSUME NEW S, NEW s \in Seq(S), NEW places \in SUBSET DOMAIN s
    PROVE  InOrder(s, places) \in Seq(S) /\ Len(InOrder(s, places)) = Cardinality(places)
  <1>1. Len(s) \in Nat /\ DOMAIN s = 1 .. Len(s) /\ s \in [1 .. Len(s) -> S]
    BY LenProperties
  <1>2. Cardinality(places) \in Nat
    <2>1. IsFiniteSet(1 .. Len(s))
      BY <1>1, FS_Interval
    <2>2. IsFiniteSet(places)
      BY <1>1, <2>1, FS_Subset
    <2> QED BY <2>2, FS_CardinalityType
  <1>3. ASSUME NEW n \in 1 .. Cardinality(places)
        PROVE  s[CHOOSE k \in places : Cardinality({i \in places : i <= k}) = n] \in S
    <2>1. \E k \in places : Cardinality({i \in places : i <= k}) = n
      BY <1>1, PlaceOfRank
    <2>2. (CHOOSE k \in places : Cardinality({i \in places : i <= k}) = n) \in places
      BY <2>1
    <2> QED BY <1>1, <2>2
  <1>4. InOrder(s, places) \in [1 .. Cardinality(places) -> S]
    BY <1>3 DEF InOrder
  <1> QED BY <1>2, <1>4

\* Without new places nothing, with one the attempt at it.
LEMMA InOrderOfFew ==
    ASSUME NEW S, NEW s \in Seq(S)
    PROVE  /\ InOrder(s, {}) = <<>>
           /\ \A k \in DOMAIN s : InOrder(s, {k}) = <<s[k]>>
  <1>1. InOrder(s, {}) = <<>>
    BY InOrderType, EmptySeq, FS_EmptySet
  <1>2. ASSUME NEW k \in DOMAIN s PROVE InOrder(s, {k}) = <<s[k]>>
    <2>1. k \in Nat
      BY LenProperties
    <2>2. Cardinality({k}) = 1
      BY FS_Singleton
    <2>3. {i \in {k} : i <= k} = {k}
      BY <2>1
    <2>4. (CHOOSE j \in {k} : Cardinality({i \in {k} : i <= j}) = 1) = k
      BY <2>2, <2>3
    <2>5. InOrder(s, {k}) = [n \in 1 .. 1 |-> s[CHOOSE j \in {k} : Cardinality({i \in {k} : i <= j}) = n]]
      BY <2>2 DEF InOrder
    <2>6. InOrder(s, {k})[1] = s[k] /\ Len(InOrder(s, {k})) = 1 /\ InOrder(s, {k}) \in Seq(S)
      <3>1. InOrder(s, {k}) \in Seq(S) /\ Len(InOrder(s, {k})) = Cardinality({k})
        BY InOrderType
      <3>2. InOrder(s, {k})[1] = s[CHOOSE j \in {k} : Cardinality({i \in {k} : i <= j}) = 1]
        BY <2>5
      <3> QED BY <2>2, <2>4, <3>1, <3>2
    <2>7. <<s[k]>> \in Seq(S) /\ Len(<<s[k]>>) = 1 /\ <<s[k]>>[1] = s[k]
      BY <2>6, ElementOfSeq, LenProperties
    <2> QED BY <2>6, <2>7, SeqEqual
  <1> QED BY <1>1, <1>2

\* What the merge makes of the attempts on file and in memory.
LEMMA MergedAttemptsKeep ==
    ASSUME NEW d, NEW m, d.attempts \in Seq(Attempt), m.attempts \in Seq(Attempt)
    PROVE  /\ MergedAttempts(d, m) \in Seq(Attempt)
           /\ Len(d.attempts) <= Len(MergedAttempts(d, m))
           /\ SubSeq(MergedAttempts(d, m), 1, Len(d.attempts)) = d.attempts
  <1> DEFINE new == InOrder(m.attempts, NewPlaces(d, m))
  <1>1. new \in Seq(Attempt)
    BY InOrderType DEF NewPlaces
  <1>2. MergedAttempts(d, m) = d.attempts \o new
    BY DEF MergedAttempts
  <1> HIDE DEF new
  <1> QED BY <1>1, <1>2, ConcatProperties, SubSeqOfConcat1, LenProperties

\* A memory with the attempts on file adds none.
LEMMA MergedAttemptsSame ==
    ASSUME NEW d, NEW m, d.attempts \in Seq(Attempt), m.attempts = d.attempts
    PROVE  MergedAttempts(d, m) = d.attempts
  <1>1. NewPlaces(d, m) = {}
    BY DEF NewPlaces
  <1>2. InOrder(m.attempts, {}) = <<>>
    BY InOrderOfFew
  <1>3. MergedAttempts(d, m) = d.attempts \o <<>>
    BY <1>1, <1>2 DEF MergedAttempts
  <1> QED BY <1>3, ConcatEmptySeq

\* An attempt whose id is not on record.
NewKey(c, a) == \A i \in DOMAIN c.attempts :
                   c.attempts[i].kind # a.kind \/ c.attempts[i].rev # a.rev

\* A memory with one attempt more, whose id is new, adds that one.
LEMMA MergedAttemptsOneMore ==
    ASSUME NEW d, NEW m, d.attempts \in Seq(Attempt), m.attempts \in Seq(Attempt),
           NEW a \in Attempt, m.attempts = Append(d.attempts, a),
           NewKey(d, a)
    PROVE  MergedAttempts(d, m) = Append(d.attempts, a)
  <1> DEFINE l == Len(d.attempts)
  <1>1. /\ l \in Nat /\ DOMAIN d.attempts = 1 .. l /\ DOMAIN m.attempts = 1 .. l + 1
        /\ m.attempts[l + 1] = a /\ \A i \in 1 .. l : m.attempts[i] = d.attempts[i]
    BY LenProperties, AppendProperties
  <1> HIDE DEF l
  <1>2. NewPlaces(d, m) = {l + 1}
    <2>1. \A k \in 1 .. l : k \notin NewPlaces(d, m)
      BY <1>1 DEF NewPlaces
    <2>2. l + 1 \in NewPlaces(d, m)
      BY <1>1 DEF NewPlaces, NewKey
    <2>3. NewPlaces(d, m) \subseteq 1 .. l + 1
      BY <1>1 DEF NewPlaces
    <2> QED BY <1>1, <2>1, <2>2, <2>3
  <1>3. InOrder(m.attempts, {l + 1}) = <<a>>
    <2>1. l + 1 \in DOMAIN m.attempts
      BY <1>1
    <2>2. InOrder(m.attempts, {l + 1}) = <<m.attempts[l + 1]>>
      BY <2>1, InOrderOfFew
    <2> QED BY <1>1, <2>2
  <1> QED BY <1>2, <1>3, AppendIsConcat DEF MergedAttempts

\* A memory with at most one new attempt gives the attempts it has.
LEMMA MergedAttemptsAre ==
    ASSUME NEW d, NEW m, d.attempts \in Seq(Attempt), m.attempts \in Seq(Attempt),
           \/ m.attempts = d.attempts
           \/ \E a \in Attempt : NewKey(d, a) /\ m.attempts = Append(d.attempts, a)
    PROVE  MergedAttempts(d, m) = m.attempts
  <1>1. CASE m.attempts = d.attempts
    BY <1>1, MergedAttemptsSame
  <1>2. CASE \E a \in Attempt : NewKey(d, a) /\ m.attempts = Append(d.attempts, a)
    <2>1. PICK a \in Attempt : NewKey(d, a) /\ m.attempts = Append(d.attempts, a)
      BY <1>2
    <2>2. MergedAttempts(d, m) = Append(d.attempts, a)
      BY <2>1, MergedAttemptsOneMore, Zenon
    <2> QED BY <2>1, <2>2
  <1> QED BY <1>1, <1>2

-----------------------------------------------------------------------------
(* What an operation does to a record.                                     *)

\* What an operation, or an audit event alone, may leave of Change x, given all
\* Changes as it reads them.
MayLeave(ch, x, d) ==
    LET c == ch[x]
    IN  \/ \E item \in WorkItem \cup {NoItem} : CanCreate(ch, x, item) /\ d = WithNew(c, item)
        \/ \E k \in Content : CanSubmitPlan(c) /\ d = WithPlan(c, k)
        \/ CanAcceptPlan(c) /\ d = WithAcceptedPlan(c)
        \/ \E i \in 1 .. PlanBound, k \in Content :
              CanUpdatePlan(c, i) /\ d = WithUpdatedPlan(c, i, k)
        \/ \E to \in State : CanTransition(c, to) /\ d = WithState(c, to)
        \/ \E s \in Session, b \in Binding \ {"none"} :
              CanBind(c, s) /\ d = WithBinding(c, s, b)
        \/ \E s \in Session : CanUnbind(c, s) /\ d = WithBinding(c, s, "none")
        \/ \E rev \in Revision, s, by \in Session :
              CanSubmitProof(c, s, by) /\ d = WithProof(c, rev, s, by)
        \/ CanInvalidateProof(c) /\ d = WithoutProof(c)
        \/ \E s \in Session, o \in Outcome : CanSubmitReview(c, s) /\ d = WithReview(c, s, o)
        \/ \E rev \in Revision, s \in Session \cup {NoSession}, by \in Session :
              CanSubmitRepair(c, rev, s, by) /\ d = WithRepair(c, rev, s, by)
        \/ \E level \in Risk : CanSetRisk(c, level) /\ d = WithRisk(c, level)
        \/ CanRecordGate(c) /\ d = WithGate(c)
        \/ c.state # "ABSENT" /\ d = c

\* What the merge relies on in the step from c to d.
Effect(c, d) ==
    /\ d \in Record
    /\ d.state = "ABSENT" => /\ c.state = "ABSENT" /\ d.item = c.item
                            /\ d.accepted = c.accepted /\ d.risk = c.risk
    /\ DOMAIN c.plans \subseteq DOMAIN d.plans
    /\ \/ d.attempts = c.attempts
       \/ \E a \in Attempt : NewKey(c, a) /\ d.attempts = Append(c.attempts, a)
    /\ d.proof = NoRevision => c.proof = NoRevision
    /\ d.reviews = <<>> => c.reviews = <<>>
    /\ d.claims # c.claims => c.state = "REPAIR" /\ d.state = "PREFLIGHT"
    /\ d.gates = {} => c.gates = {}
    /\ d.risk # c.risk => d.gates = c.gates

\* The fields that only an audit event makes the merge take from memory.
SameScalars(c, d) ==
    /\ d.state = c.state /\ d.item = c.item /\ d.accepted = c.accepted
    /\ d.plans = c.plans /\ d.risk = c.risk

\* The operations on plans.
LEMMA PlanEffects ==
    ASSUME NEW c \in Record, NEW d,
           \/ \E k \in Content : CanSubmitPlan(c) /\ d = WithPlan(c, k)
           \/ CanAcceptPlan(c) /\ d = WithAcceptedPlan(c)
           \/ \E i \in 1 .. PlanBound, k \in Content :
                 CanUpdatePlan(c, i) /\ d = WithUpdatedPlan(c, i, k)
    PROVE  Effect(c, d)
  <1>1. /\ c.plans \in Seq(Plan) /\ Len(c.plans) \in Nat /\ DOMAIN c.plans = 1 .. Len(c.plans)
        /\ c.plans \in [1 .. Len(c.plans) -> Plan]
    BY LenProperties DEF Record
  <1>2. ASSUME NEW ps \in Seq(Plan), DOMAIN c.plans \subseteq DOMAIN ps, NEW s \in State \ {"ABSENT"},
               NEW n \in Nat, d = [c EXCEPT !.state = s, !.accepted = n, !.plans = ps]
        PROVE  Effect(c, d)
    BY <1>2 DEF Effect, Record
  <1>3. ASSUME NEW k \in Content, CanSubmitPlan(c), d = WithPlan(c, k) PROVE Effect(c, d)
    <2> DEFINE kept == [i \in DOMAIN c.plans |->
                          IF c.state = "READY" /\ c.plans[i].status = "ACCEPTED"
                            THEN [c.plans[i] EXCEPT !.status = "SUPERSEDED"]
                            ELSE c.plans[i]]
               ps   == Append(kept, [status |-> "PLANNED", content |-> k])
    <2>1. kept \in Seq(Plan) /\ Len(kept) = Len(c.plans)
      <3>1. \A i \in DOMAIN c.plans : kept[i] \in Plan
        BY <1>1 DEF Plan
      <3>2. kept \in [1 .. Len(c.plans) -> Plan]
        BY <1>1, <3>1
      <3> QED BY <1>1, <3>2
    <2>2. d = [c EXCEPT !.state = "PLANNED", !.accepted = 0, !.plans = ps]
      BY <1>3 DEF WithPlan
    <2> HIDE DEF kept
    <2>3. [status |-> "PLANNED", content |-> k] \in Plan
      BY DEF Plan
    <2>4. ps \in Seq(Plan) /\ DOMAIN c.plans \subseteq DOMAIN ps
      BY <1>1, <2>1, <2>3, AppendProperties, LenProperties
    <2> HIDE DEF ps
    <2> QED BY <1>2, <2>2, <2>4, StateType
  <1>4. ASSUME CanAcceptPlan(c), d = WithAcceptedPlan(c) PROVE Effect(c, d)
    <2> DEFINE ps == [c.plans EXCEPT ![Len(c.plans)].status = "ACCEPTED"]
    <2>1. d = [c EXCEPT !.state = "READY", !.accepted = Len(c.plans), !.plans = ps]
      BY <1>4 DEF WithAcceptedPlan, Record
    <2>2. Len(c.plans) \in DOMAIN c.plans
      BY <1>1, <1>4, EmptySeq DEF CanAcceptPlan
    <2>3. ps \in [1 .. Len(c.plans) -> Plan]
      BY <1>1, <2>2 DEF Plan
    <2>4. ps \in Seq(Plan) /\ DOMAIN ps = DOMAIN c.plans
      BY <1>1, <2>3
    <2> HIDE DEF ps
    <2> QED BY <1>1, <1>2, <2>1, <2>4, StateType
  <1>5. ASSUME NEW i \in 1 .. PlanBound, NEW k \in Content, CanUpdatePlan(c, i),
               d = WithUpdatedPlan(c, i, k)
        PROVE  Effect(c, d)
    <2> DEFINE ps == [c.plans EXCEPT ![i].content = k]
    <2>1. d = [c EXCEPT !.plans = ps]
      BY <1>5 DEF WithUpdatedPlan, Record
    <2>2. ps \in [1 .. Len(c.plans) -> Plan]
      BY <1>1, <1>5 DEF Plan, CanUpdatePlan
    <2>3. ps \in Seq(Plan) /\ DOMAIN ps = DOMAIN c.plans
      BY <1>1, <2>2
    <2> HIDE DEF ps
    <2> QED BY <2>1, <2>3 DEF Effect, Record
  <1> QED BY <1>3, <1>4, <1>5

\* An attempt is appended unless its id is on record.
LEMMA AttemptEffect ==
    ASSUME NEW c \in Record, NEW a \in Attempt
    PROVE  /\ AddAttempt(c, a) \in Seq(Attempt)
           /\ \/ AddAttempt(c, a) = c.attempts
              \/ (NewKey(c, a) /\ AddAttempt(c, a) = Append(c.attempts, a))
  BY DEF Record, AddAttempt, NewKey

\* The operations of the rounds: proof, review and repair.
LEMMA RoundEffects ==
    ASSUME NEW c \in Record, NEW d,
           \/ \E rev \in Revision, s, by \in Session :
                 CanSubmitProof(c, s, by) /\ d = WithProof(c, rev, s, by)
           \/ \E s \in Session, o \in Outcome : CanSubmitReview(c, s) /\ d = WithReview(c, s, o)
           \/ \E rev \in Revision, s \in Session \cup {NoSession}, by \in Session :
                 CanSubmitRepair(c, rev, s, by) /\ d = WithRepair(c, rev, s, by)
    PROVE  Effect(c, d)
  <1>1. c.attempts \in Seq(Attempt) /\ c.reviews \in Seq(Review) /\ c.claims \subseteq Nat
    BY DEF Record
  <1>2. ASSUME NEW a \in Attempt, NEW rev \in Revision, NEW claims \in SUBSET Nat,
               claims # c.claims => c.state = "REPAIR",
               d = [c EXCEPT !.state = "PREFLIGHT", !.proof = rev, !.claims = claims,
                             !.attempts = AddAttempt(c, a)]
        PROVE  Effect(c, d)
    <2> DEFINE as == AddAttempt(c, a)
    <2>1. as \in Seq(Attempt) /\ (as = c.attempts \/ (NewKey(c, a) /\ as = Append(c.attempts, a)))
      BY AttemptEffect
    <2>2. d = [c EXCEPT !.state = "PREFLIGHT", !.proof = rev, !.claims = claims, !.attempts = as]
      BY <1>2
    <2> HIDE DEF as
    <2>3. d \in Record /\ d.state = "PREFLIGHT" /\ d.proof = rev /\ d.claims = claims
          /\ d.attempts = as /\ d.plans = c.plans /\ d.reviews = c.reviews
          /\ d.gates = c.gates
      BY <2>1, <2>2, StateType DEF Record
    <2>4. rev # NoRevision
      BY LifecycleAssumption
    <2>5. \/ d.attempts = c.attempts
          \/ \E b \in Attempt : NewKey(c, b) /\ d.attempts = Append(c.attempts, b)
      BY <2>1, <2>3
    <2> QED BY <1>2, <2>3, <2>4, <2>5 DEF Effect
  <1>3. ASSUME NEW rev \in Revision, NEW s \in Session, NEW by \in Session,
               d = WithProof(c, rev, s, by)
        PROVE  Effect(c, d)
    <2> DEFINE a == [kind |-> "proof", rev |-> rev, session |-> s, by |-> by]
    <2>1. a \in Attempt
      BY DEF Attempt
    <2>2. d = [c EXCEPT !.state = "PREFLIGHT", !.proof = rev, !.claims = c.claims,
                        !.attempts = AddAttempt(c, a)]
      BY <1>3 DEF WithProof, Record
    <2> HIDE DEF a
    <2> QED BY <1>1, <1>2, <2>1, <2>2
  <1>4. ASSUME NEW rev \in Revision, NEW s \in Session \cup {NoSession}, NEW by \in Session,
               CanSubmitRepair(c, rev, s, by), d = WithRepair(c, rev, s, by)
        PROVE  Effect(c, d)
    <2> DEFINE a  == [kind |-> "repair", rev |-> rev, session |-> s, by |-> by]
               cl == c.claims \cup Blocking(c)
    <2>1. a \in Attempt
      BY DEF Attempt
    <2>2. d = [c EXCEPT !.state = "PREFLIGHT", !.proof = rev, !.claims = cl,
                        !.attempts = AddAttempt(c, a)]
      BY <1>4 DEF WithRepair, Record
    <2>3. cl \in SUBSET Nat
      BY <1>1, LenProperties DEF Blocking
    <2>4. c.state = "REPAIR"
      BY <1>4 DEF CanSubmitRepair
    <2> HIDE DEF a, cl
    <2> QED BY <1>2, <2>1, <2>2, <2>3, <2>4
  <1>5. ASSUME NEW s \in Session, NEW o \in Outcome, CanSubmitReview(c, s), d = WithReview(c, s, o)
        PROVE  Effect(c, d)
    <2> DEFINE r  == [session |-> s, verdict |-> o[1], rev |-> CurrentRevision(c),
                      blocking |-> o[2]]
               rs == Append(c.reviews, r)
               to == IF o[1] = "pass" THEN "APPROVED" ELSE "REPAIR"
    <2>1. CurrentRevision(c) \in Revision
      <3>1. c.attempts # <<>>
        BY <1>5 DEF CanSubmitReview, CurrentRevision
      <3>2. Len(c.attempts) \in 1 .. Len(c.attempts)
        BY <1>1, <3>1, EmptySeq
      <3>3. c.attempts[Len(c.attempts)] \in Attempt
        BY <1>1, <3>2, ElementOfSeq
      <3> QED BY <3>1, <3>3 DEF CurrentRevision, Attempt
    <2>2. r \in Review
      <3>1. o[1] \in {"pass", "fail"} /\ o[2] \in BOOLEAN
        <4>1. CASE o = <<"pass", FALSE>>
          BY <4>1
        <4>2. CASE o = <<"fail", FALSE>>
          BY <4>2
        <4>3. CASE o = <<"fail", TRUE>>
          BY <4>3
        <4> QED BY <4>1, <4>2, <4>3 DEF Outcome
      <3> QED BY <2>1, <3>1 DEF Review
    <2>3. d = [c EXCEPT !.state = to, !.reviews = rs]
      BY <1>5 DEF WithReview, Record
    <2>4. to \in State /\ to # "ABSENT"
      BY StateType
    <2> HIDE DEF r
    <2>5. rs \in Seq(Review) /\ rs # <<>>
      BY <1>1, <2>2, AppendProperties
    <2> HIDE DEF rs, to
    <2> QED BY <2>3, <2>4, <2>5 DEF Effect, Record
  <1> QED BY <1>3, <1>4, <1>5

\* Every operation does to a record no more than the merge relies on.
LEMMA Effects ==
    ASSUME NEW ch \in [Change -> Record], NEW x \in Change, NEW d, MayLeave(ch, x, d)
    PROVE  Effect(ch[x], d)
  <1> DEFINE c == ch[x]
  <1>0. c \in Record
    OBVIOUS
  <1> HIDE DEF c
  <1>1. ASSUME NEW item \in WorkItem \cup {NoItem}, d = WithNew(c, item) PROVE Effect(c, d)
    BY <1>0, <1>1, StateType DEF WithNew, Effect, Record
  <1>2. ASSUME NEW to \in State, CanTransition(c, to), d = WithState(c, to) PROVE Effect(c, d)
    <2>1. to # "ABSENT"
      BY <1>2 DEF CanTransition, AskedTransition
    <2> QED BY <1>0, <1>2, <2>1 DEF WithState, Effect, Record
  <1>3. ASSUME NEW s \in Session, NEW b \in Binding, d = WithBinding(c, s, b) PROVE Effect(c, d)
    BY <1>0, <1>3 DEF WithBinding, Effect, Record
  <1>4. ASSUME d = WithoutProof(c) PROVE Effect(c, d)
    BY <1>0, <1>4, LifecycleAssumption DEF WithoutProof, Effect, Record
  <1>5. ASSUME NEW level \in Risk, CanSetRisk(c, level), d = WithRisk(c, level) PROVE Effect(c, d)
    <2>1. level \in 0 .. 3 /\ c.state # "ABSENT"
      BY <1>5, LifecycleAssumption DEF CanSetRisk
    <2>2. d = [c EXCEPT !.risk = level]
      BY <1>5 DEF WithRisk
    <2> QED BY <1>0, <2>1, <2>2 DEF Effect, Record
  <1>6. ASSUME CanRecordGate(c), d = WithGate(c) PROVE Effect(c, d)
    <2> DEFINE gates == c.gates \cup {c.risk}
    <2>1. c.risk \in 1 .. 3 /\ c.state # "ABSENT"
      BY <1>0, <1>6 DEF CanRecordGate, Record
    <2>2. gates \in SUBSET (1 .. 3) /\ gates # {} /\ d = [c EXCEPT !.gates = gates]
      BY <1>0, <1>6, <2>1 DEF WithGate, Record
    <2> HIDE DEF gates
    <2> QED BY <1>0, <2>1, <2>2 DEF Effect, Record
  <1>7. Effect(c, c)
    BY <1>0 DEF Effect
  <1>8. \/ \E item \in WorkItem \cup {NoItem} : d = WithNew(c, item)
        \/ \E k \in Content : CanSubmitPlan(c) /\ d = WithPlan(c, k)
        \/ CanAcceptPlan(c) /\ d = WithAcceptedPlan(c)
        \/ \E i \in 1 .. PlanBound, k \in Content :
              CanUpdatePlan(c, i) /\ d = WithUpdatedPlan(c, i, k)
        \/ \E to \in State : CanTransition(c, to) /\ d = WithState(c, to)
        \/ \E s \in Session, b \in Binding : d = WithBinding(c, s, b)
        \/ \E rev \in Revision, s, by \in Session :
              CanSubmitProof(c, s, by) /\ d = WithProof(c, rev, s, by)
        \/ d = WithoutProof(c)
        \/ \E s \in Session, o \in Outcome : CanSubmitReview(c, s) /\ d = WithReview(c, s, o)
        \/ \E rev \in Revision, s \in Session \cup {NoSession}, by \in Session :
              CanSubmitRepair(c, rev, s, by) /\ d = WithRepair(c, rev, s, by)
        \/ \E level \in Risk : CanSetRisk(c, level) /\ d = WithRisk(c, level)
        \/ CanRecordGate(c) /\ d = WithGate(c)
        \/ d = c
    BY Zenon DEF MayLeave, c, Binding
  <1>9. Effect(c, d)
    BY <1>0, <1>1, <1>2, <1>3, <1>4, <1>5, <1>6, <1>7, <1>8, PlanEffects, RoundEffects
  <1> QED BY <1>9 DEF c

-----------------------------------------------------------------------------
(* The merge of a Change.                                                  *)

\* The record a merge makes has the type of a record.
LEMMA MergedRecordType ==
    ASSUME NEW p, NEW x \in Change, NEW d \in Record, NEW m \in Record
    PROVE  MergedRecord(p, x, d, m) \in Record
  <1> DEFINE mine  == x \in p.events
             known == m.state # "ABSENT"
             own   == mine /\ known
             bs    == [s \in Session |->
                          IF <<x, s>> \in p.gone THEN "none"
                          ELSE IF <<x, s>> \in p.bound /\ m.bindings[s] # "none"
                                 THEN m.bindings[s] ELSE d.bindings[s]]
             ps    == MergedPlans(d, m, mine)
             as    == MergedAttempts(d, m)
  <1>1. ps \in Seq(Plan)
    <2>1. /\ Len(d.plans) \in Nat /\ DOMAIN d.plans = 1 .. Len(d.plans)
          /\ Len(m.plans) \in Nat /\ DOMAIN m.plans = 1 .. Len(m.plans)
          /\ d.plans \in [1 .. Len(d.plans) -> Plan] /\ m.plans \in [1 .. Len(m.plans) -> Plan]
      BY LenProperties DEF Record
    <2> DEFINE n == IF Len(d.plans) <= Len(m.plans) THEN Len(m.plans) ELSE Len(d.plans)
    <2>2. n \in Nat /\ DOMAIN d.plans \cup DOMAIN m.plans = 1 .. n
      BY <2>1
    <2> HIDE DEF n
    <2>3. \A i \in 1 .. n : ps[i] \in Plan
      BY <2>1, <2>2 DEF MergedPlans
    <2>4. DOMAIN ps = 1 .. n /\ ps = [i \in 1 .. n |-> ps[i]]
      BY <2>2 DEF MergedPlans
    <2> HIDE DEF ps
    <2> QED BY <2>2, <2>3, <2>4
  <1>2. as \in Seq(Attempt)
    BY MergedAttemptsKeep DEF Record
  <1>3. bs \in [Session -> Binding]
    <2>1. \A s \in Session : d.bindings[s] \in Binding /\ m.bindings[s] \in Binding
      BY DEF Record
    <2> QED BY <2>1 DEF Binding
  <1>4. MergedRecord(p, x, d, m) =
          [state    |-> IF own THEN m.state ELSE d.state,
           item     |-> IF own THEN m.item ELSE d.item,
           accepted |-> IF own THEN m.accepted ELSE d.accepted,
           plans    |-> ps,
           bindings |-> bs,
           attempts |-> as,
           proof    |-> IF m.proof # NoRevision THEN m.proof ELSE d.proof,
           reviews  |-> IF x \in p.reviewed /\ m.reviews # <<>> THEN m.reviews ELSE d.reviews,
           claims   |-> IF x \in p.claimed THEN m.claims ELSE d.claims,
           risk     |-> IF known /\ (mine \/ d.state # "ABSENT") THEN m.risk ELSE d.risk,
           gates    |-> IF m.gates # {} THEN m.gates ELSE d.gates]
    BY DEF MergedRecord
  <1> HIDE DEF mine, known, own, ps, as, bs
  <1>5. /\ d.state \in State /\ m.state \in State
        /\ d.item \in WorkItem \cup {NoItem} /\ m.item \in WorkItem \cup {NoItem}
        /\ d.accepted \in Nat /\ m.accepted \in Nat
        /\ d.proof \in Revision \cup {NoRevision, Void}
        /\ m.proof \in Revision \cup {NoRevision, Void}
        /\ d.reviews \in Seq(Review) /\ m.reviews \in Seq(Review)
        /\ d.claims \in SUBSET Nat /\ m.claims \in SUBSET Nat
        /\ d.risk \in 0 .. 3 /\ m.risk \in 0 .. 3
        /\ d.gates \in SUBSET (1 .. 3) /\ m.gates \in SUBSET (1 .. 3)
    BY DEF Record
  <1> DEFINE st == IF own THEN m.state ELSE d.state
             it == IF own THEN m.item ELSE d.item
             ac == IF own THEN m.accepted ELSE d.accepted
             pf == IF m.proof # NoRevision THEN m.proof ELSE d.proof
             rs == IF x \in p.reviewed /\ m.reviews # <<>> THEN m.reviews ELSE d.reviews
             cl == IF x \in p.claimed THEN m.claims ELSE d.claims
             rk == IF known /\ (mine \/ d.state # "ABSENT") THEN m.risk ELSE d.risk
             gs == IF m.gates # {} THEN m.gates ELSE d.gates
  <1>6. /\ st \in State /\ it \in WorkItem \cup {NoItem} /\ ac \in Nat
        /\ pf \in Revision \cup {NoRevision, Void} /\ rs \in Seq(Review)
        /\ cl \in SUBSET Nat /\ rk \in 0 .. 3 /\ gs \in SUBSET (1 .. 3)
    BY <1>5
  <1>7. MergedRecord(p, x, d, m) =
          [state |-> st, item |-> it, plans |-> ps, accepted |-> ac, bindings |-> bs,
           attempts |-> as, proof |-> pf, reviews |-> rs, claims |-> cl, risk |-> rk, gates |-> gs]
    BY <1>4
  <1> HIDE DEF st, it, ac, pf, rs, cl, rk, gs
  <1>8. [state |-> st, item |-> it, plans |-> ps, accepted |-> ac, bindings |-> bs,
         attempts |-> as, proof |-> pf, reviews |-> rs, claims |-> cl, risk |-> rk, gates |-> gs]
          \in Record
    BY <1>1, <1>2, <1>3, <1>6 DEF Record
  <1> QED BY <1>7, <1>8

\* Memory has what the file has, or what the operation made of it, but for
\* gates that a new risk deleted in memory.
Near(c, m) == m = [c EXCEPT !.gates = m.gates] /\ m.gates \in {c.gates, {}}

\* The merge of a memory whose operation made r of c, with the flags for it.
LEMMA MergedIs ==
    ASSUME NEW p, NEW x \in Change, NEW c \in Record, NEW r \in Record, NEW m \in Record,
           Effect(c, r), m = [r EXCEPT !.gates = m.gates],
           m.gates = r.gates \/ (m.gates = {} /\ r.gates = c.gates),
           \A s \in Session :
              /\ <<x, s>> \in p.gone <=> r.bindings[s] = "none" /\ c.bindings[s] # "none"
              /\ <<x, s>> \in p.bound <=> r.bindings[s] \notin {"none", c.bindings[s]},
           x \in p.reviewed <=> r.reviews # c.reviews,
           x \in p.claimed <=> c.state = "REPAIR" /\ r.state = "PREFLIGHT",
           x \in p.events \/ SameScalars(c, r)
    PROVE  MergedRecord(p, x, c, m) = r
  <1> DEFINE mine  == x \in p.events
             known == m.state # "ABSENT"
             own   == mine /\ known
             bs    == [s \in Session |->
                          IF <<x, s>> \in p.gone THEN "none"
                          ELSE IF <<x, s>> \in p.bound /\ m.bindings[s] # "none"
                                 THEN m.bindings[s] ELSE c.bindings[s]]
             ps    == MergedPlans(c, m, mine)
             as    == MergedAttempts(c, m)
  <1>0. /\ m.state = r.state /\ m.item = r.item /\ m.plans = r.plans /\ m.accepted = r.accepted
        /\ m.bindings = r.bindings /\ m.attempts = r.attempts /\ m.proof = r.proof
        /\ m.reviews = r.reviews /\ m.claims = r.claims /\ m.risk = r.risk
    BY DEF Record
  <1>1. ps = r.plans
    <2>1. /\ DOMAIN c.plans \subseteq DOMAIN r.plans /\ m.plans = r.plans
          /\ mine \/ c.plans = r.plans
      BY <1>0 DEF Effect, SameScalars
    <2>2. r.plans = [i \in DOMAIN r.plans |-> r.plans[i]]
      BY DEF Record
    <2> HIDE DEF mine
    <2>3. DOMAIN c.plans \cup DOMAIN m.plans = DOMAIN r.plans
      BY <2>1
    <2>4. ASSUME NEW i \in DOMAIN r.plans
          PROVE  (IF i \in DOMAIN m.plans /\ (mine \/ i \notin DOMAIN c.plans)
                    THEN m.plans[i] ELSE c.plans[i]) = r.plans[i]
      BY <2>1, <2>4
    <2> QED BY <2>2, <2>3, <2>4 DEF MergedPlans
  <1>2. as = r.attempts
    <2>1. c.attempts \in Seq(Attempt) /\ m.attempts \in Seq(Attempt)
      BY DEF Record
    <2>2. \/ m.attempts = c.attempts
          \/ \E a \in Attempt : NewKey(c, a) /\ m.attempts = Append(c.attempts, a)
      BY <1>0 DEF Effect
    <2>3. MergedAttempts(c, m) = m.attempts
      BY <2>1, <2>2, MergedAttemptsAre, Zenon
    <2> QED BY <1>0, <2>3
  <1>3. bs = r.bindings
    <2>1. r.bindings = [s \in Session |-> r.bindings[s]]
      BY DEF Record
    <2>2. ASSUME NEW s \in Session
          PROVE  (IF <<x, s>> \in p.gone THEN "none"
                  ELSE IF <<x, s>> \in p.bound /\ m.bindings[s] # "none"
                         THEN m.bindings[s] ELSE c.bindings[s]) = r.bindings[s]
      BY <1>0, <2>2
    <2> QED BY <2>1, <2>2
  <1>4. MergedRecord(p, x, c, m) =
          [state    |-> IF own THEN m.state ELSE c.state,
           item     |-> IF own THEN m.item ELSE c.item,
           accepted |-> IF own THEN m.accepted ELSE c.accepted,
           plans    |-> ps,
           bindings |-> bs,
           attempts |-> as,
           proof    |-> IF m.proof # NoRevision THEN m.proof ELSE c.proof,
           reviews  |-> IF x \in p.reviewed /\ m.reviews # <<>> THEN m.reviews ELSE c.reviews,
           claims   |-> IF x \in p.claimed THEN m.claims ELSE c.claims,
           risk     |-> IF known /\ (mine \/ c.state # "ABSENT") THEN m.risk ELSE c.risk,
           gates    |-> IF m.gates # {} THEN m.gates ELSE c.gates]
    BY DEF MergedRecord
  <1>5. /\ (IF own THEN m.state ELSE c.state) = r.state
        /\ (IF own THEN m.item ELSE c.item) = r.item
        /\ (IF own THEN m.accepted ELSE c.accepted) = r.accepted
        /\ (IF known /\ (mine \/ c.state # "ABSENT") THEN m.risk ELSE c.risk) = r.risk
    BY <1>0 DEF Effect, SameScalars
  <1>6. /\ (IF m.proof # NoRevision THEN m.proof ELSE c.proof) = r.proof
        /\ (IF x \in p.reviewed /\ m.reviews # <<>> THEN m.reviews ELSE c.reviews) = r.reviews
        /\ (IF x \in p.claimed THEN m.claims ELSE c.claims) = r.claims
        /\ (IF m.gates # {} THEN m.gates ELSE c.gates) = r.gates
    BY <1>0 DEF Effect
  <1> HIDE DEF mine, known, own, ps, as, bs
  <1>7. r = [state |-> r.state, item |-> r.item, accepted |-> r.accepted, plans |-> r.plans,
             bindings |-> r.bindings, attempts |-> r.attempts, proof |-> r.proof,
             reviews |-> r.reviews, claims |-> r.claims, risk |-> r.risk, gates |-> r.gates]
    BY DEF Record
  <1> QED BY <1>1, <1>2, <1>3, <1>4, <1>5, <1>6, <1>7

\* Without flags, and with a memory like the file, nothing changes.
LEMMA MergedIsSame ==
    ASSUME NEW p, NEW x \in Change, NEW c \in Record, NEW m \in Record, Near(c, m),
           \A s \in Session : <<x, s>> \notin p.gone \cup p.bound,
           x \notin p.reviewed \cup p.claimed \cup p.events
    PROVE  MergedRecord(p, x, c, m) = c
  <1>1. Effect(c, c) /\ SameScalars(c, c)
    BY DEF Effect, SameScalars
  <1>2. m = [c EXCEPT !.gates = m.gates] /\ (m.gates = c.gates \/ (m.gates = {} /\ c.gates = c.gates))
    BY DEF Near
  <1> QED BY <1>1, <1>2, MergedIs

\* What an operation leaves is an operation of ChangeLifecycle.
LEMMA LeavesAreOperations ==
    ASSUME NEW x \in Change, NEW d, MayLeave(change, x, d), change \in [Change -> Record],
           change' = [change EXCEPT ![x] = d]
    PROVE  LifecycleNext \/ UNCHANGED change
  <1> USE DEF Put
  <1>1. ASSUME change[x].state # "ABSENT", d = change[x] PROVE UNCHANGED change
    BY <1>1
  <1>2. ASSUME ~(change[x].state # "ABSENT" /\ d = change[x]) PROVE Operation(x)
    BY <1>2, Zenon DEF MayLeave, Operation, Create, SubmitPlan, AcceptPlan, UpdatePlan, Transition,
        BindRole, UnbindRole, SubmitProof, InvalidateProof, SubmitReview, SubmitRepair,
        SetRisk, RecordGateSatisfaction
  <1> QED BY <1>1, <1>2 DEF LifecycleNext

-----------------------------------------------------------------------------
(* Types of the file, the memories and what is about to be written.        *)

\* What a refresh keeps of memory has the type of a record.
LEMMA RefreshedType ==
    ASSUME change \in [Change -> Record], host \in [Host -> Process], NEW h \in Host
    PROVE  Refreshed(h) \in [Change -> Record]
  <1>1. ASSUME NEW x \in Change PROVE Kept(change[x], host[h].mem[x]) \in Record
    <2> DEFINE c == change[x]
               m == host[h].mem[x]
    <2>1. c \in Record /\ m \in Record
      BY DEF Process
    <2> HIDE DEF c, m
    <2>2. Kept(c, m) \in Record
      <3> DEFINE cl == IF c.claims = {} THEN m.claims ELSE c.claims
                 gs == IF c.gates = {} THEN m.gates ELSE c.gates
      <3>1. cl \in SUBSET Nat /\ gs \in SUBSET (1 .. 3)
        BY <2>1 DEF Record
      <3>2. Kept(c, m) = [c EXCEPT !.claims = cl, !.gates = gs]
        BY <2>1 DEF Kept, Record
      <3> HIDE DEF cl, gs
      <3> QED BY <2>1, <3>1, <3>2 DEF Record
    <2> QED BY <2>2 DEF c, m
  <1> QED BY <1>1 DEF Refreshed

\* A memory that differs at most by deleted gates is refreshed to the file.
LEMMA RefreshedNear ==
    ASSUME change \in [Change -> Record], NEW h \in Host,
           \A x \in Change : Near(change[x], host[h].mem[x])
    PROVE  Refreshed(h) = change
  <1>1. ASSUME NEW x \in Change PROVE Kept(change[x], host[h].mem[x]) = change[x]
    <2> DEFINE c == change[x]
               m == host[h].mem[x]
    <2>1. c \in Record /\ m = [c EXCEPT !.gates = m.gates] /\ m.gates \in {c.gates, {}}
      BY DEF Near
    <2> HIDE DEF c, m
    <2>2. m.claims = c.claims /\ (c.gates = {} => m.gates = {})
      BY <2>1 DEF Record
    <2>3. Kept(c, m) = [c EXCEPT !.claims = c.claims, !.gates = c.gates]
      BY <2>1, <2>2 DEF Kept, Record
    <2>4. Kept(c, m) = c
      BY <2>1, <2>3 DEF Record
    <2> QED BY <2>4 DEF c, m
  <1> QED BY <1>1 DEF Refreshed

\* What is in memory of an operation before its audit event.
LEMMA EarlyType ==
    ASSUME NEW c \in Record, NEW d \in Record, DOMAIN c.plans \subseteq DOMAIN d.plans
    PROVE  /\ Early(c, d) \in Record
           /\ Early(c, d).bindings = d.bindings
           /\ Early(c, d).gates = IF d.risk # c.risk THEN {} ELSE d.gates
  <1> DEFINE ps == [i \in DOMAIN c.plans |-> d.plans[i]]
             gs == IF d.risk # c.risk THEN {} ELSE d.gates
             pf == IF c.state = "IMPLEMENTING" /\ d.state = "PREFLIGHT" THEN c.proof ELSE d.proof
  <1>1. ps \in Seq(Plan)
    <2>1. /\ Len(c.plans) \in Nat /\ DOMAIN c.plans = 1 .. Len(c.plans)
          /\ d.plans \in [DOMAIN d.plans -> Plan]
      BY LenProperties DEF Record
    <2>2. ps \in [1 .. Len(c.plans) -> Plan]
      BY <2>1
    <2> QED BY <2>1, <2>2
  <1>2. /\ gs \in SUBSET (1 .. 3) /\ pf \in Revision \cup {NoRevision, Void}
        /\ c.attempts \in Seq(Attempt)
    BY DEF Record
  <1>3. Early(c, d) = [d EXCEPT !.attempts = c.attempts, !.plans = ps, !.gates = gs, !.proof = pf]
    BY DEF Early, Record
  <1> HIDE DEF ps, gs, pf
  <1>4. /\ Early(c, d) \in Record /\ Early(c, d).bindings = d.bindings /\ Early(c, d).gates = gs
    BY <1>1, <1>2, <1>3 DEF Record
  <1> QED BY <1>4 DEF gs

-----------------------------------------------------------------------------
\* How an operation begins: what it reads, and what it leaves of it.
Begun(h, x, v, d, locked, event) ==
    /\ Begin(h, v, x, d, locked, event) /\ MayLeave(v, x, d)
    /\ \/ v = Refreshed(h) /\ behind' = UpToDate(h)
       \/ v = host[h].mem /\ UNCHANGED behind /\ ((d = v[x] /\ d.state # "ABSENT") \/ v[x] = change[x])
    /\ event = "never" => SameScalars(v[x], d)

\* Every operation of a host is a beginning of this kind.
LEMMA OperateBegins ==
    ASSUME NEW h \in Host, NEW x \in Change, Operate(h, x), host \in [Host -> Process],
           change \in [Change -> Record]
    PROVE  \E v, d : \E locked \in BOOLEAN, event \in {"later", "now", "never"} :
              Begun(h, x, v, d, locked, event)
  <1> DEFINE v == Refreshed(h)
             Goal == \E u, d : \E locked \in BOOLEAN, event \in {"later", "now", "never"} :
                        Begun(h, x, u, d, locked, event)
  <1> SUFFICES Goal
    OBVIOUS
  <1>0. v \in [Change -> Record]
    BY RefreshedType
  <1> HIDE DEF v
  <1>1. ASSUME NEW d, NEW locked \in BOOLEAN, NEW event \in {"later", "now", "never"},
               Call(h, x, d, locked, event), MayLeave(v, x, d),
               event = "never" => SameScalars(v[x], d)
        PROVE  Goal
    <2>1. Begun(h, x, v, d, locked, event)
      BY <1>1 DEF Call, Begun, v
    <2> QED BY <2>1
  <1>2. ASSUME NEW d, MayLeave(v, x, d), Locked(h, x, d) \/ Light(h, x, d) PROVE Goal
    <2>1. Call(h, x, d, TRUE, "later") \/ Call(h, x, d, FALSE, "later")
      BY <1>2 DEF Locked, Light
    <2> QED BY <1>1, <1>2, <2>1
  <1> HIDE DEF Goal
  <1>3. CASE HostCreate(h, x)
    <2>1. PICK item \in WorkItem : /\ Unused(x) /\ CanCreate([v EXCEPT ![x] = Absent], x, item)
                                   /\ Locked(h, x, WithNew(Absent, item))
      BY <1>3 DEF HostCreate, v
    <2>2. change[x] = Absent /\ host[h].mem[x] = Absent
      BY <2>1 DEF Unused
    <2>3. v[x] = Absent
      BY <2>2 DEF v, Refreshed, Kept, Absent
    <2>4. [v EXCEPT ![x] = Absent] = v
      BY <1>0, <2>3
    <2>5. CanCreate(v, x, item) /\ WithNew(Absent, item) = WithNew(v[x], item)
      BY <2>1, <2>3, <2>4
    <2>6. MayLeave(v, x, WithNew(Absent, item))
      BY <2>5 DEF MayLeave
    <2> QED BY <1>2, <2>1, <2>6
  <1>4. CASE HostCreateUnlinked(h, x)
    <2> DEFINE m == host[h].mem
               d == WithNew(Absent, NoItem)
    <2>1. m[x] = Absent /\ change[x] = Absent
      BY <1>4 DEF HostCreateUnlinked, Unused
    <2>2. CanCreate(m, x, NoItem)
      BY <2>1 DEF CanCreate, Absent
    <2>3. MayLeave(m, x, d)
      BY <2>1, <2>2 DEF MayLeave
    <2>4. Begin(h, m, x, d, FALSE, "later") /\ UNCHANGED behind
      BY <1>4 DEF HostCreateUnlinked
    <2>5. Begun(h, x, m, d, FALSE, "later")
      BY <2>1, <2>3, <2>4 DEF Begun
    <2> QED BY <2>5 DEF Goal
  <1>5. CASE HostAppendAudit(h, x)
    <2> DEFINE m == host[h].mem
    <2>1. m[x].state # "ABSENT" /\ Begin(h, m, x, m[x], FALSE, "later") /\ UNCHANGED behind
      BY <1>5 DEF HostAppendAudit
    <2>2. MayLeave(m, x, m[x])
      BY <2>1 DEF MayLeave
    <2>3. Begun(h, x, m, m[x], FALSE, "later")
      BY <2>1, <2>2 DEF Begun
    <2> QED BY <2>3 DEF Goal
  <1>6. CASE HostSubmitPlan(h, x) \/ HostAcceptPlan(h, x) \/ HostTransition(h, x)
             \/ HostUnbindRole(h, x) \/ HostSubmitProof(h, x) \/ HostSubmitReview(h, x)
             \/ HostSubmitRepair(h, x) \/ HostSetRisk(h, x) \/ HostRecordGate(h, x)
    <2>1. \E d : MayLeave(v, x, d) /\ (Locked(h, x, d) \/ Light(h, x, d))
      <3>1. CASE HostSubmitPlan(h, x)
        BY <3>1, Zenon DEF HostSubmitPlan, v, MayLeave
      <3>2. CASE HostAcceptPlan(h, x)
        BY <3>2, Zenon DEF HostAcceptPlan, v, MayLeave
      <3>3. CASE HostTransition(h, x)
        BY <3>3, Zenon DEF HostTransition, v, MayLeave
      <3>4. CASE HostUnbindRole(h, x)
        BY <3>4, Zenon DEF HostUnbindRole, v, MayLeave
      <3>5. CASE HostSubmitProof(h, x)
        BY <3>5, Zenon DEF HostSubmitProof, v, MayLeave
      <3>6. CASE HostSubmitReview(h, x)
        BY <3>6, Zenon DEF HostSubmitReview, v, MayLeave
      <3>7. CASE HostSubmitRepair(h, x)
        BY <3>7, Zenon DEF HostSubmitRepair, v, MayLeave
      <3>8. CASE HostSetRisk(h, x)
        BY <3>8, Zenon DEF HostSetRisk, v, MayLeave
      <3>9. CASE HostRecordGate(h, x)
        BY <3>9, Zenon DEF HostRecordGate, v, MayLeave
      <3> QED BY <1>6, <3>1, <3>2, <3>3, <3>4, <3>5, <3>6, <3>7, <3>8, <3>9
    <2> QED BY <1>2, <2>1
  <1>7. CASE HostUpdatePlan(h, x)
    <2>1. PICK i \in 1 .. PlanBound, k \in Content :
             CanUpdatePlan(v[x], i) /\ Call(h, x, WithUpdatedPlan(v[x], i, k), TRUE, "now")
      BY <1>7, Zenon DEF HostUpdatePlan, v
    <2>2. MayLeave(v, x, WithUpdatedPlan(v[x], i, k))
      BY <2>1, Zenon DEF MayLeave
    <2> QED BY <1>1, <2>1, <2>2
  <1>8. CASE HostBindRole(h, x)
    <2>1. PICK s \in Session, b \in Binding \ {"none"} :
             CanBind(v[x], s) /\ Call(h, x, WithBinding(v[x], s, b), TRUE, "never")
      BY <1>8, Zenon DEF HostBindRole, v
    <2>2. MayLeave(v, x, WithBinding(v[x], s, b))
      BY <2>1, Zenon DEF MayLeave
    <2>3. SameScalars(v[x], WithBinding(v[x], s, b))
      BY <1>0 DEF SameScalars, WithBinding, Record
    <2> QED BY <1>1, <2>1, <2>2, <2>3
  <1>9. CASE HostInvalidateProof(h, x)
    <2>1. CanInvalidateProof(v[x]) /\ Call(h, x, WithoutProof(v[x]), FALSE, "never")
      BY <1>9, Zenon DEF HostInvalidateProof, v
    <2>2. MayLeave(v, x, WithoutProof(v[x]))
      BY <2>1, Zenon DEF MayLeave
    <2>3. SameScalars(v[x], WithoutProof(v[x]))
      BY <1>0 DEF SameScalars, WithoutProof, Record
    <2> QED BY <1>1, <2>1, <2>2, <2>3
  <1> QED
    BY <1>3, <1>4, <1>5, <1>6, <1>7, <1>8, <1>9 DEF Operate

\* What a beginning writes.
Written(v, x, d, event) ==
    [v EXCEPT ![x] = IF event = "later" THEN Early(v[x], d) ELSE d]

\* And what it will have written in the end.
JobRecord(x, d) == [d EXCEPT !.gates = IF @ = {} THEN change[x].gates ELSE @]

\* A process p after a beginning.
BegunProcess(p, v, x, d, event) ==
    LET c     == v[x]
        bound == {x} \X {s \in Session : d.bindings[s] \notin {"none", c.bindings[s]}}
        gone  == {x} \X {s \in Session : d.bindings[s] = "none" /\ c.bindings[s] # "none"}
    IN  [p EXCEPT !.mem = Written(v, x, d, event),
                  !.events = IF event = "now" THEN p.events \cup {x} ELSE p.events,
                  !.job = [x |-> x, rec |-> JobRecord(x, d)],
                  !.bound = (p.bound \ gone) \cup bound,
                  !.gone = p.gone \cup gone,
                  !.reviewed = IF d.reviews # c.reviews THEN p.reviewed \cup {x} ELSE p.reviewed,
                  !.claimed = IF c.state = "REPAIR" /\ d.state = "PREFLIGHT"
                                THEN p.claimed \cup {x} ELSE p.claimed]

\* Begin writes that and nothing of another process.
LEMMA BeginWrites ==
    ASSUME NEW h \in Host, NEW v, NEW x \in Change, NEW d, NEW locked, NEW event,
           Begin(h, v, x, d, locked, event), host \in [Host -> Process]
    PROVE  host' = [g \in Host |-> IF g # h THEN host[g]
                                            ELSE BegunProcess(host[h], v, x, d, event)]
  BY DEF Begin, BegunProcess, Written, JobRecord, Process

\* The values of the variables that have to do with the file.
StoreTypes ==
    /\ change \in [Change -> Record] /\ host \in [Host -> Process]
    /\ judged \subseteq Host /\ failed \subseteq Host
    /\ behind \subseteq Host \X Writer /\ torn \subseteq Host \X Writer
    /\ ops \in 0 .. OpBound /\ faults \in 0 .. FaultBound

\* What an operation will leave is a record: a persist deletes no gates.
LEMMA JobRecordType ==
    ASSUME change \in [Change -> Record], NEW x \in Change, NEW d \in Record
    PROVE  /\ JobRecord(x, d) \in Record
           /\ JobRecord(x, d) = [d EXCEPT !.gates = JobRecord(x, d).gates]
           /\ JobRecord(x, d).gates = IF d.gates = {} THEN change[x].gates ELSE d.gates
  <1> DEFINE gs == IF d.gates = {} THEN change[x].gates ELSE d.gates
  <1>1. gs \in SUBSET (1 .. 3)
    BY DEF Record
  <1>2. JobRecord(x, d) = [d EXCEPT !.gates = gs]
    BY DEF JobRecord, Record
  <1> HIDE DEF gs
  <1>3. JobRecord(x, d) \in Record /\ JobRecord(x, d).gates = gs
        /\ JobRecord(x, d) = [d EXCEPT !.gates = JobRecord(x, d).gates]
    BY <1>1, <1>2 DEF Record
  <1> QED BY <1>3 DEF gs

\* What Begin finds and leaves has its type.
LEMMA BeginTypes ==
    ASSUME StoreTypes, NEW h \in Host, NEW x \in Change, NEW v, NEW d, NEW locked, NEW event,
           Begun(h, x, v, d, locked, event)
    PROVE  /\ v \in [Change -> Record] /\ Effect(v[x], d) /\ d \in Record
           /\ Written(v, x, d, event) \in [Change -> Record]
           /\ host' \in [Host -> Process]
  <1>1. v \in [Change -> Record]
    BY RefreshedType DEF StoreTypes, Begun, Process
  <1>2. Effect(v[x], d)
    BY <1>1, Effects DEF Begun
  <1>3. d \in Record
    BY <1>2 DEF Effect
  <1>4. Written(v, x, d, event) \in [Change -> Record]
    <2>1. Early(v[x], d) \in Record
      BY <1>1, <1>2, <1>3, EarlyType DEF Effect
    <2> QED BY <1>1, <1>3, <2>1 DEF Written
  <1>5. JobRecord(x, d) \in Record
    BY <1>3, JobRecordType DEF StoreTypes
  <1>6. BegunProcess(host[h], v, x, d, event) \in Process
    <2> DEFINE p == host[h]
               c == v[x]
               bound == {x} \X {s \in Session : d.bindings[s] \notin {"none", c.bindings[s]}}
               gone  == {x} \X {s \in Session : d.bindings[s] = "none" /\ c.bindings[s] # "none"}
               me == Written(v, x, d, event)
               ev == IF event = "now" THEN p.events \cup {x} ELSE p.events
               bo == (p.bound \ gone) \cup bound
               go == p.gone \cup gone
               re == IF d.reviews # c.reviews THEN p.reviewed \cup {x} ELSE p.reviewed
               cl == IF c.state = "REPAIR" /\ d.state = "PREFLIGHT"
                       THEN p.claimed \cup {x} ELSE p.claimed
               jo == [x |-> x, rec |-> JobRecord(x, d)]
    <2>1. p \in Process
      BY DEF StoreTypes
    <2>2. /\ ev \subseteq Change /\ re \subseteq Change /\ cl \subseteq Change
          /\ bo \subseteq Change \X Session /\ go \subseteq Change \X Session
      BY <2>1 DEF Process
    <2>3. jo \in Job
      BY <1>5 DEF Job
    <2>4. me \in [Change -> Record]
      BY <1>4
    <2>5. BegunProcess(p, v, x, d, event) =
            [p EXCEPT !.mem = me, !.events = ev, !.job = jo, !.bound = bo,
                      !.gone = go, !.reviewed = re, !.claimed = cl]
      BY DEF BegunProcess
    <2> HIDE DEF p, me, ev, bo, go, re, cl, jo
    <2>6. BegunProcess(p, v, x, d, event) \in Process
      BY <2>1, <2>2, <2>3, <2>4, <2>5 DEF Process
    <2> QED BY <2>6 DEF p
  <1>7. host' = [g \in Host |-> IF g # h THEN host[g] ELSE BegunProcess(host[h], v, x, d, event)]
    BY BeginWrites DEF Begun, StoreTypes
  <1>8. host' \in [Host -> Process]
    BY <1>6, <1>7 DEF StoreTypes
  <1> QED BY <1>1, <1>2, <1>3, <1>4, <1>8

\* An operation keeps the types.
LEMMA BeginKeepsTypes ==
    ASSUME StoreTypes, NEW h \in Host, NEW x \in Change, Operate(h, x)
    PROVE  StoreTypes'
  <1>1. PICK v, d : \E locked \in BOOLEAN, event \in {"later", "now", "never"} :
                       Begun(h, x, v, d, locked, event)
    BY OperateBegins DEF StoreTypes
  <1>2. PICK locked \in BOOLEAN, event \in {"later", "now", "never"} :
                Begun(h, x, v, d, locked, event)
    BY <1>1
  <1>3. host' \in [Host -> Process]
    BY <1>2, BeginTypes
  <1>4. behind' \subseteq behind
    BY <1>2 DEF Begun, UpToDate
  <1>5. UNCHANGED <<change, judged, faults, torn, failed>> /\ ops < OpBound /\ ops' = ops + 1
    BY <1>2 DEF Begun, Begin
  <1>6. ops' \in 0 .. OpBound
    BY <1>5, StoreFileAssumption DEF StoreTypes
  <1> QED BY <1>3, <1>4, <1>5, <1>6 DEF StoreTypes

\* The record of a job, in the memory of the process.
LEMMA InMemoryType ==
    ASSUME NEW m \in Record, NEW d \in Record
    PROVE  InMemory(m, d) \in Record /\ InMemory(m, d) = [d EXCEPT !.gates = m.gates]
           /\ InMemory(m, d).gates = m.gates
  BY DEF InMemory, Record

\* The audit event: what PushEvent writes.
LEMMA PushWrites ==
    ASSUME StoreTypes, NEW h \in Host, PushEvent(h)
    PROVE  LET p == host[h]
               j == p.job
               m == p.mem
           IN  /\ host'[h] = [p EXCEPT !.mem = [m EXCEPT ![j.x] = InMemory(m[j.x], j.rec)],
                                       !.events = p.events \cup {j.x}]
               /\ \A g \in Host : g # h => host'[g] = host[g]
               /\ host' \in [Host -> Process]
  <1> DEFINE p == host[h]
             j == p.job
             m == p.mem
             me == [m EXCEPT ![j.x] = InMemory(m[j.x], j.rec)]
             ev == p.events \cup {j.x}
             q == [p EXCEPT !.mem = me, !.events = ev]
  <1>1. p \in Process /\ j \in Job /\ m \in [Change -> Record]
    BY DEF StoreTypes, Process
  <1>2. j.x \in Change /\ j.rec \in Record
    BY <1>1 DEF Job
  <1>3. me \in [Change -> Record]
    BY <1>1, <1>2, InMemoryType
  <1>4. ev \subseteq Change
    BY <1>1, <1>2 DEF Process
  <1>5. host' = [host EXCEPT ![h] = q]
    BY <1>1 DEF PushEvent, StoreTypes, Process
  <1>6. q \in Process
    <2> HIDE DEF me, ev, p
    <2> QED BY <1>1, <1>3, <1>4 DEF Process
  <1> HIDE DEF q
  <1>7. host' \in [Host -> Process] /\ host'[h] = q /\ \A g \in Host : g # h => host'[g] = host[g]
    BY <1>5, <1>6 DEF StoreTypes
  <1> QED BY <1>7 DEF q

\* What a merge writes.
LEMMA MergeWrites ==
    ASSUME StoreTypes, NEW h \in Host, NEW w \in Writer, Merge(h, w)
    PROVE  LET p == host[h]
           IN  /\ host'[h] = [p EXCEPT !.out = [p.out EXCEPT ![w] = Merged(h)],
                                       !.sent = [p.sent EXCEPT ![w] = p.events]]
               /\ \A g \in Host : g # h => host'[g] = host[g]
               /\ host' \in [Host -> Process]
  <1> DEFINE p == host[h]
             ou == [p.out EXCEPT ![w] = Merged(h)]
             se == [p.sent EXCEPT ![w] = p.events]
             q == [p EXCEPT !.out = ou, !.sent = se]
  <1>1. p \in Process
    BY DEF StoreTypes
  <1>2. Merged(h) \in [Change -> Record]
    <2>1. \A x \in Change : MergedRecord(host[h], x, change[x], host[h].mem[x]) \in Record
      BY MergedRecordType DEF StoreTypes, Process
    <2> QED BY <2>1 DEF Merged
  <1>3. ou \in [Writer -> [Change -> Record]] /\ se \in [Writer -> SUBSET Change]
    BY <1>1, <1>2 DEF Process
  <1>4. host' = [host EXCEPT ![h] = q]
    BY <1>1 DEF Merge, StoreTypes, Process
  <1>5. q \in Process
    <2> HIDE DEF ou, se, p
    <2> QED BY <1>1, <1>3 DEF Process
  <1> HIDE DEF q
  <1>6. host' \in [Host -> Process] /\ host'[h] = q /\ \A g \in Host : g # h => host'[g] = host[g]
    BY <1>4, <1>5 DEF StoreTypes
  <1> QED BY <1>6 DEF q

\* A writer that is done.
LEMMA IdleType ==
    ASSUME NEW p \in Process, NEW w \in Writer
    PROVE  /\ Idle(p, w) \in Process
           /\ Idle(p, w) = [p EXCEPT !.out = [p.out EXCEPT ![w] = Nothing],
                                     !.sent = [p.sent EXCEPT ![w] = {}],
                                     !.job = IF w = "op" THEN NoJob ELSE p.job]
  <1> DEFINE ou == [p.out EXCEPT ![w] = Nothing]
             se == [p.sent EXCEPT ![w] = {}]
             jo == IF w = "op" THEN NoJob ELSE p.job
  <1>1. Absent \in Record
    BY DEF Absent, Record, State, Binding
  <1>2. NoJob \in Job
    BY <1>1, StoreFileAssumption DEF NoJob, Job
  <1>3. ou \in [Writer -> [Change -> Record]] /\ se \in [Writer -> SUBSET Change] /\ jo \in Job
    BY <1>1, <1>2 DEF Process, Nothing
  <1>4. Idle(p, w) = [p EXCEPT !.out = ou, !.sent = se, !.job = jo]
    BY DEF Idle, Process
  <1>5. Idle(p, w) \in Process
    <2> HIDE DEF ou, se, jo
    <2> QED BY <1>3, <1>4 DEF Process
  <1> QED BY <1>4, <1>5

\* What the write of a file leaves of the process and of the file.
LEMMA WriteWrites ==
    ASSUME StoreTypes, NEW h \in Host, NEW w \in Writer, Write(h, w)
    PROVE  LET p == Idle(host[h], w)
           IN  /\ host'[h] = [p EXCEPT !.events = p.events \ host[h].sent[w], !.bound = {},
                                       !.gone = {}, !.reviewed = {}, !.claimed = {}]
               /\ \A g \in Host : g # h => host'[g] = host[g]
               /\ host' \in [Host -> Process] /\ change' \in [Change -> Record]
  <1> DEFINE p == Idle(host[h], w)
             ev == p.events \ host[h].sent[w]
             q == [p EXCEPT !.events = ev, !.bound = {}, !.gone = {}, !.reviewed = {}, !.claimed = {}]
  <1>1. host[h] \in Process
    BY DEF StoreTypes
  <1>2. p \in Process
    BY <1>1, IdleType
  <1>3. host' = [host EXCEPT ![h] = q]
    <2>1. host' = [host EXCEPT ![h] = [Idle(host[h], w) EXCEPT !.events = @ \ host[h].sent[w],
                   !.bound = {}, !.gone = {}, !.reviewed = {}, !.claimed = {}]]
      BY DEF Write
    <2> QED BY <2>1
  <1>4. q \in Process
    <2>1. ev \subseteq Change
      BY <1>2 DEF Process
    <2> HIDE DEF p, ev
    <2> QED BY <1>2, <2>1 DEF Process
  <1>5. change' \in [Change -> Record]
    BY <1>1 DEF Write, Process
  <1> HIDE DEF q
  <1>6. host' \in [Host -> Process] /\ host'[h] = q /\ \A g \in Host : g # h => host'[g] = host[g]
    BY <1>3, <1>4 DEF StoreTypes
  <1> QED BY <1>5, <1>6 DEF q

\* A process that opens the file.
LEMMA OpenedType ==
    ASSUME change \in [Change -> Record]
    PROVE  Opened(change) \in Process
  <1>1. Absent \in Record
    BY DEF Absent, Record, State, Binding
  <1>2. NoJob \in Job
    BY <1>1, StoreFileAssumption DEF NoJob, Job
  <1>3. [w \in Writer |-> Nothing] \in [Writer -> [Change -> Record]]
    BY <1>1 DEF Nothing
  <1>4. [w \in Writer |-> {}] \in [Writer -> SUBSET Change]
    OBVIOUS
  <1> QED BY <1>2, <1>3, <1>4 DEF Opened, Process

\* Every step of every process keeps the types.
LEMMA StoreTypesStep == StoreTypes /\ [StoreNext]_vars => StoreTypes'
  <1> SUFFICES ASSUME StoreTypes, [StoreNext]_vars PROVE StoreTypes'
    OBVIOUS
  <1>1. CASE UNCHANGED vars
    BY <1>1 DEF vars, ghosts, StoreTypes
  <1>2. ASSUME NEW h \in Host, NEW x \in Change, Operate(h, x) PROVE StoreTypes'
    BY <1>2, BeginKeepsTypes
  <1>3. ASSUME NEW h \in Host, HostRead(h) PROVE StoreTypes'
    <2>1. Refreshed(h) \in [Change -> Record]
      BY RefreshedType DEF StoreTypes
    <2>2. host' \in [Host -> Process]
      <3> DEFINE q == [host[h] EXCEPT !.mem = Refreshed(h)]
      <3>1. q \in Process
        BY <2>1 DEF StoreTypes, Process
      <3>2. host' = [host EXCEPT ![h] = q]
        BY <1>3 DEF HostRead
      <3> HIDE DEF q
      <3> QED BY <3>1, <3>2 DEF StoreTypes
    <2>3. behind' \subseteq behind
      BY <1>3 DEF HostRead, UpToDate
    <2> QED BY <1>3, <2>2, <2>3 DEF HostRead, StoreTypes
  <1>4. ASSUME NEW h \in Host, HostPreflight(h) PROVE StoreTypes'
    <2>1. ops' \in 0 .. OpBound
      BY <1>4, StoreFileAssumption DEF HostPreflight, StoreTypes
    <2> QED BY <1>4, <2>1 DEF HostPreflight, StoreTypes, ghosts
  <1>5. ASSUME NEW h \in Host, PushEvent(h) PROVE StoreTypes'
    <2>1. host' \in [Host -> Process]
      BY <1>5, PushWrites
    <2> QED BY <1>5, <2>1 DEF PushEvent, StoreTypes, ghosts
  <1>6. ASSUME NEW h \in Host, NEW w \in Writer, Merge(h, w) PROVE StoreTypes'
    <2>1. host' \in [Host -> Process]
      BY <1>6, MergeWrites
    <2>2. behind' \subseteq Host \X Writer
      BY <1>6 DEF Merge, StoreTypes
    <2> QED BY <1>6, <2>1, <2>2 DEF Merge, StoreTypes
  <1>7. ASSUME NEW h \in Host, NEW w \in Writer, Write(h, w) PROVE StoreTypes'
    <2>1. host' \in [Host -> Process] /\ change' \in [Change -> Record]
      BY <1>7, WriteWrites
    <2>2. Overtaken(h, w) \subseteq Host \X Writer
      BY DEF Overtaken, Writer
    <2>3. behind' \subseteq Host \X Writer /\ torn' \subseteq Host \X Writer /\ failed' \subseteq Host
      BY <1>7, <2>2 DEF Write, StoreTypes
    <2> QED BY <1>7, <2>1, <2>3 DEF Write, StoreTypes
  <1>8. ASSUME NEW h \in Host, NEW w \in Writer, PersistFails(h, w) PROVE StoreTypes'
    <2>1. host' \in [Host -> Process]
      BY <1>8, IdleType DEF PersistFails, StoreTypes
    <2>2. faults' \in 0 .. FaultBound
      BY <1>8, StoreFileAssumption DEF PersistFails, StoreTypes
    <2>3. behind' \subseteq behind /\ torn' \subseteq torn /\ failed' \subseteq Host
      BY <1>8 DEF PersistFails, StoreTypes
    <2> QED BY <1>8, <2>1, <2>2, <2>3 DEF PersistFails, StoreTypes
  <1>9. ASSUME NEW h \in Host, Crash(h) PROVE StoreTypes'
    <2>1. host' \in [Host -> Process]
      BY <1>9, OpenedType DEF Crash, StoreTypes
    <2>2. faults' \in 0 .. FaultBound
      BY <1>9, StoreFileAssumption DEF Crash, StoreTypes
    <2> QED BY <1>9, <2>1, <2>2 DEF Crash, StoreTypes
  <1>10. ASSUME NEW h \in Host, Judge(h) \/ Reap(h) PROVE StoreTypes'
    BY <1>10 DEF Judge, Reap, StoreTypes, ghosts
  <1> QED BY <1>1, <1>2, <1>3, <1>4, <1>5, <1>6, <1>7, <1>8, <1>9, <1>10 DEF StoreNext

\* The types at the start.
LEMMA StoreTypesInit == StoreInit => StoreTypes
  <1> SUFFICES ASSUME StoreInit PROVE StoreTypes
    OBVIOUS
  <1>1. change \in [Change -> Record]
    BY StoreFileAssumption DEF StoreInit
  <1>2. host \in [Host -> Process]
    BY <1>1, OpenedType DEF StoreInit
  <1> QED BY <1>1, <1>2, StoreFileAssumption DEF StoreInit, StoreTypes

-----------------------------------------------------------------------------
(* The count that makes the lock re-entrant.                               *)

\* A process has counted no more entries than its writers have.
Counted == \A h \in Host : /\ depth[h] <= Entries(h, "op") + Entries(h, "pre")
                           /\ h \in held => at[h]["op"] # "idle"

\* Steps that neither enter nor leave.
LEMMA CountedFrame ==
    ASSUME Counted, \A g \in Host : at'[g] = at[g], UNCHANGED <<held, depth>>
    PROVE  Counted'
  BY DEF Counted, Entries

\* An operation that takes the lock counts one entry.
LEMMA BeginCounts ==
    ASSUME LockInv, Counted, NEW h \in Host, NEW v, NEW x, NEW d, NEW locked \in BOOLEAN,
           NEW event, Begin(h, v, x, d, locked, event)
    PROVE  Counted'
  <1>1. /\ at[h]["op"] = "idle"
        /\ at' = [at EXCEPT ![h]["op"] = IF event = "later" THEN "mutated" ELSE "ready"]
        /\ held' = IF locked THEN held \cup {h} ELSE held
        /\ depth' = IF locked THEN [depth EXCEPT ![h] = @ + 1] ELSE depth
    BY DEF Begin, Enter, disk
  <1>2. at \in [Host -> [Writer -> Stage]] /\ depth \in [Host -> Nat]
    BY DEF LockInv, LockShape
  <1>3. h \notin held /\ Entries(h, "op") = 0
    BY <1>1 DEF Counted, Entries
  <1>4. /\ at'[h]["op"] \in {"mutated", "ready"} /\ at'[h]["pre"] = at[h]["pre"]
        /\ \A g \in Host : g # h => at'[g] = at[g]
    BY <1>1, <1>2 DEF Writer
  <1>5. /\ Entries(h, "op")' = IF locked THEN 1 ELSE 0
        /\ Entries(h, "pre")' = Entries(h, "pre")
    BY <1>1, <1>3, <1>4 DEF Entries
  <1>6. depth'[h] = IF locked THEN depth[h] + 1 ELSE depth[h]
    BY <1>1, <1>2
  <1>7. depth'[h] <= Entries(h, "op")' + Entries(h, "pre")'
    BY <1>2, <1>3, <1>5, <1>6, EntriesNat DEF Counted
  <1>8. ASSUME NEW g \in Host, g # h
        PROVE  /\ depth'[g] <= Entries(g, "op")' + Entries(g, "pre")'
               /\ g \in held' => at'[g]["op"] # "idle"
    <2>1. depth'[g] = depth[g] /\ (g \in held' <=> g \in held) /\ at'[g] = at[g]
      BY <1>1, <1>2, <1>4, <1>8
    <2> QED BY <2>1 DEF Counted, Entries
  <1> QED BY <1>4, <1>7, <1>8 DEF Counted

\* A writer that leaves takes its own entries off the count.
LEMMA LeaveCounts ==
    ASSUME LockInv, Counted, NEW h \in Host, NEW w \in Writer, Leave(h, w)
    PROVE  Counted'
  <1>1. at \in [Host -> [Writer -> Stage]] /\ depth \in [Host -> Nat]
    BY DEF LockInv, LockShape
  <1>2. /\ at'[h][w] = "idle" /\ \A u \in Writer \ {w} : at'[h][u] = at[h][u]
        /\ \A g \in Host : g # h => at'[g] = at[g]
    BY <1>1 DEF Leave
  <1>3. held' = IF w = "op" THEN held \ {h} ELSE held
    BY DEF Leave
  <1>4. Entries(h, w)' = 0 /\ \A u \in Writer \ {w} : Entries(h, u)' = Entries(h, u)
    BY <1>2, <1>3 DEF Entries, Writer
  <1>5. depth'[h] <= IF depth[h] > Entries(h, w) THEN depth[h] - Entries(h, w) ELSE 0
    BY <1>1, EntriesNat DEF Leave
  <1>6. depth'[h] <= Entries(h, "op")' + Entries(h, "pre")'
    <2>1. depth[h] <= Entries(h, "op") + Entries(h, "pre")
      BY DEF Counted
    <2>2. depth'[h] \in Nat
      BY <1>1, EntriesNat DEF Leave
    <2>3. CASE w = "op"
      <3>1. Entries(h, "op")' = 0 /\ Entries(h, "pre")' = Entries(h, "pre")
        BY <1>4, <2>3 DEF Writer
      <3> QED BY <1>1, <1>5, <2>1, <2>2, <2>3, <3>1, EntriesNat
    <2>4. CASE w = "pre"
      <3>1. Entries(h, "pre")' = 0 /\ Entries(h, "op")' = Entries(h, "op")
        BY <1>4, <2>4 DEF Writer
      <3> QED BY <1>1, <1>5, <2>1, <2>2, <2>4, <3>1, EntriesNat
    <2> QED BY <2>3, <2>4 DEF Writer
  <1>7. h \in held' => at'[h]["op"] # "idle"
    BY <1>2, <1>3 DEF Counted, Writer
  <1>8. ASSUME NEW g \in Host, g # h
        PROVE  /\ depth'[g] <= Entries(g, "op")' + Entries(g, "pre")'
               /\ g \in held' => at'[g]["op"] # "idle"
    <2>1. depth'[g] = depth[g]
      BY <1>1, <1>8 DEF Leave
    <2>2. (g \in held' <=> g \in held) /\ at'[g] = at[g]
      BY <1>2, <1>3, <1>8
    <2> QED BY <2>1, <2>2 DEF Counted, Entries
  <1> QED BY <1>6, <1>7, <1>8 DEF Counted

\* Every step keeps the count.
LEMMA CountedStep ==
    ASSUME LockInv, StoreTypes, Counted, [StoreNext]_vars
    PROVE  Counted'
  <1>0. at \in [Host -> [Writer -> Stage]] /\ depth \in [Host -> Nat]
    BY DEF LockInv, LockShape
  <1>1. CASE UNCHANGED vars
    BY <1>1, CountedFrame DEF vars, disk
  <1>2. ASSUME NEW h \in Host, NEW x \in Change, Operate(h, x) PROVE Counted'
    <2>1. PICK v, d : \E locked \in BOOLEAN, event \in {"later", "now", "never"} :
                         Begun(h, x, v, d, locked, event)
      BY <1>2, OperateBegins DEF StoreTypes
    <2> QED BY <2>1, BeginCounts DEF Begun
  <1>3. ASSUME NEW h \in Host, HostRead(h) \/ Judge(h) \/ Reap(h) PROVE Counted'
    BY <1>3, CountedFrame DEF HostRead, Judge, Reap, disk
  <1>4. ASSUME NEW h \in Host, HostPreflight(h) \/ PushEvent(h) PROVE Counted'
    <2>1. /\ \A g \in Host, w \in Writer : at'[g][w] = "merged" <=> at[g][w] = "merged"
          /\ \A g \in Host : at'[g]["op"] = "idle" <=> at[g]["op"] = "idle"
          /\ UNCHANGED <<held, depth>>
      BY <1>0, <1>4 DEF HostPreflight, PushEvent, disk, Writer
    <2>2. \A g \in Host, w \in Writer : Entries(g, w)' = Entries(g, w)
      BY <2>1 DEF Entries
    <2> QED BY <2>1, <2>2 DEF Counted, Writer
  <1>5. ASSUME NEW h \in Host, NEW w \in Writer, Merge(h, w) PROVE Counted'
    <2>1. /\ at[h][w] = "ready" /\ at'[h][w] = "merged"
          /\ \A u \in Writer \ {w} : at'[h][u] = at[h][u]
          /\ \A g \in Host : g # h => at'[g] = at[g] /\ depth'[g] = depth[g]
          /\ depth'[h] = depth[h] + 1 /\ held' = held
      BY <1>0, <1>5 DEF Merge, Enter
    <2>2. Entries(h, w)' = Entries(h, w) + 1 /\ \A u \in Writer \ {w} : Entries(h, u)' = Entries(h, u)
      BY <2>1 DEF Entries
    <2>3. depth'[h] <= Entries(h, "op")' + Entries(h, "pre")'
      <3>1. depth[h] <= Entries(h, "op") + Entries(h, "pre")
        BY DEF Counted
      <3> QED BY <1>0, <2>1, <2>2, <3>1, EntriesNat DEF Writer
    <2>4. h \in held' => at'[h]["op"] # "idle"
      BY <2>1 DEF Counted, Writer
    <2>5. ASSUME NEW g \in Host, g # h
          PROVE  /\ depth'[g] <= Entries(g, "op")' + Entries(g, "pre")'
                 /\ g \in held' => at'[g]["op"] # "idle"
      BY <2>1, <2>5 DEF Counted, Entries
    <2> QED BY <2>3, <2>4, <2>5 DEF Counted
  <1>6. ASSUME NEW h \in Host, NEW w \in Writer, Write(h, w) \/ PersistFails(h, w) PROVE Counted'
    BY <1>6, LeaveCounts DEF Write, PersistFails
  <1>7. ASSUME NEW h \in Host, Crash(h) PROVE Counted'
    <2>1. /\ at'[h] = AllIdle /\ depth'[h] = 0 /\ held' = held \ {h}
          /\ \A g \in Host : g # h => at'[g] = at[g] /\ depth'[g] = depth[g]
      BY <1>0, <1>7 DEF Crash
    <2>2. depth'[h] <= Entries(h, "op")' + Entries(h, "pre")'
      BY <2>1 DEF Entries
    <2>3. ASSUME NEW g \in Host, g # h
          PROVE  /\ depth'[g] <= Entries(g, "op")' + Entries(g, "pre")'
                 /\ g \in held' => at'[g]["op"] # "idle"
      BY <2>1, <2>3 DEF Counted, Entries
    <2> QED BY <2>1, <2>2, <2>3 DEF Counted
  <1> QED BY <1>1, <1>2, <1>3, <1>4, <1>5, <1>6, <1>7 DEF StoreNext

\* Nobody is inside at the start.
LEMMA CountedInit == StoreInit => Counted
  BY DEF StoreInit, Counted, Entries, AllIdle

\* Whatever the processes, operations, crashes and failing persists: the file and
\* every memory copy of it hold well-typed Changes, and diskLockDepth never
\* exceeds the three entries a process can have.
THEOREM StoreKeepsTypes == StoreSpec => []StoreTypeOK
  <1>1. StoreInit => LockInv /\ StoreTypes /\ Counted
    BY LockInit, StoreTypesInit, CountedInit
  <1>2. (LockInv /\ StoreTypes /\ Counted) /\ [StoreNext]_vars => (LockInv /\ StoreTypes /\ Counted)'
    BY LockStep, StoreTypesStep, CountedStep
  <1>3. LockInv /\ StoreTypes /\ Counted => StoreTypeOK
    <2> SUFFICES ASSUME LockInv, StoreTypes, Counted PROVE StoreTypeOK
      OBVIOUS
    <2>1. \A h \in Host : Entries(h, "op") \in 0 .. 2 /\ Entries(h, "pre") \in 0 .. 1
      BY DEF Entries
    <2>2. ASSUME NEW h \in Host PROVE depth[h] \in 0 .. 3
      <3>1. depth[h] \in Nat
        BY DEF LockInv, LockShape
      <3>2. depth[h] <= Entries(h, "op") + Entries(h, "pre")
        BY DEF Counted
      <3> QED BY <2>1, <3>1, <3>2
    <2>3. depth \in [Host -> 0 .. 3]
      BY <2>2 DEF LockInv, LockShape
    <2> QED BY <2>3 DEF StoreTypeOK, LifecycleTypeOK, LockInv, LockShape, StoreTypes
  <1> QED BY <1>1, <1>2, <1>3, PTL DEF StoreSpec

-----------------------------------------------------------------------------
(* What holds of each process.                                             *)

\* An operation of the process is under way; its memory is not behind the file.
Busy(h)  == at[h]["op"] # "idle"
Fresh(h) == <<h, "op">> \notin behind /\ h \notin failed

\* Between operations a process that could persist has nothing to say.
Clean(h) ==
    LET p == host[h]
    IN  h \notin failed /\ ~Busy(h) =>
          /\ p.events = {} /\ p.bound = {} /\ p.gone = {}
          /\ p.reviewed = {} /\ p.claimed = {}

\* No event comes between the merge of an operation and its write.
Sent(h) == at[h]["op"] = "merged" => host[h].events \subseteq host[h].sent["op"]

\* While an operation is under way memory has its bindings, and all it made of
\* the Change, the deleted gates apart, once the audit event is there.
MemIs(h) ==
    LET j == host[h].job
        m == host[h].mem[j.x]
    IN  /\ Busy(h) => m.bindings = j.rec.bindings
        /\ at[h]["op"] \in {"ready", "merged"} => m = [j.rec EXCEPT !.gates = m.gates]

\* An operation speaks for its Change alone.
Own(h) ==
    LET p == host[h]
        j == p.job
    IN  h \notin failed /\ Busy(h) =>
          /\ p.events \cup p.reviewed \cup p.claimed \subseteq {j.x}
          /\ \A y \in Change, s \in Session :
                /\ <<y, s>> \in p.gone => y = j.x /\ j.rec.bindings[s] = "none"
                /\ <<y, s>> \in p.bound => y = j.x

\* What is about to be written is the merge with the file of now.
Snapshot(h) ==
    at[h]["op"] = "merged" /\ <<h, "op">> \notin torn => host[h].out["op"] = Merged(h)

\* The flags of an operation are those of the step from c to r.
Flags(p, x, c, r) ==
    /\ \A s \in Session :
          /\ <<x, s>> \in p.gone <=> (r.bindings[s] = "none" /\ c.bindings[s] # "none")
          /\ <<x, s>> \in p.bound <=> r.bindings[s] \notin {"none", c.bindings[s]}
    /\ x \in p.reviewed <=> r.reviews # c.reviews
    /\ x \in p.claimed <=> (c.state = "REPAIR" /\ r.state = "PREFLIGHT")
    /\ \/ p.mem[x].gates = r.gates
       \/ (p.mem[x].gates = {} /\ r.gates = c.gates)

\* A process that is not behind has the file in memory, but for the operation
\* under way, which is one that the file allows.
Basis(h) ==
    LET p == host[h]
        j == p.job
    IN  Fresh(h) =>
          /\ \A y \in Change : ~Busy(h) \/ y # j.x => Near(change[y], p.mem[y])
          /\ Busy(h) => MayLeave(change, j.x, j.rec) /\ Flags(p, j.x, change[j.x], j.rec)
          /\ at[h]["op"] \in {"ready", "merged"} =>
                j.x \in p.events \/ SameScalars(change[j.x], j.rec)
          /\ at[h]["op"] = "merged" => p.out["op"] = [change EXCEPT ![j.x] = j.rec]

\* What preflight results are written with is what the file has.
Idler(h) ==
    at[h]["pre"] = "merged" /\ <<h, "pre">> \notin behind /\ h \notin failed
        => host[h].out["pre"] = change

\* All of it.
HostInv(h) ==
    Clean(h) /\ Sent(h) /\ MemIs(h) /\ Own(h) /\ Snapshot(h) /\ Basis(h) /\ Idler(h)

\* A record is near itself.
LEMMA NearItself == ASSUME NEW c \in Record PROVE Near(c, c)
  BY DEF Near, Record

\* A process whose variables stay keeps its invariant while the file stays.
LEMMA HostFrame ==
    ASSUME NEW g \in Host, HostInv(g), change' = change,
           host'[g] = host[g], at'[g] = at[g],
           g \in failed' <=> g \in failed,
           \A w \in Writer : /\ <<g, w>> \in behind' <=> <<g, w>> \in behind
                             /\ <<g, w>> \in torn' <=> <<g, w>> \in torn
    PROVE  HostInv(g)'
  <1>1. Busy(g)' = Busy(g) /\ (Fresh(g)' <=> Fresh(g))
    BY DEF Busy, Fresh, Writer
  <1>2. Clean(g)' /\ Sent(g)' /\ MemIs(g)' /\ Own(g)'
    BY <1>1 DEF HostInv, Clean, Sent, MemIs, Own
  <1>3. Snapshot(g)'
    <2>1. Merged(g)' = Merged(g)
      BY DEF Merged
    <2> QED BY <2>1 DEF HostInv, Snapshot, Writer
  <1>4. Basis(g)'
    BY <1>1 DEF HostInv, Basis
  <1>5. Idler(g)'
    BY DEF HostInv, Idler, Writer
  <1> QED BY <1>2, <1>3, <1>4, <1>5 DEF HostInv

\* What an operation may leave as memory sees it, it may leave on file.
LEMMA MayLeaveNear ==
    ASSUME change \in [Change -> Record], NEW v \in [Change -> Record], NEW x \in Change, NEW d,
           \A y \in Change : Near(change[y], v[y]), v[x] = change[x], MayLeave(v, x, d)
    PROVE  MayLeave(change, x, d)
  <1>1. \A y \in Change : v[y].state = change[y].state /\ v[y].item = change[y].item
    BY DEF Near, Record
  <1>2. ASSUME NEW item, CanCreate(v, x, item) PROVE CanCreate(change, x, item)
    BY <1>1, <1>2 DEF CanCreate, IsNonterminal
  <1> QED BY <1>2 DEF MayLeave

\* An operation that begins on a process that is not behind, afterwards.
LEMMA BeginBasis ==
    ASSUME StoreTypes, NEW h \in Host, HostInv(h), ~Busy(h), NEW x \in Change, NEW v, NEW d,
           NEW locked, NEW event \in {"later", "now", "never"}, Begun(h, x, v, d, locked, event), Fresh(h)'
    PROVE  LET r == JobRecord(x, d)
               p == BegunProcess(host[h], v, x, d, event)
           IN  /\ \A y \in Change : y # x => Near(change[y], p.mem[y])
               /\ MayLeave(change, x, r) /\ Flags(p, x, change[x], r)
               /\ event # "later" => x \in p.events \/ SameScalars(change[x], r)
  <1> DEFINE r == JobRecord(x, d)
             p == BegunProcess(host[h], v, x, d, event)
             c == change[x]
  <1>1. /\ v \in [Change -> Record] /\ Effect(v[x], d) /\ d \in Record
        /\ change \in [Change -> Record] /\ host[h] \in Process
    BY BeginTypes DEF StoreTypes
  <1>2. /\ r \in Record /\ r = [d EXCEPT !.gates = r.gates]
        /\ r.gates = IF d.gates = {} THEN c.gates ELSE d.gates
    BY <1>1, JobRecordType
  <1>3. h \notin failed
    BY DEF Fresh, Begun, Begin
  <1>4. /\ host[h].events = {} /\ host[h].bound = {} /\ host[h].gone = {}
        /\ host[h].reviewed = {} /\ host[h].claimed = {}
    BY <1>3 DEF HostInv, Clean
  <1>5. /\ p.mem = Written(v, x, d, event)
        /\ event = "now" => x \in p.events
        /\ \A s \in Session :
              /\ <<x, s>> \in p.gone <=> (d.bindings[s] = "none" /\ v[x].bindings[s] # "none")
              /\ <<x, s>> \in p.bound <=> d.bindings[s] \notin {"none", v[x].bindings[s]}
        /\ x \in p.reviewed <=> d.reviews # v[x].reviews
        /\ x \in p.claimed <=> (v[x].state = "REPAIR" /\ d.state = "PREFLIGHT")
    BY <1>1, <1>4 DEF BegunProcess, Process
  <1>6. /\ \A y \in Change : y # x => p.mem[y] = v[y]
        /\ p.mem[x].gates = IF event = "later" /\ d.risk # v[x].risk THEN {} ELSE d.gates
    <2>1. Early(v[x], d).gates = IF d.risk # v[x].risk THEN {} ELSE d.gates
      BY <1>1, EarlyType DEF Effect
    <2> QED BY <1>1, <1>5, <2>1 DEF Written
  <1>7. event # "later" => event = "now" \/ SameScalars(v[x], d)
    BY DEF Begun
  <1>8. Fresh(h) => \A y \in Change : Near(change[y], host[h].mem[y])
    BY DEF HostInv, Basis
  <1>9. \/ /\ \A y \in Change : Near(change[y], v[y])
           /\ v[x] = c /\ MayLeave(change, x, d)
        \/ /\ \A y \in Change : Near(change[y], v[y])
           /\ d = v[x] /\ d.state # "ABSENT"
    <2>1. \A y \in Change : Near(change[y], change[y])
      BY <1>1, NearItself
    <2>2. CASE v = Refreshed(h) /\ behind' = UpToDate(h)
      <3>1. Refreshed(h) = change
        <4>1. CASE Fresh(h)
          BY <1>1, <1>8, <4>1, RefreshedNear
        <4>2. CASE ~Fresh(h)
          BY <1>3, <2>2, <4>2 DEF Fresh, UpToDate
        <4> QED BY <4>1, <4>2
      <3>2. v = change
        BY <2>2, <3>1
      <3> QED BY <2>1, <3>2 DEF Begun
    <2>3. CASE /\ v = host[h].mem /\ UNCHANGED behind
               /\ (d = v[x] /\ d.state # "ABSENT") \/ v[x] = change[x]
      <3>1. Fresh(h)
        BY <1>3, <2>3 DEF Fresh
      <3>2. \A y \in Change : Near(change[y], v[y])
        BY <1>8, <2>3, <3>1
      <3>3. MayLeave(v, x, d)
        BY DEF Begun
      <3>4. v[x] = change[x] => MayLeave(change, x, d)
        BY <1>1, <3>2, <3>3, MayLeaveNear
      <3> QED BY <2>3, <3>2, <3>4
    <2> QED BY <2>2, <2>3 DEF Begun
  <1> HIDE DEF r, p, c
  <1>10. CASE v[x] = c /\ MayLeave(change, x, d)
    <2>1. r = d
      <3>1. r.gates = d.gates
        BY <1>1, <1>2, <1>10 DEF Effect
      <3> QED BY <1>1, <1>2, <3>1 DEF Record
    <2>2. Flags(p, x, c, r)
      BY <1>1, <1>5, <1>6, <1>10, <2>1 DEF Flags, Effect
    <2>3. event # "later" => x \in p.events \/ SameScalars(c, r)
      BY <1>5, <1>7, <1>10, <2>1
    <2>4. \A y \in Change : y # x => Near(change[y], p.mem[y])
      BY <1>6, <1>9
    <2> QED BY <1>10, <2>1, <2>2, <2>3, <2>4 DEF r, p, c
  <1>11. CASE d = v[x] /\ d.state # "ABSENT" /\ \A y \in Change : Near(change[y], v[y])
    <2>1. c \in Record /\ d = [c EXCEPT !.gates = d.gates] /\ d.gates \in {c.gates, {}}
      BY <1>1, <1>11 DEF Near, c
    <2>2. r = c
      <3>1. r.gates = c.gates
        BY <1>2, <2>1
      <3> QED BY <1>2, <2>1, <3>1 DEF Record
    <2>3. d.bindings = c.bindings /\ d.reviews = c.reviews /\ d.state = c.state
      BY <2>1 DEF Record
    <2>4. MayLeave(change, x, r)
      BY <1>11, <2>2, <2>3 DEF MayLeave, c
    <2>5. Flags(p, x, c, r)
      BY <1>5, <1>6, <1>11, <2>1, <2>2, <2>3 DEF Flags
    <2>6. SameScalars(c, r)
      BY <2>2 DEF SameScalars
    <2>7. \A y \in Change : y # x => Near(change[y], p.mem[y])
      BY <1>6, <1>11
    <2> QED BY <2>4, <2>5, <2>6, <2>7 DEF r, p, c
  <1> QED BY <1>9, <1>10, <1>11

\* What holds of each process, of all.
AllHosts == \A g \in Host : HostInv(g)

\* An operation begins.
LEMMA BeginInv ==
    ASSUME LockInv, StoreTypes, AllHosts, NEW h \in Host, NEW x \in Change, Operate(h, x)
    PROVE  AllHosts'
  <1>1. PICK v, d : \E locked \in BOOLEAN, event \in {"later", "now", "never"} :
                       Begun(h, x, v, d, locked, event)
    BY OperateBegins DEF StoreTypes
  <1>2. PICK locked \in BOOLEAN, event \in {"later", "now", "never"} :
                Begun(h, x, v, d, locked, event)
    BY <1>1
  <1> DEFINE p == BegunProcess(host[h], v, x, d, event)
             r == JobRecord(x, d)
  <1>3. /\ at[h]["op"] = "idle"
        /\ at' = [at EXCEPT ![h]["op"] = IF event = "later" THEN "mutated" ELSE "ready"]
        /\ UNCHANGED <<change, torn, failed>>
    BY <1>2 DEF Begun, Begin
  <1>4. /\ \A w \in Writer : at'[h][w] = IF w = "pre" THEN at[h]["pre"]
                                         ELSE IF event = "later" THEN "mutated" ELSE "ready"
        /\ \A g \in Host : g # h => at'[g] = at[g]
    BY <1>3 DEF LockInv, LockShape, Writer
  <1>5. host' = [g \in Host |-> IF g # h THEN host[g] ELSE p]
    BY <1>2, BeginWrites DEF Begun, StoreTypes
  <1>6. /\ v \in [Change -> Record] /\ Effect(v[x], d) /\ d \in Record
        /\ change \in [Change -> Record] /\ host[h] \in Process
    BY <1>2, BeginTypes DEF StoreTypes
  <1>7. /\ r \in Record /\ r = [d EXCEPT !.gates = r.gates]
    BY <1>6, JobRecordType
  <1>8. \A g \in Host, w \in Writer : <<g, w>> # <<h, "op">> =>
            (<<g, w>> \in behind' <=> <<g, w>> \in behind)
    BY <1>2 DEF Begun, UpToDate
  <1>9. ~Busy(h) /\ Busy(h)' /\ HostInv(h)
    BY <1>3, <1>4 DEF Busy, AllHosts, Writer
  <1>10. ASSUME NEW g \in Host, g # h PROVE HostInv(g)'
    BY <1>3, <1>4, <1>5, <1>8, <1>10, HostFrame DEF AllHosts
  <1>11. host'[h] = p
    BY <1>5
  <1>12. /\ p.mem = Written(v, x, d, event) /\ p.job = [x |-> x, rec |-> r]
         /\ p.out = host[h].out /\ p.sent = host[h].sent
         /\ p.events = IF event = "now" THEN host[h].events \cup {x} ELSE host[h].events
         /\ p.reviewed \subseteq host[h].reviewed \cup {x}
         /\ p.claimed \subseteq host[h].claimed \cup {x}
         /\ p.bound \subseteq host[h].bound \cup ({x} \X Session)
         /\ \A y \in Change, s \in Session :
               <<y, s>> \in p.gone => \/ <<y, s>> \in host[h].gone
                                      \/ y = x /\ d.bindings[s] = "none"
    BY <1>6 DEF BegunProcess, Process
  <1> HIDE DEF p, r
  <1>13. p.job.x = x /\ p.job.rec = r /\ r.bindings = d.bindings
    BY <1>6, <1>7, <1>12 DEF Record
  <1>14. Clean(h)' /\ Sent(h)' /\ Snapshot(h)'
    BY <1>4, <1>9 DEF Clean, Sent, Snapshot, Writer
  <1>15. MemIs(h)'
    <2>1. p.mem[x] = IF event = "later" THEN Early(v[x], d) ELSE d
      BY <1>6, <1>12 DEF Written
    <2>2. Early(v[x], d).bindings = d.bindings
      BY <1>6, EarlyType DEF Effect
    <2>3. p.mem[x].bindings = r.bindings
      BY <1>13, <2>1, <2>2
    <2>4. d = [r EXCEPT !.gates = d.gates]
      BY <1>6, <1>7 DEF Record
    <2>5. at'[h]["op"] \in {"ready", "merged"} => p.mem[x] = d
      BY <1>4, <2>1 DEF Writer
    <2> QED BY <1>11, <1>13, <2>3, <2>4, <2>5 DEF MemIs
  <1>16. Own(h)'
    <2> SUFFICES ASSUME h \notin failed
                 PROVE  /\ p.events \cup p.reviewed \cup p.claimed \subseteq {x}
                        /\ \A y \in Change, s \in Session :
                              /\ <<y, s>> \in p.gone => y = x /\ r.bindings[s] = "none"
                              /\ <<y, s>> \in p.bound => y = x
      BY <1>3, <1>11, <1>13 DEF Own
    <2>1. /\ host[h].events = {} /\ host[h].bound = {} /\ host[h].gone = {}
          /\ host[h].reviewed = {} /\ host[h].claimed = {}
      BY <1>9 DEF HostInv, Clean
    <2> QED BY <1>12, <1>13, <2>1
  <1>17. Basis(h)'
    <2> SUFFICES ASSUME Fresh(h)'
                 PROVE  /\ \A y \in Change : y # x => Near(change[y], p.mem[y])
                        /\ MayLeave(change, x, r) /\ Flags(p, x, change[x], r)
                        /\ event # "later" => x \in p.events \/ SameScalars(change[x], r)
      BY <1>3, <1>4, <1>9, <1>11, <1>13 DEF Basis, Writer
    <2> QED BY <1>2, <1>9, BeginBasis DEF p, r
  <1>18. Idler(h)'
    BY <1>3, <1>4, <1>8, <1>9, <1>11, <1>12 DEF HostInv, Idler, Writer
  <1>19. HostInv(h)'
    BY <1>14, <1>15, <1>16, <1>17, <1>18 DEF HostInv
  <1> QED BY <1>10, <1>19 DEF AllHosts

\* A read.
LEMMA ReadInv ==
    ASSUME LockInv, StoreTypes, AllHosts, NEW h \in Host, HostRead(h)
    PROVE  AllHosts'
  <1>1. /\ ~Busy(h) /\ UNCHANGED <<change, at, torn, failed>> /\ behind' = UpToDate(h)
        /\ host' = [host EXCEPT ![h].mem = Refreshed(h)]
    BY DEF HostRead, Busy
  <1>2. \A g \in Host, w \in Writer : <<g, w>> # <<h, "op">> =>
            (<<g, w>> \in behind' <=> <<g, w>> \in behind)
    BY <1>1 DEF UpToDate
  <1>3. /\ \A g \in Host : g # h => host'[g] = host[g]
        /\ host'[h].mem = Refreshed(h) /\ host'[h].events = host[h].events
        /\ host'[h].bound = host[h].bound /\ host'[h].gone = host[h].gone
        /\ host'[h].reviewed = host[h].reviewed /\ host'[h].claimed = host[h].claimed
        /\ host'[h].out = host[h].out /\ host'[h].sent = host[h].sent
    BY <1>1 DEF StoreTypes, Process
  <1>4. ASSUME NEW g \in Host, g # h PROVE HostInv(g)'
    BY <1>1, <1>2, <1>3, <1>4, HostFrame DEF AllHosts
  <1>5. HostInv(h)
    BY DEF AllHosts
  <1>6. ~Busy(h)' /\ at'[h] = at[h] /\ at[h]["op"] = "idle"
    BY <1>1 DEF Busy
  <1>7. Clean(h)'
    BY <1>1, <1>3, <1>5, <1>6 DEF HostInv, Clean
  <1>8. Sent(h)' /\ MemIs(h)' /\ Own(h)' /\ Snapshot(h)'
    BY <1>6 DEF Sent, MemIs, Own, Snapshot, Busy
  <1>9. Basis(h)'
    <2> SUFFICES ASSUME Fresh(h)', NEW y \in Change PROVE Near(change[y], Refreshed(h)[y])
      BY <1>1, <1>3, <1>6 DEF Basis
    <2>1. Refreshed(h) = change
      <3>1. CASE Fresh(h)
        <4>1. \A z \in Change : Near(change[z], host[h].mem[z])
          BY <1>1, <1>5, <3>1 DEF HostInv, Basis
        <4> QED BY <4>1, RefreshedNear DEF StoreTypes
      <3>2. CASE ~Fresh(h)
        BY <1>1, <3>2 DEF Fresh, UpToDate
      <3> QED BY <3>1, <3>2
    <2> QED BY <2>1, NearItself DEF StoreTypes
  <1>10. Idler(h)'
    BY <1>1, <1>2, <1>3, <1>5, <1>6 DEF HostInv, Idler, Writer
  <1>11. HostInv(h)'
    BY <1>7, <1>8, <1>9, <1>10 DEF HostInv
  <1> QED BY <1>4, <1>11 DEF AllHosts

\* Preflight results are ready to be stored.
LEMMA PreflightInv ==
    ASSUME LockInv, StoreTypes, AllHosts, NEW h \in Host, HostPreflight(h)
    PROVE  AllHosts'
  <1>1. /\ UNCHANGED <<change, host, behind, torn, failed>>
        /\ at' = [at EXCEPT ![h]["pre"] = "ready"] /\ at[h]["op"] = "idle"
    BY DEF HostPreflight, ghosts
  <1>2. /\ at'[h]["op"] = at[h]["op"] /\ at'[h]["pre"] = "ready"
        /\ \A g \in Host : g # h => at'[g] = at[g]
    BY <1>1 DEF LockInv, LockShape, Writer
  <1>3. ASSUME NEW g \in Host, g # h PROVE HostInv(g)'
    BY <1>1, <1>2, <1>3, HostFrame DEF AllHosts
  <1>4. Merged(h)' = Merged(h)
    BY <1>1 DEF Merged
  <1>5. Busy(h)' = Busy(h) /\ (Fresh(h)' <=> Fresh(h)) /\ HostInv(h)
    BY <1>1, <1>2 DEF Busy, Fresh, AllHosts
  <1>6. Clean(h)' /\ Sent(h)' /\ MemIs(h)' /\ Own(h)'
    BY <1>1, <1>2, <1>5 DEF HostInv, Clean, Sent, MemIs, Own
  <1>7. Snapshot(h)' /\ Idler(h)'
    BY <1>1, <1>2, <1>4, <1>5 DEF HostInv, Snapshot, Idler
  <1>8. Basis(h)'
    BY <1>1, <1>2, <1>5 DEF HostInv, Basis
  <1> QED BY <1>3, <1>5, <1>6, <1>7, <1>8 DEF HostInv, AllHosts

\* The audit event is there.
LEMMA PushInv ==
    ASSUME LockInv, StoreTypes, AllHosts, NEW h \in Host, PushEvent(h)
    PROVE  AllHosts'
  <1> DEFINE p == host[h]
             j == p.job
             m == p.mem
             q == host'[h]
  <1>1. /\ UNCHANGED <<change, behind, torn, failed>>
        /\ at' = [at EXCEPT ![h]["op"] = "ready"] /\ at[h]["op"] = "mutated"
    BY DEF PushEvent, ghosts
  <1>2. /\ at'[h]["op"] = "ready" /\ at'[h]["pre"] = at[h]["pre"]
        /\ \A g \in Host : g # h => at'[g] = at[g]
    BY <1>1 DEF LockInv, LockShape, Writer
  <1>3. /\ q = [p EXCEPT !.mem = [m EXCEPT ![j.x] = InMemory(m[j.x], j.rec)],
                         !.events = p.events \cup {j.x}]
        /\ \A g \in Host : g # h => host'[g] = host[g]
    BY PushWrites
  <1>4. p \in Process /\ j.x \in Change /\ j.rec \in Record /\ m \in [Change -> Record]
    BY DEF StoreTypes, Process, Job
  <1>5. /\ q.mem = [m EXCEPT ![j.x] = InMemory(m[j.x], j.rec)] /\ q.events = p.events \cup {j.x}
        /\ q.bound = p.bound /\ q.gone = p.gone /\ q.reviewed = p.reviewed
        /\ q.claimed = p.claimed /\ q.job = j /\ q.out = p.out /\ q.sent = p.sent
    BY <1>3, <1>4 DEF Process
  <1>6. /\ q.mem[j.x] = InMemory(m[j.x], j.rec) /\ \A y \in Change : y # j.x => q.mem[y] = m[y]
    BY <1>4, <1>5
  <1>7. /\ q.mem[j.x] = [j.rec EXCEPT !.gates = q.mem[j.x].gates]
        /\ q.mem[j.x].gates = m[j.x].gates /\ q.mem[j.x].bindings = j.rec.bindings
    <2> DEFINE z == InMemory(m[j.x], j.rec)
    <2>1. z = [j.rec EXCEPT !.gates = m[j.x].gates] /\ z.gates = m[j.x].gates
      BY <1>4, InMemoryType
    <2>2. z.bindings = j.rec.bindings
      BY <1>4, <2>1 DEF Record
    <2> HIDE DEF z
    <2> QED BY <1>6, <2>1, <2>2 DEF z
  <1>8. ASSUME NEW g \in Host, g # h PROVE HostInv(g)'
    BY <1>1, <1>2, <1>3, <1>8, HostFrame DEF AllHosts
  <1>9. Busy(h) /\ Busy(h)' /\ (Fresh(h)' <=> Fresh(h)) /\ HostInv(h)
    BY <1>1, <1>2 DEF Busy, Fresh, AllHosts
  <1> HIDE DEF q
  <1>10. Clean(h)' /\ Sent(h)' /\ Snapshot(h)'
    BY <1>2, <1>9 DEF Clean, Sent, Snapshot
  <1>11. MemIs(h)'
    BY <1>5, <1>7 DEF MemIs, q
  <1>12. Own(h)'
    <2>1. h \notin failed =>
            /\ p.events \cup p.reviewed \cup p.claimed \subseteq {j.x}
            /\ \A y \in Change, s \in Session :
                  /\ <<y, s>> \in p.gone => y = j.x /\ j.rec.bindings[s] = "none"
                  /\ <<y, s>> \in p.bound => y = j.x
      BY <1>9 DEF HostInv, Own
    <2>2. h \notin failed =>
            /\ q.events \cup q.reviewed \cup q.claimed \subseteq {q.job.x}
            /\ \A y \in Change, s \in Session :
                  /\ <<y, s>> \in q.gone => y = q.job.x /\ q.job.rec.bindings[s] = "none"
                  /\ <<y, s>> \in q.bound => y = q.job.x
      BY <1>5, <2>1
    <2> QED BY <1>1, <2>2 DEF Own, q
  <1>13. Basis(h)'
    <2> SUFFICES ASSUME Fresh(h)
                 PROVE  /\ \A y \in Change : y # q.job.x => Near(change[y], q.mem[y])
                        /\ MayLeave(change, q.job.x, q.job.rec)
                        /\ Flags(q, q.job.x, change[q.job.x], q.job.rec)
                        /\ q.job.x \in q.events
      BY <1>1, <1>2, <1>9 DEF Basis, q
    <2>1. /\ \A y \in Change : y # j.x => Near(change[y], m[y])
          /\ MayLeave(change, j.x, j.rec) /\ Flags(p, j.x, change[j.x], j.rec)
      BY <1>9 DEF HostInv, Basis
    <2>2. Flags(q, j.x, change[j.x], j.rec)
      BY <1>5, <1>7, <2>1 DEF Flags
    <2> QED BY <1>5, <1>6, <2>1, <2>2
  <1>14. Idler(h)'
    BY <1>1, <1>2, <1>5, <1>9 DEF HostInv, Idler, q
  <1>15. HostInv(h)'
    BY <1>10, <1>11, <1>12, <1>13, <1>14 DEF HostInv
  <1> QED BY <1>8, <1>15 DEF AllHosts

\* A merge looks at the memory and the flags of its process alone.
LEMMA MergedSame ==
    ASSUME NEW h \in Host, change' = change, host'[h].mem = host[h].mem,
           host'[h].events = host[h].events, host'[h].bound = host[h].bound,
           host'[h].gone = host[h].gone, host'[h].reviewed = host[h].reviewed,
           host'[h].claimed = host[h].claimed
    PROVE  Merged(h)' = Merged(h)
  BY DEF Merged, MergedRecord

\* The merge of an operation that is not behind is what it decided.
LEMMA MergedOfOperation ==
    ASSUME StoreTypes, NEW h \in Host, HostInv(h), Fresh(h), at[h]["op"] = "ready"
    PROVE  Merged(h) = [change EXCEPT ![host[h].job.x] = host[h].job.rec]
  <1> DEFINE p == host[h]
             x == p.job.x
             r == p.job.rec
  <1>1. /\ p \in Process /\ x \in Change /\ r \in Record
        /\ change \in [Change -> Record] /\ p.mem \in [Change -> Record]
    BY DEF StoreTypes, Process, Job
  <1>2. /\ \A y \in Change : y # x => Near(change[y], p.mem[y])
        /\ MayLeave(change, x, r) /\ Flags(p, x, change[x], r)
        /\ x \in p.events \/ SameScalars(change[x], r)
    BY DEF HostInv, Basis, Busy
  <1>3. /\ p.events \cup p.reviewed \cup p.claimed \subseteq {x}
        /\ \A y \in Change, s \in Session : <<y, s>> \in p.gone \cup p.bound => y = x
    BY DEF HostInv, Own, Busy, Fresh
  <1>4. p.mem[x] = [r EXCEPT !.gates = p.mem[x].gates]
    BY DEF HostInv, MemIs
  <1> HIDE DEF p, x, r
  <1>5. MergedRecord(p, x, change[x], p.mem[x]) = r
    <2> DEFINE c == change[x]
               m == p.mem[x]
    <2>1. c \in Record /\ m \in Record /\ Effect(c, r)
      BY <1>1, <1>2, Effects
    <2>2. /\ m = [r EXCEPT !.gates = m.gates]
          /\ m.gates = r.gates \/ (m.gates = {} /\ r.gates = c.gates)
          /\ \A s \in Session :
                /\ <<x, s>> \in p.gone <=> (r.bindings[s] = "none" /\ c.bindings[s] # "none")
                /\ <<x, s>> \in p.bound <=> r.bindings[s] \notin {"none", c.bindings[s]}
          /\ x \in p.reviewed <=> r.reviews # c.reviews
          /\ x \in p.claimed <=> (c.state = "REPAIR" /\ r.state = "PREFLIGHT")
          /\ x \in p.events \/ SameScalars(c, r)
      BY <1>2, <1>4 DEF Flags
    <2> HIDE DEF c, m
    <2>3. MergedRecord(p, x, c, m) = r
      BY <1>1, <2>1, <2>2, MergedIs
    <2> QED BY <2>3 DEF c, m
  <1>6. ASSUME NEW y \in Change, y # x
        PROVE  MergedRecord(p, y, change[y], p.mem[y]) = change[y]
    <2>1. Near(change[y], p.mem[y]) /\ change[y] \in Record /\ p.mem[y] \in Record
      BY <1>1, <1>2, <1>6
    <2>2. \A s \in Session : <<y, s>> \notin p.gone \cup p.bound
      BY <1>3, <1>6
    <2>3. y \notin p.reviewed \cup p.claimed \cup p.events
      BY <1>3, <1>6
    <2> QED BY <2>1, <2>2, <2>3, MergedIsSame
  <1> QED BY <1>1, <1>5, <1>6 DEF Merged, p, x, r

\* Without an operation there is nothing to merge.
LEMMA MergedOfIdle ==
    ASSUME StoreTypes, NEW h \in Host, HostInv(h), Fresh(h), ~Busy(h)
    PROVE  Merged(h) = change
  <1>1. host[h] \in Process /\ host[h].mem \in [Change -> Record] /\ change \in [Change -> Record]
    BY DEF StoreTypes, Process
  <1>2. ASSUME NEW y \in Change
        PROVE  MergedRecord(host[h], y, change[y], host[h].mem[y]) = change[y]
    <2>1. Near(change[y], host[h].mem[y]) /\ change[y] \in Record /\ host[h].mem[y] \in Record
      BY <1>1 DEF HostInv, Basis
    <2>2. /\ host[h].events = {} /\ host[h].bound = {} /\ host[h].gone = {}
          /\ host[h].reviewed = {} /\ host[h].claimed = {}
      BY DEF HostInv, Clean, Fresh
    <2> QED BY <2>1, <2>2, MergedIsSame
  <1> QED BY <1>1, <1>2 DEF Merged

\* A merge, of an operation or of preflight results.
LEMMA MergeInv ==
    ASSUME LockInv, StoreTypes, AllHosts, NEW h \in Host, NEW w \in Writer, Merge(h, w)
    PROVE  AllHosts'
  <1> DEFINE p == host[h]
             q == host'[h]
  <1>1. /\ UNCHANGED <<change, torn, failed>> /\ at[h][w] = "ready"
        /\ at' = [at EXCEPT ![h][w] = "merged"]
        /\ behind' = IF w = "pre" /\ (<<h, "op">> \in behind \/ Busy(h))
                       THEN behind \cup {<<h, w>>} ELSE behind
    BY DEF Merge, Busy
  <1>2. /\ at'[h][w] = "merged" /\ \A u \in Writer \ {w} : at'[h][u] = at[h][u]
        /\ \A g \in Host : g # h => at'[g] = at[g]
    BY <1>1 DEF LockInv, LockShape
  <1>3. p \in Process /\ p.out \in [Writer -> [Change -> Record]]
        /\ p.sent \in [Writer -> SUBSET Change]
    BY DEF StoreTypes, Process
  <1>4. /\ q = [p EXCEPT !.out = [p.out EXCEPT ![w] = Merged(h)],
                         !.sent = [p.sent EXCEPT ![w] = p.events]]
        /\ \A g \in Host : g # h => host'[g] = host[g]
    BY MergeWrites
  <1>5. /\ q.mem = p.mem /\ q.events = p.events /\ q.bound = p.bound /\ q.gone = p.gone
        /\ q.reviewed = p.reviewed /\ q.claimed = p.claimed /\ q.job = p.job
        /\ q.out = [p.out EXCEPT ![w] = Merged(h)] /\ q.sent = [p.sent EXCEPT ![w] = p.events]
    BY <1>3, <1>4 DEF Process
  <1>6. ASSUME NEW g \in Host, g # h PROVE HostInv(g)'
    BY <1>1, <1>2, <1>4, <1>6, HostFrame DEF AllHosts
  <1>7. Busy(h)' = Busy(h) /\ (Fresh(h)' <=> Fresh(h)) /\ HostInv(h)
    BY <1>1, <1>2 DEF Busy, Fresh, AllHosts, Writer
  <1>8. Merged(h)' = Merged(h)
    BY <1>1, <1>5, MergedSame
  <1>9. Clean(h)' /\ Own(h)'
    BY <1>1, <1>5, <1>7 DEF HostInv, Clean, Own
  <1>10. CASE w = "op"
    <2>1. /\ at'[h]["op"] = "merged" /\ at'[h]["pre"] = at[h]["pre"] /\ behind' = behind
          /\ q.out["op"] = Merged(h) /\ q.sent["op"] = p.events /\ q.out["pre"] = p.out["pre"]
      BY <1>1, <1>2, <1>3, <1>5, <1>10 DEF Writer
    <2>2. Sent(h)' /\ MemIs(h)' /\ Snapshot(h)' /\ Idler(h)'
      BY <1>1, <1>5, <1>7, <1>8, <1>10, <2>1 DEF HostInv, Sent, MemIs, Snapshot, Idler
    <2>3. Basis(h)'
      <3> SUFFICES ASSUME Fresh(h) PROVE Basis(h)'
        BY <1>7 DEF Basis
      <3>1. Merged(h) = [change EXCEPT ![p.job.x] = p.job.rec]
        BY <1>1, <1>7, <1>10, MergedOfOperation
      <3>2. /\ \A y \in Change : y # p.job.x => Near(change[y], p.mem[y])
            /\ MayLeave(change, p.job.x, p.job.rec)
            /\ Flags(p, p.job.x, change[p.job.x], p.job.rec)
            /\ p.job.x \in p.events \/ SameScalars(change[p.job.x], p.job.rec)
        BY <1>1, <1>7, <1>10 DEF HostInv, Basis, Busy
      <3>3. Flags(q, p.job.x, change[p.job.x], p.job.rec)
        BY <1>5, <3>2 DEF Flags
      <3>4. Busy(h)'
        BY <2>1 DEF Busy
      <3> QED BY <1>1, <1>5, <2>1, <3>1, <3>2, <3>3, <3>4 DEF Basis
    <2> QED BY <1>6, <1>7, <1>9, <2>2, <2>3 DEF AllHosts, HostInv
  <1>11. CASE w = "pre"
    <2>1. /\ at'[h]["pre"] = "merged" /\ at'[h]["op"] = at[h]["op"]
          /\ q.out["pre"] = Merged(h) /\ q.sent["op"] = p.sent["op"] /\ q.out["op"] = p.out["op"]
      BY <1>2, <1>3, <1>5, <1>11 DEF Writer
    <2>2. Sent(h)' /\ MemIs(h)' /\ Snapshot(h)'
      BY <1>1, <1>5, <1>7, <1>8, <2>1 DEF HostInv, Sent, MemIs, Snapshot
    <2>3. Basis(h)'
      <3>1. \A y, c, r : Flags(p, y, c, r) => Flags(q, y, c, r)
        BY <1>5 DEF Flags
      <3> QED BY <1>1, <1>5, <1>7, <2>1, <3>1 DEF HostInv, Basis
    <2>4. Idler(h)'
      <3> SUFFICES ASSUME <<h, "pre">> \notin behind', h \notin failed PROVE q.out["pre"] = change
        BY <1>1 DEF Idler
      <3>1. Fresh(h) /\ ~Busy(h)
        BY <1>1, <1>11 DEF Fresh
      <3> QED BY <1>7, <2>1, <3>1, MergedOfIdle
    <2> QED BY <1>6, <1>7, <1>9, <2>2, <2>3, <2>4 DEF AllHosts, HostInv
  <1> QED BY <1>10, <1>11 DEF Writer

\* What a write leaves of a process.
LEMMA WriteFields ==
    ASSUME StoreTypes, NEW h \in Host, NEW w \in Writer, Write(h, w)
    PROVE  LET p == host[h]
               q == host'[h]
           IN  /\ q.mem = p.mem /\ q.events = p.events \ p.sent[w]
               /\ q.bound = {} /\ q.gone = {} /\ q.reviewed = {} /\ q.claimed = {}
               /\ q.job = IF w = "op" THEN NoJob ELSE p.job
               /\ \A u \in Writer \ {w} : q.out[u] = p.out[u] /\ q.sent[u] = p.sent[u]
               /\ \A g \in Host : g # h => host'[g] = host[g]
  <1> DEFINE p == host[h]
             q == host'[h]
             i == Idle(p, w)
             ou == [p.out EXCEPT ![w] = Nothing]
             se == [p.sent EXCEPT ![w] = {}]
             jo == IF w = "op" THEN NoJob ELSE p.job
             ev == i.events \ p.sent[w]
  <1>1. p \in Process
    BY DEF StoreTypes
  <1>2. i \in Process /\ i = [p EXCEPT !.out = ou, !.sent = se, !.job = jo]
    BY <1>1, IdleType
  <1>3. /\ q = [i EXCEPT !.events = ev, !.bound = {}, !.gone = {}, !.reviewed = {}, !.claimed = {}]
        /\ \A g \in Host : g # h => host'[g] = host[g]
    BY WriteWrites
  <1>4. /\ \A u \in Writer \ {w} : ou[u] = p.out[u] /\ se[u] = p.sent[u]
    BY <1>1 DEF Process
  <1> HIDE DEF i, ou, se, jo, q, p
  <1>5. i.mem = p.mem /\ i.events = p.events /\ i.out = ou /\ i.sent = se /\ i.job = jo
    BY <1>1, <1>2 DEF Process
  <1> HIDE DEF ev
  <1>6. /\ q.mem = i.mem /\ q.events = ev /\ q.out = i.out /\ q.sent = i.sent /\ q.job = i.job
        /\ q.bound = {} /\ q.gone = {} /\ q.reviewed = {} /\ q.claimed = {}
    BY <1>2, <1>3 DEF Process
  <1> QED BY <1>3, <1>4, <1>5, <1>6 DEF ev, jo, p, q

\* A write: other processes are behind now, and so is another writer of this one.
LEMMA WriteInv ==
    ASSUME LockInv, StoreTypes, AllHosts, NEW h \in Host, NEW w \in Writer, Write(h, w)
    PROVE  AllHosts'
  <1> DEFINE p == host[h]
             q == host'[h]
  <1>1. /\ at[h][w] = "merged" /\ change' = p.out[w]
        /\ at' = [at EXCEPT ![h][w] = "idle"]
        /\ behind' = (IF w = "pre" THEN behind \ {<<h, w>>} ELSE behind) \cup Overtaken(h, w)
        /\ torn' = (torn \ {<<h, w>>}) \cup
                 {v \in (Host \X Writer) \ {<<h, w>>} : at[v[1]][v[2]] = "merged"}
        /\ failed' = IF w = "op" THEN failed \ {h} ELSE failed
    BY DEF Write, Leave
  <1>2. /\ at'[h][w] = "idle" /\ \A u \in Writer \ {w} : at'[h][u] = at[h][u]
        /\ \A g \in Host : g # h => at'[g] = at[g]
    BY <1>1 DEF LockInv, LockShape
  <1>3. /\ q.mem = p.mem /\ q.events = p.events \ p.sent[w]
        /\ q.bound = {} /\ q.gone = {} /\ q.reviewed = {} /\ q.claimed = {}
        /\ q.job = IF w = "op" THEN NoJob ELSE p.job
        /\ \A u \in Writer \ {w} : q.out[u] = p.out[u] /\ q.sent[u] = p.sent[u]
        /\ \A g \in Host : g # h => host'[g] = host[g]
    BY WriteFields
  <1>4. /\ \A g \in Host, u \in Writer : <<g, u>> # <<h, w>> /\ at[g][u] = "merged" =>
              <<g, u>> \in behind' /\ <<g, u>> \in torn'
        /\ \A g \in Host : g # h => <<g, "op">> \in behind'
        /\ w # "op" /\ at[h]["op"] # "idle" => <<h, "op">> \in behind'
        /\ h \in failed \/ <<h, w>> \in behind => <<h, "op">> \in behind'
        /\ <<h, "op">> \in behind => <<h, "op">> \in behind'
    BY <1>1 DEF Overtaken, Writer
  <1>5. ASSUME NEW g \in Host, g # h PROVE HostInv(g)'
    <2>1. HostInv(g) /\ host'[g] = host[g] /\ at'[g] = at[g] /\ (g \in failed' <=> g \in failed)
      BY <1>1, <1>2, <1>3, <1>5 DEF AllHosts
    <2>2. Clean(g)' /\ Sent(g)' /\ MemIs(g)' /\ Own(g)'
      BY <2>1 DEF HostInv, Clean, Sent, MemIs, Own, Busy
    <2>3. Snapshot(g)' /\ Idler(g)' /\ Basis(g)'
      BY <1>4, <1>5, <2>1 DEF Snapshot, Idler, Basis, Fresh, Writer
    <2> QED BY <2>2, <2>3 DEF HostInv
  <1>6. HostInv(h)
    BY DEF AllHosts
  <1> HIDE DEF q
  <1>7. CASE w = "op"
    <2>1. at'[h]["op"] = "idle" /\ at'[h]["pre"] = at[h]["pre"] /\ ~Busy(h)'
      BY <1>2, <1>7 DEF Busy, Writer
    <2>2. Clean(h)'
      <3>1. p.events \subseteq p.sent["op"]
        BY <1>1, <1>6, <1>7 DEF HostInv, Sent
      <3>2. q.events = {}
        BY <1>3, <1>7, <3>1
      <3> QED BY <1>3, <3>2 DEF Clean, q
    <2>3. Sent(h)' /\ MemIs(h)' /\ Own(h)' /\ Snapshot(h)'
      BY <2>1 DEF Sent, MemIs, Own, Snapshot, Busy
    <2>4. Basis(h)'
      <3> SUFFICES ASSUME Fresh(h)', NEW y \in Change PROVE Near(change'[y], q.mem[y])
        BY <2>1 DEF Basis, q
      <3>1. Fresh(h)
        BY <1>4, <1>7 DEF Fresh
      <3>2. /\ \A z \in Change : z # p.job.x => Near(change[z], p.mem[z])
            /\ Flags(p, p.job.x, change[p.job.x], p.job.rec)
            /\ p.out["op"] = [change EXCEPT ![p.job.x] = p.job.rec]
        BY <1>1, <1>6, <1>7, <3>1 DEF HostInv, Basis, Busy
      <3>3. p.mem[p.job.x] = [p.job.rec EXCEPT !.gates = p.mem[p.job.x].gates]
        BY <1>1, <1>6, <1>7 DEF HostInv, MemIs
      <3>4. Near(p.job.rec, p.mem[p.job.x])
        BY <3>2, <3>3 DEF Near, Flags
      <3>5. change' = [change EXCEPT ![p.job.x] = p.job.rec]
        BY <1>1, <1>7, <3>2
      <3>6. change \in [Change -> Record] /\ p.job.x \in Change
        BY DEF StoreTypes, Process, Job
      <3> QED BY <1>3, <3>2, <3>4, <3>5, <3>6
    <2>5. Idler(h)'
      BY <1>4, <1>7, <2>1 DEF Idler, Writer
    <2> QED BY <1>5, <2>2, <2>3, <2>4, <2>5 DEF AllHosts, HostInv
  <1>8. CASE w = "pre"
    <2>1. /\ at'[h]["pre"] = "idle" /\ at'[h]["op"] = at[h]["op"] /\ Busy(h)' = Busy(h)
          /\ failed' = failed /\ q.job = p.job /\ q.out["op"] = p.out["op"]
          /\ q.sent["op"] = p.sent["op"]
      BY <1>1, <1>2, <1>3, <1>8 DEF Busy, Writer
    <2>2. Clean(h)' /\ Sent(h)' /\ MemIs(h)'
      BY <1>3, <1>6, <2>1 DEF HostInv, Clean, Sent, MemIs, q
    <2>3. Own(h)'
      BY <1>3, <1>6, <2>1 DEF HostInv, Own, q
    <2>4. Snapshot(h)' /\ Idler(h)'
      BY <1>4, <1>8, <2>1 DEF Snapshot, Idler, Writer
    <2>5. Basis(h)'
      <3>1. CASE Fresh(h)'
        <4>1. Fresh(h) /\ <<h, "pre">> \notin behind /\ ~Busy(h)
          BY <1>4, <1>8, <2>1, <3>1 DEF Fresh, Busy
        <4>2. change' = change
          BY <1>1, <1>6, <1>8, <4>1 DEF HostInv, Idler, Fresh
        <4>3. \A y \in Change : Near(change[y], p.mem[y])
          BY <1>6, <4>1 DEF HostInv, Basis
        <4> QED BY <1>3, <2>1, <4>1, <4>2, <4>3 DEF Basis, Busy, q
      <3>2. CASE ~Fresh(h)'
        BY <3>2 DEF Basis
      <3> QED BY <3>1, <3>2
    <2> QED BY <1>5, <2>2, <2>3, <2>4, <2>5 DEF AllHosts, HostInv
  <1> QED BY <1>7, <1>8 DEF Writer

\* A persist that fails.
LEMMA FailInv ==
    ASSUME LockInv, StoreTypes, AllHosts, NEW h \in Host, NEW w \in Writer, PersistFails(h, w)
    PROVE  AllHosts'
  <1> DEFINE p == host[h]
             q == host'[h]
  <1>1. /\ change' = change /\ host' = [host EXCEPT ![h] = Idle(p, w)]
        /\ at' = [at EXCEPT ![h][w] = "idle"]
        /\ behind' = IF w = "pre" THEN behind \ {<<h, w>>} ELSE behind
        /\ torn' = torn \ {<<h, w>>}
        /\ failed' = IF w = "op" THEN failed \cup {h} ELSE failed
    BY DEF PersistFails, Leave
  <1>2. /\ at'[h][w] = "idle" /\ \A u \in Writer \ {w} : at'[h][u] = at[h][u]
        /\ \A g \in Host : g # h => at'[g] = at[g]
    BY <1>1 DEF LockInv, LockShape
  <1>3. q = Idle(p, w) /\ \A g \in Host : g # h => host'[g] = host[g]
    BY <1>1 DEF StoreTypes
  <1>4. ASSUME NEW g \in Host, g # h PROVE HostInv(g)'
    BY <1>1, <1>2, <1>3, <1>4, HostFrame DEF AllHosts
  <1>5. CASE w = "op"
    <2>1. h \in failed' /\ at'[h]["op"] = "idle" /\ ~Busy(h)'
      BY <1>1, <1>2, <1>5 DEF Busy
    <2>2. HostInv(h)'
      BY <2>1 DEF HostInv, Clean, Sent, MemIs, Own, Snapshot, Basis, Idler, Fresh, Busy
    <2> QED BY <1>4, <2>2 DEF AllHosts
  <1>6. CASE w = "pre"
    <2>1. /\ at'[h]["pre"] = "idle" /\ at'[h]["op"] = at[h]["op"] /\ Busy(h)' = Busy(h)
          /\ failed' = failed /\ (<<h, "op">> \in behind' <=> <<h, "op">> \in behind)
          /\ (<<h, "op">> \in torn' <=> <<h, "op">> \in torn)
      BY <1>1, <1>2, <1>6 DEF Busy, Writer
    <2>2. /\ q.mem = p.mem /\ q.events = p.events /\ q.bound = p.bound /\ q.gone = p.gone
          /\ q.reviewed = p.reviewed /\ q.claimed = p.claimed /\ q.job = p.job
          /\ q.out["op"] = p.out["op"] /\ q.sent["op"] = p.sent["op"]
      <3> DEFINE ou == [p.out EXCEPT !["pre"] = Nothing]
                 se == [p.sent EXCEPT !["pre"] = {}]
      <3>1. p \in Process
        BY DEF StoreTypes
      <3>2. q = [p EXCEPT !.out = ou, !.sent = se, !.job = p.job]
        BY <1>3, <1>6, <3>1, IdleType
      <3>3. ou["op"] = p.out["op"] /\ se["op"] = p.sent["op"]
        BY <3>1 DEF Process, Writer
      <3> HIDE DEF q, p, ou, se
      <3> QED BY <3>1, <3>2, <3>3 DEF Process
    <2> HIDE DEF q
    <2>3. Fresh(h)' <=> Fresh(h)
      BY <2>1 DEF Fresh
    <2>4. HostInv(h)
      BY DEF AllHosts
    <2>5. Clean(h)' /\ Sent(h)' /\ MemIs(h)' /\ Own(h)'
      BY <2>1, <2>2, <2>4 DEF HostInv, Clean, Sent, MemIs, Own, q
    <2>6. Snapshot(h)'
      <3>1. Merged(h)' = Merged(h)
        BY <1>1, <2>2, MergedSame DEF q
      <3> QED BY <2>1, <2>2, <2>4, <3>1 DEF HostInv, Snapshot, q
    <2>7. Basis(h)'
      <3>1. \A y, c, r : Flags(p, y, c, r) => Flags(q, y, c, r)
        BY <2>2 DEF Flags
      <3> QED BY <1>1, <2>1, <2>2, <2>3, <2>4, <3>1 DEF HostInv, Basis, q
    <2>8. Idler(h)'
      BY <2>1 DEF Idler
    <2> QED BY <1>4, <2>5, <2>6, <2>7, <2>8 DEF AllHosts, HostInv
  <1> QED BY <1>5, <1>6 DEF Writer

\* A crash.
LEMMA CrashInv ==
    ASSUME LockInv, StoreTypes, AllHosts, NEW h \in Host, Crash(h)
    PROVE  AllHosts'
  <1>1. /\ change' = change /\ host' = [host EXCEPT ![h] = Opened(change)]
        /\ at' = [at EXCEPT ![h] = AllIdle]
        /\ behind' = behind \ ({h} \X Writer) /\ torn' = torn \ ({h} \X Writer)
        /\ failed' = failed \ {h}
    BY DEF Crash
  <1>2. /\ at'[h] = AllIdle /\ host'[h] = Opened(change)
        /\ \A g \in Host : g # h => at'[g] = at[g] /\ host'[g] = host[g]
    BY <1>1 DEF LockInv, LockShape, StoreTypes
  <1>3. ASSUME NEW g \in Host, g # h PROVE HostInv(g)'
    BY <1>1, <1>2, <1>3, HostFrame DEF AllHosts
  <1>4. at'[h]["op"] = "idle" /\ at'[h]["pre"] = "idle" /\ ~Busy(h)'
    BY <1>2 DEF AllIdle, Busy, Writer
  <1>5. /\ host'[h].mem = change /\ host'[h].events = {} /\ host'[h].bound = {}
        /\ host'[h].gone = {} /\ host'[h].reviewed = {} /\ host'[h].claimed = {}
    BY <1>2 DEF Opened
  <1>6. \A y \in Change : Near(change[y], change[y])
    BY NearItself DEF StoreTypes
  <1>7. HostInv(h)'
    BY <1>1, <1>4, <1>5, <1>6
    DEF HostInv, Clean, Sent, MemIs, Own, Snapshot, Basis, Idler, Busy
  <1> QED BY <1>3, <1>7 DEF AllHosts

\* Every step keeps what holds of every process.
LEMMA AllHostsStep ==
    ASSUME LockInv, StoreTypes, AllHosts, [StoreNext]_vars
    PROVE  AllHosts'
  <1>1. CASE UNCHANGED <<change, host, at, failed, behind, torn>>
    <2>1. ASSUME NEW g \in Host PROVE HostInv(g)'
      BY <1>1, HostFrame DEF AllHosts
    <2> QED BY <2>1 DEF AllHosts
  <1>2. ASSUME NEW h \in Host, Judge(h) \/ Reap(h) PROVE AllHosts'
    BY <1>1, <1>2 DEF Judge, Reap, ghosts
  <1>3. CASE UNCHANGED vars
    BY <1>1, <1>3 DEF vars, ghosts
  <1> QED
    BY <1>2, <1>3, BeginInv, ReadInv, PreflightInv, PushInv, MergeInv, WriteInv, FailInv, CrashInv
    DEF StoreNext

\* Processes that have just opened the file.
LEMMA AllHostsInit == StoreInit => AllHosts
  <1> SUFFICES ASSUME StoreInit, NEW h \in Host PROVE HostInv(h)
    BY DEF AllHosts
  <1>1. /\ at[h]["op"] = "idle" /\ at[h]["pre"] = "idle" /\ ~Busy(h)
        /\ host[h] = Opened(change)
    BY DEF StoreInit, AllIdle, Busy, Writer
  <1>2. /\ host[h].mem = change /\ host[h].events = {} /\ host[h].bound = {}
        /\ host[h].gone = {} /\ host[h].reviewed = {} /\ host[h].claimed = {}
    BY <1>1 DEF Opened
  <1>3. \A y \in Change : Near(change[y], change[y])
    BY StoreTypesInit, NearItself DEF StoreTypes
  <1> QED BY <1>1, <1>2, <1>3
          DEF HostInv, Clean, Sent, MemIs, Own, Snapshot, Basis, Idler, Busy

\* The inductive invariant of the store.
StoreInv == LockInv /\ StoreTypes /\ AllHosts

\* The three parts of the invariant together.
LEMMA StoreInvHolds == StoreSpec => []StoreInv
  <1>1. StoreInit => StoreInv
    BY LockInit, StoreTypesInit, AllHostsInit DEF StoreInv
  <1>2. StoreInv /\ [StoreNext]_vars => StoreInv'
    BY LockStep, StoreTypesStep, AllHostsStep DEF StoreInv
  <1> QED BY <1>1, <1>2, PTL DEF StoreSpec

\* What a merge of an operation keeps, from a memory however old.
LEMMA SnapshotKeeps ==
    ASSUME StoreTypes, NEW h \in Host, HostInv(h), NEW x \in Change,
           at[h]["op"] = "merged", <<h, "op">> \notin torn, h \notin failed
    PROVE  MergeKeeps(h, x)
  <1> DEFINE p == host[h]
             c == change[x]
             m == p.mem[x]
             j == p.job
             d == MergedRecord(p, x, c, m)
  <1>1. c \in Record /\ m \in Record /\ j.rec \in Record
    BY DEF StoreTypes, Process, Job
  <1>2. host[h].out["op"][x] = d
    BY DEF HostInv, Snapshot, Merged
  <1>3. /\ p.events \cup p.reviewed \cup p.claimed \subseteq {j.x}
        /\ \A s \in Session : /\ <<x, s>> \in p.gone => x = j.x /\ j.rec.bindings[s] = "none"
                              /\ <<x, s>> \in p.bound => x = j.x
    BY DEF HostInv, Own, Busy
  <1>4. x = j.x => m.bindings = j.rec.bindings
    BY DEF HostInv, MemIs, Busy
  <1> HIDE DEF p, c, m, j
  <1>5. /\ d.attempts = MergedAttempts(c, m)
        /\ d.bindings = [s \in Session |->
                          IF <<x, s>> \in p.gone THEN "none"
                          ELSE IF <<x, s>> \in p.bound /\ m.bindings[s] # "none"
                                 THEN m.bindings[s] ELSE c.bindings[s]]
        /\ d.plans = MergedPlans(c, m, x \in p.events)
        /\ x \notin p.events => d.state = c.state
        /\ x \notin p.reviewed => d.reviews = c.reviews
        /\ x \notin p.claimed => d.claims = c.claims
    BY DEF MergedRecord
  <1> HIDE DEF d
  <1>6. /\ Len(c.attempts) <= Len(d.attempts)
        /\ SubSeq(d.attempts, 1, Len(c.attempts)) = c.attempts
    <2>1. c.attempts \in Seq(Attempt) /\ m.attempts \in Seq(Attempt)
      BY <1>1 DEF Record
    <2>2. /\ Len(c.attempts) <= Len(MergedAttempts(c, m))
          /\ SubSeq(MergedAttempts(c, m), 1, Len(c.attempts)) = c.attempts
      BY <2>1, MergedAttemptsKeep
    <2> QED BY <1>5, <2>2
  <1>7. ASSUME NEW s \in Session, d.bindings[s] # c.bindings[s]
        PROVE  x = j.x /\ d.bindings[s] = j.rec.bindings[s]
    BY <1>3, <1>4, <1>5, <1>7
  <1>8. ASSUME x # j.x
        PROVE  /\ d.state = c.state
               /\ \A i \in DOMAIN c.plans : i \in DOMAIN d.plans /\ d.plans[i] = c.plans[i]
               /\ d.reviews = c.reviews /\ d.claims = c.claims
    <2>1. x \notin p.events /\ x \notin p.reviewed /\ x \notin p.claimed
      BY <1>3, <1>8
    <2>2. \A i \in DOMAIN c.plans : i \in DOMAIN d.plans /\ d.plans[i] = c.plans[i]
      BY <1>5, <2>1 DEF MergedPlans
    <2> QED BY <1>5, <2>1, <2>2
  <1> QED BY <1>2, <1>6, <1>7, <1>8 DEF MergeKeeps, p, c, j

\* A persist from a memory however old keeps every attempt on file, the bindings
\* of other sessions and all of the Changes it has no event for, while nobody wrote
\* between its merge and its write (persistUnderLock).
THEOREM StaleWritersKeepAlways == StoreSpec => StaleWritersKeep
  <1> DEFINE A == \A h \in Host, x \in Change :
                     Write(h, "op") /\ <<h, "op">> \notin torn /\ h \notin failed => MergeKeeps(h, x)
  <1>1. StoreInv /\ [StoreNext]_vars => [A]_vars
    <2> SUFFICES ASSUME StoreInv, NEW h \in Host, NEW x \in Change, Write(h, "op"),
                        <<h, "op">> \notin torn, h \notin failed
                 PROVE  MergeKeeps(h, x)
      OBVIOUS
    <2>1. at[h]["op"] = "merged"
      BY DEF Write
    <2> QED BY <2>1, SnapshotKeeps DEF StoreInv, AllHosts
  <1> QED BY <1>1, StoreInvHolds, PTL DEF StoreSpec, StaleWritersKeep

\* A persist whose basis is not behind writes exactly what its operation decided,
\* and this is an operation of ChangeLifecycle; one of preflight results or audit
\* events alone changes no record.
THEOREM WritesAreLifecycleOperations == StoreSpec => WritesAreOperations
  <1> DEFINE A == \A h \in Host, w \in Writer :
                    Write(h, w) /\ <<h, w>> \notin behind /\ h \notin failed =>
                      IF w = "op"
                        THEN /\ change' = [change EXCEPT ![host[h].job.x] = host[h].job.rec]
                             /\ LifecycleNext \/ UNCHANGED change
                        ELSE UNCHANGED change
  <1>1. StoreInv /\ [StoreNext]_vars => [A]_vars
    <2> SUFFICES ASSUME StoreInv, NEW h \in Host, NEW w \in Writer, Write(h, w),
                        <<h, w>> \notin behind, h \notin failed
                 PROVE  IF w = "op"
                        THEN /\ change' = [change EXCEPT ![host[h].job.x] = host[h].job.rec]
                             /\ LifecycleNext \/ UNCHANGED change
                        ELSE UNCHANGED change
      OBVIOUS
    <2>1. HostInv(h) /\ at[h][w] = "merged" /\ change' = host[h].out[w] /\ StoreTypes
      BY DEF StoreInv, AllHosts, Write
    <2>2. CASE w = "op"
      <3>1. /\ MayLeave(change, host[h].job.x, host[h].job.rec)
            /\ host[h].out["op"] = [change EXCEPT ![host[h].job.x] = host[h].job.rec]
        BY <2>1, <2>2 DEF HostInv, Basis, Fresh, Busy
      <3>2. host[h].job.x \in Change /\ change \in [Change -> Record]
        BY <2>1 DEF StoreTypes, Process, Job
      <3>3. change' = [change EXCEPT ![host[h].job.x] = host[h].job.rec]
        BY <2>1, <2>2, <3>1
      <3>4. LifecycleNext \/ UNCHANGED change
        BY <3>1, <3>2, <3>3, LeavesAreOperations
      <3> QED BY <2>2, <3>3, <3>4
    <2>3. CASE w = "pre"
      BY <2>1, <2>3 DEF HostInv, Idler
    <2> QED BY <2>2, <2>3 DEF Writer
  <1> QED BY <1>1, StoreInvHolds, PTL DEF StoreSpec, WritesAreOperations
================================================================================
