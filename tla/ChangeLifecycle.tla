---------------------------- MODULE ChangeLifecycle ----------------------------
(***************************************************************************)
(* The life of Changes: the state machine of change-control/src/domain/    *)
(* change.js and the operations of ChangeStore (storage/change-store.js)   *)
(* that read and write a Change, each as one atomic step.  This is what    *)
(* the store promises; ChangeStore.tla models how a file, a memory copy    *)
(* per process and two kinds of lock bring it about.                       *)
(*                                                                         *)
(* Every operation is a condition Can...(c) and a resulting record         *)
(* With...(c), so that both modules use the same definitions.  A rejected  *)
(* call changes nothing and has no action.                                 *)
(*                                                                         *)
(* A finding is kept as the number of the review it is in, because only    *)
(* whether a review has blocking findings matters; plan digests, texts,    *)
(* times, preflight results and the roles that the store only records      *)
(* (planner) are left out.                                                 *)
(***************************************************************************)
EXTENDS Integers, Sequences

CONSTANTS Change,      \* change ids
          Session,     \* agent sessions
          Worker,      \* the worker identity of a worker binding
          Revision,    \* workspace revisions
          Content,     \* plan contents
          WorkItem,    \* external work items
          Risk,        \* the risk levels the host sets; 1 = low .. 3 = high
          NoItem,      \* workItem null
          NoSession,   \* an attempt without a known session
          NoRevision,  \* no proof, or no attempt
          Void,        \* the tombstone of an invalidated proof
          PlanBound,   \* bound on the plan revisions of a Change
          RoundBound   \* bound on the reviews of a Change

ASSUME LifecycleAssumption ==
    /\ Worker \cap {"none", "reviewer"} = {}
    /\ NoItem \notin WorkItem
    /\ NoSession \notin Session
    /\ {NoRevision, Void} \cap Revision = {} /\ NoRevision # Void
    /\ Risk \subseteq 1 .. 3
    /\ PlanBound \in Nat /\ RoundBound \in Nat

\* TRANSITIONS; the moves of a plan's life (READY back to PLANNED) are made
\* by submitPlan and acceptPlan outside it.
TRANSITIONS == [DRAFT        |-> {"PLANNED"},
                PLANNED      |-> {"READY"},
                READY        |-> {"IMPLEMENTING"},
                IMPLEMENTING |-> {"PREFLIGHT"},
                PREFLIGHT    |-> {"REVIEW"},
                REVIEW       |-> {"REPAIR", "APPROVED"},
                REPAIR       |-> {"PREFLIGHT"},
                APPROVED     |-> {}]

State == DOMAIN TRANSITIONS \cup {"ABSENT"}

\* The transitions that callers of `transition' ask for: the start of a
\* governed task, the proof tool's legacy plain text, and preflight.
AskedTransition == {<<"READY", "IMPLEMENTING">>, <<"IMPLEMENTING", "PREFLIGHT">>,
                    <<"PREFLIGHT", "REVIEW">>}

Binding == {"none", "reviewer"} \cup Worker

Plan    == [status : {"PLANNED", "ACCEPTED", "SUPERSEDED"}, content : Content]
Attempt == [kind : {"proof", "repair"}, rev : Revision,
            session : Session \cup {NoSession},   \* the session on record
            by : Session]        \* the caller; the store does not keep it
Review  == [session : Session, verdict : {"pass", "fail"}, rev : Revision,
            blocking : BOOLEAN]

Record == [state    : State,
           item     : WorkItem \cup {NoItem},
           plans    : Seq(Plan),
           accepted : Nat,          \* acceptedPlanId as a number; 0 is null
           bindings : [Session -> Binding],
           attempts : Seq(Attempt),
           proof    : Revision \cup {NoRevision, Void},
           reviews  : Seq(Review),
           claims   : SUBSET Nat,   \* reviews whose findings are claimed fixed
           risk     : 0 .. 3,
           gates    : SUBSET (1 .. 3)]  \* risks at which the gate was satisfied

Absent == [state |-> "ABSENT", item |-> NoItem, plans |-> <<>>, accepted |-> 0,
           bindings |-> [s \in Session |-> "none"], attempts |-> <<>>,
           proof |-> NoRevision, reviews |-> <<>>, claims |-> {}, risk |-> 0,
           gates |-> {}]

VARIABLE change   \* the durable record of each Change

-----------------------------------------------------------------------------
\* Reading a record

IsNonterminal(c) == c.state \notin {"ABSENT", "APPROVED"}

\* The revision of the last recorded attempt.
CurrentRevision(c) ==
    IF c.attempts = <<>> THEN NoRevision ELSE c.attempts[Len(c.attempts)].rev

\* The sessions bound as workers, and those on record as implementers.
BoundWorkers(c) == {s \in Session : c.bindings[s] \in Worker}
Implementers(c) == {c.attempts[i].session : i \in DOMAIN c.attempts}

\* The reviews with blocking findings.
Blocking(c) == {i \in DOMAIN c.reviews : c.reviews[i].blocking}

\* An attempt's id is made of its kind and its revision, and persist drops an
\* attempt whose id is on file.
AddAttempt(c, a) ==
    IF \E i \in DOMAIN c.attempts : c.attempts[i].kind = a.kind /\ c.attempts[i].rev = a.rev
      THEN c.attempts ELSE Append(c.attempts, a)

-----------------------------------------------------------------------------
\* create and findOrCreateForWorkItem; ch is the map of Changes they look at.

CanCreate(ch, x, item) ==
    /\ ch[x].state = "ABSENT"
    /\ item # NoItem => \A y \in DOMAIN ch : IsNonterminal(ch[y]) => ch[y].item # item

WithNew(c, item) == [c EXCEPT !.state = "DRAFT", !.item = item]

\* submitPlan: a new revision; a plan accepted before is superseded.
CanSubmitPlan(c) ==
    c.state \in {"DRAFT", "PLANNED", "READY"} /\ Len(c.plans) < PlanBound

WithPlan(c, k) ==
    [c EXCEPT !.state = "PLANNED", !.accepted = 0,
              !.plans = Append([i \in DOMAIN @ |->
                                  IF c.state = "READY" /\ @[i].status = "ACCEPTED"
                                    THEN [@[i] EXCEPT !.status = "SUPERSEDED"] ELSE @[i]],
                               [status |-> "PLANNED", content |-> k])]

\* acceptPlan: only the latest revision, only while the Change is PLANNED.
CanAcceptPlan(c) ==
    /\ c.state = "PLANNED"
    /\ c.plans # <<>> /\ c.plans[Len(c.plans)].status = "PLANNED"

WithAcceptedPlan(c) ==
    [c EXCEPT !.state = "READY", !.accepted = Len(c.plans),
              !.plans[Len(c.plans)].status = "ACCEPTED"]

\* updatePlan looks at the status of the plan alone.
CanUpdatePlan(c, i) == i \in DOMAIN c.plans /\ c.plans[i].status = "PLANNED"

WithUpdatedPlan(c, i, k) == [c EXCEPT !.plans[i].content = k]

\* transition
CanTransition(c, to) ==
    c.state # "ABSENT" /\ to \in TRANSITIONS[c.state] /\ <<c.state, to>> \in AskedTransition

WithState(c, to) == [c EXCEPT !.state = to]

\* bindRole without rebind, which no caller asks for, and unbindRole.
CanBind(c, s)    == c.state # "ABSENT" /\ c.bindings[s] = "none"
WithBinding(c, s, b) == [c EXCEPT !.bindings[s] = b]
CanUnbind(c, s)  == c.state # "ABSENT" /\ c.bindings[s] # "none"

\* submitProof: `by' is the caller, bound as a worker; s is the session that
\* goes on record: the caller when it is named (governed completion), some
\* worker session when it is not (the proof tool).
CanSubmitProof(c, s, by) ==
    c.state = "IMPLEMENTING" /\ {s, by} \subseteq BoundWorkers(c)

WithProof(c, rev, s, by) ==
    [c EXCEPT !.state = "PREFLIGHT", !.proof = rev,
              !.attempts = AddAttempt(c, [kind |-> "proof", rev |-> rev,
                                          session |-> s, by |-> by])]

CanInvalidateProof(c) == c.state # "ABSENT"
WithoutProof(c) == [c EXCEPT !.proof = Void]

\* Slip: the binding alone decides who reviews.
CanSubmitReviewBound(c, s) ==
    /\ c.state = "REVIEW" /\ Len(c.reviews) < RoundBound
    /\ c.bindings[s] = "reviewer"
    /\ CurrentRevision(c) # NoRevision

\* submitReview: a bound reviewer that is on record for no attempt, about
\* the current revision.
CanSubmitReview(c, s) ==
    /\ c.state = "REVIEW" /\ Len(c.reviews) < RoundBound
    /\ c.bindings[s] = "reviewer" /\ s \notin Implementers(c)
    /\ CurrentRevision(c) # NoRevision

\* <<verdict, has blocking findings>>; a pass cannot have any.
Outcome == {<<"pass", FALSE>>, <<"fail", FALSE>>, <<"fail", TRUE>>}

WithReview(c, s, o) ==
    [c EXCEPT !.state = IF o[1] = "pass" THEN "APPROVED" ELSE "REPAIR",
              !.reviews = Append(@, [session |-> s, verdict |-> o[1],
                                     rev |-> CurrentRevision(c), blocking |-> o[2]])]

\* submitRepair: every blocking finding without a claim gets one, and the
\* revision changes.  The caller is not named: some worker session goes on
\* record, or none when a recovery submits after the worker was unbound.
CanSubmitRepair(c, rev, s, by) ==
    /\ c.state = "REPAIR" /\ rev # CurrentRevision(c)
    /\ IF BoundWorkers(c) = {} THEN s = NoSession ELSE {s, by} \subseteq BoundWorkers(c)

\* Slip: only the findings of the last review are claimed.
WithLastClaims(c, rev, s, by) ==
    [c EXCEPT !.state = "PREFLIGHT", !.proof = rev, !.claims = {Len(c.reviews)},
              !.attempts = AddAttempt(c, [kind |-> "repair", rev |-> rev,
                                          session |-> s, by |-> by])]

WithRepair(c, rev, s, by) ==
    [c EXCEPT !.state = "PREFLIGHT", !.proof = rev, !.claims = @ \cup Blocking(c),
              !.attempts = AddAttempt(c, [kind |-> "repair", rev |-> rev,
                                          session |-> s, by |-> by])]

\* setRisk and recordGateSatisfaction.  Satisfactions of a lower risk stay on
\* file and do not count.
CanSetRisk(c, level) == c.state # "ABSENT" /\ level > c.risk
WithRisk(c, level)   == [c EXCEPT !.risk = level]

\* Slip: a gate is recorded before a risk is set.
CanRecordGateEarly(c) == c.state # "ABSENT" /\ c.risk \notin c.gates

CanRecordGate(c)     == c.state # "ABSENT" /\ c.risk # 0 /\ c.risk \notin c.gates
WithGate(c)          == [c EXCEPT !.gates = @ \cup {c.risk}]

-----------------------------------------------------------------------------
Put(x, c) == change' = [change EXCEPT ![x] = c]

Create(x, item) == CanCreate(change, x, item) /\ Put(x, WithNew(change[x], item))

SubmitPlan(x) ==
    CanSubmitPlan(change[x]) /\ \E k \in Content : Put(x, WithPlan(change[x], k))

AcceptPlan(x) == CanAcceptPlan(change[x]) /\ Put(x, WithAcceptedPlan(change[x]))

UpdatePlan(x) ==
    \E i \in 1 .. PlanBound, k \in Content :
        CanUpdatePlan(change[x], i) /\ Put(x, WithUpdatedPlan(change[x], i, k))

Transition(x) ==
    \E to \in State : CanTransition(change[x], to) /\ Put(x, WithState(change[x], to))

BindRole(x) ==
    \E s \in Session, b \in Binding \ {"none"} :
        CanBind(change[x], s) /\ Put(x, WithBinding(change[x], s, b))

UnbindRole(x) ==
    \E s \in Session :
        CanUnbind(change[x], s) /\ Put(x, WithBinding(change[x], s, "none"))

SubmitProof(x) ==
    \E rev \in Revision, s, by \in Session :
        CanSubmitProof(change[x], s, by) /\ Put(x, WithProof(change[x], rev, s, by))

InvalidateProof(x) == CanInvalidateProof(change[x]) /\ Put(x, WithoutProof(change[x]))

SubmitReview(x) ==
    \E s \in Session, o \in Outcome :
        CanSubmitReview(change[x], s) /\ Put(x, WithReview(change[x], s, o))

SubmitRepair(x) ==
    \E rev \in Revision, s \in Session \cup {NoSession}, by \in Session :
        CanSubmitRepair(change[x], rev, s, by) /\ Put(x, WithRepair(change[x], rev, s, by))

SetRisk(x) ==
    \E level \in Risk :
        CanSetRisk(change[x], level) /\ Put(x, WithRisk(change[x], level))

RecordGateSatisfaction(x) == CanRecordGate(change[x]) /\ Put(x, WithGate(change[x]))

-----------------------------------------------------------------------------
LifecycleInit == change = [x \in Change |-> Absent]

Operation(x) ==
    \/ \E item \in WorkItem \cup {NoItem} : Create(x, item)
    \/ SubmitPlan(x) \/ AcceptPlan(x) \/ UpdatePlan(x) \/ Transition(x)
    \/ BindRole(x) \/ UnbindRole(x)
    \/ SubmitProof(x) \/ InvalidateProof(x)
    \/ SubmitReview(x) \/ SubmitRepair(x)
    \/ SetRisk(x) \/ RecordGateSatisfaction(x)

LifecycleNext == \E x \in Change : Operation(x)

LifecycleSpec == LifecycleInit /\ [][LifecycleNext]_change

-----------------------------------------------------------------------------
\* Records keep their types.
LifecycleTypeOK == change \in [Change -> Record]

\* An approved Change ends with a passing review without blocking findings,
\* about the revision that is current, by a session that is on record for no
\* attempt.
ReviewedIfApproved(c) ==
    LET r == c.reviews[Len(c.reviews)]
    IN  c.state = "APPROVED" =>
          /\ c.reviews # <<>>
          /\ r.verdict = "pass" /\ ~r.blocking
          /\ r.rev = CurrentRevision(c)
          /\ r.session \notin Implementers(c)

\* From READY on exactly one plan is accepted, the latest one, and it is the
\* one acceptedPlanId names; before that there is none.
AcceptedPlanNamed(c) ==
    /\ c.accepted # 0 <=> c.state \notin {"ABSENT", "DRAFT", "PLANNED"}
    /\ c.accepted # 0 => c.accepted = Len(c.plans)
    /\ \A i \in DOMAIN c.plans : c.plans[i].status = "ACCEPTED" <=> i = c.accepted

\* Nothing is past REPAIR with a blocking finding, of any round, that no
\* repair has claimed to fix.
BlockingClaimed(c) == c.state # "REPAIR" => Blocking(c) \subseteq c.claims

\* The three, of every Change, whatever was bound, proved and repaired in
\* which order.
ApprovedIsReviewed == \A x \in Change : ReviewedIfApproved(change[x])
OneAcceptedPlan    == \A x \in Change : AcceptedPlanNamed(change[x])
BlockingIsClaimed  == \A x \in Change : BlockingClaimed(change[x])

\* At most one Change that is not terminal is linked to a work item.
OneChangePerItem ==
    \A x, y \in Change :
        /\ IsNonterminal(change[x]) /\ IsNonterminal(change[y])
        /\ change[x].item = change[y].item /\ change[x].item # NoItem
        => x = y

\* What was accepted in c is in d with the same content.
PlansKept(c, d) ==
    \A i \in DOMAIN c.plans :
        c.plans[i].status # "PLANNED" =>
            i \in DOMAIN d.plans /\ d.plans[i].content = c.plans[i].content

\* An accepted plan is immutable: its content stays as it was accepted, also
\* after a later revision superseded it.
AcceptedPlanIsImmutable ==
    [][\A x \in Change :
          PlansKept(change[x], change'[x])]_change
=============================================================================
