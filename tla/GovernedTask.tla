---------------------------- MODULE GovernedTask ----------------------------
(***************************************************************************)
(* One governed task and the Change linked to it.  The task lives in one   *)
(* store, the Change in another; nothing but the controller of             *)
(* task-change-control keeps the pair together.  Fibers of one host run    *)
(* dispatches, completions, repairs and the SDLC controller; a fiber may   *)
(* be overtaken at every await.  The host may crash: its fibers, snapshot  *)
(* and timers are lost, both stores stay.                                  *)
(*                                                                         *)
(* Every proof has a revision of its own, so a revision stands for its     *)
(* proof.  The reviewer of a revision is the slot ReviewerClaim is about.  *)
(* Steps that the code cannot keep apart from others are named in `slips`. *)
(***************************************************************************)
EXTENDS Naturals

CONSTANTS Fiber,            \* the concurrent calls of the host
          None,             \* no run, no snapshot
          MaxRuns,          \* bound: claims by dispatches and repairs
          MaxRepairRounds,  \* repair rounds before the task is escalated
          MaxCrashes,       \* bound: crashes of the host
          MaxMoves,         \* bound: updates of the task by people
          HostPolicy,       \* a preflight policy is configured
          Windows           \* the slips an instance lets happen

Slips == {"second_change", "late_bootstrap", "ungoverned_dispatch",
          "late_review", "unguarded_done", "stale_result", "unrecorded",
          "late_settlement", "late_repair", "repair_dropped", "repair_stranded"}

VARIABLES task,       \* status, holder and lease of the task; result is the
                      \* revision of the proof its row shows (0: none)
          change,     \* state; revision of the last proof (0: none); how it
                      \* was submitted; the revision that passed preflight;
                      \* whether a second Change was made once it was approved
          author,     \* the run that submitted each revision
          reviewer,   \* revisions whose round has a recorded, bound reviewer
          bound,      \* runs bound to the Change as worker
          escalated,  \* the audit log holds an escalation
          snapshot,   \* the state of the Change the done-guard knows, or None
          host,       \* "down", "starting" (no guard yet) or "up"
          timer,      \* a lease-recovery timer is set
          due,        \* "event": a settlement event, "scan": a restart scan
          pc, job,    \* where each fiber is, and what it works with
          used,       \* runs, crashes and moves so far
          slips       \* the slips that happened

stores == <<task, change, author, reviewer, bound, escalated>>
memory == <<snapshot, host, timer, due>>
vars == <<stores, memory, pc, job, used, slips>>

Runs == 1 .. MaxRuns
Revisions == 1 .. MaxRepairRounds + 1
Statuses == {"ready", "claimed", "running", "in_review", "changes_requested",
             "blocked", "failed", "done", "cancelled"}
States == {"none", "DRAFT", "PLANNED", "READY", "IMPLEMENTING", "PREFLIGHT",
           "REVIEW", "REPAIR", "APPROVED"}
ASSUME GovernedAssumption ==
  /\ MaxRuns \in Nat /\ MaxRepairRounds \in Nat
  /\ MaxCrashes \in Nat /\ MaxMoves \in Nat
  /\ None \notin Nat /\ None \notin States
  /\ HostPolicy \in BOOLEAN /\ Windows \subseteq Slips

Held == {"claimed", "running"}
AllowedChangeStates ==
  [ready |-> {"DRAFT", "PLANNED", "READY"},
   claimed |-> {"READY", "IMPLEMENTING"}, running |-> {"READY", "IMPLEMENTING"},
   in_review |-> {"PREFLIGHT", "REVIEW"}, changes_requested |-> {"REPAIR"},
   blocked |-> States \ {"none", "APPROVED"},
   failed |-> States \ {"none", "APPROVED"},
   done |-> {"APPROVED"}, cancelled |-> States \ {"none"}]

Stages == {"idle", "guard", "begin", "work", "lease", "prove", "finish",
           "read", "decide", "settle", "escalate", "preflight", "reserve",
           "advance", "route", "recheck", "claim", "launch", "submit",
           "trouble", "scan", "compare", "reconcile"}
NoJob == [run |-> None, held |-> None, kind |-> "none", seen |-> "ready", rev |-> 0]

TypeOK ==
  /\ task \in [status : Statuses, holder : Runs \union {None}, live : BOOLEAN,
               result : 0 .. MaxRepairRounds + 1]
  /\ change \in [state : States, revision : 0 .. MaxRepairRounds + 1,
                 how : {"none", "submitted", "repair_submitted"},
                 passed : 0 .. MaxRepairRounds + 1, again : BOOLEAN]
  /\ author \in [Revisions -> Runs \union {None}]
  /\ reviewer \subseteq Revisions
  /\ bound \subseteq Runs /\ escalated \in BOOLEAN
  /\ snapshot \in States \union {None}
  /\ host \in {"down", "starting", "up"}
  /\ timer \in BOOLEAN /\ due \subseteq {"event", "scan"}
  /\ pc \in [Fiber -> Stages]
  /\ job \in [Fiber -> [run : Runs \union {None}, held : Runs \union {None},
                        kind : {"none", "initial", "repair", "expired", "half",
                                "approved", "realign"},
                        seen : Statuses, rev : 0 .. MaxRepairRounds + 1]]
  /\ used \in [runs : 0 .. MaxRuns, crashes : 0 .. MaxCrashes, moves : 0 .. MaxMoves]
  /\ slips \subseteq Windows

Init ==
  /\ task = [status |-> "ready", holder |-> None, live |-> FALSE, result |-> 0]
  /\ change = [state |-> "none", revision |-> 0, how |-> "none", passed |-> 0,
               again |-> FALSE]
  /\ author = [r \in Revisions |-> None]
  /\ reviewer = {}
  /\ bound = {} /\ escalated = FALSE
  /\ snapshot = None /\ host = "up" /\ timer = FALSE /\ due = {}
  /\ pc = [f \in Fiber |-> "idle"] /\ job = [f \in Fiber |-> NoJob]
  /\ used = [runs |-> 0, crashes |-> 0, moves |-> 0] /\ slips = {}

-----------------------------------------------------------------------------
(* Writes of the two stores.  Each is one synchronous or locked call.      *)

Goto(f, stage) == pc' = [pc EXCEPT ![f] = stage]
(* A call returns or throws; a dispatch then gives up its worker binding.  *)
Return(f) == /\ Goto(f, "idle") /\ job' = [job EXCEPT ![f] = NoJob]
             /\ bound' = bound \ {job[f].held}
Slip(kind) == /\ kind \in Windows /\ slips' = slips \union {kind}

HoldsLease(r) == task.status \in Held /\ task.holder = r /\ task.live
Move(status) == task' = [task EXCEPT !.status = status, !.holder = None, !.live = FALSE]
Show(status, rev) == task' = [task EXCEPT !.status = status, !.holder = None,
                                          !.live = FALSE, !.result = rev]
Enter(state) == change' = [change EXCEPT !.state = state]
Submit(f, how) ==
  /\ change.revision \in 0 .. MaxRepairRounds
  /\ change' = [change EXCEPT !.state = "PREFLIGHT", !.revision = @ + 1, !.how = how]
  /\ author' = [author EXCEPT ![change.revision + 1] = job[f].run]
Exhausted == change.revision >= MaxRepairRounds + 1
(* updateIf of a claim whose lease ran out, and of a claim of one's own.   *)
ReleaseExpired == IF task.status \in Held /\ ~task.live
                  THEN Move("ready") ELSE UNCHANGED task
-----------------------------------------------------------------------------
(* Before the first dispatch.                                              *)

(* What a lookup by the task finds: the Change that is not APPROVED yet,   *)
(* else the last one.  The second Change is followed as a DRAFT only.      *)
Found == IF change.again THEN "DRAFT" ELSE change.state
(* findByWorkItem alone finds no Change.                                   *)
Unlinked == Found \in {"none", "APPROVED"}

(* The bootstrapper finds an active task that policy requires governed and *)
(* no Change of it that is not APPROVED.  It reads the task some awaits    *)
(* before it makes the Change.                                             *)
Active == {"ready", "claimed", "running", "in_review", "blocked", "failed"}
Bootstrap ==
  /\ host # "down" /\ Unlinked
  /\ IF change.state = "none" THEN Enter("DRAFT")
                              ELSE change' = [change EXCEPT !.again = TRUE]
  /\ slips' = slips \union (IF change.state = "none" THEN {} ELSE {"second_change"})
                     \union (IF task.status \in Active THEN {} ELSE {"late_bootstrap"})
  /\ slips' \ slips \subseteq Windows
  /\ UNCHANGED <<task, author, reviewer, bound, escalated, memory, pc, job, used>>

(* A planner's plan is submitted, then accepted and made ready.            *)
Plan == /\ \/ change.state = "DRAFT" /\ Enter("PLANNED")
           \/ change.state = "PLANNED" /\ Enter("READY")
        /\ UNCHANGED <<task, author, reviewer, bound, escalated, memory, pc, job, used, slips>>

(* Publications of bootstrap and link, task notifications, settled events. *)
Publish == /\ host = "up" /\ change.state # "none"
           /\ snapshot' \in {Found, change.state} \ {snapshot}
           /\ UNCHANGED <<stores, host, timer, due, pc, job, used, slips>>

-----------------------------------------------------------------------------
(* A governed dispatch, and the launcher that binds its session.           *)

TakeRun(f, kind, held) ==
  /\ used.runs < MaxRuns
  /\ used' = [used EXCEPT !.runs = @ + 1]
  /\ job' = [job EXCEPT ![f].run = used.runs + 1, ![f].kind = kind,
                        ![f].held = IF held THEN used.runs + 1 ELSE @]

Dispatch(f) ==
  /\ host = "up" /\ pc[f] = "idle" /\ task.status = "ready"
  /\ TakeRun(f, "initial", TRUE)
  /\ task' = [task EXCEPT !.status = "claimed", !.holder = used.runs + 1, !.live = TRUE]
  /\ Goto(f, "guard")
  /\ UNCHANGED <<change, author, reviewer, bound, escalated, memory, slips>>

(* createGovernanceGuard: a task without a Change to hold it to passes.    *)
Guard(f) ==
  /\ pc[f] = "guard"
  /\ \/ /\ Unlinked \/ Found = "READY"
        /\ Goto(f, "begin")
        /\ IF Unlinked THEN Slip("ungoverned_dispatch") ELSE UNCHANGED slips
        /\ UNCHANGED <<task, job, bound>>
     \/ /\ ~Unlinked /\ Found # "READY" /\ Return(f)
        /\ IF HoldsLease(job[f].run) THEN Move("ready") ELSE UNCHANGED task
        /\ UNCHANGED slips
  /\ UNCHANGED <<change, author, reviewer, escalated, memory, used>>

\* Slip: a repair binds the run the dispatch held.
BeginAsHolder(f) ==
  /\ pc[f] \in {"begin", "launch"}
  /\ \/ /\ HoldsLease(job[f].run)
        /\ task' = [task EXCEPT !.status = "running"]
        /\ bound' = IF change.state \in {"none", "APPROVED"} THEN bound
                    ELSE bound \union {job[f].held}
        /\ Goto(f, "work") /\ UNCHANGED job
     \/ /\ Return(f)
        /\ IF HoldsLease(job[f].run) THEN Move("ready") ELSE UNCHANGED task
  /\ UNCHANGED <<change, author, reviewer, escalated, memory, used, slips>>

(* start, launch, bind; a session that cannot be bound is killed.          *)
Begin(f) ==
  /\ pc[f] \in {"begin", "launch"}
  /\ \/ /\ HoldsLease(job[f].run)
        /\ task' = [task EXCEPT !.status = "running"]
        /\ bound' = IF change.state \in {"none", "APPROVED"} THEN bound
                    ELSE bound \union {job[f].run}
        /\ Goto(f, "work") /\ UNCHANGED job
     \/ /\ Return(f)
        /\ IF HoldsLease(job[f].run) THEN Move("ready") ELSE UNCHANGED task
  /\ UNCHANGED <<change, author, reviewer, escalated, memory, used, slips>>

(* The worker succeeds; a dispatch then completes, a repair is submitted.  *)
WorkSucceeds(f) ==
  /\ pc[f] = "work"
  /\ Goto(f, IF job[f].kind = "initial" THEN "lease" ELSE "submit")
  /\ UNCHANGED <<stores, memory, job, used, slips>>

(* It fails, or its timeout ends it: a dispatch fails the task, a repair   *)
(* releases it.                                                            *)
WorkFails(f) ==
  LET r == job[f].run IN
  /\ pc[f] = "work"
  /\ task' = IF ~HoldsLease(r) THEN task
             ELSE [task EXCEPT !.status = IF job[f].kind = "initial" THEN "failed" ELSE "ready",
                               !.holder = None, !.live = FALSE]
  /\ Goto(f, "idle") /\ job' = [job EXCEPT ![f] = NoJob]
  /\ bound' = bound \ {r, job[f].held}
  /\ UNCHANGED <<change, author, reviewer, escalated, memory, used, slips>>

-----------------------------------------------------------------------------
(* completeGovernedTask.                                                   *)

(* A dispatch's completion hook that throws fails the task; a repair looks *)
(* at how far it came.                                                     *)
Throw(f) ==
  IF job[f].kind = "initial"
  THEN /\ Return(f)
       /\ IF HoldsLease(job[f].run) THEN Move("failed") ELSE UNCHANGED task
  ELSE /\ Goto(f, "trouble") /\ bound' = bound \ {job[f].run}
       /\ UNCHANGED <<task, job>>

(* A dispatch without a Change to prove it to completes the task alone.    *)
CompleteUngoverned(f) ==
  /\ pc[f] = "lease" /\ job[f].kind = "initial" /\ Unlinked
  /\ Return(f)
  /\ IF HoldsLease(job[f].run)
     THEN /\ Show("in_review", 0)
          /\ IF change.state = "none" THEN UNCHANGED slips ELSE Slip("ungoverned_dispatch")
     ELSE UNCHANGED <<task, slips>>
  /\ UNCHANGED <<change, author, reviewer, escalated, memory, used>>

OwnProof(f) == /\ change.state = "PREFLIGHT" /\ change.revision > 0
               /\ author[change.revision] = job[f].run

(* A completion that converged already is fine with the same proof; else   *)
(* lease, binding and criteria: the worker's proof may not match them.     *)
(* Nobody is bound to a second Change.                                     *)
CheckLease(f) ==
  /\ pc[f] = "lease" /\ (Unlinked => job[f].kind # "initial")
  /\ \/ /\ task.status = "in_review" /\ OwnProof(f)
        /\ Goto(f, "read") /\ UNCHANGED <<task, job, bound>>
     \/ /\ HoldsLease(job[f].run) /\ job[f].run \in bound
        /\ ~Unlinked /\ ~change.again
        /\ Goto(f, "prove") /\ UNCHANGED <<task, job, bound>>
     \/ Throw(f)
  /\ UNCHANGED <<change, author, reviewer, escalated, memory, used, slips>>

(* The Change side: READY is made IMPLEMENTING, IMPLEMENTING takes the     *)
(* proof of a bound worker, PREFLIGHT must hold this very proof.           *)
Prove(f) ==
  /\ pc[f] = "prove"
  /\ \/ /\ change.state = "READY" /\ Enter("IMPLEMENTING")
        /\ UNCHANGED <<task, author, pc, job, bound>>
     \/ /\ change.state = "IMPLEMENTING" /\ job[f].run \in bound
        /\ Submit(f, "submitted") /\ Goto(f, "finish")
        /\ UNCHANGED <<task, job, bound>>
     \/ /\ OwnProof(f) /\ Goto(f, "finish")
        /\ UNCHANGED <<task, change, author, job, bound>>
     \/ /\ change.state # "READY" /\ ~OwnProof(f)
        /\ change.state = "IMPLEMENTING" => job[f].run \notin bound
        /\ Throw(f) /\ UNCHANGED <<change, author>>
  /\ UNCHANGED <<reviewer, escalated, memory, used, slips>>

\* Slip: the proof of the first round is shown.
FirstProof(r) == IF \E v \in Revisions : author[v] = r THEN 1 ELSE 0

ProofOf(r) == IF \E v \in Revisions : author[v] = r
              THEN CHOOSE v \in Revisions : author[v] = r ELSE 0

(* The last reads and complete() are one synchronous stretch.              *)
Finish(f) ==
  /\ pc[f] = "finish"
  /\ \/ /\ job[f].run \in bound /\ HoldsLease(job[f].run)
        /\ Show("in_review", ProofOf(job[f].run)) /\ Goto(f, "read")
        /\ job' = [job EXCEPT ![f].run = None, ![f].kind = "none"]
        /\ bound' = IF job[f].kind = "repair" THEN bound \ {job[f].run} ELSE bound
     \/ Throw(f)
  /\ UNCHANGED <<change, author, reviewer, escalated, memory, used, slips>>
-----------------------------------------------------------------------------
(* runGovernedSdlc: every round reads the task, then the Change.           *)

(* A settlement event, the restart scan's resume, or a host's own call.    *)
Wake(f) == /\ host # "down" /\ pc[f] = "idle" /\ change.state # "none"
           /\ Goto(f, "read") /\ due' = due \ {"event"}
           /\ UNCHANGED <<stores, snapshot, host, timer, job, used, slips>>

ReadTask(f) == /\ pc[f] = "read"
               /\ job' = [job EXCEPT ![f].seen = task.status]
               /\ Goto(f, "decide")
               /\ UNCHANGED <<stores, memory, used, slips>>

(* APPROVED: publish and move the task in one stretch; a task that is not  *)
(* in_review is read again until the round bound ends the call.            *)
Converge(f) ==
  /\ pc[f] = "decide" /\ Found = "APPROVED"
  /\ \/ /\ job[f].seen = "done" /\ Return(f) /\ UNCHANGED <<task, snapshot>>
     \/ /\ job[f].seen # "done" /\ task.status = "in_review"
        /\ Move("done") /\ snapshot' = "APPROVED" /\ Return(f)
     \/ /\ job[f].seen # "done" /\ task.status # "in_review"
        /\ snapshot' = "APPROVED" /\ UNCHANGED task
        /\ Return(f) \/ (Goto(f, "read") /\ UNCHANGED <<job, bound>>)
  /\ UNCHANGED <<change, author, reviewer, escalated, host, timer, due, used, slips>>

Stopped(f) == \/ job[f].seen = "failed" /\ change.state = "REPAIR" /\ escalated
              \/ job[f].seen \in {"blocked", "cancelled"}
Decide(f) ==
  /\ pc[f] = "decide" /\ Found # "APPROVED"
  /\ \/ /\ \/ Stopped(f)
           \/ change.state \in {"PREFLIGHT", "REVIEW"} /\ job[f].seen # "in_review"
           \/ change.state = "REVIEW" /\ change.revision \in reviewer
        /\ Return(f)
     \/ /\ ~Stopped(f) /\ UNCHANGED <<job, bound>>
        /\ \/ /\ change.state = "REPAIR" /\ job[f].seen = "in_review"
              /\ Goto(f, "settle")
           \/ /\ change.state = "PREFLIGHT" /\ job[f].seen = "in_review"
              /\ Goto(f, "preflight")
           \/ /\ change.state = "REVIEW" /\ job[f].seen = "in_review"
              /\ change.revision \notin reviewer
              /\ Goto(f, "preflight")
           \/ /\ \/ change.state \notin {"PREFLIGHT", "REVIEW", "REPAIR"}
                 \/ change.state = "REPAIR" /\ job[f].seen # "in_review"
              /\ Goto(f, "route")
  /\ UNCHANGED <<task, change, author, reviewer, escalated, memory, used, slips>>

\* Slip: an escalated task is moved and nothing is audited.
SettleQuietly(f) ==
  /\ pc[f] = "settle"
  /\ \/ /\ task.status # "in_review" /\ UNCHANGED <<task, slips>>
        /\ Goto(f, "route") \/ Goto(f, "read")
     \/ /\ task.status = "in_review"
        /\ IF Exhausted THEN Goto(f, "route") /\ Move("failed")
                        ELSE Goto(f, "route") /\ Move("changes_requested")
        /\ IF change.state = "REPAIR" THEN UNCHANGED slips ELSE Slip("late_settlement")
  /\ UNCHANGED <<change, author, reviewer, bound, escalated, memory, job, used>>

(* settleReviewedFailure and the fail path of applyReviewOutcome: the task *)
(* moves first, whatever became of the Change; the escalation is audited   *)
(* after it.                                                               *)
SettleFailure(f) ==
  /\ pc[f] = "settle"
  /\ \/ /\ task.status # "in_review" /\ UNCHANGED <<task, slips>>
        /\ Goto(f, "route") \/ Goto(f, "read")
     \/ /\ task.status = "in_review"
        /\ IF Exhausted THEN Goto(f, "escalate") /\ Move("failed")
                        ELSE Goto(f, "route") /\ Move("changes_requested")
        /\ IF change.state = "REPAIR" THEN UNCHANGED slips ELSE Slip("late_settlement")
  /\ UNCHANGED <<change, author, reviewer, bound, escalated, memory, job, used>>

Escalate(f) == /\ pc[f] = "escalate" /\ escalated' = TRUE
               /\ Return(f)
               /\ UNCHANGED <<task, change, author, reviewer, memory, used, slips>>

(* A host's verdict is applied to the round it finds (applyReviewOutcome). *)
ApplyVerdict(f) ==
  /\ pc[f] = "decide" /\ job[f].seen = "in_review"
  /\ change.state = "REVIEW" /\ change.revision \in reviewer
  /\ \/ Enter("APPROVED") /\ UNCHANGED pc
     \/ Enter("REPAIR") /\ Goto(f, "settle")
  /\ due' = due \union {"event"}
  /\ UNCHANGED <<task, author, reviewer, bound, escalated, snapshot, host, timer, job, used, slips>>

\* Slip: a Change that passed once is not examined again.
PreflightOnce(f) ==
  /\ pc[f] = "preflight"
  /\ \/ /\ task.status = "in_review" /\ change.state \in {"PREFLIGHT", "REVIEW"}
        /\ change' = IF change.state = "REVIEW" THEN change
                     ELSE [change EXCEPT !.passed = IF @ = 0 THEN change.revision ELSE @,
                                         !.state = IF HostPolicy THEN "REVIEW" ELSE @]
        /\ Goto(f, "reserve") /\ job' = [job EXCEPT ![f].rev = change.revision]
        /\ UNCHANGED bound
     \/ /\ ~(task.status = "in_review" /\ change.state = "REVIEW")
        /\ Return(f) /\ UNCHANGED change
  /\ UNCHANGED <<task, author, reviewer, escalated, memory, used, slips>>

(* runGovernedReview: the state is checked again; the store's preflight    *)
(* moves the Change itself when a policy is configured.                    *)
Preflight(f) ==
  /\ pc[f] = "preflight"
  /\ \/ /\ task.status = "in_review" /\ change.state \in {"PREFLIGHT", "REVIEW"}
        /\ change' = IF change.state = "REVIEW" THEN change
                     ELSE [change EXCEPT !.passed = change.revision,
                                         !.state = IF HostPolicy THEN "REVIEW" ELSE @]
        /\ Goto(f, "reserve") /\ job' = [job EXCEPT ![f].rev = change.revision]
        /\ UNCHANGED bound
     \/ /\ ~(task.status = "in_review" /\ change.state = "REVIEW")
        /\ Return(f) /\ UNCHANGED change
  /\ UNCHANGED <<task, author, reviewer, escalated, memory, used, slips>>

(* One reviewer per round: reserved by one launch, reused by the others.   *)
Reserve(f) ==
  /\ pc[f] = "reserve"
  /\ reviewer' = reviewer \union {job[f].rev}
  /\ Goto(f, "advance")
  /\ UNCHANGED <<task, change, author, bound, escalated, memory, job, used, slips>>

(* The Change enters REVIEW if it is found in PREFLIGHT, at whatever       *)
(* revision it has reached meanwhile.                                      *)
Advance(f) ==
  /\ pc[f] = "advance" /\ Goto(f, "read")
  /\ IF change.state = "PREFLIGHT" THEN Enter("REVIEW") ELSE UNCHANGED change
  /\ IF change.state = "PREFLIGHT" /\ change.revision # job[f].rev
     THEN Slip("late_review") ELSE UNCHANGED slips
  /\ UNCHANGED <<task, author, reviewer, bound, escalated, memory, job, used>>

-----------------------------------------------------------------------------
(* routeRepairAttempt.                                                     *)

(* The Change is checked before the task is made ready, and once more.     *)
Route(f) ==
  /\ pc[f] = "route"
  /\ \/ /\ change.state = "REPAIR" /\ task.status \in {"ready", "changes_requested"}
        /\ IF task.status = "ready" THEN UNCHANGED task ELSE Move("ready")
        /\ Goto(f, "recheck") /\ UNCHANGED <<job, bound>>
     \/ /\ change.state # "REPAIR" \/ task.status \notin {"ready", "changes_requested"}
        /\ Return(f) /\ UNCHANGED task
  /\ UNCHANGED <<change, author, reviewer, escalated, memory, used, slips>>

(* Profile, spec and preflight of the worker are resolved; any of them may *)
(* stop the repair at this point.                                          *)
Recheck(f) ==
  /\ pc[f] = "recheck"
  /\ \/ change.state = "REPAIR" /\ Goto(f, "claim") /\ UNCHANGED <<job, bound>>
     \/ Return(f)
  /\ UNCHANGED <<task, change, author, reviewer, escalated, memory, used, slips>>

(* The claim does not ask for the Change again; the next claim also takes  *)
(* over an expired one.                                                    *)
ClaimRepair(f) ==
  /\ pc[f] = "claim"
  /\ \/ /\ task.status = "ready" \/ (task.status \in Held /\ ~task.live)
        /\ TakeRun(f, "repair", FALSE)
        /\ task' = [task EXCEPT !.status = "running", !.holder = used.runs + 1, !.live = TRUE]
        /\ Goto(f, "launch") /\ UNCHANGED bound
        /\ IF change.state = "REPAIR" THEN UNCHANGED slips ELSE Slip("late_repair")
     \/ /\ ~(task.status = "ready" \/ (task.status \in Held /\ ~task.live)) \/ used.runs = MaxRuns
        /\ Return(f) /\ UNCHANGED <<task, used, slips>>
  /\ UNCHANGED <<change, author, reviewer, escalated, memory>>

(* submitRepair takes the proof of an unleased run as well.                *)
SubmitRepair(f) ==
  /\ pc[f] = "submit"
  /\ \/ /\ change.state = "REPAIR" /\ change.revision > 0
        /\ Submit(f, "repair_submitted") /\ Goto(f, "lease") /\ UNCHANGED bound
        /\ IF task.status \in Held /\ task.holder = job[f].run
           THEN UNCHANGED slips ELSE Slip("repair_stranded")
     \/ /\ Goto(f, "trouble") /\ bound' = bound \ {job[f].run}
        /\ UNCHANGED <<change, author, slips>>
  /\ UNCHANGED <<task, reviewer, escalated, memory, job, used>>

\* Slip: a repair that was persisted is released like any other.
TroubleReleases(f) ==
  LET r == job[f].run IN
  /\ pc[f] = "trouble"
  /\ \/ /\ change.state = "PREFLIGHT" /\ task.status = "in_review"
        /\ Goto(f, "read") /\ UNCHANGED <<task, job, bound, slips>>
     \/ /\ change.state = "PREFLIGHT" /\ task.status \in Held /\ task.holder = r
        /\ Move("ready") /\ Return(f) /\ UNCHANGED slips
     \/ /\ change.state # "PREFLIGHT" \/ ~(task.status = "in_review" \/ (task.status \in Held /\ task.holder = r))
        /\ IF HoldsLease(r) THEN Move("ready") ELSE UNCHANGED task
        /\ Return(f) /\ UNCHANGED slips
  /\ UNCHANGED <<change, author, reviewer, escalated, memory, used>>

(* A repair that failed at or after its submission: a PREFLIGHT of the     *)
(* Change is taken for the outcome of this run.                            *)
Trouble(f) ==
  LET r == job[f].run IN
  /\ pc[f] = "trouble"
  /\ \/ /\ change.state = "PREFLIGHT" /\ task.status = "in_review"
        /\ Goto(f, "read") /\ UNCHANGED <<task, job, bound, slips>>
     \/ /\ change.state = "PREFLIGHT" /\ task.status \in Held /\ task.holder = r
        /\ \/ /\ Show("in_review", ProofOf(r)) /\ Goto(f, "read") /\ UNCHANGED <<job, bound>>
              /\ IF OwnProof(f) THEN UNCHANGED slips ELSE Slip("stale_result")
           \/ Move("failed") /\ Return(f) /\ UNCHANGED slips
     \/ /\ change.state # "PREFLIGHT" \/ ~(task.status = "in_review" \/ (task.status \in Held /\ task.holder = r))
        /\ IF HoldsLease(r) THEN Move("ready") ELSE UNCHANGED task
        /\ Return(f) /\ UNCHANGED slips
  /\ UNCHANGED <<change, author, reviewer, escalated, memory, used>>

-----------------------------------------------------------------------------
(* Recovery.                                                               *)

(* A fresh activation fills the snapshot and moves an approved task before *)
(* it registers the guard of the transition to done.                       *)
Activate ==
  /\ host = "starting" /\ host' = "up"
  /\ snapshot' = IF change.state = "none" THEN None ELSE Found
  /\ IF Found = "APPROVED" /\ task.status = "in_review"
     THEN Move("done") ELSE UNCHANGED task
  /\ UNCHANGED <<change, author, reviewer, bound, escalated, timer, due, pc, job, used, slips>>

(* The restart's scan, and a lease-recovery timer that finds the lease     *)
(* over and releases the claim, reconcile the candidate.  The timer        *)
(* releases whatever the Change is, a persisted repair included.           *)
StartScan(f) == /\ host # "down" /\ pc[f] = "idle" /\ "scan" \in due
                /\ due' = due \ {"scan"} /\ Goto(f, "scan")
                /\ UNCHANGED <<stores, snapshot, host, timer, job, used, slips>>

TimerFires(f) ==
  /\ timer /\ pc[f] = "idle" /\ ~(task.status \in Held /\ task.live)
  /\ timer' = FALSE
  /\ ReleaseExpired
  /\ IF task.status \in Held /\ change.state = "PREFLIGHT"
     THEN Slip("repair_dropped") ELSE UNCHANGED slips
  /\ Goto(f, IF task.status \in Held THEN "scan" ELSE "idle")
  /\ UNCHANGED <<change, author, reviewer, bound, escalated, snapshot, host, due, job, used>>

\* Slip: a live lease is left alone and not looked at again.
ScanLiveOnly(f) ==
  /\ pc[f] = "scan" /\ task.status \in Held /\ task.live
  /\ change.state = "REPAIR" \/ (change.state = "PREFLIGHT" /\ change.how = "repair_submitted")
  /\ timer' = timer /\ Return(f)
  /\ UNCHANGED <<task, change, author, reviewer, escalated, snapshot, host, due, used, slips>>

ScanLive(f) ==
  /\ pc[f] = "scan" /\ task.status \in Held /\ task.live
  /\ change.state = "REPAIR" \/ (change.state = "PREFLIGHT" /\ change.how = "repair_submitted")
  /\ timer' = TRUE /\ Return(f)
  /\ UNCHANGED <<task, change, author, reviewer, escalated, snapshot, host, due, used, slips>>

(* reconcileCandidate for APPROVED, REPAIR and REVIEW.                     *)
ScanSettled(f) ==
  /\ pc[f] = "scan" /\ Found \in {"APPROVED", "REPAIR", "REVIEW"}
  /\ ~(change.state = "REPAIR" /\ task.status \in Held /\ task.live)
  /\ \/ /\ change.state = "APPROVED" /\ task.status = "in_review"
        /\ Move("done") /\ snapshot' = "APPROVED" /\ Return(f)
     \/ /\ change.state = "REPAIR"
        /\ ReleaseExpired /\ UNCHANGED snapshot
        /\ IF task.status \in Held \union {"in_review", "changes_requested", "ready"}
           THEN Goto(f, "read") /\ UNCHANGED <<job, bound>> ELSE Return(f)
     \/ /\ change.state = "REVIEW" /\ task.status = "in_review"
        /\ Goto(f, "read") /\ UNCHANGED <<task, snapshot, job, bound>>
     \/ /\ change.state # "REPAIR" /\ task.status # "in_review"
        /\ Return(f) /\ UNCHANGED <<task, snapshot>>
  /\ UNCHANGED <<change, author, reviewer, escalated, host, timer, due, used, slips>>

(* recoverPartialRepair: the persisted proof of a repair is shown by a     *)
(* task whose lease ran out; a task that was released meanwhile fails.     *)
ScanPartial(f) ==
  /\ pc[f] = "scan" /\ change.state = "PREFLIGHT" /\ change.how = "repair_submitted"
  /\ \/ /\ task.status = "in_review"
        /\ Goto(f, "read") /\ UNCHANGED <<task, job, bound, slips>>
     \/ /\ task.status \in Held /\ ~task.live
        /\ Show("in_review", change.revision)
        /\ Goto(f, "read") /\ UNCHANGED <<job, bound, slips>>
     \/ /\ task.status = "ready" /\ Move("failed")
        /\ Slip("repair_dropped") /\ Return(f)
     \/ /\ task.status \notin Held \union {"ready", "in_review"}
        /\ Return(f) /\ UNCHANGED <<task, slips>>
  /\ UNCHANGED <<change, author, reviewer, escalated, memory, used>>

(* Nothing is recovered before the first proof, nor from a first proof     *)
(* whose completion was cut off.                                           *)
ScanNothing(f) ==
  /\ pc[f] = "scan"
  /\ \/ Found \in {"none", "DRAFT", "PLANNED", "READY", "IMPLEMENTING"}
     \/ change.state = "PREFLIGHT" /\ change.how = "submitted"
  /\ Return(f)
  /\ UNCHANGED <<task, change, author, reviewer, escalated, memory, used, slips>>

(* reconcileTaskChange, called by a tool, reads the task, then the Change, *)
(* unbinds orphaned workers and then decides by what it has read: a half   *)
(* completion is finished, an approved task is done, a row that differs    *)
(* shows the proof.                                                        *)
Pair(status, state) == state \in AllowedChangeStates[status]
StartReconcile(f) ==
  /\ host # "down" /\ pc[f] = "idle" /\ change.state # "none"
  /\ job' = [job EXCEPT ![f].seen = task.status, ![f].run = task.holder,
                        ![f].kind = IF task.live THEN "none" ELSE "expired"]
  /\ Goto(f, "compare")
  /\ UNCHANGED <<stores, memory, used, slips>>

Drift(seen, kind) ==
  IF seen \in Held /\ kind = "expired" /\ change.state = "PREFLIGHT" THEN "half"
  ELSE IF seen = "in_review" /\ Found = "APPROVED" THEN "approved"
  ELSE IF seen = "in_review" /\ Pair(seen, change.state) /\ change.revision > 0
       THEN "realign" ELSE "none"
Compare(f) ==
  LET seen == job[f].seen IN
  /\ pc[f] = "compare" /\ Goto(f, "reconcile")
  /\ job' = [job EXCEPT ![f].kind = Drift(seen, @), ![f].rev = change.revision]
  /\ bound' = IF seen \in {"in_review", "done", "cancelled", "failed"} /\ ~change.again
              THEN {} ELSE bound
  /\ UNCHANGED <<task, change, author, reviewer, escalated, memory, used, slips>>

(* The write is conditional on the claim, or on the status, that was read. *)
Reconcile(f) ==
  LET j == job[f] IN
  /\ pc[f] = "reconcile" /\ Return(f)
  /\ \/ /\ j.kind = "half"
        /\ IF task.status = j.seen /\ task.holder = j.run /\ ~task.live
           THEN /\ Show("in_review", j.rev)
                /\ IF j.rev = change.revision THEN UNCHANGED slips ELSE Slip("stale_result")
           ELSE UNCHANGED <<task, slips>>
        /\ UNCHANGED snapshot
     \/ /\ j.kind = "approved" /\ snapshot' = "APPROVED" /\ UNCHANGED slips
        /\ IF task.status = "in_review" THEN Move("done") ELSE UNCHANGED task
     \/ /\ j.kind = "realign" /\ UNCHANGED snapshot
        /\ IF task.status = "in_review"
           THEN /\ task' = [task EXCEPT !.result = j.rev]
                /\ IF j.rev = change.revision THEN UNCHANGED slips ELSE Slip("stale_result")
           ELSE UNCHANGED <<task, slips>>
     \/ j.kind \in {"none", "expired"} /\ UNCHANGED <<task, snapshot, slips>>
  /\ UNCHANGED <<change, author, reviewer, escalated, host, timer, due, used>>

-----------------------------------------------------------------------------
(* The reviewer, people, the clock and crashes.                            *)

\* Slip: no settlement event goes out.
VerdictSilent ==
  /\ change.state = "REVIEW" /\ change.revision \in reviewer
  /\ Enter("APPROVED") \/ Enter("REPAIR")
  /\ due' = due
  /\ UNCHANGED <<task, author, reviewer, bound, escalated, snapshot, host, timer, pc, job, used, slips>>

(* The round's reviewer settles it through Change Control; the event goes  *)
(* out after the write.                                                    *)
Verdict ==
  /\ change.state = "REVIEW" /\ change.revision \in reviewer
  /\ Enter("APPROVED") \/ Enter("REPAIR")
  /\ due' = IF host = "down" THEN due ELSE due \union {"event"}
  /\ UNCHANGED <<task, author, reviewer, bound, escalated, snapshot, host, timer, pc, job, used, slips>>

\* Slip: the guard trusts a snapshot that misses the Change.
GuardAllowsAll == TRUE

(* The registered guard asks the snapshot; without an entry, or before it  *)
(* is registered, the transition to done is let through.                   *)
GuardAllows == host # "up" \/ snapshot \in {None, "APPROVED"}
PersonFinishes ==
  /\ used.moves < MaxMoves /\ task.status = "in_review" /\ GuardAllows
  /\ Move("done") /\ used' = [used EXCEPT !.moves = @ + 1]
  /\ IF change.state \notin {"none", "APPROVED"} /\ (host # "up" \/ snapshot = None)
     THEN Slip("unguarded_done") ELSE UNCHANGED slips
  /\ UNCHANGED <<change, author, reviewer, bound, escalated, memory, pc, job>>

PersonMoves ==
  /\ used.moves < MaxMoves /\ used' = [used EXCEPT !.moves = @ + 1]
  /\ \/ task.status \notin {"done", "cancelled", "blocked"} /\ Move("blocked")
     \/ task.status \in Held \union {"blocked", "failed", "changes_requested"} /\ Move("ready")
     \/ task.status # "done" /\ task.status # "cancelled" /\ Move("cancelled")
  /\ UNCHANGED <<change, author, reviewer, bound, escalated, memory, pc, job, slips>>

LeaseEnds == /\ task.status \in Held /\ task.live
             /\ task' = [task EXCEPT !.live = FALSE]
             /\ UNCHANGED <<change, author, reviewer, bound, escalated, memory, pc, job, used, slips>>

(* A crash between the move of an escalated task and its audit loses the   *)
(* audit.                                                                  *)
Crash ==
  /\ host # "down" /\ used.crashes < MaxCrashes
  /\ host' = "down" /\ snapshot' = None /\ timer' = FALSE /\ due' = {}
  /\ pc' = [f \in Fiber |-> "idle"] /\ job' = [f \in Fiber |-> NoJob]
  /\ used' = [used EXCEPT !.crashes = @ + 1]
  /\ IF \E f \in Fiber : pc[f] = "escalate" THEN Slip("unrecorded") ELSE UNCHANGED slips
  /\ UNCHANGED stores

Restart == /\ host = "down" /\ host' = "starting" /\ due' = {"scan"}
           /\ UNCHANGED <<stores, snapshot, timer, pc, job, used, slips>>

Running(f) == \/ Guard(f) \/ Begin(f) \/ WorkSucceeds(f) \/ WorkFails(f)
              \/ CompleteUngoverned(f) \/ CheckLease(f) \/ Prove(f) \/ Finish(f)
Controlling(f) == \/ ReadTask(f) \/ Converge(f) \/ Decide(f) \/ SettleFailure(f)
                  \/ Escalate(f) \/ Preflight(f) \/ Reserve(f) \/ Advance(f)
                  \/ Route(f) \/ Recheck(f) \/ ClaimRepair(f) \/ SubmitRepair(f)
                  \/ Trouble(f)
Recovering(f) == \/ ScanLive(f) \/ ScanSettled(f) \/ ScanPartial(f)
                 \/ ScanNothing(f) \/ Compare(f) \/ Reconcile(f)
Outside == \/ Bootstrap \/ Plan \/ Publish \/ Activate \/ Verdict
           \/ PersonFinishes \/ PersonMoves \/ LeaseEnds \/ Crash \/ Restart

Next == \/ \E f \in Fiber : \/ Running(f) \/ Controlling(f) \/ Recovering(f)
                            \/ Dispatch(f) \/ Wake(f) \/ ApplyVerdict(f)
                            \/ StartScan(f) \/ TimerFires(f) \/ StartReconcile(f)
        \/ Outside

Spec == Init /\ [][Next]_vars

(* A call that was begun goes on, its waits have timeouts; the host has no *)
(* limit of calls, so an event, a scan or a timer finds a free fiber; an   *)
(* abandoned lease runs out, and a host that is down is started again.     *)
Abandoned == task.status \in Held /\ \A f \in Fiber : job[f].run # task.holder
Fairness ==
  /\ \A f \in Fiber : WF_vars(Running(f) \/ Controlling(f) \/ Recovering(f))
  /\ SF_vars("event" \in due /\ \E f \in Fiber : Wake(f))
  /\ SF_vars(\E f \in Fiber : StartScan(f))
  /\ SF_vars(\E f \in Fiber : TimerFires(f))
  /\ WF_vars(Activate) /\ WF_vars(Restart)
  /\ WF_vars(Abandoned /\ LeaseEnds)
FairSpec == Spec /\ Fairness

-----------------------------------------------------------------------------
Quiet == host = "up" /\ due = {} /\ ~timer /\ \A f \in Fiber : pc[f] = "idle"

(* A governed task is done only when its Change is approved.               *)
DoneIsApproved ==
  slips = {} => (task.status = "done" => change.state \in {"none", "APPROVED"})

(* A review, its verdict and a repair are about a revision that passed the *)
(* preflight.                                                              *)
ReviewIsPreflighted ==
  slips = {} => (change.state \in {"REVIEW", "REPAIR", "APPROVED"}
                   => change.passed = change.revision)

(* The row of a task under review shows the proof under review.            *)
ResultIsProof ==
  slips = {} => (task.status = "in_review" /\ change.state \in {"PREFLIGHT", "REVIEW", "APPROVED"}
                   => task.result = change.revision)

(* The task and the Change that every controller finds for it form a pair  *)
(* the lifecycle table allows, or one that the lease, a wake or            *)
(* reconciliation resolves.  A second Change breaks that: (in_review,      *)
(* DRAFT) is neither, which is why it is one of the slips.                 *)
Recoverable ==
  \/ Found = "none"
  \/ Pair(task.status, Found)
  \/ task.status \in Held
  \/ task.status \in {"in_review", "ready"} /\ Found = "REPAIR"
  \/ task.status = "in_review" /\ Found = "APPROVED"
PairIsKnown == slips = {} /\ used.moves = 0 => Recoverable

(* An escalated task has its escalation on record.                         *)
EscalationIsRecorded ==
  slips = {} /\ used.moves = 0 =>
    (task.status = "failed" /\ change.state = "REPAIR" /\ Quiet
       => escalated \/ change.revision <= MaxRepairRounds)

(* An approved task leaves in_review: by the event, by the restart's scan, *)
(* or when the host is activated again, unless a second Change hides the   *)
(* approval from all three, or people had the task worked on once more.    *)
ApprovedConverges ==
  (change.state = "APPROVED" /\ task.status = "in_review")
    ~> \/ task.status # "in_review" \/ change.again
       \/ "ungoverned_dispatch" \in slips

(* A repair found abandoned by a restart is taken up again once its lease  *)
(* is over.                                                                *)
RepairIsResumed ==
  ("scan" \in due /\ change.state = "REPAIR" /\ Abandoned)
    ~> (change.state # "REPAIR" \/ ~Abandoned)
=============================================================================
