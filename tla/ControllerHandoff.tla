-------------------------- MODULE ControllerHandoff --------------------------
(***************************************************************************)
(* From a controller session that plans a task to the worker that does it: *)
(* a controller claims a task and is bound as its planner, the handoff     *)
(* producer waits for an accepted plan and requests a handoff, the bridge  *)
(* of the same host releases the controller's claim and calls the governed *)
(* dispatcher.  Producer, bridge and handoff records live in the memory of *)
(* the host and are lost when it restarts; task, Change and audit stay.    *)
(*                                                                         *)
(* All tasks ask for the same worker profile.  Steps that the code cannot  *)
(* keep apart from others are named in `Slips`.                            *)
(***************************************************************************)
EXTENDS Naturals

CONSTANTS Controller,   \* authenticated controller sessions
          Task,
          Planned,      \* the tasks controllers plan: the others get no Change
          None,         \* nobody
          Worker,       \* the owner of a claim made by a dispatcher
          MaxEvents,    \* bound: planning startups and restarts of the host
          Windows       \* the slips an instance lets happen

Slips == {"planner_outlived", "claimed_back", "hint_lost", "unsubscribed",
          "unresolved", "other_task", "worker_refused"}

ASSUME HandoffAssumption ==
  /\ None \notin Controller \union {Worker} /\ Worker \notin Controller
  /\ Planned \subseteq Task /\ Windows \subseteq Slips
  /\ MaxEvents \in Nat

VARIABLES task,       \* owner of the claim, whether its lease runs, and
                      \* whether the task has left ready, claimed, running
          change,     \* each task's Change
          planner,    \* pairs <<task, session>> with a planner binding
          plan,       \* each session's startControllerOwnedPlanning
          armed,      \* the session the producer works for
          subscribed, \* it hears of writes, accepted plans and new links
          scan,       \* the candidates a call of arm still looks at, and
                      \* the one whose evaluation it awaits
          emitted,    \* the tasks it has requested a handoff for
          eval,       \* its evaluation of each task
          hints,      \* wake-ups it has not looked at yet
          bridge,     \* the session the bridge works for
          wanted,     \* the tasks it is still to reconcile
          op,         \* the handoff under way for each task
          completed,  \* the tasks whose handoff dispatched
          made,       \* dispatches for each task by handoffs of this host
          used,       \* startups and restarts so far
          slipped     \* one of them happened

durable == <<task, change, planner>>
arming == <<subscribed, scan>>
producer == <<armed, arming, emitted, eval, hints>>
consumer == <<bridge, wanted, op, completed, made>>
vars == <<durable, plan, producer, consumer, used, slipped>>

NoPlan == [stage |-> "idle", task |-> None]
NoScan == [todo |-> {}, at |-> None]
NoOp == [stage |-> "off", session |-> None, seen |-> None, target |-> None]
Refused == [NoOp EXCEPT !.stage = "refused"]
Dispatching == [NoOp EXCEPT !.stage = "dispatch"]
Owners == Controller \union {Worker, None}

TypeOK ==
  /\ task \in [Task -> [owner : Owners, live : BOOLEAN, over : BOOLEAN]]
  /\ change \in [Task -> {"none", "planning", "READY", "begun"}]
  /\ planner \subseteq Task \X Controller
  /\ plan \in [Controller -> [stage : {"idle", "claim", "confirm", "bind", "audit", "arm",
                                       "arming"},
                              task : Task \union {None}]]
  /\ armed \in Controller \union {None} /\ bridge \in Controller \union {None}
  /\ subscribed \in BOOLEAN
  /\ scan \in [Controller -> [todo : SUBSET Planned, at : Planned \union {None}]]
  /\ emitted \subseteq Task /\ hints \subseteq Planned /\ wanted \subseteq Task
  /\ eval \in [Task -> {"off", "begun", "checked", "ready", "rejected"}]
  /\ op \in [Task -> [stage : {"off", "read", "check", "refused", "release",
                               "dispatch", "working"},
                      session : Controller \union {None}, seen : Owners,
                      target : Task \union {None}]]
  /\ \A t \in Task : op[t].stage = "working" => op[t].target \in Task
  /\ completed \subseteq Task
  /\ made \in [Task -> 0 .. 2]
  /\ used \in 0 .. MaxEvents
  /\ slipped \in BOOLEAN

Init ==
  /\ task = [t \in Task |-> [owner |-> None, live |-> FALSE, over |-> FALSE]]
  /\ change = [t \in Task |-> "none"]
  /\ planner = {}
  /\ plan = [s \in Controller |-> NoPlan]
  /\ armed = None /\ emitted = {} /\ hints = {}
  /\ subscribed = FALSE /\ scan = [s \in Controller |-> NoScan]
  /\ eval = [t \in Task |-> "off"]
  /\ bridge = None /\ wanted = {}
  /\ op = [t \in Task |-> NoOp]
  /\ completed = {} /\ made = [t \in Task |-> 0]
  /\ used = 0 /\ slipped = FALSE

Slip(kind) == kind \in Windows /\ slipped' = TRUE
SlipIf(happens, kind) == IF happens THEN Slip(kind) ELSE UNCHANGED slipped

Claimable(t) == ~task[t].over /\ (task[t].owner = None \/ ~task[t].live)
Take(t, owner) == task' = [task EXCEPT ![t].owner = owner, ![t].live = TRUE]
Free(t) == task' = [task EXCEPT ![t].owner = None, ![t].live = FALSE]
Leave(t) == \/ task' = [task EXCEPT ![t].owner = None, ![t].live = FALSE, ![t].over = TRUE]
            \/ Free(t)

(* The claim ends while its owner stands between Confirm and BindPlanner.  *)
ClaimEnds(t) ==
  SlipIf(task[t].owner \in Controller
           /\ plan[task[t].owner] = [stage |-> "bind", task |-> t], "planner_outlived")

(* The producer is armed, has looked at t, and does not listen yet.        *)
Missed(t) == /\ armed # None /\ ~subscribed /\ t \notin emitted
             /\ eval[t] \in {"off", "rejected"}
             /\ \A s \in Controller : t \notin scan[s].todo

(* A controller claims the task between ReleaseClaim and DispatchOnce.     *)
ClaimsBack(t) ==
  IF op[t].stage = "dispatch" THEN Slip("claimed_back")
  ELSE IF Missed(t) THEN Slip("unsubscribed") ELSE ClaimEnds(t)

(* A write to the ledger by this host: the producer, once it has           *)
(* subscribed, and the bridge, once it is armed, look at every candidate;  *)
(* the producer asks nothing for a task without a Change, so its wake-ups  *)
(* of those are left out.                                                  *)
Notify ==
  /\ hints' = IF subscribed THEN Planned ELSE hints
  /\ wanted' = IF bridge = None THEN wanted ELSE Task

-----------------------------------------------------------------------------
(* startControllerOwnedPlanning of session s.                              *)

Step(s, stage) == plan' = [plan EXCEPT ![s].stage = stage]
Stop(s) == plan' = [plan EXCEPT ![s] = NoPlan]

(* The owner is read; somebody else's claim is a conflict.                 *)
StartPlanning(s, t) ==
  /\ plan[s] = NoPlan /\ t \in Planned /\ ~task[t].over
  /\ task[t].owner \in {None, s}
  /\ used < MaxEvents /\ used' = used + 1
  /\ plan' = [plan EXCEPT ![s] = [stage |-> IF task[t].owner = s THEN "confirm" ELSE "claim",
                                  task |-> t]]
  /\ UNCHANGED <<durable, producer, consumer, slipped>>

ClaimTask(s) ==
  LET t == plan[s].task IN
  /\ plan[s].stage = "claim"
  /\ \/ /\ Claimable(t) /\ Take(t, s) /\ Notify /\ Step(s, "confirm")
        /\ ClaimsBack(t)
     \/ /\ ~Claimable(t) /\ Stop(s) /\ UNCHANGED <<task, hints, wanted, slipped>>
  /\ UNCHANGED <<change, planner, armed, arming, emitted, eval,
                 bridge, op, completed, made, used>>

\* Slip: any owner will do.
ConfirmClaimed(s) ==
  /\ plan[s].stage = "confirm"
  /\ IF task[plan[s].task].owner # None THEN Step(s, "bind") ELSE Stop(s)
  /\ UNCHANGED <<durable, producer, consumer, used, slipped>>

(* The owner is read once more before anything is bound.                   *)
Confirm(s) ==
  /\ plan[s].stage = "confirm"
  /\ IF task[plan[s].task].owner = s THEN Step(s, "bind") ELSE Stop(s)
  /\ UNCHANGED <<durable, producer, consumer, used, slipped>>

(* startGovernedPlanning: without a Change, or when the lookup or the      *)
(* binding fails, it stops; a binding that exists is reused.               *)
BindPlanner(s) ==
  LET t == plan[s].task IN
  /\ plan[s].stage = "bind"
  /\ \/ /\ change[t] # "none" /\ Step(s, "audit")
        /\ planner' = planner \union {<<t, s>>}
     \/ Stop(s) /\ UNCHANGED planner
  /\ UNCHANGED <<task, change, producer, consumer, used, slipped>>

(* An audit that fails leaves the binding and makes the startup partial.   *)
AuditPlanning(s) ==
  /\ plan[s].stage = "audit"
  /\ Step(s, "arm") \/ Stop(s)
  /\ UNCHANGED <<durable, producer, consumer, used, slipped>>

(* A wake-up begins an evaluation or joins the one under way, whatever     *)
(* that one has read already.                                              *)
Begin(t) ==
  /\ eval' = IF eval[t] = "off" /\ t \notin emitted
             THEN [eval EXCEPT ![t] = "begun"] ELSE eval
  /\ SlipIf(eval[t] = "rejected", "hint_lost")

\* Slip: the producer is armed with whoever owns the task by now.
ArmAsOwner(s) ==
  /\ plan[s].stage = "arm" /\ Step(s, "arming")
  /\ armed' = task[plan[s].task].owner
  /\ scan' = [scan EXCEPT ![s].todo = Planned]
  /\ UNCHANGED <<durable, subscribed, emitted, eval, hints, consumer, used, slipped>>

(* A successful startup arms the producer, which looks at every candidate, *)
(* one after the other.                                                    *)
Arm(s) ==
  /\ plan[s].stage = "arm" /\ Step(s, "arming")
  /\ armed' = s
  /\ scan' = [scan EXCEPT ![s].todo = Planned]
  /\ UNCHANGED <<durable, subscribed, emitted, eval, hints, consumer, used, slipped>>

Scan(s, t) ==
  /\ plan[s].stage = "arming" /\ t \in scan[s].todo /\ scan[s].at = None
  /\ Begin(t)
  /\ scan' = [scan EXCEPT ![s].todo = @ \ {t},
                          ![s].at = IF eval[t] = "off" /\ t \in emitted THEN None ELSE t]
  /\ UNCHANGED <<durable, plan, armed, subscribed, emitted, hints, consumer, used>>

(* Only then does it subscribe; a later startup finds it subscribed.       *)
Subscribe(s) ==
  /\ plan[s].stage = "arming" /\ scan[s] = NoScan /\ Stop(s)
  /\ subscribed' = TRUE
  /\ UNCHANGED <<durable, armed, scan, emitted, eval, hints, consumer, used, slipped>>

-----------------------------------------------------------------------------
(* The Change: bootstrapped, its plan accepted, or a new revision begun.   *)
Hint == hints' = IF subscribed THEN Planned ELSE hints
MoveChange(t) ==
  /\ t \in Planned
  /\ \/ /\ change[t] = "none" /\ change' = [change EXCEPT ![t] = "planning"]
        /\ Hint /\ UNCHANGED slipped
     \/ /\ change[t] = "planning" /\ change' = [change EXCEPT ![t] = "READY"]
        /\ Hint /\ SlipIf(Missed(t), "unsubscribed")
     \/ /\ change[t] = "READY" /\ change' = [change EXCEPT ![t] = "planning"]
        /\ UNCHANGED <<hints, slipped>>
  /\ UNCHANGED <<task, planner, plan, armed, arming, emitted, eval, consumer, used>>

-----------------------------------------------------------------------------
(* The producer.                                                           *)

Wake(t) ==
  /\ t \in hints /\ armed # None
  /\ hints' = hints \ {t}
  /\ Begin(t)
  /\ UNCHANGED <<durable, plan, armed, arming, emitted, consumer, used>>

Evaluate(t, from, holds, yes, no) ==
  /\ eval[t] = from
  /\ eval' = [eval EXCEPT ![t] = IF holds THEN yes ELSE no]
  /\ UNCHANGED <<durable, plan, armed, arming, emitted, hints, consumer, used, slipped>>

(* A ready task without a claim, or one the armed session holds a running  *)
(* lease on.                                                               *)
Eligible(t) == /\ ~task[t].over
               /\ \/ task[t].owner = None
                  \/ task[t].owner = armed /\ task[t].live
CheckTask(t) == Evaluate(t, "begun", Eligible(t), "checked", "rejected")
ReadStatus(t) == Evaluate(t, "checked", change[t] = "READY", "ready", "rejected")

(* The worker profile does not resolve, or a read throws.                  *)
Unresolved(t) ==
  /\ eval[t] \in {"begun", "checked"} /\ Slip("unresolved")
  /\ eval' = [eval EXCEPT ![t] = "rejected"]
  /\ UNCHANGED <<durable, plan, armed, arming, emitted, hints, consumer, used>>

(* The evaluation settles, for the calls of arm that await it too.         *)
Settle(t) ==
  /\ eval' = [eval EXCEPT ![t] = "off"]
  /\ scan' = [s \in Controller |-> IF scan[s].at = t THEN [scan[s] EXCEPT !.at = None]
                                                   ELSE scan[s]]

Reject(t) ==
  /\ eval[t] = "rejected" /\ Settle(t)
  /\ UNCHANGED <<durable, plan, armed, subscribed, emitted, hints, consumer, used, slipped>>

\* Slip: the request is sent, and nobody reconciles it before a write.
EmitOnly(t) ==
  /\ eval[t] = "ready" /\ Settle(t)
  /\ emitted' = emitted \union {t}
  /\ bridge' = armed /\ wanted' = wanted
  /\ UNCHANGED <<durable, plan, armed, subscribed, hints, op, completed, made, used,
                 slipped>>

(* One request per task; it arms the bridge, which reconciles the task.    *)
Emit(t) ==
  /\ eval[t] = "ready" /\ Settle(t)
  /\ emitted' = emitted \union {t}
  /\ bridge' = armed /\ wanted' = wanted \union {t}
  /\ UNCHANGED <<durable, plan, armed, subscribed, hints, op, completed, made, used,
                 slipped>>

-----------------------------------------------------------------------------
(* The bridge and handoffGovernedDispatch.                                 *)

(* The handoff under way has failed, or is another session's.              *)
Deaf(t) == op[t].stage = "refused" \/ op[t].session \notin {None, bridge}

\* Slip: a completed handoff is not remembered.
ReconcileAgain(t) ==
  /\ t \in wanted /\ bridge # None
  /\ wanted' = wanted \ {t}
  /\ op' = IF op[t] = NoOp
           THEN [op EXCEPT ![t] = [NoOp EXCEPT !.stage = "read", !.session = bridge]]
           ELSE op
  /\ SlipIf(Deaf(t), "hint_lost")
  /\ UNCHANGED <<durable, plan, producer, bridge, completed, made, used>>

(* A completed handoff is replayed, one under way is joined.               *)
Reconcile(t) ==
  /\ t \in wanted /\ bridge # None
  /\ wanted' = wanted \ {t}
  /\ op' = IF op[t] = NoOp /\ t \notin completed
           THEN [op EXCEPT ![t] = [NoOp EXCEPT !.stage = "read", !.session = bridge]]
           ELSE op
  /\ SlipIf(Deaf(t), "hint_lost")
  /\ UNCHANGED <<durable, plan, producer, bridge, completed, made, used>>

ReadTask(t) ==
  /\ op[t].stage = "read"
  /\ op' = [op EXCEPT ![t] = IF task[t].over THEN NoOp
                             ELSE [@ EXCEPT !.stage = "check", !.seen = task[t].owner]]
  /\ UNCHANGED <<durable, plan, producer, bridge, wanted, completed, made, used, slipped>>

(* A linked Change has to be READY with an accepted plan.                  *)
CheckChange(t) ==
  /\ op[t].stage = "check"
  /\ op' = [op EXCEPT ![t] = IF change[t] \in {"none", "READY"}
                             THEN [@ EXCEPT !.stage = "release"] ELSE Refused]
  /\ UNCHANGED <<durable, plan, producer, bridge, wanted, completed, made, used, slipped>>

Refuse(t) ==
  /\ op[t] = Refused /\ op' = [op EXCEPT ![t] = NoOp]
  /\ UNCHANGED <<durable, plan, producer, bridge, wanted, completed, made, used, slipped>>

(* The session's own claim is released; a claim it did not have when the   *)
(* task was read, or has no more, ends the handoff.                        *)
ReleaseClaim(t) ==
  LET o == op[t] IN
  /\ o.stage = "release"
  /\ \/ /\ o.seen = o.session /\ task[t].owner = o.session /\ task[t].live
        /\ Free(t) /\ ClaimEnds(t) /\ Notify
        /\ op' = [op EXCEPT ![t] = Dispatching]
     \/ /\ o.seen = None /\ op' = [op EXCEPT ![t] = Dispatching]
        /\ UNCHANGED <<task, hints, wanted, slipped>>
     \/ /\ o.seen # None /\ (o.seen = o.session => ~(task[t].owner = o.session /\ task[t].live))
        /\ op' = [op EXCEPT ![t] = Refused]
        /\ UNCHANGED <<task, hints, wanted, slipped>>
  /\ UNCHANGED <<change, planner, plan, armed, arming, emitted, eval,
                 bridge, completed, made, used>>

(* dispatchOnce names a profile and no task: it takes the first ready task *)
(* of the profile, whose guard may refuse it.                              *)
DispatchOnce(t) ==
  /\ op[t].stage = "dispatch"
  /\ UNCHANGED <<planner, plan, armed, arming, emitted, eval, bridge, completed, used>>
  /\ \/ \E u \in Task :
          /\ ~task[u].over /\ task[u].owner = None
          /\ change[u] \in {"none", "READY"}
          /\ Take(u, Worker) /\ Notify
          /\ change' = [change EXCEPT ![u] = IF @ = "none" THEN @ ELSE "begun"]
          /\ op' = [op EXCEPT ![t].stage = "working", ![t].target = u]
          /\ made' = [made EXCEPT ![t] = IF @ = 2 THEN 2 ELSE @ + 1]
          /\ SlipIf(u # t, "other_task")
     \/ /\ \E u \in Task : /\ ~task[u].over /\ task[u].owner = None
                           /\ change[u] \notin {"none", "READY"}
                           /\ SlipIf(u # t, "other_task")
        /\ op' = [op EXCEPT ![t] = Refused] /\ Notify
        /\ UNCHANGED <<task, change, made>>
     \/ /\ \A u \in Task : task[u].over \/ task[u].owner # None
        /\ op' = [op EXCEPT ![t] = Refused]
        /\ UNCHANGED <<task, change, hints, wanted, made, slipped>>
     \/ /\ Slip("worker_refused")
        /\ op' = [op EXCEPT ![t] = Refused]
        /\ UNCHANGED <<task, change, hints, wanted, made>>

(* dispatchOnce returns when its worker is done; only now is the handoff   *)
(* recorded.  The task leaves the dispatcher's reach or is ready again.    *)
WorkerEnds(t) ==
  LET u == op[t].target IN
  /\ op[t].stage = "working"
  /\ IF task[u].owner = Worker THEN Leave(u) ELSE UNCHANGED task
  /\ Notify
  /\ completed' = completed \union {t}
  /\ op' = [op EXCEPT ![t] = NoOp]
  /\ UNCHANGED <<change, planner, plan, armed, arming, emitted, eval,
                 bridge, made, used, slipped>>

-----------------------------------------------------------------------------
(* The clock, other hosts and restarts.                                    *)

LeaseEnds(t) ==
  /\ task[t].owner \in Controller /\ task[t].live
  /\ task' = [task EXCEPT ![t].live = FALSE]
  /\ UNCHANGED <<change, planner, plan, producer, consumer, used, slipped>>

Targeted(t) == \E u \in Task : op[u].stage = "working" /\ op[u].target = t
OtherHost(t) ==
  /\ \/ /\ Claimable(t) /\ change[t] \in {"none", "READY"} /\ Take(t, Worker) /\ ClaimEnds(t)
        /\ change' = [change EXCEPT ![t] = IF @ = "none" THEN @ ELSE "begun"]
     \/ task[t].owner = Worker /\ ~Targeted(t) /\ Leave(t) /\ UNCHANGED <<change, slipped>>
  /\ UNCHANGED <<planner, plan, producer, consumer, used>>

Restart ==
  /\ used < MaxEvents /\ used' = used + 1
  /\ plan' = [s \in Controller |-> NoPlan]
  /\ armed' = None /\ emitted' = {} /\ hints' = {}
  /\ subscribed' = FALSE /\ scan' = [s \in Controller |-> NoScan]
  /\ eval' = [t \in Task |-> "off"]
  /\ bridge' = None /\ wanted' = {}
  /\ op' = [t \in Task |-> NoOp]
  /\ completed' = {} /\ made' = [t \in Task |-> 0]
  /\ UNCHANGED <<durable, slipped>>

Planning(s) == \/ ClaimTask(s) \/ Confirm(s) \/ BindPlanner(s)
               \/ AuditPlanning(s) \/ Arm(s) \/ Subscribe(s)
               \/ \E t \in Task : Scan(s, t)
Producing(t) == \/ Wake(t) \/ CheckTask(t) \/ ReadStatus(t) \/ Unresolved(t)
                \/ Reject(t) \/ Emit(t)
Handing(t) == \/ Reconcile(t) \/ ReadTask(t) \/ CheckChange(t) \/ Refuse(t)
              \/ ReleaseClaim(t) \/ DispatchOnce(t)

Next == \/ \E s \in Controller : Planning(s) \/ \E t \in Task : StartPlanning(s, t)
        \/ \E t \in Task : \/ MoveChange(t) \/ Producing(t) \/ Handing(t)
                           \/ WorkerEnds(t) \/ LeaseEnds(t) \/ OtherHost(t)
        \/ Restart

Spec == Init /\ [][Next]_vars

(* Promises that producer and bridge await settle.  Nothing makes a        *)
(* session plan, a plan be accepted, a worker end or a lease run out.      *)
Fairness ==
  /\ \A t \in Planned :
    /\ WF_vars(Wake(t)) /\ WF_vars(Reconcile(t))
    /\ WF_vars(CheckTask(t) \/ ReadStatus(t) \/ Reject(t) \/ Emit(t))
    /\ WF_vars(ReadTask(t) \/ CheckChange(t) \/ Refuse(t) \/ ReleaseClaim(t)
                 \/ DispatchOnce(t))
  /\ \A s \in Controller : WF_vars(Subscribe(s) \/ \E t \in Planned : Scan(s, t))
FairSpec == Spec /\ Fairness

-----------------------------------------------------------------------------
(* No session becomes the planner of a task it does not own at that moment *)
(* (service.js 1906: the second read "prevents planner binding without     *)
(* owner S"), unless its lease ran out in the last step before the binding.*)
PlannerOwnsTask ==
  [][~slipped => \A b \in planner' \ planner : task[b[1]].owner = b[2]]_vars

(* One handoff of a task is made while a host is up, however often its     *)
(* wake-ups, notifications and requests repeat and the task comes back.    *)
DispatchedOnce == \A t \in Task : made[t] <= 1

(* A task its controller holds with an accepted plan reaches a worker, or  *)
(* the claim, the plan or the session changed under it, or a slip happened.*)
Waiting(t) == /\ armed # None /\ task[t].owner = armed /\ task[t].live
              /\ change[t] = "READY" /\ t \notin emitted \union completed
Resolved(t) == \/ armed = None \/ task[t].owner \notin {armed, None} \/ task[t].over
               \/ task[t].owner = armed /\ ~task[t].live
               \/ change[t] # "READY" \/ slipped
HandoffServed == \A t \in Planned : Waiting(t) ~> Resolved(t)
=============================================================================
