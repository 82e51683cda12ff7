----------------------- MODULE ControllerHandoffProofs -----------------------
(***************************************************************************)
(* What the handoff promises for any number of controllers, tasks and      *)
(* restarts.  The inductive invariant is TypeOK with three parts:          *)
(* a startup under way is for a planned task; a dispatch that was made is  *)
(* either remembered as completed or still working, and nothing is under   *)
(* way for a completed task; and, until a slip, a startup that stands      *)
(* before the binding stands on a task its session owns.                   *)
(***************************************************************************)
EXTENDS ControllerHandoff, TLAPS

Claims == [owner : Owners, live : BOOLEAN, over : BOOLEAN]
Plans == [stage : {"idle", "claim", "confirm", "bind", "audit", "arm", "arming"},
          task : Task \union {None}]
Scans == [todo : SUBSET Planned, at : Planned \union {None}]
Ops == [stage : {"off", "read", "check", "refused", "release", "dispatch", "working"},
        session : Controller \union {None}, seen : Owners,
        target : Task \union {None}]

PlanOK == \A s \in Controller : plan[s] = NoPlan \/ plan[s].task \in Planned

MadeOK ==
  \A t \in Task : /\ made[t] <= 1
                  /\ made[t] = 1 => t \in completed \/ op[t].stage = "working"
                  /\ op[t].stage # "off" => t \notin completed

OwnerOK ==
  ~slipped => \A s \in Controller :
                plan[s].stage = "bind" => task[plan[s].task].owner = s

Inv == TypeOK /\ PlanOK /\ MadeOK /\ OwnerOK

(* A slip is never taken back. *)
LEMMA SlipIfKeeps == ASSUME NEW c \in BOOLEAN, NEW k, SlipIf(c, k), slipped \in BOOLEAN
                     PROVE  /\ slipped' \in BOOLEAN
                            /\ ~slipped' => ~slipped /\ ~c
BY DEF SlipIf, Slip

(* A claim that ends under a startup about to bind its planner slips. *)
LEMMA ClaimEndsKeeps ==
  ASSUME TypeOK, NEW t \in Task, ClaimEnds(t)
  PROVE  /\ slipped' \in BOOLEAN
         /\ ~slipped' => /\ ~slipped
                         /\ \A s \in Controller :
                              ~(task[t].owner = s /\ plan[s].stage = "bind" /\ plan[s].task = t)
<1>1. slipped \in BOOLEAN
  BY DEF TypeOK
<1> DEFINE c == task[t].owner \in Controller
                  /\ plan[task[t].owner] = [stage |-> "bind", task |-> t]
<1>2. c \in BOOLEAN /\ SlipIf(c, "planner_outlived")
  BY DEF ClaimEnds
<1>3. slipped' \in BOOLEAN /\ (~slipped' => ~slipped /\ ~c)
  BY <1>1, <1>2, SlipIfKeeps
<1>4. ASSUME NEW s \in Controller, task[t].owner = s, plan[s].stage = "bind", plan[s].task = t
      PROVE  c
  <2>1. plan[s] \in Plans
    BY DEF TypeOK, Plans
  <2>2. plan[s] = [stage |-> "bind", task |-> t]
    BY <1>4, <2>1 DEF Plans
  <2> QED BY <1>4, <2>2
<1> QED BY <1>3, <1>4

LEMMA ClaimsBackKeeps ==
  ASSUME TypeOK, NEW t \in Task, ClaimsBack(t)
  PROVE  /\ slipped' \in BOOLEAN
         /\ ~slipped' => /\ ~slipped
                         /\ \A s \in Controller :
                              ~(task[t].owner = s /\ plan[s].stage = "bind" /\ plan[s].task = t)
<1>1. CASE op[t].stage = "dispatch"
  BY <1>1 DEF ClaimsBack, Slip
<1>2. CASE op[t].stage # "dispatch" /\ Missed(t)
  BY <1>2 DEF ClaimsBack, Slip
<1>3. CASE op[t].stage # "dispatch" /\ ~Missed(t)
  BY <1>3, ClaimEndsKeeps DEF ClaimsBack
<1> QED BY <1>1, <1>2, <1>3

LEMMA InitInv == Init => Inv
<1> SUFFICES ASSUME Init PROVE Inv
  OBVIOUS
<1> USE HandoffAssumption DEF Init, Claims, Plans, Ops, Scans
<1>1. TypeOK
  <2>1. task \in [Task -> Claims]
    BY DEF Owners
  <2>2. op \in [Task -> Ops]
    BY DEF NoOp, Owners
  <2>3. plan \in [Controller -> Plans]
    BY DEF NoPlan
  <2>4. \A t \in Task : op[t].stage = "working" => op[t].target \in Task
    BY DEF NoOp
  <2>5. made \in [Task -> 0 .. 2]
    OBVIOUS
  <2>6. used \in 0 .. MaxEvents
    OBVIOUS
  <2>7. /\ eval \in [Task -> {"off", "begun", "checked", "ready", "rejected"}]
        /\ change \in [Task -> {"none", "planning", "READY", "begun"}]
    OBVIOUS
  <2>8. slipped \in BOOLEAN /\ planner = {} /\ armed = None /\ bridge = None
    OBVIOUS
  <2>9. subscribed \in BOOLEAN /\ scan \in [Controller -> Scans]
    BY DEF NoScan
  <2> QED BY <2>1, <2>2, <2>3, <2>4, <2>5, <2>6, <2>7, <2>8, <2>9 DEF TypeOK
<1>2. PlanOK /\ MadeOK /\ OwnerOK
  BY DEF PlanOK, MadeOK, OwnerOK, NoPlan, NoOp
<1> QED BY <1>1, <1>2 DEF Inv

-----------------------------------------------------------------------------
(* The parts of a state an action changes, one lemma per actor.            *)

LEMMA PlanningStep ==
  ASSUME Inv, NEW s \in Controller, Planning(s)
  PROVE  Inv'
<1> DEFINE t == plan[s].task
<1> USE HandoffAssumption DEF Inv, Claims, Plans, Ops, Scans
<1>0. /\ plan \in [Controller -> Plans]
      /\ task \in [Task -> Claims]
      /\ slipped \in BOOLEAN
  BY DEF TypeOK
<1>a. ASSUME plan[s].stage # "idle" PROVE t \in Planned /\ t \in Task
  BY <1>a DEF PlanOK, NoPlan
<1>b. ASSUME NEW g \in {"claim", "confirm", "bind", "audit", "arm", "arming"}, t \in Planned,
             Step(s, g) \/ Stop(s)
      PROVE  /\ plan' \in [Controller -> Plans]
             /\ PlanOK'
             /\ \A r \in Controller : r # s => plan'[r] = plan[r]
             /\ Stop(s) => plan'[s].stage = "idle"
             /\ Step(s, g) => plan'[s].stage = g /\ plan'[s].task = t
  <2>1. plan' \in [Controller -> Plans]
    BY <1>0, <1>b DEF Step, Stop, NoPlan
  <2>2. /\ \A r \in Controller : r # s => plan'[r] = plan[r]
        /\ Stop(s) => plan'[s] = NoPlan
        /\ Step(s, g) => plan'[s].stage = g /\ plan'[s].task = t
    BY <1>0, <1>b DEF Step, Stop
  <2> QED BY <2>1, <2>2, <1>b DEF PlanOK, NoPlan
<1>c. ASSUME UNCHANGED <<op, completed, made>> PROVE MadeOK'
  BY <1>c DEF MadeOK
<1>1. CASE ClaimTask(s)
  <2>1. t \in Planned /\ t \in Task
    BY <1>1, <1>a DEF ClaimTask
  <2>2. CASE Claimable(t) /\ Take(t, s) /\ Notify /\ Step(s, "confirm") /\ ClaimsBack(t)
    <3>1. task' \in [Task -> Claims]
      BY <1>0, <2>1, <2>2 DEF Take, Owners
    <3>2. /\ slipped' \in BOOLEAN
          /\ ~slipped' => /\ ~slipped
                          /\ \A r \in Controller :
                               ~(task[t].owner = r /\ plan[r].stage = "bind" /\ plan[r].task = t)
      BY <2>1, <2>2, ClaimsBackKeeps
    <3>3. hints' \subseteq Planned /\ wanted' \subseteq Task
      BY <2>2 DEF Notify, TypeOK
    <3>4. TypeOK'
      BY <1>1, <1>b, <2>1, <2>2, <3>1, <3>2, <3>3 DEF TypeOK, ClaimTask, arming
    <3>5. OwnerOK'
      <4> SUFFICES ASSUME ~slipped', NEW r \in Controller, plan'[r].stage = "bind"
                   PROVE  task'[plan'[r].task].owner = r
        BY DEF OwnerOK
      <4>1. r # s /\ plan'[r] = plan[r]
        BY <2>1, <2>2, <1>b
      <4>2. task[plan[r].task].owner = r /\ plan[r].task # t /\ plan[r].task \in Task
        BY <4>1, <3>2, <2>1 DEF OwnerOK, PlanOK, NoPlan
      <4> QED BY <4>1, <4>2, <2>1, <2>2, <1>0 DEF Take
    <3>6. MadeOK'
      BY <1>1, <1>c DEF ClaimTask
    <3> QED BY <1>b, <2>1, <2>2, <3>4, <3>5, <3>6
  <2>3. CASE Stop(s) /\ UNCHANGED <<task, hints, wanted, slipped>>
    <3>1. PlanOK' /\ \A r \in Controller : plan'[r] = plan[r] \/ plan'[r].stage = "idle"
      BY <2>1, <2>3, <1>b
    <3>2. TypeOK'
      BY <1>1, <1>b, <2>1, <2>3 DEF TypeOK, ClaimTask, arming
    <3>3. OwnerOK'
      BY <2>3, <3>1 DEF OwnerOK
    <3> QED BY <1>1, <1>c, <3>1, <3>2, <3>3 DEF ClaimTask
  <2> QED BY <1>1, <2>2, <2>3 DEF ClaimTask
<1>2. CASE Confirm(s)
  <2>1. t \in Planned
    BY <1>2, <1>a DEF Confirm
  <2>2. Step(s, "bind") \/ Stop(s)
    BY <1>2 DEF Confirm
  <2>3. TypeOK'
    BY <1>2, <1>b, <2>1, <2>2 DEF TypeOK, Confirm, durable, producer, arming, consumer
  <2>4. OwnerOK'
    <3> SUFFICES ASSUME ~slipped', NEW r \in Controller, plan'[r].stage = "bind"
                 PROVE  task'[plan'[r].task].owner = r
      BY DEF OwnerOK
    <3>1. UNCHANGED <<task, slipped>>
      BY <1>2 DEF Confirm, durable
    <3>2. CASE r # s
      BY <3>1, <3>2, <2>1, <2>2, <1>b DEF OwnerOK
    <3>3. CASE r = s
      <4>1. task[t].owner = s /\ Step(s, "bind")
        BY <1>2, <3>3, <2>1, <2>2, <1>b DEF Confirm
      <4> QED BY <3>1, <3>3, <4>1, <2>1, <2>2, <1>b
    <3> QED BY <3>2, <3>3
  <2>5. MadeOK'
    BY <1>2, <1>c DEF Confirm, consumer
  <2> QED BY <1>b, <2>1, <2>2, <2>3, <2>4, <2>5
<1>3. CASE BindPlanner(s) \/ AuditPlanning(s) \/ Arm(s) \/ Subscribe(s)
  <2>1. t \in Planned /\ t \in Task
    BY <1>3, <1>a DEF BindPlanner, AuditPlanning, Arm, Subscribe
  <2>2. PICK g \in {"audit", "arm", "arming"} : Step(s, g) \/ Stop(s)
    BY <1>3 DEF BindPlanner, AuditPlanning, Arm, Subscribe
  <2>3. /\ UNCHANGED <<task, slipped, op, completed, made>>
        /\ planner' \subseteq Task \X Controller
        /\ armed' \in Controller \union {None}
        /\ subscribed' \in BOOLEAN /\ scan' \in [Controller -> Scans]
        /\ UNCHANGED <<change, emitted, eval, hints, bridge, wanted, used>>
    <3>1. CASE BindPlanner(s)
      BY <2>1, <3>1 DEF BindPlanner, producer, arming, consumer, TypeOK
    <3>4. CASE AuditPlanning(s)
      BY <3>4 DEF AuditPlanning, durable, producer, arming, consumer, TypeOK
    <3>5. CASE Subscribe(s)
      BY <3>5 DEF Subscribe, durable, consumer, TypeOK
    <3>2. CASE Arm(s)
      <4>1. scan' = [scan EXCEPT ![s].todo = Planned] /\ scan \in [Controller -> Scans]
        BY <3>2 DEF Arm, TypeOK
      <4>2. scan' \in [Controller -> Scans]
        <5>1. [scan[s] EXCEPT !.todo = Planned] \in Scans
          BY <4>1
        <5> HIDE DEF Scans
        <5> QED BY <4>1, <5>1
      <4> QED BY <3>2, <4>2 DEF Arm, durable, consumer, TypeOK
    <3> QED BY <1>3, <3>1, <3>2, <3>4, <3>5
  <2>4. TypeOK'
    BY <1>b, <2>1, <2>2, <2>3 DEF TypeOK
  <2>5. \A r \in Controller : plan'[r] = plan[r] \/ plan'[r].stage # "bind"
    BY <1>b, <2>1, <2>2
  <2>6. OwnerOK' /\ MadeOK'
    BY <2>3, <2>5, <1>c DEF OwnerOK
  <2> QED BY <1>b, <2>1, <2>2, <2>4, <2>6
<1>4. CASE \E u \in Task : Scan(s, u)
  <2>1. PICK u \in Task : Scan(s, u)
    BY <1>4
  <2>2. UNCHANGED <<task, change, planner, plan, armed, subscribed, emitted, hints,
                    bridge, wanted, op, completed, made, used>>
    BY <2>1 DEF Scan, durable, consumer
  <2>3. /\ eval' \in [Task -> {"off", "begun", "checked", "ready", "rejected"}]
        /\ slipped' \in BOOLEAN /\ (~slipped' => ~slipped)
    BY <2>1 DEF Scan, Begin, SlipIf, Slip, TypeOK
  <2>4. scan' \in [Controller -> Scans]
    <3>1. u \in Planned /\ scan \in [Controller -> Scans]
      BY <2>1 DEF Scan, TypeOK
    <3> DEFINE a == IF eval[u] = "off" /\ u \in emitted THEN None ELSE u
    <3>2. scan' = [scan EXCEPT ![s].todo = @ \ {u}, ![s].at = a] /\ a \in Planned \union {None}
      BY <2>1, <3>1 DEF Scan
    <3> HIDE DEF a
    <3> QED BY <3>1, <3>2
  <2>5. TypeOK'
    BY <2>2, <2>3, <2>4 DEF TypeOK
  <2>6. PlanOK' /\ OwnerOK'
    BY <2>2, <2>3 DEF PlanOK, OwnerOK
  <2> QED BY <1>c, <2>2, <2>5, <2>6
<1> QED BY <1>1, <1>2, <1>3, <1>4 DEF Planning

LEMMA StartStep ==
  ASSUME Inv, NEW s \in Controller, NEW t \in Task, StartPlanning(s, t)
  PROVE  Inv'
<1> USE HandoffAssumption DEF Inv, StartPlanning, durable, producer, arming, consumer
<1>1. TypeOK'
  BY DEF TypeOK
<1>2. \A r \in Controller : /\ r # s => plan'[r] = plan[r]
                            /\ r = s => plan'[r].stage # "bind" /\ plan'[r].task = t
  BY DEF TypeOK
<1>3. PlanOK' /\ MadeOK' /\ OwnerOK'
  BY <1>2 DEF PlanOK, MadeOK, OwnerOK
<1> QED BY <1>1, <1>3

LEMMA ProducingStep ==
  ASSUME Inv, NEW t \in Task, Producing(t) \/ MoveChange(t)
  PROVE  Inv'
<1> USE HandoffAssumption DEF Inv, Claims, Plans, Ops, Scans
<1>0. slipped \in BOOLEAN
  BY DEF TypeOK
<1>1. /\ UNCHANGED <<task, planner, plan, armed, subscribed, op, completed, made, used>>
      /\ slipped' \in BOOLEAN /\ (~slipped' => ~slipped)
  <2>1. CASE Wake(t)
    BY <1>0, <2>1 DEF Wake, Begin, durable, arming, consumer, SlipIf, Slip
  <2>2. CASE CheckTask(t) \/ ReadStatus(t) \/ Unresolved(t)
    BY <1>0, <2>2 DEF CheckTask, ReadStatus, Unresolved, Evaluate, Slip, durable, arming, consumer
  <2>3. CASE Reject(t) \/ Emit(t)
    BY <1>0, <2>3 DEF Reject, Emit, durable, consumer
  <2>4. CASE MoveChange(t)
    <3>1. slipped' \in BOOLEAN /\ (~slipped' => ~slipped)
      <4>1. UNCHANGED slipped \/ SlipIf(Missed(t), "unsubscribed")
        BY <2>4 DEF MoveChange
      <4> QED BY <1>0, <4>1 DEF SlipIf, Slip
    <3>2. UNCHANGED <<task, planner, plan, armed, arming, consumer, used>>
      BY <2>4 DEF MoveChange
    <3> QED BY <3>1, <3>2 DEF arming, consumer
  <2> QED BY <2>1, <2>2, <2>3, <2>4 DEF Producing
<1>s. ASSUME Settle(t)
      PROVE  /\ eval' \in [Task -> {"off", "begun", "checked", "ready", "rejected"}]
             /\ scan' \in [Controller -> Scans]
  <2>1. eval' = [eval EXCEPT ![t] = "off"]
    BY <1>s DEF Settle
  <2>2. ASSUME NEW s \in Controller
        PROVE  scan[s] \in Scans /\ [scan[s] EXCEPT !.at = None] \in Scans
    <3>1. scan[s] \in Scans
      BY DEF TypeOK
    <3> QED BY <3>1
  <2>3. scan' = [s \in Controller |-> IF scan[s].at = t THEN [scan[s] EXCEPT !.at = None]
                                                        ELSE scan[s]]
    BY <1>s DEF Settle
  <2> HIDE DEF Scans
  <2>4. scan' \in [Controller -> Scans]
    BY <2>2, <2>3
  <2> QED BY <2>1, <2>4 DEF TypeOK
<1>2. TypeOK'
  <2>1. CASE Wake(t)
    BY <1>1, <2>1 DEF Wake, Begin, durable, arming, consumer, TypeOK
  <2>2. CASE CheckTask(t) \/ ReadStatus(t) \/ Unresolved(t)
    BY <1>1, <2>2 DEF CheckTask, ReadStatus, Unresolved, Evaluate, durable, arming, consumer,
                      TypeOK
  <2>3. CASE Reject(t)
    BY <1>1, <1>s, <2>3 DEF Reject, durable, consumer, TypeOK
  <2>4. CASE Emit(t)
    BY <1>1, <1>s, <2>4 DEF Emit, durable, consumer, TypeOK
  <2>5. CASE MoveChange(t)
    BY <1>1, <2>5 DEF MoveChange, Hint, arming, consumer, TypeOK
  <2> QED BY <2>1, <2>2, <2>3, <2>4, <2>5 DEF Producing
<1>3. PlanOK' /\ MadeOK' /\ OwnerOK'
  BY <1>1 DEF PlanOK, MadeOK, OwnerOK
<1> QED BY <1>2, <1>3

LEMMA HandingStep ==
  ASSUME Inv, NEW t \in Task, Handing(t)
  PROVE  Inv'
<1> USE HandoffAssumption DEF Inv, Claims, Plans, Ops, Scans
<1>a. /\ op \in [Task -> Ops]
      /\ task \in [Task -> Claims]
      /\ made \in [Task -> 0 .. 2] /\ slipped \in BOOLEAN
  BY DEF TypeOK
<1>b. ASSUME op' \in [Task -> Ops],
             \A u \in Task \ {t} : op'[u] = op[u],
             op'[t].stage # "working",
             op[t].stage = "off" => op'[t].stage = "off" \/ t \notin completed,
             op[t].stage # "working",
             UNCHANGED <<completed, made>>
      PROVE  /\ MadeOK'
             /\ \A u \in Task : op'[u].stage = "working" => op'[u].target \in Task
  BY <1>b DEF MadeOK, TypeOK
<1>c. ASSUME UNCHANGED <<plan, task>>, slipped' \in BOOLEAN, ~slipped' => ~slipped
      PROVE  PlanOK' /\ OwnerOK'
  BY <1>c DEF PlanOK, OwnerOK
<1>1. CASE Reconcile(t)
  <2>1. op' \in [Task -> Ops]
    BY <1>1, <1>a DEF Reconcile, NoOp, Owners, TypeOK
  <2>2. slipped' \in BOOLEAN /\ (~slipped' => ~slipped)
    BY <1>1, <1>a DEF Reconcile, SlipIf, Slip
  <2>3. MadeOK' /\ \A u \in Task : op'[u].stage = "working" => op'[u].target \in Task
    BY <1>1, <1>a DEF Reconcile, NoOp, MadeOK, TypeOK
  <2>4. UNCHANGED <<task, change, planner, plan, armed, subscribed, scan, emitted, eval, hints, bridge,
                    completed, made, used>> /\ wanted' \subseteq Task
    BY <1>1 DEF Reconcile, durable, producer, arming, TypeOK
  <2> QED BY <1>c, <2>1, <2>2, <2>3, <2>4 DEF TypeOK
<1>2. CASE ReadTask(t) \/ CheckChange(t) \/ Refuse(t)
  <2>0. PICK n \in Ops : /\ op' = [op EXCEPT ![t] = n]
                         /\ n.stage # "working" /\ op[t].stage \notin {"off", "working"}
    <3>1. CASE ReadTask(t)
      <4> DEFINE n == IF task[t].over THEN NoOp
                      ELSE [op[t] EXCEPT !.stage = "check", !.seen = task[t].owner]
      <4>1. n \in Ops /\ n.stage # "working"
        <5>1. op[t] \in Ops /\ task[t].owner \in Owners
          BY <1>a
        <5>2. [op[t] EXCEPT !.stage = "check", !.seen = task[t].owner] \in Ops
          BY <5>1
        <5>3. NoOp \in Ops /\ NoOp.stage = "off"
          BY DEF NoOp, Owners
        <5>4. [op[t] EXCEPT !.stage = "check", !.seen = task[t].owner].stage = "check"
          BY <5>1
        <5> HIDE DEF Ops
        <5> QED BY <5>2, <5>3, <5>4
      <4>2. op' = [op EXCEPT ![t] = n] /\ op[t].stage = "read"
        BY <3>1 DEF ReadTask
      <4> HIDE DEF n
      <4> QED BY <4>1, <4>2
    <3>2. CASE CheckChange(t)
      <4> DEFINE n == IF change[t] \in {"none", "READY"}
                      THEN [op[t] EXCEPT !.stage = "release"] ELSE Refused
      <4>1. n \in Ops /\ n.stage # "working"
        BY <1>a DEF Refused, NoOp, Owners
      <4>2. op' = [op EXCEPT ![t] = n] /\ op[t].stage = "check"
        BY <3>2 DEF CheckChange
      <4> HIDE DEF n
      <4> QED BY <4>1, <4>2
    <3>3. CASE Refuse(t)
      BY <3>3, <1>a DEF Refuse, Refused, NoOp, Owners
    <3> QED BY <1>2, <3>1, <3>2, <3>3
  <2>1. op' \in [Task -> Ops]
    BY <2>0, <1>a
  <2>2. /\ \A u \in Task \ {t} : op'[u] = op[u]
        /\ op'[t].stage # "working" /\ op[t].stage \notin {"off", "working"}
    BY <2>0, <1>a
  <2>3. UNCHANGED <<task, change, planner, plan, armed, subscribed, scan, emitted, eval, hints, bridge,
                    wanted, completed, made, used, slipped>>
    BY <1>2 DEF ReadTask, CheckChange, Refuse, durable, producer, arming
  <2> QED BY <1>a, <1>b, <1>c, <2>1, <2>2, <2>3 DEF TypeOK
<1>3. CASE ReleaseClaim(t)
  <2>1. op' \in [Task -> Ops]
    BY <1>3, <1>a DEF ReleaseClaim, Refused, Dispatching, NoOp, Owners
  <2>2. /\ \A u \in Task \ {t} : op'[u] = op[u]
        /\ op'[t].stage # "working" /\ op[t].stage \notin {"off", "working"}
    BY <1>3, <1>a DEF ReleaseClaim, Refused, Dispatching, NoOp
  <2>3. UNCHANGED <<change, planner, plan, armed, subscribed, scan, emitted, eval, bridge, completed, made, used>>
    BY <1>3 DEF ReleaseClaim, arming
  <2>4. CASE Free(t) /\ ClaimEnds(t) /\ Notify
    <3>1. /\ task' \in [Task -> Claims]
          /\ \A u \in Task \ {t} : task'[u] = task[u]
      BY <1>a, <2>4 DEF Free, Owners
    <3>2. /\ slipped' \in BOOLEAN
          /\ ~slipped' => /\ ~slipped
                          /\ \A s \in Controller :
                               ~(task[t].owner = s /\ plan[s].stage = "bind" /\ plan[s].task = t)
      BY <2>4, ClaimEndsKeeps
    <3>3. hints' \subseteq Planned /\ wanted' \subseteq Task
      BY <2>4 DEF Notify, TypeOK
    <3>4. PlanOK' /\ OwnerOK'
      BY <2>3, <3>1, <3>2 DEF PlanOK, OwnerOK, NoPlan
    <3> QED BY <1>a, <1>b, <2>1, <2>2, <2>3, <3>1, <3>2, <3>3, <3>4 DEF TypeOK
  <2>5. CASE UNCHANGED <<task, hints, wanted, slipped>>
    BY <1>a, <1>b, <1>c, <2>1, <2>2, <2>3, <2>5 DEF TypeOK
  <2> QED BY <1>3, <2>4, <2>5 DEF ReleaseClaim
<1>4. CASE DispatchOnce(t)
  <2>1. /\ UNCHANGED <<planner, plan, armed, subscribed, scan, emitted, eval, bridge, completed, used>>
        /\ op[t].stage = "dispatch"
    BY <1>4 DEF DispatchOnce, arming
  <2>2. CASE \E u \in Task :
               /\ ~task[u].over /\ task[u].owner = None
               /\ change[u] \in {"none", "READY"}
               /\ Take(u, Worker) /\ Notify
               /\ change' = [change EXCEPT ![u] = IF @ = "none" THEN @ ELSE "begun"]
               /\ op' = [op EXCEPT ![t].stage = "working", ![t].target = u]
               /\ made' = [made EXCEPT ![t] = IF @ = 2 THEN 2 ELSE @ + 1]
               /\ SlipIf(u # t, "other_task")
    <3>1. PICK u \in Task :
               /\ ~task[u].over /\ task[u].owner = None
               /\ Take(u, Worker) /\ Notify
               /\ change' = [change EXCEPT ![u] = IF @ = "none" THEN @ ELSE "begun"]
               /\ op' = [op EXCEPT ![t].stage = "working", ![t].target = u]
               /\ made' = [made EXCEPT ![t] = IF @ = 2 THEN 2 ELSE @ + 1]
               /\ SlipIf(u # t, "other_task")
      BY <2>2
    <3>2. /\ op' \in [Task -> Ops]
          /\ \A w \in Task \ {t} : op'[w] = op[w]
          /\ op'[t].stage = "working" /\ op'[t].target = u
      <4>1. op' = [op EXCEPT ![t].stage = "working", ![t].target = u]
        BY <3>1
      <4> QED BY <1>a, <4>1
    <3>3. /\ task' \in [Task -> Claims]
          /\ \A w \in Task \ {u} : task'[w] = task[w]
      <4>1. Take(u, Worker)
        BY <3>1
      <4> QED BY <1>a, <4>1 DEF Take, Owners
    <3>4. slipped' \in BOOLEAN /\ (~slipped' => ~slipped)
      BY <1>a, <3>1 DEF SlipIf, Slip
    <3>5. /\ made' \in [Task -> 0 .. 2] /\ \A w \in Task \ {t} : made'[w] = made[w]
          /\ made[t] = 0 => made'[t] = 1
      BY <1>a, <3>1
    <3>6. made[t] = 0 /\ t \notin completed
      BY <1>a, <2>1 DEF MadeOK
    <3>7. MadeOK'
      BY <2>1, <3>2, <3>5, <3>6 DEF MadeOK
    <3>8. OwnerOK' /\ PlanOK'
      <4>1. \A s \in Controller : plan[s].stage = "bind" /\ ~slipped => plan[s].task # u
        BY <3>1 DEF OwnerOK
      <4> QED BY <2>1, <3>3, <3>4, <4>1 DEF OwnerOK, PlanOK, NoPlan
    <3>9. change' \in [Task -> {"none", "planning", "READY", "begun"}]
          /\ hints' \subseteq Planned /\ wanted' \subseteq Task
      BY <3>1 DEF Notify, TypeOK
    <3>10. \A w \in Task : op'[w].stage = "working" => op'[w].target \in Task
      BY <3>2 DEF TypeOK
    <3> QED BY <2>1, <3>2, <3>3, <3>4, <3>5, <3>7, <3>8, <3>9, <3>10 DEF TypeOK
  <2>3. CASE /\ op' = [op EXCEPT ![t] = Refused]
             /\ UNCHANGED <<task, change, made>>
             /\ Notify \/ UNCHANGED <<hints, wanted>>
             /\ slipped' \in BOOLEAN /\ (~slipped' => ~slipped)
    <3>1. /\ op' \in [Task -> Ops]
          /\ \A w \in Task \ {t} : op'[w] = op[w]
          /\ op'[t].stage = "refused"
      BY <1>a, <2>3 DEF Refused, NoOp, Owners
    <3>2. MadeOK' /\ \A u \in Task : op'[u].stage = "working" => op'[u].target \in Task
      BY <1>b, <2>1, <2>3, <3>1
    <3>3. hints' \subseteq Planned /\ wanted' \subseteq Task
      BY <2>3 DEF Notify, TypeOK
    <3> QED BY <1>c, <2>1, <2>3, <3>1, <3>2, <3>3 DEF TypeOK
  <2>4. \/ \E u \in Task :
             /\ ~task[u].over /\ task[u].owner = None
             /\ change[u] \in {"none", "READY"}
             /\ Take(u, Worker) /\ Notify
             /\ change' = [change EXCEPT ![u] = IF @ = "none" THEN @ ELSE "begun"]
             /\ op' = [op EXCEPT ![t].stage = "working", ![t].target = u]
             /\ made' = [made EXCEPT ![t] = IF @ = 2 THEN 2 ELSE @ + 1]
             /\ SlipIf(u # t, "other_task")
        \/ /\ op' = [op EXCEPT ![t] = Refused]
           /\ UNCHANGED <<task, change, made>>
           /\ Notify \/ UNCHANGED <<hints, wanted>>
           /\ slipped' \in BOOLEAN /\ (~slipped' => ~slipped)
    BY <1>4, <1>a DEF DispatchOnce, SlipIf, Slip
  <2> QED BY <2>2, <2>3, <2>4
<1> QED BY <1>1, <1>2, <1>3, <1>4 DEF Handing

LEMMA RestStep ==
  ASSUME Inv, NEW t \in Task, WorkerEnds(t) \/ LeaseEnds(t) \/ OtherHost(t)
  PROVE  Inv'
<1> USE HandoffAssumption DEF Inv, Claims, Plans, Ops, Scans
<1>a. /\ task \in [Task -> Claims] /\ op \in [Task -> Ops]
      /\ made \in [Task -> 0 .. 2] /\ slipped \in BOOLEAN
  BY DEF TypeOK
<1>b. ASSUME UNCHANGED <<op, completed, made>> PROVE MadeOK'
  BY <1>b DEF MadeOK
<1>c. ASSUME UNCHANGED <<plan, slipped>>, NEW u \in Task, Leave(u), task[u].owner = Worker
      PROVE  task' \in [Task -> Claims] /\ PlanOK' /\ OwnerOK'
  <2>1. task' \in [Task -> Claims] /\ \A w \in Task \ {u} : task'[w] = task[w]
    BY <1>a, <1>c DEF Leave, Free, Owners
  <2>2. \A s \in Controller : plan[s].stage = "bind" /\ ~slipped => plan[s].task # u
    BY <1>c DEF OwnerOK
  <2> QED BY <1>c, <2>1, <2>2 DEF PlanOK, OwnerOK, NoPlan
<1>1. CASE WorkerEnds(t)
  <2> DEFINE u == op[t].target
  <2>1. u \in Task /\ op[t].stage = "working"
    BY <1>1 DEF WorkerEnds, TypeOK
  <2>2. /\ UNCHANGED <<change, planner, plan, armed, subscribed, scan, emitted, eval, bridge, made, used, slipped>>
        /\ completed' = completed \union {t} /\ op' = [op EXCEPT ![t] = NoOp]
        /\ IF task[u].owner = Worker THEN Leave(u) ELSE UNCHANGED task
        /\ Notify
    BY <1>1 DEF WorkerEnds, arming
  <2>3. task' \in [Task -> Claims] /\ PlanOK' /\ OwnerOK'
    <3>1. CASE task[u].owner = Worker
      BY <1>c, <2>1, <2>2, <3>1
    <3>2. CASE task[u].owner # Worker
      BY <1>a, <2>2, <3>2 DEF PlanOK, OwnerOK
    <3> QED BY <3>1, <3>2
  <2>4. op' \in [Task -> Ops] /\ op'[t].stage = "off" /\ \A w \in Task \ {t} : op'[w] = op[w]
    BY <1>a, <2>2 DEF NoOp, Owners
  <2>5. MadeOK'
    BY <2>2, <2>4 DEF MadeOK
  <2>6. \A w \in Task : op'[w].stage = "working" => op'[w].target \in Task
    BY <2>4 DEF TypeOK
  <2>7. hints' \subseteq Planned /\ wanted' \subseteq Task
    BY <2>2 DEF Notify, TypeOK
  <2> QED BY <2>2, <2>3, <2>4, <2>5, <2>6, <2>7 DEF TypeOK
<1>2. CASE LeaseEnds(t)
  <2>1. /\ UNCHANGED <<change, planner, plan, used, slipped, armed, subscribed, scan, emitted, eval, hints>>
        /\ UNCHANGED <<bridge, wanted, op, completed, made>>
    BY <1>2 DEF LeaseEnds, producer, arming, consumer
  <2>2. task' \in [Task -> Claims] /\ \A w \in Task : task'[w].owner = task[w].owner
    BY <1>2, <1>a DEF LeaseEnds
  <2>3. TypeOK'
    BY <2>1, <2>2 DEF TypeOK
  <2>4. PlanOK' /\ OwnerOK'
    BY <2>1, <2>2 DEF PlanOK, OwnerOK, NoPlan
  <2> QED BY <1>b, <2>1, <2>3, <2>4
<1>3. CASE OtherHost(t)
  <2>1. /\ UNCHANGED <<planner, plan, used, armed, subscribed, scan, emitted, eval, hints>>
        /\ UNCHANGED <<bridge, wanted, op, completed, made>>
    BY <1>3 DEF OtherHost, producer, arming, consumer
  <2>2. CASE /\ Take(t, Worker) /\ ClaimEnds(t)
             /\ change' = [change EXCEPT ![t] = IF @ = "none" THEN @ ELSE "begun"]
    <3>1. task' \in [Task -> Claims] /\ \A w \in Task \ {t} : task'[w] = task[w]
      BY <1>a, <2>2 DEF Take, Owners
    <3>2. /\ slipped' \in BOOLEAN
          /\ ~slipped' => /\ ~slipped
                          /\ \A s \in Controller :
                               ~(task[t].owner = s /\ plan[s].stage = "bind" /\ plan[s].task = t)
      BY <2>2, ClaimEndsKeeps
    <3>3. TypeOK'
      BY <2>1, <2>2, <3>1, <3>2 DEF TypeOK
    <3>4. PlanOK' /\ OwnerOK'
      BY <2>1, <3>1, <3>2 DEF PlanOK, OwnerOK, NoPlan
    <3> QED BY <1>b, <2>1, <3>3, <3>4
  <2>3. CASE task[t].owner = Worker /\ Leave(t) /\ UNCHANGED <<change, slipped>>
    <3>1. task' \in [Task -> Claims] /\ PlanOK' /\ OwnerOK'
      BY <1>c, <2>1, <2>3
    <3>2. TypeOK'
      BY <2>1, <2>3, <3>1 DEF TypeOK
    <3> QED BY <1>b, <2>1, <3>1, <3>2
  <2> QED BY <1>3, <2>2, <2>3 DEF OtherHost
<1> QED BY <1>1, <1>2, <1>3

LEMMA RestartStep == ASSUME Inv, Restart PROVE Inv'
<1> USE HandoffAssumption DEF Inv, Claims, Plans, Ops, Scans, Restart, durable
<1>1. \A s \in Controller : plan'[s] = NoPlan
  OBVIOUS
<1>2. \A t \in Task : op'[t].stage = "off" /\ made'[t] = 0
  BY DEF NoOp
<1>3. op' \in [Task -> Ops] /\ plan' \in [Controller -> Plans]
  BY DEF NoOp, NoPlan, Owners
<1>6. subscribed' \in BOOLEAN /\ scan' \in [Controller -> Scans]
  BY DEF NoScan
<1>4. TypeOK'
  BY <1>2, <1>3, <1>6 DEF TypeOK
<1>5. PlanOK' /\ MadeOK' /\ OwnerOK'
  BY <1>1, <1>2 DEF PlanOK, MadeOK, OwnerOK, NoPlan
<1> QED BY <1>4, <1>5

LEMMA NextInv == Inv /\ [Next]_vars => Inv'
<1> SUFFICES ASSUME Inv, [Next]_vars PROVE Inv'
  OBVIOUS
<1>1. CASE \E s \in Controller : Planning(s) \/ \E t \in Task : StartPlanning(s, t)
  BY <1>1, PlanningStep, StartStep
<1>2. CASE \E t \in Task : \/ MoveChange(t) \/ Producing(t) \/ Handing(t)
                           \/ WorkerEnds(t) \/ LeaseEnds(t) \/ OtherHost(t)
  BY <1>2, ProducingStep, HandingStep, RestStep
<1>3. CASE Restart
  BY <1>3, RestartStep
<1>4. CASE UNCHANGED vars
  BY <1>4 DEF vars, durable, producer, arming, consumer, Inv, TypeOK, PlanOK, MadeOK, OwnerOK
<1> QED BY <1>1, <1>2, <1>3, <1>4 DEF Next

LEMMA InvAlways == Spec => []Inv
<1>1. Init => Inv
  BY InitInv
<1>2. Inv /\ [Next]_vars => Inv'
  BY NextInv
<1> QED BY <1>1, <1>2, PTL DEF Spec

-----------------------------------------------------------------------------
(* Every variable of the model keeps its type: no request, wake-up or      *)
(* dispatch is for a task that is not there.                               *)
THEOREM HandoffTypeOK == Spec => []TypeOK
<1>1. Inv => TypeOK
  BY DEF Inv
<1> QED BY <1>1, InvAlways, PTL

(* However many sessions plan, and however often a wake-up, a notification *)
(* or a request repeats, one host dispatches the handoff of a task once.   *)
THEOREM OneDispatch == Spec => []DispatchedOnce
<1>1. Inv => DispatchedOnce
  BY DEF Inv, MadeOK, DispatchedOnce
<1> QED BY <1>1, InvAlways, PTL

(* A planner is bound to a task its session owns at that moment, as long   *)
(* as no claim ended between the last read of the owner and the binding.   *)
THEOREM PlannerOwns == Spec => PlannerOwnsTask
<1>1. ASSUME Inv, [Next]_vars
      PROVE  [~slipped => \A b \in planner' \ planner : task[b[1]].owner = b[2]]_vars
  <2>1. CASE \E s \in Controller : BindPlanner(s)
    <3>1. PICK s \in Controller : BindPlanner(s)
      BY <2>1
    <3>2. planner' \subseteq planner \union {<<plan[s].task, s>>} /\ plan[s].stage = "bind"
      BY <3>1 DEF BindPlanner
    <3>3. ~slipped => task[plan[s].task].owner = s
      BY <1>1, <3>2 DEF Inv, OwnerOK
    <3>4. ASSUME NEW b \in planner' \ planner, ~slipped PROVE task[b[1]].owner = b[2]
      <4>1. b = <<plan[s].task, s>>
        BY <3>2, <3>4
      <4> QED BY <3>3, <3>4, <4>1
    <3> QED BY <3>4
  <2>2. CASE UNCHANGED planner
    BY <2>2
  <2>3. (\E s \in Controller : BindPlanner(s)) \/ UNCHANGED planner
    BY <1>1 DEF Next, vars, durable, Planning, ClaimTask, Confirm, AuditPlanning, Arm, Scan,
                Subscribe, StartPlanning,
                MoveChange, Producing, Wake, CheckTask, ReadStatus, Unresolved, Reject, Evaluate, Emit,
                Handing, Reconcile, ReadTask, CheckChange, Refuse, ReleaseClaim, DispatchOnce,
                WorkerEnds, LeaseEnds, OtherHost, Restart
  <2> QED BY <2>1, <2>2, <2>3
<1> QED BY <1>1, InvAlways, PTL DEF Spec, PlannerOwnsTask
=============================================================================
